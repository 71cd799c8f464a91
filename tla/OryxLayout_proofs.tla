-------------------------- MODULE OryxLayout_proofs --------------------------
(***************************************************************************)
(* Proofs about OryxLayout, for any documents whose layers are numbered    *)
(* apart, in a byte: a layout is converted as a whole or not at all, and   *)
(* what a key does, says and is coloured for agree.                        *)
(***************************************************************************)
EXTENDS OryxLayout, TLAPS

-----------------------------------------------------------------------------
(* Keys *)

\* The labels of the codes are told apart as far as behaviour and category go.
LEMMA CodeLabels ==
  ASSUME NEW c \in Codes
  PROVE  /\ qmkCodeToLabel[c] \in {"A", "1", "F1", "SHIFT", "LEFT", "MUTE", "SPACE", "trans",
                                   "---", "MO", "TG", "TO", "OSL", "TOGGLE_LAYER_COLOR"}
         /\ c # None
         /\ qmkCodeToLabel[c] \in LayerNames <=> c \in LayerNames
         /\ c = "KC_TRANSPARENT" => qmkCodeToLabel[c] = "trans"
         /\ c = "KC_NO" => qmkCodeToLabel[c] = "---"
BY DEF Codes, qmkCodeToLabel, LayerNames, None
LEMMA BlankLabel ==
  /\ \A l : l.name # Empty \/ l.layer # NoLayer => l # Blank
  /\ \A n \in {"A", "1", "F1", "SHIFT", "LEFT", "MUTE", "SPACE", "trans",
              "---", "MO", "TG", "TO", "OSL", "TOGGLE_LAYER_COLOR"} : n # Empty
<1>1. \A l : l.name # Empty \/ l.layer # NoLayer => l # Blank
  BY DEF Blank, Text
<1>2. \A n \in {"A", "1", "F1", "SHIFT", "LEFT", "MUTE", "SPACE", "trans",
              "---", "MO", "TG", "TO", "OSL", "TOGGLE_LAYER_COLOR"} : n # Empty
  BY Zenon DEF Empty
<1>3. QED
  BY <1>1, <1>2

\* Every key without a label of the user's and without a double tap is consistent.
LEMMA KeysAreConsistent ==
  ASSUME NEW key \in OryxKey, NEW pos, key.custom = None, key.doubleTap = None
  PROVE  Consistent(key, parseOryxKey(pos, key))
<1> DEFINE kb == parseOryxKey(pos, key)
           p  == PrimaryLabel(key)
           s  == SecondaryLabel(key)
<1>1. /\ kb.behavior = Behavior(key) /\ kb.primary = p /\ kb.secondary = s
      /\ kb.category = determineCategory(p, s) /\ kb.saysHold = (s # Blank)
  BY DEF parseOryxKey
<1>2. /\ key.tap \in Action /\ key.hold \in Action
      /\ key.tap = [code |-> key.tap.code, layer |-> key.tap.layer]
      /\ key.hold = [code |-> key.hold.code, layer |-> key.hold.layer]
  BY DEF OryxKey, Action
<1>3. /\ key.tap.code \in Codes \cup {None} /\ key.tap.layer \in Nat \cup {NoLayer}
      /\ key.hold.code \in Codes \cup {None} /\ key.hold.layer \in Nat \cup {NoLayer}
  BY <1>2 DEF Action
<1>4. /\ Holds(key) <=> key.hold.layer # NoLayer \/ key.hold.code # None
  BY <1>2, <1>3 DEF Holds, NoAction
<1>5. /\ ~Holds(key) => s = Blank
      /\ key.hold.layer # NoLayer =>
           /\ s # Blank /\ s.layer = key.hold.layer
           /\ s.name \in LayerNames <=> key.hold.code \in LayerNames \cup {None}
      /\ key.hold.layer = NoLayer /\ key.hold.code # None =>
           /\ s # Blank
           /\ s.name \in LayerNames <=> key.hold.code \in LayerNames
  <2>1. CASE key.hold.layer # NoLayer
    <3>1. s = Label(key.hold.code, "MO", key.hold.layer)
      BY <2>1 DEF SecondaryLabel
    <3>2. s.layer = key.hold.layer
          /\ s.name = IF key.hold.code = None THEN "MO" ELSE qmkCodeToLabel[key.hold.code]
      BY <3>1 DEF Label
    <3>3. s # Blank
      BY <2>1, <3>2, BlankLabel
    <3>4. s.name \in LayerNames <=> key.hold.code \in LayerNames \cup {None}
      BY <1>3, <3>2, CodeLabels DEF LayerNames
    <3>5. QED
      BY <1>4, <2>1, <3>2, <3>3, <3>4
  <2>2. CASE key.hold.layer = NoLayer /\ key.hold.code # None
    <3>1. s = Label(key.hold.code, Empty, NoLayer)
      BY <2>2 DEF SecondaryLabel
    <3>2. s.name = qmkCodeToLabel[key.hold.code]
      BY <2>2, <3>1 DEF Label
    <3>3. s.name # Empty
      BY <1>3, <2>2, <3>2, CodeLabels, BlankLabel
    <3>4. s # Blank
      BY <3>3, BlankLabel
    <3>5. s.name \in LayerNames <=> key.hold.code \in LayerNames
      BY <1>3, <2>2, <3>2, CodeLabels
    <3>6. QED
      BY <1>4, <2>2, <3>4, <3>5
  <2>3. CASE key.hold.layer = NoLayer /\ key.hold.code = None
    <3>1. s = Label(None, Empty, NoLayer)
      BY <2>3 DEF SecondaryLabel
    <3>2. s = Blank
      BY <3>1 DEF Label, Blank, Text
    <3>3. QED
      BY <1>4, <2>3, <3>2
  <2>4. QED
    BY <2>1, <2>2, <2>3
<1>6. /\ key.tap.layer # NoLayer =>
           /\ p # Blank
           /\ p.name \in LayerNames <=> key.tap.code \in LayerNames \cup {None}
      /\ key.tap.layer = NoLayer /\ key.tap.code # None =>
           /\ p # Blank
           /\ key.tap.code = "KC_TRANSPARENT" => p.name = "trans"
           /\ key.tap.code = "KC_NO" => p.name = "---"
      /\ key.tap.layer = NoLayer /\ key.tap.code = None /\ ~Holds(key) =>
           p # Blank /\ p.name = "---"
  <2>1. CASE key.tap.layer # NoLayer
    <3>1. p = Label(key.tap.code, "TO", key.tap.layer)
      BY <2>1 DEF PrimaryLabel
    <3>2. p.layer = key.tap.layer
          /\ p.name = IF key.tap.code = None THEN "TO" ELSE qmkCodeToLabel[key.tap.code]
      BY <3>1 DEF Label
    <3>3. p # Blank
      BY <2>1, <3>2, BlankLabel
    <3>4. p.name \in LayerNames <=> key.tap.code \in LayerNames \cup {None}
      BY <1>3, <3>2, CodeLabels DEF LayerNames
    <3>5. QED
      BY <2>1, <3>3, <3>4
  <2>2. CASE key.tap.layer = NoLayer /\ key.tap.code # None
    <3>1. p = Label(key.tap.code, Empty, NoLayer)
      BY <2>2 DEF PrimaryLabel
    <3>2. p.name = qmkCodeToLabel[key.tap.code]
      BY <2>2, <3>1 DEF Label
    <3>3. p.name # Empty
      BY <1>3, <2>2, <3>2, CodeLabels, BlankLabel
    <3>4. p # Blank
      BY <3>3, BlankLabel
    <3>5. QED
      BY <1>3, <2>2, <3>2, <3>4, CodeLabels
  <2>3. CASE key.tap.layer = NoLayer /\ key.tap.code = None
    <3>1. p = IF Holds(key) THEN Blank ELSE Text("---")
      BY <2>3 DEF PrimaryLabel
    <3>2. Text("---").name = "---"
      BY DEF Text
    <3>3. ~Holds(key) => p.name = "---" /\ p # Blank
      BY <3>1, <3>2, BlankLabel
    <3>4. QED
      BY <2>3, <3>3
  <2>4. QED
    BY <2>1, <2>2, <2>3
<1>7. /\ s # Blank => determineCategory(p, s) = IF s.name \in LayerNames THEN "layer" ELSE "mod"
      /\ s = Blank /\ p.name \in LayerNames => determineCategory(p, s) = "layer"
  <2>1. s # Blank /\ s.name \in LayerNames => determineCategory(p, s) = "layer"
    BY DEF determineCategory
  <2>2. s # Blank /\ s.name \notin LayerNames => determineCategory(p, s) = "mod"
    BY DEF determineCategory
  <2>3. ASSUME s = Blank, p.name \in LayerNames PROVE determineCategory(p, s) = "layer"
    <3>1. \A n \in {"SHIFT", "A", "1", "LEFT", "MUTE"} : p # Text(n)
      BY <2>3 DEF Text, LayerNames
    <3>2. p.name # "F1"
      BY <2>3 DEF LayerNames
    <3> HIDE DEF p, s
    <3>3. QED
      BY <2>3, <3>1, <3>2 DEF determineCategory
  <2>4. QED
    BY <2>1, <2>2, <2>3
<1>8. /\ Holds(key) => Behavior(key) = IF key.hold.layer # NoLayer THEN "mo" ELSE "mt"
      /\ ~Holds(key) /\ key.tap.layer # NoLayer => Behavior(key) = "to"
      /\ ~Holds(key) /\ key.tap.layer = NoLayer =>
           /\ Behavior(key) \in {"trans", "none", "kp"}
           /\ Behavior(key) = "trans" => key.tap.code = "KC_TRANSPARENT"
           /\ Behavior(key) = "none" => key.tap.code \in {"KC_NO", None}
  BY DEF Behavior
<1> HIDE DEF kb, p, s
<1> DEFINE switch == IF key.hold.layer # NoLayer THEN key.hold ELSE key.tap
<1>9. kb.behavior \in {"mo", "to"} /\ switch.code \in LayerNames \cup {None}
        => kb.category = "layer"
  <2>1. CASE key.hold.layer # NoLayer
    BY <1>1, <1>5, <1>7, <2>1
  <2>2. CASE key.hold.layer = NoLayer
    BY <1>1, <1>4, <1>5, <1>6, <1>7, <1>8, <2>2
  <2>3. QED
    BY <2>1, <2>2
<1>10. kb.behavior = "mt" /\ key.hold.code \notin LayerNames => kb.category = "mod"
  BY <1>1, <1>4, <1>5, <1>7, <1>8
<1>11. kb.behavior \in {"none", "trans"} =>
         kb.secondary = Blank /\ kb.primary.name \in {"---", "trans"}
  BY <1>1, <1>4, <1>5, <1>6, <1>8
<1>12. kb.primary # Blank \/ kb.secondary # Blank
  BY <1>1, <1>4, <1>5, <1>6
<1>13. kb.saysHold <=> Holds(key)
  BY <1>1, <1>4, <1>5
<1>14. QED
  BY <1>9, <1>10, <1>11, <1>12, <1>13 DEF Consistent, kb
-----------------------------------------------------------------------------
(* Layouts *)

\* The service numbers the layers of a layout apart, and a byte holds the numbers and
\* their count.
Numbered(d) ==
  /\ Len(d.layers) < Byte
  /\ \A i \in DOMAIN d.layers : d.layers[i].position < Byte
  /\ \A i, j \in DOMAIN d.layers : d.layers[i].position = d.layers[j].position => i = j

Failing(d) == ~d.structured \/ \E i \in DOMAIN d.layers : Throws(d.layers[i])

\* In keymap m the first n layers of document d are whole, and it has no other.
LayerInfo == [index : Nat, title : STRING, active : BOOLEAN]
Whole(d, m, n) ==
  /\ DOMAIN m = {"layerCount", "layers", "bindings"} /\ m.layerCount = Len(d.layers)
  /\ m.layers \in Seq(LayerInfo) /\ Len(m.layers) = n /\ n <= Len(d.layers)
  /\ \A i \in 1..n :
       /\ ~Throws(d.layers[i])
       /\ m.layers[i].index = d.layers[i].position
       /\ m.bindings[d.layers[i].position] = Bindings(d.layers[i])
  /\ DOMAIN m.bindings = {d.layers[i].position : i \in 1..n}

ConversionInv ==
  /\ doc \in Documents
  /\ state = "failed" => Failing(doc)
  /\ state \in {"layers", "done"} => doc.structured /\ Whole(doc, data, Len(data.layers))
  /\ state = "done" => Len(data.layers) = Len(doc.layers)

LEMMA Narrowed ==
  ASSUME NEW x \in Nat, x < Byte
  PROVE  x % Byte = x
BY ByteAssumption

LEMMA DocumentTypes ==
  ASSUME NEW d \in Documents
  PROVE  /\ d.layers \in Seq(OryxLayer) /\ DOMAIN d.layers = 1..Len(d.layers) /\ Len(d.layers) \in Nat
         /\ d.structured \in BOOLEAN
         /\ \A i \in DOMAIN d.layers :
              /\ d.layers[i] \in OryxLayer /\ d.layers[i].position \in Nat
              /\ d.layers[i].title \in STRING /\ d.layers[i].keys \in Seq(OryxKey)
<1>1. d \in Document
  BY DocumentsAssumption
<1>2. d.layers \in Seq(OryxLayer)
  BY <1>1 DEF Document
<1>3. d.structured \in BOOLEAN
  BY <1>1 DEF Document
<1>4. \A i \in DOMAIN d.layers : d.layers[i] \in OryxLayer
  BY <1>2
<1>5. \A x \in OryxLayer : x.position \in Nat /\ x.title \in STRING /\ x.keys \in Seq(OryxKey)
  BY DEF OryxLayer
<1>6. QED
  BY <1>2, <1>3, <1>4, <1>5

LEMMA BothReplaced ==
  ASSUME NEW m, DOMAIN m = {"layerCount", "layers", "bindings"}, NEW ls, NEW bs, NEW m2,
         m2 = [m EXCEPT !.layers = ls, !.bindings = bs]
  PROVE  /\ DOMAIN m2 = {"layerCount", "layers", "bindings"}
         /\ m2.layerCount = m.layerCount /\ m2.layers = ls /\ m2.bindings = bs
OBVIOUS

\* One more layer, under a number no other has, keeps a keymap whole.
LEMMA LayerParsed ==
  ASSUME NEW d \in Documents, Numbered(d), NEW m, NEW n \in Nat, Whole(d, m, n),
         NEW k, k = n + 1, k <= Len(d.layers), ~Throws(d.layers[k]),
         NEW item \in LayerInfo, item.index = d.layers[k].position,
         NEW m2,
         m2 = [m EXCEPT
           !.layers = Append(@, item),
           !.bindings = [p \in DOMAIN @ \cup {d.layers[k].position} |->
                           IF p = d.layers[k].position THEN Bindings(d.layers[k]) ELSE @[p]]]
  PROVE  Whole(d, m2, k)
<1> DEFINE pos == d.layers[k].position
           before == {d.layers[i].position : i \in 1..n}
           all == {d.layers[i].position : i \in 1..k}
<1>1. /\ d.layers \in Seq(OryxLayer) /\ DOMAIN d.layers = 1..Len(d.layers) /\ Len(d.layers) \in Nat
      /\ \A i \in 1..Len(d.layers) : d.layers[i].position \in Nat
      /\ k \in 1..Len(d.layers) /\ 1..k = 1..n \cup {k}
  BY DocumentTypes
<1>2. all = before \cup {pos}
  BY <1>1
<1>3. pos \notin before
  BY <1>1 DEF Numbered
<1> HIDE DEF pos, before, all
<1>4. PICK ls, bs :
        /\ ls = Append(m.layers, item)
        /\ bs = [p \in DOMAIN m.bindings \cup {pos} |->
                   IF p = pos THEN Bindings(d.layers[k]) ELSE m.bindings[p]]
        /\ m2 = [m EXCEPT !.layers = ls, !.bindings = bs]
  BY DEF pos
<1>5. DOMAIN m.bindings = before
  BY DEF Whole, before
<1>6. /\ m2.layers = Append(m.layers, item)
      /\ \A p \in all : m2.bindings[p] = IF p = pos THEN Bindings(d.layers[k]) ELSE m.bindings[p]
      /\ DOMAIN m2.bindings = all
      /\ DOMAIN m2 = {"layerCount", "layers", "bindings"} /\ m2.layerCount = Len(d.layers)
  <2>1. DOMAIN m = {"layerCount", "layers", "bindings"} /\ m.layerCount = Len(d.layers)
    BY DEF Whole
  <2>2. /\ DOMAIN m2 = {"layerCount", "layers", "bindings"}
        /\ m2.layerCount = m.layerCount /\ m2.layers = ls /\ m2.bindings = bs
    BY <1>4, <2>1, BothReplaced
  <2>3. \A p \in all : bs[p] = IF p = pos THEN Bindings(d.layers[k]) ELSE m.bindings[p]
    BY <1>2, <1>4, <1>5
  <2>4. DOMAIN bs = all
    BY <1>2, <1>4, <1>5
  <2>5. QED
    BY <1>4, <2>1, <2>2, <2>3, <2>4
<1>7. /\ m2.layers \in Seq(LayerInfo) /\ Len(m2.layers) = k /\ m2.layers[k] = item
      /\ \A i \in 1..n : m2.layers[i] = m.layers[i]
  BY <1>6 DEF Whole
<1>8. ASSUME NEW i \in 1..k
      PROVE  /\ ~Throws(d.layers[i])
             /\ m2.layers[i].index = d.layers[i].position
             /\ m2.bindings[d.layers[i].position] = Bindings(d.layers[i])
  <2>1. CASE i = k
    <3>1. d.layers[i].position = pos /\ pos \in all
      BY <1>2, <2>1 DEF pos
    <3>2. QED
      BY <1>6, <1>7, <2>1, <3>1
  <2>2. CASE i \in 1..n
    <3>1. d.layers[i].position \in before
      BY <2>2 DEF before
    <3>2. d.layers[i].position # pos /\ d.layers[i].position \in all
      BY <1>2, <1>3, <3>1
    <3>3. m2.bindings[d.layers[i].position] = m.bindings[d.layers[i].position]
      BY <1>6, <3>2
    <3>4. QED
      BY <1>7, <2>2, <3>3 DEF Whole
  <2>3. QED
    BY <1>1, <2>1, <2>2
<1>9. DOMAIN m2.bindings = {d.layers[i].position : i \in 1..k}
  BY <1>6 DEF all
<1>10. QED
  BY <1>1, <1>6, <1>7, <1>8, <1>9 DEF Whole

LEMMA ConversionStep ==
  ASSUME \A d \in Documents : Numbered(d), ConversionInv, [Next]_vars
  PROVE  ConversionInv'
<1>1. CASE UNCHANGED vars
  BY <1>1 DEF vars, ConversionInv
<1>2. CASE CheckStructure
  <2>1. CASE ~doc.structured
    BY <1>2, <2>1 DEF CheckStructure, ConversionInv, Failing
  <2>2. CASE doc.structured
    <3>1. doc' = doc /\ doc \in Documents /\ state' = "layers"
      BY <1>2, <2>2 DEF CheckStructure, ConversionInv
    <3>2. Len(doc.layers) % Byte = Len(doc.layers) /\ Len(doc.layers) \in Nat
      BY <3>1, DocumentTypes, Narrowed DEF Numbered
    <3>3. data' = [layerCount |-> Len(doc.layers), layers |-> <<>>, bindings |-> [p \in {} |-> <<>>]]
      BY <1>2, <3>2 DEF CheckStructure, NoData
    <3>4. Whole(doc, data', 0)
      BY <3>2, <3>3 DEF Whole
    <3>5. Len(data'.layers) = 0
      BY <3>3
    <3>6. QED
      BY <2>2, <3>1, <3>4, <3>5 DEF ConversionInv
  <2>3. QED
    BY <2>1, <2>2
<1>3. CASE ParseLayer
  <2>1. /\ doc' = doc /\ doc \in Documents /\ state = "layers" /\ doc.structured
        /\ Numbered(doc) /\ Whole(doc, data, Len(data.layers))
        /\ Len(data.layers) < Len(doc.layers)
    BY <1>3 DEF ParseLayer, ConversionInv
  <2>2. PICK n \in Nat : n = Len(data.layers)
    BY <2>1 DEF Whole
  <2>3. n + 1 \in DOMAIN doc.layers /\ Current = doc.layers[n + 1] /\ n + 1 <= Len(doc.layers)
    BY <2>1, <2>2, DocumentTypes DEF Current
  <2>4. CASE Throws(Current)
    BY <1>3, <2>1, <2>3, <2>4 DEF ParseLayer, ConversionInv, Failing
  <2>5. CASE ~Throws(Current)
    <3>1. /\ Current.position \in Nat /\ Current.title \in STRING
          /\ Current.position % Byte = Current.position
      BY <2>1, <2>3, DocumentTypes, Narrowed DEF Numbered
    <3> DEFINE item == [index |-> Current.position, title |-> Current.title,
                        active |-> Current.position = 0]
    <3>2. item \in LayerInfo /\ item.index = doc.layers[n + 1].position
      BY <2>3, <3>1 DEF LayerInfo
    <3>3. data' = [data EXCEPT
            !.layers = Append(@, item),
            !.bindings = [p \in DOMAIN @ \cup {Current.position} |->
                            IF p = Current.position THEN Bindings(Current) ELSE @[p]]]
      BY <1>3, <2>5, <3>1 DEF ParseLayer, WithLayer
    <3> HIDE DEF item
    <3>4. Whole(doc, data', n + 1)
      BY <2>1, <2>2, <2>3, <2>5, <3>2, <3>3, LayerParsed
    <3>5. Len(data'.layers) = n + 1 /\ state' = "layers"
      BY <1>3, <2>1, <2>5, <3>4 DEF ParseLayer, Whole
    <3>6. QED
      BY <2>1, <3>4, <3>5 DEF ConversionInv
  <2>6. QED
    BY <2>4, <2>5
<1>4. CASE Finish
  BY <1>4 DEF Finish, ConversionInv
<1>5. QED
  BY <1>1, <1>2, <1>3, <1>4 DEF Next

LEMMA ConversionAlways ==
  ASSUME \A d \in Documents : Numbered(d)
  PROVE  Spec => []ConversionInv
<1>1. Init => ConversionInv
  BY DEF Init, ConversionInv
<1>2. ConversionInv /\ [Next]_vars => ConversionInv'
  BY ConversionStep
<1>3. QED
  BY <1>1, <1>2, PTL DEF Spec

\* If the layers of every document are numbered apart, in a byte: a document without
\* errors is converted as a whole, each layer's keys under the layer's number, and any
\* other is given up (parseLayoutJson).
THEOREM ConvertedIsWholeAlways ==
  ASSUME \A d \in Documents : Numbered(d)
  PROVE  Spec => []ConvertedIsWhole
<1>1. ConversionInv => ConvertedIsWhole
  <2>1. SUFFICES ASSUME ConversionInv, state = "done"
                 PROVE  /\ \A i \in DOMAIN doc.layers : ~Throws(doc.layers[i])
                        /\ data.layerCount = Len(data.layers)
                        /\ Len(data.layers) = Len(doc.layers)
                        /\ \A i \in DOMAIN doc.layers :
                             /\ data.layers[i].index = doc.layers[i].position
                             /\ data.bindings[data.layers[i].index] = Bindings(doc.layers[i])
                        /\ DOMAIN data.bindings = {doc.layers[i].position : i \in DOMAIN doc.layers}
    BY DEF ConvertedIsWhole, ConversionInv, Failing
  <2>2. /\ Whole(doc, data, Len(doc.layers)) /\ Len(data.layers) = Len(doc.layers)
        /\ DOMAIN doc.layers = 1..Len(doc.layers)
    BY <2>1, DocumentTypes DEF ConversionInv
  <2>3. data.layerCount = Len(doc.layers)
    BY <2>2 DEF Whole
  <2>4. QED
    BY <2>2, <2>3 DEF Whole
<1>2. QED
  BY <1>1, ConversionAlways, PTL

\* On the same condition: what a key does, what it says and how it is coloured agree
\* in every keymap that is converted (parseOryxKey, determineCategory).
THEOREM KeyIsConsistentAlways ==
  ASSUME \A d \in Documents : Numbered(d)
  PROVE  Spec => []KeyIsConsistent
<1>1. ConversionInv => KeyIsConsistent
  <2>1. SUFFICES ASSUME ConversionInv, state = "done",
                        NEW p \in DOMAIN data.bindings, NEW i \in DOMAIN data.bindings[p],
                        Source(p, i).custom = None, Source(p, i).doubleTap = None
                 PROVE  Consistent(Source(p, i), data.bindings[p][i])
    BY DEF KeyIsConsistent
  <2>2. /\ Whole(doc, data, Len(doc.layers)) /\ doc \in Documents
        /\ DOMAIN doc.layers = 1..Len(doc.layers)
    BY <2>1, DocumentTypes DEF ConversionInv
  <2>3. PICK l \in DOMAIN doc.layers : doc.layers[l].position = p
    BY <2>1, <2>2 DEF Whole
  <2>4. \A j \in DOMAIN doc.layers : doc.layers[j].position = p => j = l
    BY <2>2, <2>3 DEF Numbered
  <2>5. Source(p, i) = doc.layers[l].keys[i]
    BY <2>3, <2>4 DEF Source
  <2>6. data.bindings[p] = Bindings(doc.layers[l])
    BY <2>2, <2>3 DEF Whole
  <2>7. /\ i \in DOMAIN doc.layers[l].keys
        /\ data.bindings[p][i] = parseOryxKey((i - 1) % Byte, doc.layers[l].keys[i])
    BY <2>1, <2>6 DEF Bindings
  <2>8. doc.layers[l].keys[i] \in OryxKey
    <3>1. doc.layers[l].keys \in Seq(OryxKey)
      BY <2>2, <2>3, DocumentTypes
    <3>2. QED
      BY <2>7, <3>1
  <2>9. QED
    BY <2>1, <2>5, <2>7, <2>8, KeysAreConsistent
<1>2. QED
  BY <1>1, ConversionAlways, PTL
=============================================================================
