----------------------------- MODULE OryxLayout -----------------------------
(***************************************************************************)
(* The conversion of a layout of the Oryx service to a keymap: one step    *)
(* for the document's structure, one for each layer, whose keys get their  *)
(* labels, behaviour and category from up to three actions. A field of the *)
(* wrong type throws, and the whole layout is given up.                    *)
(*                                                                         *)
(* A label is a name and, when it is a layer's, a layer number. Of the     *)
(* code table one code stands for each kind of key, and one for the codes  *)
(* that merely begin like a layer code.                                    *)
(***************************************************************************)
EXTENDS Integers, Sequences

CONSTANTS
  Documents,    \* the documents the service may send
  Byte          \* layer numbers are narrowed to a byte: 256 in the code

ASSUME ByteAssumption == Byte \in Nat \ {0}

VARIABLES
  doc,          \* the response
  data,         \* the keymap so far
  state         \* "start", "layers", "done" or "failed"

vars == <<doc, data, state>>

-----------------------------------------------------------------------------
(* Codes and labels *)

None == "none"
Empty == ""
NoLayer == -1

\* qmkCodeToLabel, one row of each kind; a code that has no row is its own label.
qmkCodeToLabel ==
  [KC_A |-> "A", KC_1 |-> "1", KC_F1 |-> "F1", KC_LSHIFT |-> "SHIFT", KC_LEFT |-> "LEFT",
   KC_AUDIO_MUTE |-> "MUTE", KC_SPACE |-> "SPACE", KC_TRANSPARENT |-> "trans",
   KC_NO |-> "---", MO |-> "MO", TG |-> "TG", TO |-> "TO", OSL |-> "OSL",
   TOGGLE_LAYER_COLOR |-> "TOGGLE_LAYER_COLOR"]

Codes == DOMAIN qmkCodeToLabel

\* The label of a code, or default without one, for a layer or for none.
Label(code, default, layer) ==
  [name |-> IF code = None THEN default ELSE qmkCodeToLabel[code], layer |-> layer]
Text(name) == [name |-> name, layer |-> NoLayer]
Blank == Text(Empty)

\* The labels that begin with MO, TG or TO.
LayerNames == {"MO", "TG", "TO", "TOGGLE_LAYER_COLOR"}

\* Mutant of determineCategory: the key's own label is looked at before the hold's.
CategoryOfLabelFirst(label, hold) ==
  CASE label.name \in LayerNames -> "layer"
    [] label.name = "A"          -> "alpha"
    [] hold # Blank              -> IF hold.name \in LayerNames THEN "layer" ELSE "mod"
    [] OTHER                     -> "misc"

\* By the label's beginning for layers and function keys, else by the whole label.
determineCategory(label, hold) ==
  CASE hold # Blank /\ hold.name \in LayerNames -> "layer"
    [] hold # Blank /\ hold.name \notin LayerNames -> "mod"
    [] hold = Blank /\ label.name \in LayerNames -> "layer"
    [] hold = Blank /\ label = Text("SHIFT") -> "mod"
    [] hold = Blank /\ label = Text("A") -> "alpha"
    [] hold = Blank /\ label = Text("1") -> "number"
    [] hold = Blank /\ label.name = "F1" -> "fn"
    [] hold = Blank /\ label = Text("LEFT") -> "nav"
    [] hold = Blank /\ label = Text("MUTE") -> "media"
    [] OTHER -> "misc"

-----------------------------------------------------------------------------
(* Keys. An action has a code, a layer, both or neither. *)

Action == [code : Codes \cup {None}, layer : Nat \cup {NoLayer}]
OryxKey == [custom : STRING, tap : Action, hold : Action, doubleTap : Codes \cup {None},
            broken : BOOLEAN]

NoAction == [code |-> None, layer |-> NoLayer]
Holds(key) == key.hold # NoAction

PrimaryLabel(key) ==
  IF key.custom # None THEN Text(key.custom)
  ELSE IF key.tap.layer # NoLayer THEN Label(key.tap.code, "TO", key.tap.layer)
  ELSE IF key.tap.code # None THEN Label(key.tap.code, Empty, NoLayer)
  ELSE IF Holds(key) THEN Blank ELSE Text("---")

SecondaryLabel(key) ==
  IF key.hold.layer # NoLayer THEN Label(key.hold.code, "MO", key.hold.layer)
  ELSE IF key.hold.code # None THEN Label(key.hold.code, Empty, NoLayer)
  ELSE Label(key.doubleTap, Empty, NoLayer)

Behavior(key) ==
  IF Holds(key) THEN (IF key.hold.layer # NoLayer THEN "mo" ELSE "mt")
  ELSE IF key.tap.layer # NoLayer THEN "to"
  ELSE IF key.tap.code = "KC_TRANSPARENT" THEN "trans"
  ELSE IF key.tap.code \in {"KC_NO", None} THEN "none"
  ELSE "kp"

\* Only a label that is not empty is shown as what holding the key does.
parseOryxKey(pos, key) ==
  [pos |-> pos, behavior |-> Behavior(key),
   primary |-> PrimaryLabel(key), secondary |-> SecondaryLabel(key),
   category |-> determineCategory(PrimaryLabel(key), SecondaryLabel(key)),
   saysHold |-> SecondaryLabel(key) # Blank]

-----------------------------------------------------------------------------
(* Layouts *)

\* What the service sends, as far as the conversion looks at it.
OryxLayer == [position : Nat, title : STRING, keys : Seq(OryxKey)]
Document == [structured : BOOLEAN, layers : Seq(OryxLayer)]

ASSUME DocumentsAssumption == Documents \subseteq Document

NoData == [layerCount |-> 0, layers |-> <<>>, bindings |-> <<>>]

\* "layers" may be missing anywhere on the way to it.
CheckStructure ==
  /\ state = "start"
  /\ state' = IF doc.structured THEN "layers" ELSE "failed"
  /\ data' = [NoData EXCEPT !.layerCount = Len(doc.layers) % Byte,
                            !.bindings = [p \in {} |-> <<>>]]
  /\ doc' = doc

Current == doc.layers[Len(data.layers) + 1]

\* value() takes a default for a field that is absent, and throws for a null.
Throws(layer) ==
  layer.title = "null" \/ \E i \in DOMAIN layer.keys : layer.keys[i].broken

Bindings(layer) ==
  [i \in DOMAIN layer.keys |-> parseOryxKey((i - 1) % Byte, layer.keys[i])]

WithLayer(bindings) ==
  LET pos == Current.position % Byte IN
  data' = [data EXCEPT
    !.layers = Append(@, [index |-> pos, title |-> Current.title, active |-> pos = 0]),
    !.bindings = [p \in DOMAIN @ \cup {pos} |-> IF p = pos THEN bindings ELSE @[p]]]

\* Mutant of ParseLayer: the list goes on from the layer before.
ParseLayerGoesOn ==
  /\ state = "layers" /\ Len(data.layers) < Len(doc.layers)
  /\ IF Throws(Current) THEN state' = "failed" /\ data' = NoData
     ELSE /\ state' = state
          /\ WithLayer((IF data.layers = <<>> THEN <<>>
                        ELSE data.bindings[data.layers[Len(data.layers)].index])
                       \o Bindings(Current))
  /\ doc' = doc

ParseLayer ==
  /\ state = "layers" /\ Len(data.layers) < Len(doc.layers)
  /\ IF Throws(Current) THEN state' = "failed" /\ data' = NoData
     ELSE state' = state /\ WithLayer(Bindings(Current))
  /\ doc' = doc

Finish ==
  /\ state = "layers" /\ Len(data.layers) = Len(doc.layers)
  /\ state' = "done"
  /\ UNCHANGED <<doc, data>>

-----------------------------------------------------------------------------
Init ==
  /\ doc \in Documents
  /\ data = NoData
  /\ state = "start"

Next == CheckStructure \/ ParseLayer \/ Finish

Spec == Init /\ [][Next]_vars

-----------------------------------------------------------------------------
(* Properties *)

\* A layout without errors is converted, as a whole, and any other not at all: the
\* keymap has each layer of the document in its order, under its number the keys of
\* that layer and no other, in their order, and a count that agrees (parseLayoutJson).
ConvertedIsWhole ==
  /\ state = "failed" =>
       ~doc.structured \/ \E i \in DOMAIN doc.layers : Throws(doc.layers[i])
  /\ state = "done" =>
    /\ \A i \in DOMAIN doc.layers : ~Throws(doc.layers[i])
    /\ data.layerCount = Len(data.layers)
    /\ Len(data.layers) = Len(doc.layers)
    /\ \A i \in DOMAIN doc.layers :
         LET pos == data.layers[i].index IN
         /\ pos = doc.layers[i].position
         /\ data.bindings[pos] = Bindings(doc.layers[i])
    /\ DOMAIN data.bindings = {doc.layers[i].position : i \in DOMAIN doc.layers}

Source(p, i) ==
  LET l == CHOOSE l \in DOMAIN doc.layers : doc.layers[l].position = p
  IN doc.layers[l].keys[i]

Consistent(key, kb) ==
  LET switch == IF key.hold.layer # NoLayer THEN key.hold ELSE key.tap IN
  /\ kb.behavior \in {"mo", "to"} /\ switch.code \in LayerNames \cup {None}
       => kb.category = "layer"
  /\ kb.behavior = "mt" /\ key.hold.code \notin LayerNames => kb.category = "mod"
  /\ kb.behavior \in {"none", "trans"} =>
       kb.secondary = Blank /\ kb.primary.name \in {"---", "trans"}
  /\ kb.primary # Blank \/ kb.secondary # Blank
  /\ kb.saysHold <=> Holds(key)

\* What a key does, what it says and how it is coloured agree, though each is decided
\* by its own chain of conditions: a key that switches layers with one of MO, TG and TO
\* has the category "layer", one that is held for a code is a "mod", one that does
\* nothing shows nothing it could do, and the tooltip says "Hold" of the keys that do
\* something when held (determineCategory, parseOryxKey). Left aside are keys with a
\* label of the user's or a double tap, and the category of those whose code merely
\* begins with MO, TG or TO: the code takes it for a layer's.
KeyIsConsistent ==
  state = "done" =>
    \A p \in DOMAIN data.bindings : \A i \in DOMAIN data.bindings[p] :
      LET key == Source(p, i) IN
      key.custom = None /\ key.doubleTap = None => Consistent(key, data.bindings[p][i])
=============================================================================
