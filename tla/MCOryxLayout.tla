---------------------------- MODULE MCOryxLayout ----------------------------
(* Instances of OryxLayout for TLC. *)
EXTENDS OryxLayout, TLC

CONSTANTS
  KeyCodes,     \* codes of the keys' actions
  MaxLayers

Actions == [code : KeyCodes \cup {None}, layer : {NoLayer, 1}]

Key(custom, tap, hold, doubleTap, broken) ==
  [custom |-> custom, tap |-> tap, hold |-> hold, doubleTap |-> doubleTap, broken |-> broken]

EveryKey ==
  {Key(c, t, h, d, FALSE) : c \in {None, "NAV"}, t \in Actions, h \in Actions,
                            d \in {None, "KC_A"}}

\* One layer with one key of any kind.
KeyDocuments ==
  {[structured |-> TRUE,
    layers |-> <<[position |-> 0, title |-> "text", keys |-> <<k>>]>>] : k \in EveryKey}

Tap(code) == [code |-> code, layer |-> NoLayer]
FewKeys ==
  {Key(None, Tap("KC_A"), NoAction, None, FALSE), Key(None, Tap("KC_1"), NoAction, None, FALSE),
   Key(None, Tap("KC_A"), NoAction, None, TRUE)}

KeyLists == UNION {[1..n -> FewKeys] : n \in 0..2}

\* Layers in any order of distinct positions; fields may be absent, null or broken.
LayerLists ==
  UNION {{ls \in [1..n -> [position : 0..(MaxLayers - 1), title : {"text", "null"},
                           keys : KeyLists]] :
            \A i, j \in 1..n : ls[i].position = ls[j].position => i = j} : n \in 0..MaxLayers}

LayerDocuments == [structured : BOOLEAN, layers : LayerLists]

EveryDocument == KeyDocuments \cup LayerDocuments
=============================================================================
