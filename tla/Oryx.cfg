SPECIFICATION Spec
CONSTANTS
  KeyCodes = {"KC_A", "KC_1", "KC_F1", "KC_LSHIFT", "KC_LEFT", "KC_AUDIO_MUTE", "KC_SPACE", "KC_TRANSPARENT", "KC_NO", "MO", "TG", "TO", "OSL", "TOGGLE_LAYER_COLOR"}
  MaxLayers = 2
  Byte = 3
  Documents <- EveryDocument
INVARIANTS
  KeyIsConsistent
  ConvertedIsWhole
CHECK_DEADLOCK FALSE
