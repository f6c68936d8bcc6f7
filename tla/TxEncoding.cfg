SPECIFICATION Spec
CONSTANTS
  OPTIONAL_TX_FIELDS_MAX_SIZE_BYTES = 128
  APPS_KV_SLICE_MAX_SIZE = 8
  APPS_KV_MAX_COUNT = 8
  NoteLength = {0, 1, 31, 32, 127, 128, 129}
  IntSize = {1, 9}
  ArgType = {"INTEGER", "NONE"}
INVARIANTS NeverFails CountIsRight KeysAscend
CHECK_DEADLOCK FALSE
