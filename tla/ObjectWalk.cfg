SPECIFICATION ObjectSpec
CONSTANTS
  NONE = NONE
  Blocks = {b1, b2}
  Statics = {}
  Makers = {m1}
  InUse <- MCInUse
  LIST_FIND_OBJ_NR = 1
PROPERTIES NodeInList
CHECK_DEADLOCK FALSE
