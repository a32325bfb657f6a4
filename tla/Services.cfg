SPECIFICATION ServicesSpec
CONSTANTS
  NONE = NONE
  h1 = h1
  h2 = h2
  s1 = s1
  s2 = s2
  Blocks = {b1, b2}
  Statics = {sem}
  Makers = {m1, m2}
  InUse <- MCInUse
  LIST_FIND_OBJ_NR = 1
  Timers = {h1, h2, s1, s2}
  Soft = {s1, s2}
  Clients = {c1}
  Programs <- MCPrograms
  RT_TIMER_SKIP_LIST_LEVEL = 2
  RT_TIMER_SKIP_LIST_MASK = 1
  TickMod = 12
  Delays = {1, 2}
  MaxLate = 1
  Careful = TRUE
  Chars = {"a", " "}
  Blank = " "
  Quote = "quote"
  Escape = "backslash"
  Table <- MCTable
  FINSH_CMD_SIZE = 5
  FINSH_HISTORY_LINES = 1
  FINSH_ARG_MAX = 2
  CleanTab = TRUE
  SK_OS_MQ_DEPTH = 1
  Buttons = {"UP", "AUX"}
INVARIANTS ObjectsSound TimersSound BeliefsTrue ShownTrue
PROPERTIES ShowsAllThatStay TimersFire ShellSound EventsTrue StepsShown
CHECK_DEADLOCK FALSE
