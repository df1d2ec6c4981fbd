SPECIFICATION ShellSpec
CONSTANTS
  MAX_TASKS = 3
  TICKS_PER_SLICE = 1
  Pids = {1}
  AddressSpaces = {as}
  kernel_address_space = kas
  NULL = null
  KB_BUF_SIZE = 3
  Keys <- MCKeys
  ExtKeys <- MCExtKeys
  scancode_map <- MCMap
  scancode_map_shift <- MCMapShift
  INPUT_MAX = 3
  HISTORY_MAX = 2
  CommandOf <- MCCommandOf
  Users <- MCUsers
VIEW View
INVARIANTS ShiftTracksKeys ClockNotTorn EchoMatches CursorOnScreen
PROPERTIES QueueSpec RecallIsExact
