SPECIFICATION FairKbSpec
CONSTANTS
  MAX_TASKS = 2
  TICKS_PER_SLICE = 1
  Pids = {}
  AddressSpaces = {}
  kernel_address_space = kas
  NULL = null
  KB_BUF_SIZE = 3
  Keys <- MCLetter
  ExtKeys <- MCNone
  scancode_map <- MCMap
  scancode_map_shift <- MCMapShift
PROPERTIES InputIsRead
