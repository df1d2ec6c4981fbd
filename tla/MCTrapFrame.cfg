SPECIFICATION TFSpec
CONSTANTS
  MAX_TASKS = 4
  TICKS_PER_SLICE = 2
  Pids = {1}
  AddressSpaces = {a1}
  kernel_address_space = kas
  NULL = null
INVARIANTS OwnFrame
