SPECIFICATION FairProcSpec
CONSTANTS
  MAX_TASKS = 3
  TICKS_PER_SLICE = 1
  Pids = {1}
  AddressSpaces = {a1}
  kernel_address_space = kas
  NULL = null
  MAX_PROCESSES = 1
  BOOT_SPAWNS = 0
  ShellSpawns = TRUE
  PageZeroEmpty = TRUE
PROPERTIES WaitReturns
