SPECIFICATION FairProcSpec
CONSTANTS
  MAX_TASKS = 4
  TICKS_PER_SLICE = 2
  Pids = {1, 2}
  AddressSpaces = {a1, a2}
  kernel_address_space = kas
  NULL = null
  MAX_PROCESSES = 2
  BOOT_SPAWNS = 2
  ShellSpawns = FALSE
  PageZeroEmpty = TRUE
PROPERTIES RunnableRuns DeadSpaceIsFreed WaitReturns
