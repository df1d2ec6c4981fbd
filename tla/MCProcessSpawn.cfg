SPECIFICATION ProcSpec
CONSTANTS
  MAX_TASKS = 4
  TICKS_PER_SLICE = 2
  Pids = {1, 2, 3}
  AddressSpaces = {a1, a2, a3}
  kernel_address_space = kas
  NULL = null
  MAX_PROCESSES = 2
  BOOT_SPAWNS = 1
  ShellSpawns = TRUE
  PageZeroEmpty = TRUE
INVARIANTS CurrentIsRunning Cr3IsCurrent AliveHasStack NoDangling NoLeak SecondDestroyIsIdle AliveIsListed PidsUnique
PROPERTIES NoResurrection LoadedIsSpared
