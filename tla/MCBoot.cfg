SPECIFICATION Spec
CONSTANTS
  NumIRQs = 6
  Devices <- MCDevices
  Firmwares <- MCFirmwares
  MAX_ISO = 2
  MAX_POLLS = 2
  NoTable = NoTable
  PT_BASE = 18
  PT_PAGES = 2
  SPARE = 2
  MaxChanges = 2
  KERNEL_PHYS_BASE = 2
  LOW_PAGES = 2
  PDE_PAGES = 2
  PD_PAGES = 8
  LOADER_PDS = 6
  IDENTITY_MIN = 8
  BITMAP_PAGE_BITS = 16
  HEAP_PAGES = 2
  TEST_PAGES = 1
  KLOG_RING_LINES = 5
INVARIANTS TimerAndKeyboardDeliver AllAcknowledged RightHandler S5TypesWritten SleepsInAcpiMode
INVARIANTS HandoverIsCurrent OneChangeIsSurvived KernelMemoryKept LogKeepsRecent
PROPERTIES ShutdownEnds
CHECK_DEADLOCK FALSE
