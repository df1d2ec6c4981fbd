SPECIFICATION HeapSpec
CONSTANTS
  Header = 2
  PAGE_SIZE = 8
  MemoryPages = 6
  Requests = {1, 3, 8}
INVARIANTS PageBacked
