SPECIFICATION AllocatorsSpec
CONSTANTS
  total_pages = 6
  PAGES_PER_BYTE = 3
  MaxCount = 3
  MemoryMaps <- MCMaps
  Reserved <- MCReserved
  MaxDrift = 2
  Header = 2
  PAGE_SIZE = 8
  MemoryPages = 6
  Requests = {3, 8}
INVARIANTS NoDoubleAllocation BitmapIsExact FreeCountExact FirstFit
INVARIANTS SoundUntilTorn LargeEnough
PROPERTIES UsedBlocksStay
