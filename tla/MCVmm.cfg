SPECIFICATION Spec
CONSTANTS
  Pages = {3, 4, 5, 6, 7, 8, 9, 10, 11, 12, 13}
  Images = {"hello", "burn"}
  ImagePages = {2, 3}
  StackPages = {2, 3}
  MaxSpaces = 2
INVARIANTS NoFreePageReachable PagesNotShared NoKassert
CHECK_DEADLOCK FALSE
