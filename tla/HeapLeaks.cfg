SPECIFICATION HeapSpec
CONSTANTS
  HeapStart = 8
  HeapWords = 32
  Sizes = {1, 3, 6}
INVARIANTS
  FreedComesBack
