SPECIFICATION Spec
CONSTANTS
  Mas = 6
  MemAlign = 2
  MaxAlloc = 60
  FreeW = 256
  SizeW = 1024
  Threads = {p1, p2}
  Arenas <- MCArenas
  Sizes = {0, 5}
  Aligns = {1, 4}
  NoRequest = NoRequest
SYMMETRY Symmetry
INVARIANTS
  Tiled
  OnePieceAgain
  NothingForgotten
PROPERTY
  ImplementsAllocator
