SPECIFICATION Spec
CONSTANTS
  Mas = 6
  MemAlign = 2
  MaxAlloc = 60
  FreeW = 256
  SizeW = 1024
  Threads = {p1}
  Arenas <- MCArenas
  Sizes = {0, 5}
  Aligns = {1, 8}
  NoRequest = NoRequest
INVARIANT
  Connected
