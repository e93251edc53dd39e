SPECIFICATION Spec
CONSTANTS
  NPdpe = 2
  NPdp = 2
  NPte = 2
  PageSize = 4
  Physmem <- MCPhysmem
  Base = 2
  Limit = 27
  KernelStart = 21
  KernelEnd = 23
  PageNos = {10}
  MapPages = {10}
  MapAt = {0, 1, 2, 4}
  TouchAt = {0, 1}
  MapPerms <- MCMapPerms
  ReducePerms <- MCReducePerms
  MaxUnmap = 2
  HasNX = TRUE
  Nothing = Nothing
INVARIANT
  ParentsPermit
