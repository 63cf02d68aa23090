CONSTANTS
  MaxNodes = 5
  MaxAllocs = 4
  Sizes = {0, 1, 2, 3}
  Root = {r1, r2}
  NoNode = NoNode
  Unit = 2
  MaxUsed = 3
  MinAllocs = {0, 10}
  EagerSizes = {1, 5}
  Aligns = {2, 4}
SPECIFICATION MemorySpec
SYMMETRY Symmetry
INVARIANTS
  MemoryTypeOK
  ListWellFormed
  LifetimesDisjoint
  AllFreeComputes
  NoOverlap
  Conserved
  WholeWhenIdle
  GroupsApart
