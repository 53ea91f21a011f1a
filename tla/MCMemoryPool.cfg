\* Blocks of 16, 32, 64 and 128 bytes; requests of the smallest class, of two
\* others and of no class.  Lists of up to three free blocks, and six blocks in
\* all, so that one list can be full while the other works.
CONSTANTS
  Mem_Block_Base = 4
  Allocator_Idx_Max = 4
  Blocks = {b1, b2, b3, b4, b5, b6}
  NULL = NULL
  Requests = {8, 20, 64, 129}
  MaxFreeSlots = 2
SPECIFICATION Spec
SYMMETRY Symmetry
INVARIANTS
  DoublyLinked
  ListIsComplete
  CountersMatch
  SizesAreClassed
