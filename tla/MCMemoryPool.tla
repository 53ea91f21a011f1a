---------------------------- MODULE MCMemoryPool ----------------------------
(* The memory pool on a small instance, and its size arithmetic with the    *)
(* constants of the code.                                                   *)
EXTENDS MemoryPool, TLC

Symmetry == Permutations(Blocks)

Code == INSTANCE SizeClass WITH Mem_Block_Base <- 4, Allocator_Idx_Max <- 19

\* Every request up to 3000 bytes, and those next to a boundary.
Sizes == 1 .. 3000 \cup {2^k + d : k \in 12 .. 23, d \in -2 .. 2}

Boundaries == {Code!Slot2BlockBound(i) : i \in Code!AllocatorIndices}

\* A request gets the smallest block that has room for it, or goes to the C
\* heap when none has (MemoryPool.h 278-279); Free finds the allocator again
\* from the bound in the block.  Malloc takes a request of the smallest class
\* for an error, although the enumeration has an allocator for it, and no
\* other.
SizeIsClassed(nSize) ==
  LET fits == {b \in Boundaries : b >= nSize}
      bound == Code!UpSize2Boundary(nSize)
      slot == Code!BlockBound2Slot(bound)
  IN  /\ IF fits = {} THEN bound = Code!Mem_User_Byte_Size_Type /\ slot = Code!Allocator_Idx_Invalid
         ELSE /\ bound \in fits /\ \A b \in fits : bound <= b
              /\ slot \in Code!AllocatorIndices /\ Code!Slot2BlockBound(slot) = bound
      /\ Code!Asserts(nSize) <=> nSize <= 16

\* The classes depend on no state: they are looked at before the first request.
SizesAreClassed == Init => \A nSize \in Sizes : SizeIsClassed(nSize)
=============================================================================
