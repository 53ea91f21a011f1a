------------------------------ MODULE SizeClass ------------------------------
(***************************************************************************)
(* The size arithmetic of MemoryPool: which of its allocators serves a     *)
(* request.  Allocator i hands out blocks of 2^(Mem_Block_Base + i) bytes. *)
(***************************************************************************)
EXTENDS Integers

CONSTANTS Mem_Block_Base,     \* 4: the smallest blocks have 16 bytes
          Allocator_Idx_Max   \* 19: the largest have 4 megabytes

ASSUME ClassesAssumption ==
  Mem_Block_Base \in Nat /\ Allocator_Idx_Max \in Nat \ {0}

AllocatorIndices == 0 .. Allocator_Idx_Max - 1
Allocator_Idx_Invalid == -1

Mem_User_Byte_Size_Type == -1
Mem_Min_Byte_Size_Type == 2^Mem_Block_Base
Mem_Max_Byte_Size_Type == 2^(Mem_Block_Base + Allocator_Idx_Max - 1)

\* n & (n - 1) is 0 for 0 and the powers of two that an int holds.
ClearsLowestBit(n) == n = 0 \/ \E k \in 0 .. 30 : n = 2^k

\* while (n && (n >>= 1)) ++high;
HighBit[n \in Nat] == IF n > 1 THEN 1 + HighBit[n \div 2] ELSE 0

Units(nSize) == nSize \div Mem_Min_Byte_Size_Type   \* nSize >> Mem_Block_Base

\* Mutant: a size between two boundaries is rounded down.
UpSize2BoundaryDown(nSize) ==
  IF nSize < Mem_Min_Byte_Size_Type THEN Mem_Min_Byte_Size_Type
  ELSE IF nSize <= Mem_Max_Byte_Size_Type
  THEN IF ClearsLowestBit(nSize) THEN nSize
       ELSE 2^(Mem_Block_Base + HighBit[Units(nSize)])
  ELSE Mem_User_Byte_Size_Type

\* For nSize > 0, which the code asserts.
UpSize2Boundary(nSize) ==
  IF nSize < Mem_Min_Byte_Size_Type THEN Mem_Min_Byte_Size_Type
  ELSE IF nSize <= Mem_Max_Byte_Size_Type
  THEN IF ClearsLowestBit(nSize) THEN nSize
       ELSE 2^(Mem_Block_Base + HighBit[Units(nSize)] + 1)
  ELSE Mem_User_Byte_Size_Type

BlockBound2Slot(nBlockBound) ==
  IF 0 < nBlockBound /\ nBlockBound <= Mem_Max_Byte_Size_Type
  THEN HighBit[Units(nBlockBound)]
  ELSE Allocator_Idx_Invalid

Slot2BlockBound(nIdx) ==
  IF nIdx \in AllocatorIndices THEN 2^(nIdx + Mem_Block_Base)
  ELSE Mem_User_Byte_Size_Type

\* What Malloc does with a request: an allocator, the C heap, or its assert.
ByHeap(nSize) == UpSize2Boundary(nSize) <= 0
AllocatorOf(nSize) == BlockBound2Slot(UpSize2Boundary(nSize))
Asserts(nSize) == ~ByHeap(nSize) /\ AllocatorOf(nSize) <= 0
=============================================================================
