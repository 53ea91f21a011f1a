----------------------------- MODULE MemoryPool -----------------------------
(***************************************************************************)
(* MemoryPool and its MemTypeAllocators: a doubly linked list of free      *)
(* blocks for each size class, fed by Free at the front and emptied by     *)
(* Malloc at the back.  One critical section makes each of the two one     *)
(* step.  The links of a block live in the header in front of the memory   *)
(* the user gets.                                                          *)
(***************************************************************************)
EXTENDS SizeClass, FiniteSets

CONSTANTS Blocks,        \* the memory blocks the C heap can provide
          NULL,
          Requests,      \* the sizes that are asked for
          MaxFreeSlots   \* 20

ASSUME PoolAssumption ==
  /\ IsFiniteSet(Blocks) /\ NULL \notin Blocks
  /\ Requests \subseteq Nat \ {0}
  /\ \A nSize \in Requests :
       ByHeap(nSize) \/ AllocatorOf(nSize) \in AllocatorIndices
  /\ MaxFreeSlots \in Nat

\* The bound that AllocMemory writes into a block leads Free back to the same
\* allocator.
ASSUME RoundTripAssumption ==
  \A i \in AllocatorIndices :
    /\ Slot2BlockBound(i) \in Nat
    /\ BlockBound2Slot(Slot2BlockBound(i)) = i

VARIABLES
  owner,             \* who has a block: the C heap, the pool, or a user
  m_nBlockSizeType,  \* of a block: the size class it was made for
  m_pPreBlock, m_pNextBlock,        \* of a block: its links
  m_pBeginBlock, m_pEndBlock,       \* of an allocator: the ends of its list
  m_nFreeBlockNum, m_nTotalBlockNum \* of an allocator: its counters

links == <<m_pPreBlock, m_pNextBlock>>
ends == <<m_pBeginBlock, m_pEndBlock>>
vars == <<owner, m_nBlockSizeType, m_pPreBlock, m_pNextBlock, m_pBeginBlock,
          m_pEndBlock, m_nFreeBlockNum, m_nTotalBlockNum>>

Pointers == Blocks \cup {NULL}

Init ==
  /\ owner = [b \in Blocks |-> "heap"]
  /\ m_nBlockSizeType = [b \in Blocks |-> Mem_User_Byte_Size_Type]
  /\ m_pPreBlock = [b \in Blocks |-> NULL]
  /\ m_pNextBlock = [b \in Blocks |-> NULL]
  /\ m_pBeginBlock = [i \in AllocatorIndices |-> NULL]
  /\ m_pEndBlock = [i \in AllocatorIndices |-> NULL]
  /\ m_nFreeBlockNum = [i \in AllocatorIndices |-> 0]
  /\ m_nTotalBlockNum = [i \in AllocatorIndices |-> 0]

-----------------------------------------------------------------------------
\* malloc of the C library: some block that nobody has.
HeapGives(b) == owner[b] = "heap" /\ owner' = [owner EXCEPT ![b] = "user"]

\* Mutant: the new last block keeps its link to the block that was taken.
TakeLastUnlinked(i, last) ==
  LET pre == m_pPreBlock[last] IN
  /\ m_pEndBlock' = [m_pEndBlock EXCEPT ![i] = pre]
  /\ m_pNextBlock' = m_pNextBlock
  /\ m_pBeginBlock' =
       IF pre # NULL THEN m_pBeginBlock ELSE [m_pBeginBlock EXCEPT ![i] = NULL]
  /\ m_pPreBlock' = [m_pPreBlock EXCEPT ![last] = NULL]

\* The last block leaves the list.
TakeLast(i, last) ==
  LET pre == m_pPreBlock[last] IN
  /\ m_pEndBlock' = [m_pEndBlock EXCEPT ![i] = pre]
  /\ m_pNextBlock' =
       IF pre # NULL
       THEN [m_pNextBlock EXCEPT ![pre] = m_pNextBlock[last]]
       ELSE m_pNextBlock
  /\ m_pBeginBlock' =
       IF pre # NULL THEN m_pBeginBlock ELSE [m_pBeginBlock EXCEPT ![i] = NULL]
  /\ m_pPreBlock' = [m_pPreBlock EXCEPT ![last] = NULL]

AllocFromList(i, b) ==
  /\ b = m_pEndBlock[i]
  /\ TakeLast(i, b)
  /\ owner' = [owner EXCEPT ![b] = "user"]
  /\ m_nFreeBlockNum' = [m_nFreeBlockNum EXCEPT ![i] = @ - 1]
  /\ UNCHANGED <<m_nBlockSizeType, m_nTotalBlockNum>>

AllocFromHeap(i, b) ==
  /\ m_pEndBlock[i] = NULL
  /\ HeapGives(b)
  /\ m_nBlockSizeType' = [m_nBlockSizeType EXCEPT ![b] = Slot2BlockBound(i)]
  /\ m_pNextBlock' = [m_pNextBlock EXCEPT ![b] = NULL]
  /\ m_pPreBlock' = [m_pPreBlock EXCEPT ![b] = NULL]
  /\ m_nTotalBlockNum' = [m_nTotalBlockNum EXCEPT ![i] = @ + 1]
  /\ UNCHANGED <<ends, m_nFreeBlockNum>>

AllocMemory(i, b) == AllocFromList(i, b) \/ AllocFromHeap(i, b)

\* The links of a block that is not for the pool are not written; they are
\* not read either before AllocFromHeap has written them.
MallocByHeap(b) ==
  /\ HeapGives(b)
  /\ m_nBlockSizeType' =
       [m_nBlockSizeType EXCEPT ![b] = Mem_User_Byte_Size_Type]
  /\ UNCHANGED <<links, ends, m_nFreeBlockNum, m_nTotalBlockNum>>

\* A request of the smallest class ends in assert(0), or with a NULL in a
\* release build; it is no step of the pool.
Malloc(nSize) ==
  \E b \in Blocks :
    IF ByHeap(nSize) THEN MallocByHeap(b)
    ELSE ~Asserts(nSize) /\ AllocMemory(AllocatorOf(nSize), b)

-----------------------------------------------------------------------------
\* The number of free blocks beyond which FreeMemory gives a block back.
TooManyFree(i) == m_nFreeBlockNum[i] > MaxFreeSlots

\* free of the C library.
HeapTakes(b) == owner' = [owner EXCEPT ![b] = "heap"]

\* Mutant: the total is not decremented.
FreeToHeapUncounted(i, b) ==
  /\ TooManyFree(i)
  /\ HeapTakes(b)
  /\ UNCHANGED <<links, ends, m_nBlockSizeType, m_nFreeBlockNum,
                 m_nTotalBlockNum>>

FreeToHeap(i, b) ==
  /\ TooManyFree(i)
  /\ HeapTakes(b)
  /\ m_nTotalBlockNum' = [m_nTotalBlockNum EXCEPT ![i] = @ - 1]
  /\ UNCHANGED <<links, ends, m_nBlockSizeType, m_nFreeBlockNum>>

\* Mutant: the block is put in front without a link to the old first one.
FreeToListUnlinked(i, b) ==
  LET first == m_pBeginBlock[i] IN
  /\ ~TooManyFree(i)
  /\ owner' = [owner EXCEPT ![b] = "pool"]
  /\ m_pBeginBlock' = [m_pBeginBlock EXCEPT ![i] = b]
  /\ IF first = NULL
     THEN /\ m_pEndBlock' = [m_pEndBlock EXCEPT ![i] = b]
          /\ UNCHANGED links
     ELSE /\ m_pPreBlock' = [m_pPreBlock EXCEPT ![first] = b]
          /\ UNCHANGED <<m_pNextBlock, m_pEndBlock>>
  /\ m_nFreeBlockNum' = [m_nFreeBlockNum EXCEPT ![i] = @ + 1]
  /\ UNCHANGED <<m_nBlockSizeType, m_nTotalBlockNum>>

FreeToList(i, b) ==
  LET first == m_pBeginBlock[i] IN
  /\ ~TooManyFree(i)
  /\ owner' = [owner EXCEPT ![b] = "pool"]
  /\ m_pBeginBlock' = [m_pBeginBlock EXCEPT ![i] = b]
  /\ IF first = NULL
     THEN /\ m_pEndBlock' = [m_pEndBlock EXCEPT ![i] = b]
          /\ UNCHANGED links
     ELSE /\ m_pNextBlock' = [m_pNextBlock EXCEPT ![b] = first]
          /\ m_pPreBlock' = [m_pPreBlock EXCEPT ![first] = b]
          /\ UNCHANGED m_pEndBlock
  /\ m_nFreeBlockNum' = [m_nFreeBlockNum EXCEPT ![i] = @ + 1]
  /\ UNCHANGED <<m_nBlockSizeType, m_nTotalBlockNum>>

FreeMemory(i, b) == FreeToHeap(i, b) \/ FreeToList(i, b)

FreeByHeap(b) ==
  /\ HeapTakes(b)
  /\ UNCHANGED <<links, ends, m_nBlockSizeType, m_nFreeBlockNum,
                 m_nTotalBlockNum>>

\* A user frees a block it has, once.
Free(b) ==
  /\ owner[b] = "user"
  /\ LET i == BlockBound2Slot(m_nBlockSizeType[b]) IN
     IF i >= 0 THEN FreeMemory(i, b) ELSE FreeByHeap(b)

Next ==
  \/ \E nSize \in Requests : Malloc(nSize)
  \/ \E b \in Blocks : Free(b)

Spec == Init /\ [][Next]_vars

-----------------------------------------------------------------------------
TypeOK ==
  /\ owner \in [Blocks -> {"heap", "pool", "user"}]
  /\ m_nBlockSizeType \in [Blocks -> Int]
  /\ m_pPreBlock \in [Blocks -> Pointers]
  /\ m_pNextBlock \in [Blocks -> Pointers]
  /\ m_pBeginBlock \in [AllocatorIndices -> Pointers]
  /\ m_pEndBlock \in [AllocatorIndices -> Pointers]
  /\ m_nFreeBlockNum \in [AllocatorIndices -> Nat]
  /\ m_nTotalBlockNum \in [AllocatorIndices -> Nat]

FreeBlocks(i) ==
  {b \in Blocks : owner[b] = "pool"
                    /\ m_nBlockSizeType[b] = Slot2BlockBound(i)}
UserBlocks(i) ==
  {b \in Blocks : owner[b] = "user"
                    /\ m_nBlockSizeType[b] = Slot2BlockBound(i)}

\* The free blocks of an allocator are doubly linked between its two ends:
\* each is reached from its neighbours by the links that lead back, and only
\* the ends have no neighbour.  A block a user has is linked to none, which
\* FreeMemory relies on when it puts the block into an empty list.
Neighbours(i, b) ==
  LET pre == m_pPreBlock[b]
      next == m_pNextBlock[b]
  IN  /\ pre = NULL <=> b = m_pBeginBlock[i]
      /\ next = NULL <=> b = m_pEndBlock[i]
      /\ pre # NULL => pre \in FreeBlocks(i) /\ m_pNextBlock[pre] = b
      /\ next # NULL => next \in FreeBlocks(i) /\ m_pPreBlock[next] = b

Linked(i) ==
  /\ m_pBeginBlock[i] = NULL <=> m_pEndBlock[i] = NULL
  /\ {m_pBeginBlock[i], m_pEndBlock[i]} \subseteq FreeBlocks(i) \cup {NULL}
  /\ \A b \in FreeBlocks(i) : Neighbours(i, b)
  /\ \A b \in UserBlocks(i) : m_pPreBlock[b] = NULL /\ m_pNextBlock[b] = NULL

DoublyLinked == \A i \in AllocatorIndices : Linked(i)

\* Following m_pNextBlock from m_pBeginBlock one meets every free block of the
\* allocator once and no other, so that no block is lost and none is handed
\* out while a user has it.
Follow(i) ==
  LET visit[n \in Nat] ==
        IF n = 0 THEN <<m_pBeginBlock[i], {}>>
        ELSE LET before == visit[n - 1] IN
             IF before[1] = NULL THEN before
             ELSE <<m_pNextBlock[before[1]], before[2] \cup {before[1]}>>
  IN  visit[Cardinality(Blocks)]

ListIsComplete ==
  \A i \in AllocatorIndices : Follow(i) = <<NULL, FreeBlocks(i)>>

\* The counters are those of the blocks: free, and free or with a user.
CountersMatch ==
  \A i \in AllocatorIndices :
    /\ m_nFreeBlockNum[i] = Cardinality(FreeBlocks(i))
    /\ m_nTotalBlockNum[i] = Cardinality(FreeBlocks(i) \cup UserBlocks(i))

\* An allocator keeps one free block more than MaxFreeSlots at most, the "max
\* free block count" of MemoryPool.h 90: the limit is tested before the block
\* is added.
FreeIsBounded ==
  \A i \in AllocatorIndices : Cardinality(FreeBlocks(i)) <= MaxFreeSlots + 1
=============================================================================
