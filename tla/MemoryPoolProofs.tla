-------------------------- MODULE MemoryPoolProofs --------------------------
(***************************************************************************)
(* Proofs about the memory pool for any number of blocks, any size classes *)
(* and any limit on the free blocks.                                       *)
(***************************************************************************)
EXTENDS MemoryPool, FiniteSetTheorems, WellFoundedInduction, TLAPS

\* A block that was made for a size class keeps it until the C heap has it.
TypesKnown ==
  \A b \in Blocks :
    \/ m_nBlockSizeType[b] = Mem_User_Byte_Size_Type
    \/ \E i \in AllocatorIndices : m_nBlockSizeType[b] = Slot2BlockBound(i)

\* Nothing is in the pool that belongs to no allocator.
PoolIsClassed ==
  \A b \in Blocks :
    owner[b] = "pool" => m_nBlockSizeType[b] # Mem_User_Byte_Size_Type

\* The inductive invariant.  The links and the counters need each other: the
\* list says which blocks are free, the counter when the list is full.
IInv ==
  /\ TypeOK
  /\ TypesKnown
  /\ PoolIsClassed
  /\ DoublyLinked
  /\ CountersMatch
  /\ FreeIsBounded

\* CountersMatch and FreeIsBounded, of one allocator.
Counted(i) ==
  /\ m_nFreeBlockNum[i] = Cardinality(FreeBlocks(i))
  /\ m_nTotalBlockNum[i] = Cardinality(FreeBlocks(i) \cup UserBlocks(i))
  /\ Cardinality(FreeBlocks(i)) <= MaxFreeSlots + 1

-----------------------------------------------------------------------------
(* Size classes and the sets of blocks.                                    *)

LEMMA OneClass ==
  ASSUME NEW i \in AllocatorIndices, NEW j \in AllocatorIndices,
         Slot2BlockBound(i) = Slot2BlockBound(j)
  PROVE  i = j
  BY RoundTripAssumption

LEMMA UserClass ==
  /\ \A i \in AllocatorIndices : Slot2BlockBound(i) # Mem_User_Byte_Size_Type
  /\ BlockBound2Slot(Mem_User_Byte_Size_Type) = Allocator_Idx_Invalid
  BY RoundTripAssumption
  DEF Mem_User_Byte_Size_Type, BlockBound2Slot, Allocator_Idx_Invalid

\* The allocator Free computes is the one the block was made by.
LEMMA ClassOfBlock ==
  ASSUME TypesKnown, NEW b \in Blocks,
         BlockBound2Slot(m_nBlockSizeType[b]) >= 0
  PROVE  /\ BlockBound2Slot(m_nBlockSizeType[b]) \in AllocatorIndices
         /\ m_nBlockSizeType[b]
              = Slot2BlockBound(BlockBound2Slot(m_nBlockSizeType[b]))
  BY RoundTripAssumption, UserClass DEF TypesKnown, Allocator_Idx_Invalid

LEMMA BlocksFinite ==
  ASSUME NEW i
  PROVE  /\ IsFiniteSet(FreeBlocks(i)) /\ IsFiniteSet(UserBlocks(i))
         /\ IsFiniteSet(FreeBlocks(i) \cup UserBlocks(i))
         /\ Cardinality(FreeBlocks(i)) \in Nat
         /\ Cardinality(FreeBlocks(i) \cup UserBlocks(i)) \in Nat
<1>1. FreeBlocks(i) \subseteq Blocks /\ UserBlocks(i) \subseteq Blocks
  BY DEF FreeBlocks, UserBlocks
<1>2. QED
  BY <1>1, PoolAssumption, FS_Subset, FS_Union, FS_CardinalityType

\* A block that joins or leaves a finite set changes its cardinality by one.
LEMMA AddOne ==
  ASSUME NEW S, IsFiniteSet(S), NEW x, x \notin S
  PROVE  Cardinality(S \cup {x}) = Cardinality(S) + 1
  BY FS_AddElement

LEMMA RemoveOne ==
  ASSUME NEW S, IsFiniteSet(S), NEW x \in S
  PROVE  Cardinality(S \ {x}) = Cardinality(S) - 1
  BY FS_RemoveElement

\* The list of an allocator is untouched by a step that changes neither its
\* blocks, nor its ends, nor their links.
LEMMA LinkedStable ==
  ASSUME NEW i \in AllocatorIndices, Linked(i),
         FreeBlocks(i)' = FreeBlocks(i),
         m_pBeginBlock'[i] = m_pBeginBlock[i],
         m_pEndBlock'[i] = m_pEndBlock[i],
         \A b \in FreeBlocks(i) :
           /\ m_pPreBlock'[b] = m_pPreBlock[b]
           /\ m_pNextBlock'[b] = m_pNextBlock[b],
         \A b \in UserBlocks(i)' :
           m_pPreBlock'[b] = NULL /\ m_pNextBlock'[b] = NULL
  PROVE  Linked(i)'
<1>1. ASSUME NEW b \in FreeBlocks(i) PROVE Neighbours(i, b)'
  <2>1. Neighbours(i, b)
    BY DEF Linked
  <2>2. QED
    BY <2>1 DEF Neighbours
<1>2. QED
  BY <1>1 DEF Linked

LEMMA InitIInv == Init => IInv
<1> SUFFICES ASSUME Init PROVE IInv
  OBVIOUS
<1>1. \A i \in AllocatorIndices : FreeBlocks(i) = {} /\ UserBlocks(i) = {}
  BY DEF Init, FreeBlocks, UserBlocks
<1>2. DoublyLinked
  BY <1>1, PoolAssumption DEF Init, DoublyLinked, Linked, Pointers
<1>3. CountersMatch /\ FreeIsBounded
  BY <1>1, FS_EmptySet, PoolAssumption DEF Init, CountersMatch, FreeIsBounded
<1>4. TypeOK /\ TypesKnown /\ PoolIsClassed
  BY PoolAssumption
  DEF Init, TypeOK, TypesKnown, PoolIsClassed, Pointers,
      Mem_User_Byte_Size_Type
<1>5. QED
  BY <1>2, <1>3, <1>4 DEF IInv

-----------------------------------------------------------------------------
(* Each operation preserves the invariant.                                 *)

LEMMA AllocFromListIInv ==
  ASSUME IInv, NEW i \in AllocatorIndices, NEW b \in Blocks,
         AllocFromList(i, b)
  PROVE  IInv'
<1> USE DEF IInv, TypeOK
<1>1. Linked(i) /\ b = m_pEndBlock[i] /\ b # NULL
  BY PoolAssumption DEF DoublyLinked, AllocFromList
<1>2. b \in FreeBlocks(i) /\ m_pNextBlock[b] = NULL
  BY <1>1 DEF Linked, Neighbours
<1>3. /\ FreeBlocks(i)' = FreeBlocks(i) \ {b}
      /\ UserBlocks(i)' = UserBlocks(i) \cup {b}
  BY <1>2 DEF FreeBlocks, UserBlocks, AllocFromList
<1>4. ASSUME NEW j \in AllocatorIndices \ {i}
      PROVE  /\ FreeBlocks(j)' = FreeBlocks(j) /\ UserBlocks(j)' = UserBlocks(j)
             /\ FreeBlocks(i) \cap (FreeBlocks(j) \cup UserBlocks(j)) = {}
  BY <1>2, OneClass DEF FreeBlocks, UserBlocks, AllocFromList
<1> DEFINE pre == m_pPreBlock[b]
<1>5. pre # NULL => pre \in FreeBlocks(i) /\ pre # b
  BY <1>1, <1>2 DEF Linked, Neighbours
<1>6. DoublyLinked'
  <2>1. ASSUME NEW j \in AllocatorIndices \ {i} PROVE Linked(j)'
    <3>1. \A c \in FreeBlocks(j) \cup UserBlocks(j) : c # b /\ c # pre
      BY <1>2, <1>4, <1>5, PoolAssumption DEF FreeBlocks, UserBlocks
    <3>2. \A c \in UserBlocks(j)' :
            m_pPreBlock'[c] = NULL /\ m_pNextBlock'[c] = NULL
      BY <1>4, <3>1 DEF DoublyLinked, Linked, AllocFromList, TakeLast, UserBlocks
    <3>3. QED
      BY <1>4, <3>1, <3>2, LinkedStable
      DEF DoublyLinked, AllocFromList, TakeLast, FreeBlocks
  <2>2. ASSUME NEW c \in FreeBlocks(i) \ {b} PROVE Neighbours(i, c)'
    <3>1. Neighbours(i, c) /\ Neighbours(i, b) /\ c \in Blocks
      BY <1>1, <1>2 DEF Linked, FreeBlocks
    <3>2. CASE pre = NULL
      BY <1>1, <1>2, <1>3, <3>1, <3>2, PoolAssumption
      DEF AllocFromList, TakeLast, Neighbours
    <3>3. CASE pre # NULL
      BY <1>1, <1>2, <1>3, <1>5, <3>1, <3>3, PoolAssumption
      DEF AllocFromList, TakeLast, Neighbours, Pointers
    <3>4. QED
      BY <3>2, <3>3
  <2>3. /\ m_pBeginBlock'[i] = NULL <=> m_pEndBlock'[i] = NULL
        /\ {m_pBeginBlock'[i], m_pEndBlock'[i]}
             \subseteq FreeBlocks(i)' \cup {NULL}
    BY <1>1, <1>2, <1>3, <1>5 DEF Linked, Neighbours, AllocFromList, TakeLast
  <2>4. ASSUME NEW c \in UserBlocks(i)'
        PROVE  m_pPreBlock'[c] = NULL /\ m_pNextBlock'[c] = NULL
    <3>1. CASE c = b
      BY <1>2, <1>5, <3>1 DEF AllocFromList, TakeLast
    <3>2. CASE c # b
      <4>1. c \in UserBlocks(i) /\ c \notin FreeBlocks(i)
        BY <1>3, <3>2 DEF UserBlocks, FreeBlocks
      <4>2. QED
        BY <1>1, <1>5, <3>2, <4>1 DEF Linked, AllocFromList, TakeLast
    <3>3. QED
      BY <3>1, <3>2
  <2>5. QED
    BY <1>3, <2>1, <2>2, <2>3, <2>4 DEF DoublyLinked, Linked
<1>7. CountersMatch' /\ FreeIsBounded'
  <2>1. Cardinality(FreeBlocks(i)') = Cardinality(FreeBlocks(i)) - 1
    BY <1>2, <1>3, BlocksFinite, RemoveOne
  <2>2. FreeBlocks(i)' \cup UserBlocks(i)' = FreeBlocks(i) \cup UserBlocks(i)
    BY <1>2, <1>3
  <2>3. /\ Cardinality(FreeBlocks(i)) \in Nat
        /\ Cardinality(FreeBlocks(i)) <= MaxFreeSlots + 1
        /\ m_nFreeBlockNum[i] = Cardinality(FreeBlocks(i))
        /\ m_nTotalBlockNum[i]
             = Cardinality(FreeBlocks(i) \cup UserBlocks(i))
    BY BlocksFinite DEF CountersMatch, FreeIsBounded
  <2>4. /\ m_nFreeBlockNum'[i] = m_nFreeBlockNum[i] - 1
        /\ m_nTotalBlockNum'[i] = m_nTotalBlockNum[i]
        /\ \A j \in AllocatorIndices \ {i} :
             m_nFreeBlockNum'[j] = m_nFreeBlockNum[j]
        /\ \A j \in AllocatorIndices : m_nTotalBlockNum'[j] = m_nTotalBlockNum[j]
    BY DEF AllocFromList
  <2>5. Counted(i)'
    <3>1. m_nFreeBlockNum'[i] = Cardinality(FreeBlocks(i)')
      BY <2>1, <2>3, <2>4
    <3>2. m_nTotalBlockNum'[i]
            = Cardinality(FreeBlocks(i)' \cup UserBlocks(i)')
      BY <2>2, <2>3, <2>4
    <3>3. Cardinality(FreeBlocks(i)') <= MaxFreeSlots + 1
      BY <2>1, <2>3, PoolAssumption
    <3>4. QED
      BY <3>1, <3>2, <3>3 DEF Counted
  <2>6. \A j \in AllocatorIndices \ {i} : Counted(j)'
    BY <1>4, <2>4 DEF Counted, CountersMatch, FreeIsBounded
  <2>7. QED
    BY <2>5, <2>6 DEF Counted, CountersMatch, FreeIsBounded
<1>8. TypesKnown' /\ PoolIsClassed'
  BY DEF TypesKnown, PoolIsClassed, AllocFromList
<1>9. TypeOK'
  <2>1. m_nFreeBlockNum[i] - 1 \in Nat
    <3>1. Cardinality(FreeBlocks(i)) \in Nat /\ FreeBlocks(i) # {}
            /\ IsFiniteSet(FreeBlocks(i))
      BY <1>2, BlocksFinite
    <3>2. Cardinality(FreeBlocks(i)) # 0
      BY <3>1, FS_EmptySet
    <3>3. m_nFreeBlockNum[i] = Cardinality(FreeBlocks(i))
      BY DEF CountersMatch
    <3>4. QED
      BY <3>1, <3>2, <3>3
  <2>2. QED
    BY <2>1 DEF AllocFromList, TakeLast, Pointers
<1>10. QED
  BY <1>6, <1>7, <1>8, <1>9

\* A step that moves b between the C heap and the users of allocator i and
\* touches no list.
LEMMA HeapStepIInv ==
  ASSUME IInv, NEW i \in AllocatorIndices, NEW b \in Blocks,
         \A j \in AllocatorIndices : FreeBlocks(j)' = FreeBlocks(j),
         \A j \in AllocatorIndices \ {i} : UserBlocks(j)' = UserBlocks(j),
         UNCHANGED <<ends, m_nFreeBlockNum>>,
         \A c \in Blocks \ {b} : /\ m_pPreBlock'[c] = m_pPreBlock[c]
                                 /\ m_pNextBlock'[c] = m_pNextBlock[c]
                                 /\ m_nBlockSizeType'[c] = m_nBlockSizeType[c]
                                 /\ owner'[c] = owner[c],
         owner[b] # "pool", owner'[b] # "pool",
         b \in UNION {UserBlocks(j)' : j \in AllocatorIndices} =>
           m_pPreBlock'[b] = NULL /\ m_pNextBlock'[b] = NULL,
         m_nBlockSizeType'[b] \in
           {Mem_User_Byte_Size_Type, m_nBlockSizeType[b], Slot2BlockBound(i)},
         m_nTotalBlockNum' \in [AllocatorIndices -> Nat],
         \A j \in AllocatorIndices \ {i} :
           m_nTotalBlockNum'[j] = m_nTotalBlockNum[j],
         m_nTotalBlockNum'[i]
           = Cardinality(FreeBlocks(i)' \cup UserBlocks(i)'),
         TypeOK'
  PROVE  IInv'
<1> USE DEF IInv
<1>1. DoublyLinked'
  <2>1. ASSUME NEW j \in AllocatorIndices PROVE Linked(j)'
    <3>1. \A c \in UserBlocks(j)' :
            m_pPreBlock'[c] = NULL /\ m_pNextBlock'[c] = NULL
      <4>1. ASSUME NEW c \in UserBlocks(j)', c # b
            PROVE  c \in UserBlocks(j)
        BY <4>1 DEF UserBlocks
      <4>2. QED
        BY <4>1 DEF DoublyLinked, Linked, UserBlocks
    <3>2. b \notin FreeBlocks(j) /\ FreeBlocks(j) \subseteq Blocks
      BY DEF FreeBlocks
    <3>3. QED
      BY <3>1, <3>2, LinkedStable DEF DoublyLinked, ends
  <2>2. QED
    BY <2>1 DEF DoublyLinked
<1>2. CountersMatch' /\ FreeIsBounded'
  <2>1. Counted(i)'
    BY DEF Counted, CountersMatch, FreeIsBounded
  <2>2. \A j \in AllocatorIndices \ {i} : Counted(j)'
    BY DEF Counted, CountersMatch, FreeIsBounded
  <2>3. QED
    BY <2>1, <2>2 DEF Counted, CountersMatch, FreeIsBounded
<1>3. TypesKnown' /\ PoolIsClassed'
  BY DEF TypesKnown, PoolIsClassed
<1>4. QED
  BY <1>1, <1>2, <1>3

LEMMA MallocByHeapIInv ==
  ASSUME IInv, NEW b \in Blocks, MallocByHeap(b)
  PROVE  IInv'
<1> USE DEF IInv
<1>1. PICK i \in AllocatorIndices : TRUE
  BY ClassesAssumption DEF AllocatorIndices
<1>2. /\ owner' = [owner EXCEPT ![b] = "user"] /\ owner[b] = "heap"
      /\ m_nBlockSizeType'
           = [m_nBlockSizeType EXCEPT ![b] = Mem_User_Byte_Size_Type]
      /\ UNCHANGED <<links, ends, m_nFreeBlockNum, m_nTotalBlockNum>>
  BY DEF MallocByHeap, HeapGives
<1>3. \A j \in AllocatorIndices :
        FreeBlocks(j)' = FreeBlocks(j) /\ UserBlocks(j)' = UserBlocks(j)
  BY <1>2, UserClass DEF FreeBlocks, UserBlocks, TypeOK
<1>4. TypeOK'
  BY <1>2 DEF TypeOK, Mem_User_Byte_Size_Type, links, ends
<1>5. b \notin UNION {UserBlocks(j)' : j \in AllocatorIndices}
  BY <1>2, <1>3 DEF UserBlocks
<1>6. m_nTotalBlockNum'[i] = Cardinality(FreeBlocks(i)' \cup UserBlocks(i)')
  BY <1>2, <1>3 DEF CountersMatch
<1>7. QED
  BY <1>2, <1>3, <1>4, <1>5, <1>6, HeapStepIInv DEF TypeOK, links

LEMMA AllocFromHeapIInv ==
  ASSUME IInv, NEW i \in AllocatorIndices, NEW b \in Blocks,
         AllocFromHeap(i, b)
  PROVE  IInv'
<1> USE DEF IInv
<1>1. /\ owner' = [owner EXCEPT ![b] = "user"] /\ owner[b] = "heap"
      /\ m_nBlockSizeType'
           = [m_nBlockSizeType EXCEPT ![b] = Slot2BlockBound(i)]
      /\ m_pNextBlock' = [m_pNextBlock EXCEPT ![b] = NULL]
      /\ m_pPreBlock' = [m_pPreBlock EXCEPT ![b] = NULL]
      /\ m_nTotalBlockNum' = [m_nTotalBlockNum EXCEPT ![i] = @ + 1]
      /\ UNCHANGED <<ends, m_nFreeBlockNum>>
  BY DEF AllocFromHeap, HeapGives
<1>2. \A j \in AllocatorIndices : FreeBlocks(j)' = FreeBlocks(j)
  BY <1>1 DEF FreeBlocks, TypeOK
<1>3. \A j \in AllocatorIndices \ {i} : UserBlocks(j)' = UserBlocks(j)
  BY <1>1, OneClass DEF UserBlocks, TypeOK
<1>4. UserBlocks(i)' = UserBlocks(i) \cup {b} /\ b \notin UserBlocks(i)
  BY <1>1 DEF UserBlocks, TypeOK
<1>5. b \notin FreeBlocks(i)
  BY <1>1 DEF FreeBlocks
<1>6. m_nTotalBlockNum'[i] = Cardinality(FreeBlocks(i)' \cup UserBlocks(i)')
  <2>1. FreeBlocks(i)' \cup UserBlocks(i)'
          = (FreeBlocks(i) \cup UserBlocks(i)) \cup {b}
    BY <1>2, <1>4
  <2>2. b \notin FreeBlocks(i) \cup UserBlocks(i)
    BY <1>4, <1>5
  <2>3. m_nTotalBlockNum[i] = Cardinality(FreeBlocks(i) \cup UserBlocks(i))
    BY DEF CountersMatch
  <2>4. m_nTotalBlockNum'[i] = m_nTotalBlockNum[i] + 1
    BY <1>1 DEF TypeOK
  <2>5. QED
    BY <2>1, <2>2, <2>3, <2>4, BlocksFinite, AddOne
<1>7. TypeOK'
  BY <1>1, RoundTripAssumption DEF TypeOK, Pointers, ends
<1>8. m_pPreBlock'[b] = NULL /\ m_pNextBlock'[b] = NULL
  BY <1>1 DEF TypeOK
<1>9. QED
  BY <1>1, <1>2, <1>3, <1>6, <1>7, <1>8, HeapStepIInv DEF TypeOK

LEMMA FreeToHeapIInv ==
  ASSUME IInv, NEW i \in AllocatorIndices, NEW b \in UserBlocks(i),
         FreeToHeap(i, b)
  PROVE  IInv'
<1> USE DEF IInv
<1>1. /\ b \in Blocks /\ owner[b] = "user"
      /\ owner' = [owner EXCEPT ![b] = "heap"]
      /\ m_nTotalBlockNum' = [m_nTotalBlockNum EXCEPT ![i] = @ - 1]
      /\ UNCHANGED <<links, ends, m_nBlockSizeType, m_nFreeBlockNum>>
  BY DEF FreeToHeap, HeapTakes, UserBlocks
<1>2. \A j \in AllocatorIndices : FreeBlocks(j)' = FreeBlocks(j)
  BY <1>1 DEF FreeBlocks, TypeOK
<1>3. \A j \in AllocatorIndices \ {i} : UserBlocks(j)' = UserBlocks(j)
  BY <1>1, OneClass DEF UserBlocks, TypeOK
<1>4. UserBlocks(i)' = UserBlocks(i) \ {b} /\ b \notin FreeBlocks(i)
  BY <1>1 DEF UserBlocks, FreeBlocks, TypeOK
<1>5. m_nTotalBlockNum'[i] = Cardinality(FreeBlocks(i)' \cup UserBlocks(i)')
  <2>1. FreeBlocks(i)' \cup UserBlocks(i)'
          = (FreeBlocks(i) \cup UserBlocks(i)) \ {b}
    BY <1>2, <1>4
  <2>2. b \in FreeBlocks(i) \cup UserBlocks(i)
    OBVIOUS
  <2>3. m_nTotalBlockNum[i] = Cardinality(FreeBlocks(i) \cup UserBlocks(i))
    BY DEF CountersMatch
  <2>4. m_nTotalBlockNum'[i] = m_nTotalBlockNum[i] - 1
    BY <1>1 DEF TypeOK
  <2>5. QED
    BY <2>1, <2>2, <2>3, <2>4, BlocksFinite, RemoveOne
<1>6. m_nTotalBlockNum'[i] \in Nat
  <2>1. IsFiniteSet((FreeBlocks(i) \cup UserBlocks(i)) \ {b})
    BY BlocksFinite, FS_Subset
  <2>2. FreeBlocks(i)' \cup UserBlocks(i)'
          = (FreeBlocks(i) \cup UserBlocks(i)) \ {b}
    BY <1>2, <1>4
  <2>3. QED
    BY <1>5, <2>1, <2>2, FS_CardinalityType
<1>7. TypeOK' /\ m_nTotalBlockNum' \in [AllocatorIndices -> Nat]
  BY <1>1, <1>6 DEF TypeOK, links, ends
<1>8. b \notin UNION {UserBlocks(j)' : j \in AllocatorIndices}
  BY <1>1 DEF UserBlocks, TypeOK
<1>9. QED
  BY <1>1, <1>2, <1>3, <1>5, <1>7, <1>8, HeapStepIInv DEF TypeOK, links

LEMMA FreeByHeapIInv ==
  ASSUME IInv, NEW b \in Blocks, owner[b] = "user",
         ~(BlockBound2Slot(m_nBlockSizeType[b]) >= 0), FreeByHeap(b)
  PROVE  IInv'
<1> USE DEF IInv
<1>1. PICK i \in AllocatorIndices : TRUE
  BY ClassesAssumption DEF AllocatorIndices
<1>2. /\ owner' = [owner EXCEPT ![b] = "heap"]
      /\ UNCHANGED <<links, ends, m_nBlockSizeType, m_nFreeBlockNum,
                     m_nTotalBlockNum>>
  BY DEF FreeByHeap, HeapTakes
<1>3. m_nBlockSizeType[b] = Mem_User_Byte_Size_Type
  BY RoundTripAssumption DEF TypesKnown, AllocatorIndices
<1>4. \A j \in AllocatorIndices :
        FreeBlocks(j)' = FreeBlocks(j) /\ UserBlocks(j)' = UserBlocks(j)
  BY <1>2, <1>3, UserClass DEF FreeBlocks, UserBlocks, TypeOK
<1>5. TypeOK'
  BY <1>2 DEF TypeOK, links, ends
<1>6. b \notin UNION {UserBlocks(j)' : j \in AllocatorIndices}
  BY <1>2 DEF UserBlocks, TypeOK
<1>7. m_nTotalBlockNum'[i] = Cardinality(FreeBlocks(i)' \cup UserBlocks(i)')
  BY <1>2, <1>4 DEF CountersMatch
<1>8. QED
  BY <1>2, <1>4, <1>5, <1>6, <1>7, HeapStepIInv DEF TypeOK, links

LEMMA FreeToListIInv ==
  ASSUME IInv, NEW i \in AllocatorIndices, NEW b \in UserBlocks(i),
         FreeToList(i, b)
  PROVE  IInv'
<1> USE DEF IInv, TypeOK
<1> DEFINE first == m_pBeginBlock[i]
<1>1. /\ Linked(i) /\ b \in Blocks /\ b # NULL /\ owner[b] = "user"
      /\ m_pPreBlock[b] = NULL /\ m_pNextBlock[b] = NULL
  BY PoolAssumption DEF DoublyLinked, Linked, UserBlocks
<1>2. /\ FreeBlocks(i)' = FreeBlocks(i) \cup {b} /\ b \notin FreeBlocks(i)
      /\ UserBlocks(i)' = UserBlocks(i) \ {b}
  BY <1>1 DEF FreeBlocks, UserBlocks, FreeToList
<1>3. ASSUME NEW j \in AllocatorIndices \ {i}
      PROVE  /\ FreeBlocks(j)' = FreeBlocks(j) /\ UserBlocks(j)' = UserBlocks(j)
             /\ FreeBlocks(i) \cap (FreeBlocks(j) \cup UserBlocks(j)) = {}
             /\ b \notin FreeBlocks(j) \cup UserBlocks(j)
  BY <1>1, OneClass DEF FreeBlocks, UserBlocks, FreeToList
<1>4. first # NULL => first \in FreeBlocks(i) /\ first # b
  BY <1>1, <1>2 DEF Linked
<1>5. DoublyLinked'
  <2>1. ASSUME NEW j \in AllocatorIndices \ {i} PROVE Linked(j)'
    <3>1. /\ \A c \in FreeBlocks(j) \cup UserBlocks(j) : c # b /\ c # first
          /\ FreeBlocks(j) \subseteq Blocks /\ UserBlocks(j) \subseteq Blocks
      BY <1>3, <1>4, PoolAssumption DEF FreeBlocks, UserBlocks
    <3>2. \A c \in UserBlocks(j)' :
            m_pPreBlock'[c] = NULL /\ m_pNextBlock'[c] = NULL
      BY <1>3, <3>1 DEF DoublyLinked, Linked, FreeToList, links
    <3>3. QED
      BY <1>3, <3>1, <3>2, LinkedStable DEF DoublyLinked, FreeToList, links
  <2>2. ASSUME NEW c \in FreeBlocks(i) PROVE Neighbours(i, c)'
    <3>1. Neighbours(i, c) /\ c \in Blocks /\ c # b /\ c # NULL
      BY <1>1, <1>2, PoolAssumption DEF Linked, FreeBlocks
    <3>2. CASE first = NULL
      BY <1>1, <1>2, <3>1, <3>2 DEF FreeToList, Neighbours, Linked, links
    <3>3. CASE first # NULL
      BY <1>1, <1>2, <1>4, <3>1, <3>3
      DEF FreeToList, Neighbours, Linked, Pointers
    <3>4. QED
      BY <3>2, <3>3
  <2>3. Neighbours(i, b)'
    <3>1. CASE first = NULL
      BY <1>1, <1>2, <3>1 DEF FreeToList, Neighbours, links
    <3>2. CASE first # NULL
      BY <1>1, <1>2, <1>4, <3>2 DEF FreeToList, Neighbours, Linked, Pointers
    <3>3. QED
      BY <3>1, <3>2
  <2>4. /\ m_pBeginBlock'[i] = NULL <=> m_pEndBlock'[i] = NULL
        /\ {m_pBeginBlock'[i], m_pEndBlock'[i]}
             \subseteq FreeBlocks(i)' \cup {NULL}
    BY <1>1, <1>2 DEF Linked, FreeToList
  <2>5. ASSUME NEW c \in UserBlocks(i)'
        PROVE  m_pPreBlock'[c] = NULL /\ m_pNextBlock'[c] = NULL
    <3>1. c \in UserBlocks(i) /\ c # b /\ c \in Blocks /\ c # NULL
            /\ c \notin FreeBlocks(i)
      BY <1>2, PoolAssumption DEF UserBlocks, FreeBlocks
    <3>2. QED
      BY <1>1, <1>4, <3>1 DEF Linked, FreeToList, links
  <2>6. QED
    BY <1>2, <2>1, <2>2, <2>3, <2>4, <2>5 DEF DoublyLinked, Linked
<1>6. CountersMatch' /\ FreeIsBounded'
  <2>1. Cardinality(FreeBlocks(i)') = Cardinality(FreeBlocks(i)) + 1
    BY <1>2, BlocksFinite, AddOne
  <2>2. FreeBlocks(i)' \cup UserBlocks(i)' = FreeBlocks(i) \cup UserBlocks(i)
    BY <1>2
  <2>3. /\ Cardinality(FreeBlocks(i)) \in Nat
        /\ m_nFreeBlockNum[i] = Cardinality(FreeBlocks(i))
        /\ m_nTotalBlockNum[i]
             = Cardinality(FreeBlocks(i) \cup UserBlocks(i))
    BY BlocksFinite DEF CountersMatch
  <2>4. /\ m_nFreeBlockNum'[i] = m_nFreeBlockNum[i] + 1
        /\ m_nTotalBlockNum'[i] = m_nTotalBlockNum[i]
        /\ ~(m_nFreeBlockNum[i] > MaxFreeSlots)
        /\ \A j \in AllocatorIndices \ {i} :
             m_nFreeBlockNum'[j] = m_nFreeBlockNum[j]
        /\ \A j \in AllocatorIndices : m_nTotalBlockNum'[j] = m_nTotalBlockNum[j]
    BY DEF FreeToList, TooManyFree
  <2>5. Counted(i)'
    <3>1. m_nFreeBlockNum'[i] = Cardinality(FreeBlocks(i)')
      BY <2>1, <2>3, <2>4
    <3>2. m_nTotalBlockNum'[i]
            = Cardinality(FreeBlocks(i)' \cup UserBlocks(i)')
      BY <2>2, <2>3, <2>4
    <3>3. Cardinality(FreeBlocks(i)') <= MaxFreeSlots + 1
      BY <2>1, <2>3, <2>4, PoolAssumption
    <3>4. QED
      BY <3>1, <3>2, <3>3 DEF Counted
  <2>6. \A j \in AllocatorIndices \ {i} : Counted(j)'
    BY <1>3, <2>4 DEF Counted, CountersMatch, FreeIsBounded
  <2>7. QED
    BY <2>5, <2>6 DEF Counted, CountersMatch, FreeIsBounded
<1>7. TypesKnown'
  BY DEF TypesKnown, FreeToList
<1>8. PoolIsClassed'
  BY UserClass DEF PoolIsClassed, FreeToList, UserBlocks
<1>9. TypeOK'
  BY <1>1 DEF FreeToList, Pointers, links
<1>10. QED
  BY <1>5, <1>6, <1>7, <1>8, <1>9

-----------------------------------------------------------------------------
LEMMA NextIInv == IInv /\ [Next]_vars => IInv'
<1> SUFFICES ASSUME IInv, [Next]_vars PROVE IInv'
  OBVIOUS
<1>1. ASSUME NEW nSize \in Requests, Malloc(nSize) PROVE IInv'
  <2>1. PICK b \in Blocks :
          IF ByHeap(nSize) THEN MallocByHeap(b)
          ELSE ~Asserts(nSize) /\ AllocMemory(AllocatorOf(nSize), b)
    BY <1>1 DEF Malloc
  <2>2. CASE ByHeap(nSize)
    BY <2>1, <2>2, MallocByHeapIInv
  <2>3. CASE ~ByHeap(nSize)
    BY <2>1, <2>3, PoolAssumption, AllocFromListIInv, AllocFromHeapIInv
    DEF AllocMemory
  <2>4. QED
    BY <2>2, <2>3
<1>2. ASSUME NEW b \in Blocks, Free(b) PROVE IInv'
  <2> DEFINE i == BlockBound2Slot(m_nBlockSizeType[b])
  <2>1. CASE i >= 0
    <3>1. i \in AllocatorIndices /\ b \in UserBlocks(i) /\ FreeMemory(i, b)
      BY <1>2, <2>1, ClassOfBlock DEF IInv, Free, UserBlocks
    <3>2. QED
      BY <3>1, FreeToHeapIInv, FreeToListIInv DEF FreeMemory
  <2>2. CASE ~(i >= 0)
    BY <1>2, <2>2, FreeByHeapIInv DEF Free
  <2>3. QED
    BY <2>1, <2>2
<1>3. CASE UNCHANGED vars
  <2>1. \A i : /\ FreeBlocks(i)' = FreeBlocks(i)
               /\ UserBlocks(i)' = UserBlocks(i)
    BY <1>3 DEF vars, FreeBlocks, UserBlocks
  <2>2. CountersMatch' /\ FreeIsBounded'
    BY <1>3, <2>1 DEF vars, IInv, CountersMatch, FreeIsBounded
  <2>3. DoublyLinked'
    BY <1>3, <2>1 DEF vars, IInv, DoublyLinked, Linked, Neighbours
  <2>4. TypeOK' /\ TypesKnown' /\ PoolIsClassed'
    BY <1>3 DEF vars, IInv, TypeOK, TypesKnown, PoolIsClassed
  <2>5. QED
    BY <2>2, <2>3, <2>4 DEF IInv
<1>4. QED
  BY <1>1, <1>2, <1>3 DEF Next

LEMMA Invariance == Spec => []IInv
<1>1. QED
  BY InitIInv, NextIInv, PTL DEF Spec

\* Every field keeps its type; the counters never go below 0, whatever sizes
\* are asked for and however the blocks are freed (MemoryPool.h 114-190).
THEOREM TypeCorrect == Spec => []TypeOK
<1>1. IInv => TypeOK
  BY DEF IInv
<1>2. QED
  BY <1>1, Invariance, PTL

\* AllocMemory and FreeMemory keep the free blocks of every allocator doubly
\* linked between its ends, and the blocks of users linked to none.
THEOREM ListsAreLinked == Spec => []DoublyLinked
<1>1. IInv => DoublyLinked
  BY DEF IInv
<1>2. QED
  BY <1>1, Invariance, PTL

\* m_nFreeBlockNum and m_nTotalBlockNum count the blocks of an allocator.
THEOREM CountersAreExact == Spec => []CountersMatch
<1>1. IInv => CountersMatch
  BY DEF IInv
<1>2. QED
  BY <1>1, Invariance, PTL

\* However many blocks users free, an allocator keeps MaxFreeSlots + 1.
THEOREM PoolIsBounded == Spec => []FreeIsBounded
<1>1. IInv => FreeIsBounded
  BY DEF IInv
<1>2. QED
  BY <1>1, Invariance, PTL

-----------------------------------------------------------------------------
(* Following the links.  Induction over the naturals and definition by      *)
(* primitive recursion, stated with sets and functions in the place of      *)
(* operators.                                                               *)

\* The order of the naturals, as a relation.
Below == {p \in Nat \X Nat : p[1] < p[2]}

LEMMA BelowWellFounded == IsWellFoundedOn(Below, Nat)
<1>1. OpToRel(<, Nat) = Below
  BY DEF OpToRel, Below
<1>2. QED
  BY <1>1, NatLessThanWellFounded, Zenon

LEMMA SetInduction ==
  ASSUME NEW S, 0 \in S, \A n \in Nat : n \in S => n + 1 \in S
  PROVE  Nat \subseteq S
<1>1. SUFFICES ASSUME Nat \ S # {} PROVE FALSE
  OBVIOUS
<1>2. PICK n \in Nat \ S : \A m \in Nat \ S : <<m, n>> \notin Below
  BY <1>1, BelowWellFounded, WFMin
<1>3. n - 1 \in Nat \ S
  BY <1>2
<1>4. <<n - 1, n>> \in Below
  BY <1>2, <1>3 DEF Below
<1>5. QED
  BY <1>2, <1>3, <1>4

\* The first n + 1 values of the function defined by x0 and next.
Values(X, x0, next, n) ==
  {g \in [0 .. n -> X] : g[0] = x0 /\ \A k \in 0 .. n - 1 : g[k + 1] = next[g[k]]}

LEMMA ValuesExist ==
  ASSUME NEW X, NEW x0 \in X, NEW next \in [X -> X]
  PROVE  \A n \in Nat : Values(X, x0, next, n) # {}
<1> DEFINE S == {n \in Nat : Values(X, x0, next, n) # {}}
<1>1. 0 \in S
  <2>1. [k \in 0 .. 0 |-> x0] \in Values(X, x0, next, 0)
    BY DEF Values
  <2>2. QED
    BY <2>1
<1>2. ASSUME NEW n \in Nat, n \in S PROVE n + 1 \in S
  <2>1. PICK g \in [0 .. n -> X] :
          g[0] = x0 /\ \A k \in 0 .. n - 1 : g[k + 1] = next[g[k]]
    BY <1>2 DEF Values
  <2> DEFINE h == [k \in 0 .. n + 1 |-> IF k <= n THEN g[k] ELSE next[g[n]]]
  <2>2. h \in [0 .. n + 1 -> X]
    BY <1>2, <2>1
  <2>3. h[0] = x0 /\ \A k \in 0 .. n : h[k + 1] = next[h[k]]
    BY <1>2, <2>1
  <2> HIDE DEF h
  <2>4. h \in Values(X, x0, next, n + 1)
    BY <2>2, <2>3, (n + 1) - 1 = n DEF Values
  <2>5. QED
    BY <1>2, <2>4
<1> HIDE DEF S
<1>3. Nat \subseteq S
  BY <1>1, <1>2, SetInduction
<1>4. QED
  BY <1>3 DEF S

LEMMA ValuesAgree ==
  ASSUME NEW X, NEW x0 \in X, NEW next \in [X -> X],
         NEW m \in Nat, NEW n \in Nat,
         NEW g \in Values(X, x0, next, m), NEW h \in Values(X, x0, next, n)
  PROVE  \A k \in 0 .. m : k <= n => g[k] = h[k]
<1> DEFINE S == {k \in Nat : k <= m /\ k <= n => g[k] = h[k]}
<1>1. 0 \in S
  BY DEF Values
<1>2. ASSUME NEW k \in Nat, k \in S PROVE k + 1 \in S
  BY <1>2 DEF Values
<1> HIDE DEF S
<1>3. Nat \subseteq S
  BY <1>1, <1>2, SetInduction
<1>4. QED
  BY <1>3 DEF S

LEMMA PrimitiveRecursion ==
  ASSUME NEW X, NEW x0 \in X, NEW next \in [X -> X]
  PROVE  \E f \in [Nat -> X] :
           f[0] = x0 /\ \A n \in Nat : f[n + 1] = next[f[n]]
<1> DEFINE V(n) == Values(X, x0, next, n)
           g(n) == CHOOSE g \in V(n) : TRUE
           f == [n \in Nat |-> g(n)[n]]
<1>1. ASSUME NEW n \in Nat PROVE g(n) \in V(n)
  BY ValuesExist, Zenon
<1>2. f \in [Nat -> X] /\ f[0] = x0
  <2>1. ASSUME NEW n \in Nat PROVE f[n] \in X
    BY <1>1 DEF Values
  <2>2. QED
    BY <1>1, <2>1 DEF Values
<1>3. ASSUME NEW n \in Nat PROVE f[n + 1] = next[f[n]]
  <2>1. g(n) \in V(n) /\ g(n + 1) \in V(n + 1) /\ n + 1 \in Nat
    BY <1>1
  <2> HIDE DEF g
  <2>2. g(n + 1)[n] = g(n)[n]
    BY <2>1, ValuesAgree
  <2>3. g(n + 1)[n + 1] = next[g(n + 1)[n]]
    BY <2>1 DEF Values
  <2>4. QED
    BY <2>2, <2>3
<1>4. QED
  BY <1>2, <1>3

\* One step along m_pNextBlock, and the blocks met before it.
Onward(met) ==
  IF met[1] = NULL THEN met ELSE <<m_pNextBlock[met[1]], met[2] \cup {met[1]}>>

LEMMA FollowUnfolds ==
  ASSUME TypeOK, NEW i \in AllocatorIndices
  PROVE  \E visit :
           /\ visit[0] = <<m_pBeginBlock[i], {}>>
           /\ \A n \in Nat : visit[n + 1] = Onward(visit[n])
           /\ Follow(i) = visit[Cardinality(Blocks)]
<1> DEFINE X == Pointers \X SUBSET Blocks
           next == [met \in X |-> Onward(met)]
           Body(v) == [n \in Nat |-> IF n = 0 THEN <<m_pBeginBlock[i], {}>> ELSE
                         LET before == v[n - 1] IN
                         IF before[1] = NULL THEN before
                         ELSE <<m_pNextBlock[before[1]], before[2] \cup {before[1]}>>]
           visit == CHOOSE v : v = Body(v)
<1>1. \E v : v = Body(v)
  <2>1. <<m_pBeginBlock[i], {}>> \in X
    BY DEF TypeOK
  <2>2. next \in [X -> X]
    BY DEF Onward, TypeOK, Pointers
  <2> HIDE DEF X, next
  <2>3. PICK f \in [Nat -> X] :
          f[0] = <<m_pBeginBlock[i], {}>> /\ \A n \in Nat : f[n + 1] = next[f[n]]
    <3>1. PICK x0, step : x0 = <<m_pBeginBlock[i], {}>> /\ step = next
      OBVIOUS
    <3>2. x0 \in X /\ step \in [X -> X]
      BY <2>1, <2>2, <3>1
    <3>3. \E f \in [Nat -> X] :
            f[0] = x0 /\ \A n \in Nat : f[n + 1] = step[f[n]]
      BY <3>2, PrimitiveRecursion
    <3>4. QED
      BY <3>1, <3>3
  <2>4. \A n \in Nat : f[n + 1] = Onward(f[n])
    BY <2>3 DEF next
  <2>5. \A n \in Nat : f[n] = Body(f)[n]
    <3>1. f[0] = Body(f)[0]
      BY <2>3
    <3>2. ASSUME NEW n \in Nat \ {0} PROVE f[n] = Body(f)[n]
      <4>1. n - 1 \in Nat /\ (n - 1) + 1 = n
        OBVIOUS
      <4>2. f[n] = Onward(f[n - 1])
        BY <2>4, <4>1
      <4>3. QED
        BY <4>2 DEF Onward
    <3>3. QED
      BY <3>1, <3>2
  <2>6. f = Body(f)
    BY <2>3, <2>5
  <2>7. QED
    BY <2>6
<1>2. visit = Body(visit)
  <2> HIDE DEF Body
  <2>1. QED
    BY <1>1
<1>3. Follow(i) = visit[Cardinality(Blocks)]
  BY DEF Follow
<1> HIDE DEF visit
<1>4. visit[0] = <<m_pBeginBlock[i], {}>>
  BY <1>2
<1>5. ASSUME NEW n \in Nat PROVE visit[n + 1] = Onward(visit[n])
  BY <1>2, n + 1 \in Nat, (n + 1) - 1 = n, n + 1 # 0 DEF Onward
<1>6. QED
  BY <1>3, <1>4, <1>5

-----------------------------------------------------------------------------
(* The list is one chain.  Doubly linked blocks could also form a ring that *)
(* no end leads to; Chained says that no set of free blocks is closed under *)
(* m_pPreBlock unless the first block is in it.                             *)

Closed(S) == \A b \in S : m_pPreBlock[b] \in S \cup {NULL}

Chained ==
  \A i \in AllocatorIndices : \A S \in SUBSET FreeBlocks(i) :
    S # {} /\ Closed(S) => m_pBeginBlock[i] \in S

\* Chained is not lost by a step that changes neither the free blocks of an
\* allocator, nor its first block, nor their links.
LEMMA ChainStable ==
  ASSUME NEW i \in AllocatorIndices, Chained,
         FreeBlocks(i)' = FreeBlocks(i),
         m_pBeginBlock'[i] = m_pBeginBlock[i],
         \A b \in FreeBlocks(i) : m_pPreBlock'[b] = m_pPreBlock[b],
         NEW S \in SUBSET FreeBlocks(i)', S # {}, Closed(S)'
  PROVE  m_pBeginBlock'[i] \in S
<1>1. Closed(S)
  BY DEF Closed
<1>2. QED
  BY <1>1 DEF Chained

LEMMA AllocFromListChained ==
  ASSUME IInv, Chained, NEW i \in AllocatorIndices, NEW b \in Blocks,
         AllocFromList(i, b)
  PROVE  Chained'
<1> SUFFICES ASSUME NEW j \in AllocatorIndices, NEW S \in SUBSET FreeBlocks(j)',
                    S # {}, Closed(S)'
             PROVE  m_pBeginBlock'[j] \in S
  BY DEF Chained
<1>1. /\ Linked(i) /\ b = m_pEndBlock[i] /\ b # NULL
      /\ owner' = [owner EXCEPT ![b] = "user"] /\ UNCHANGED m_nBlockSizeType
      /\ m_pPreBlock' = [m_pPreBlock EXCEPT ![b] = NULL]
      /\ m_pBeginBlock' = IF m_pPreBlock[b] # NULL THEN m_pBeginBlock
                          ELSE [m_pBeginBlock EXCEPT ![i] = NULL]
  BY PoolAssumption DEF IInv, DoublyLinked, AllocFromList, TakeLast
<1>2. b \in FreeBlocks(i) /\ (m_pPreBlock[b] = NULL <=> b = m_pBeginBlock[i])
  BY <1>1 DEF Linked, Neighbours
<1>3. FreeBlocks(j)' = FreeBlocks(j) \ {b} /\ S \subseteq FreeBlocks(j)
  BY <1>1 DEF FreeBlocks, IInv, TypeOK
<1>4. Closed(S)
  BY <1>1, <1>3 DEF Closed, FreeBlocks, IInv, TypeOK
<1>5. m_pBeginBlock[j] \in S
  BY <1>3, <1>4 DEF Chained
<1>6. CASE j = i
  BY <1>1, <1>2, <1>3, <1>5, <1>6
<1>7. CASE j # i
  BY <1>1, <1>5, <1>7 DEF IInv, TypeOK
<1>8. QED
  BY <1>6, <1>7

LEMMA FreeToListChained ==
  ASSUME IInv, Chained, NEW i \in AllocatorIndices, NEW b \in UserBlocks(i),
         FreeToList(i, b)
  PROVE  Chained'
<1> SUFFICES ASSUME NEW j \in AllocatorIndices, NEW S \in SUBSET FreeBlocks(j)',
                    S # {}, Closed(S)'
             PROVE  m_pBeginBlock'[j] \in S
  BY DEF Chained
<1> DEFINE first == m_pBeginBlock[i]
<1>1. /\ b \in Blocks /\ owner[b] = "user" /\ m_nBlockSizeType[b] = Slot2BlockBound(i)
      /\ owner' = [owner EXCEPT ![b] = "pool"] /\ UNCHANGED m_nBlockSizeType
      /\ m_pBeginBlock' = [m_pBeginBlock EXCEPT ![i] = b]
      /\ IF first = NULL THEN UNCHANGED m_pPreBlock
         ELSE m_pPreBlock' = [m_pPreBlock EXCEPT ![first] = b]
  BY DEF FreeToList, UserBlocks, links
<1>2. Linked(i) /\ (first # NULL => first \in FreeBlocks(i))
  BY DEF IInv, DoublyLinked, Linked
<1>3. CASE j # i
  <2>1. FreeBlocks(j)' = FreeBlocks(j) /\ first \notin FreeBlocks(j)
    BY <1>1, <1>2, <1>3, OneClass, PoolAssumption DEF FreeBlocks, IInv, TypeOK
  <2>2. \A c \in FreeBlocks(j) : m_pPreBlock'[c] = m_pPreBlock[c]
    BY <1>1, <2>1 DEF FreeBlocks, IInv, TypeOK
  <2>3. QED
    BY <1>1, <1>3, <2>1, <2>2, ChainStable DEF IInv, TypeOK
<1>4. CASE j = i
  <2>1. m_pBeginBlock'[i] = b /\ FreeBlocks(i)' = FreeBlocks(i) \cup {b}
    BY <1>1 DEF FreeBlocks, IInv, TypeOK
  <2>2. SUFFICES ASSUME b \notin S PROVE FALSE
    BY <1>4, <2>1
  <2>3. S \subseteq FreeBlocks(i) /\ S \subseteq Blocks
    BY <1>4, <2>1, <2>2 DEF FreeBlocks
  <2>4. first \notin S
    <3>1. CASE first = NULL
      BY <2>3, <3>1, PoolAssumption
    <3>2. CASE first # NULL
      <4>1. m_pPreBlock'[first] = b /\ b # NULL
        BY <1>1, <1>2, <3>2, PoolAssumption DEF FreeBlocks, IInv, TypeOK
      <4>2. QED
        BY <2>2, <4>1 DEF Closed
    <3>3. QED
      BY <3>1, <3>2
  <2>5. Closed(S)
    BY <1>1, <2>3, <2>4 DEF Closed, IInv, TypeOK
  <2>6. QED
    BY <2>3, <2>4, <2>5 DEF Chained
<1>5. QED
  BY <1>3, <1>4

\* The C heap gives and takes blocks that are in no list.
LEMMA HeapStepChained ==
  ASSUME Chained, NEW b \in Blocks, owner[b] # "pool", owner'[b] # "pool",
         UNCHANGED ends,
         \A c \in Blocks \ {b} : /\ m_pPreBlock'[c] = m_pPreBlock[c]
                                 /\ m_nBlockSizeType'[c] = m_nBlockSizeType[c]
                                 /\ owner'[c] = owner[c]
  PROVE  Chained'
<1>1. ASSUME NEW i \in AllocatorIndices
      PROVE  /\ FreeBlocks(i)' = FreeBlocks(i)
             /\ \A c \in FreeBlocks(i) : m_pPreBlock'[c] = m_pPreBlock[c]
  BY DEF FreeBlocks
<1>2. QED
  BY <1>1, ChainStable DEF ends, Chained

LEMMA NextChained == IInv /\ Chained /\ [Next]_vars => Chained'
<1> SUFFICES ASSUME IInv, Chained, [Next]_vars PROVE Chained'
  OBVIOUS
<1>1. ASSUME NEW nSize \in Requests, Malloc(nSize) PROVE Chained'
  <2>1. PICK b \in Blocks :
          IF ByHeap(nSize) THEN MallocByHeap(b)
          ELSE ~Asserts(nSize) /\ AllocMemory(AllocatorOf(nSize), b)
    BY <1>1 DEF Malloc
  <2>2. CASE MallocByHeap(b)
    BY <2>2, HeapStepChained DEF MallocByHeap, HeapGives, links, IInv, TypeOK
  <2>3. ASSUME NEW i \in AllocatorIndices, AllocFromHeap(i, b) PROVE Chained'
    BY <2>3, HeapStepChained DEF AllocFromHeap, HeapGives, IInv, TypeOK
  <2>4. QED
    BY <2>1, <2>2, <2>3, PoolAssumption, AllocFromListChained DEF AllocMemory
<1>2. ASSUME NEW b \in Blocks, Free(b) PROVE Chained'
  <2> DEFINE i == BlockBound2Slot(m_nBlockSizeType[b])
  <2>1. CASE i >= 0
    <3>1. i \in AllocatorIndices /\ b \in UserBlocks(i) /\ FreeMemory(i, b)
      BY <1>2, <2>1, ClassOfBlock DEF IInv, Free, UserBlocks
    <3>2. CASE FreeToHeap(i, b)
      BY <1>2, <3>2, HeapStepChained
      DEF Free, FreeToHeap, HeapTakes, links, IInv, TypeOK
    <3>3. QED
      BY <3>1, <3>2, FreeToListChained DEF FreeMemory
  <2>2. CASE FreeByHeap(b)
    BY <1>2, <2>2, HeapStepChained DEF Free, FreeByHeap, HeapTakes, links, IInv, TypeOK
  <2>3. QED
    BY <1>2, <2>1, <2>2 DEF Free
<1>3. CASE UNCHANGED vars
  <2>1. \A j : FreeBlocks(j)' = FreeBlocks(j)
    BY <1>3 DEF vars, FreeBlocks
  <2>2. QED
    BY <1>3, <2>1, ChainStable DEF vars, Chained
<1>4. QED
  BY <1>1, <1>2, <1>3 DEF Next

LEMMA ChainInvariance == Spec => [](IInv /\ Chained)
<1>1. Init => Chained
  BY DEF Init, Chained, FreeBlocks
<1>2. QED
  BY <1>1, InitIInv, NextIInv, NextChained, PTL DEF Spec

\* What a walk from m_pBeginBlock has met after n steps: free blocks, one more
\* each step until it has left the last one, with the neighbours of each.
Walked(i, met, n) ==
  /\ met = <<met[1], met[2]>>
  /\ met[1] \in FreeBlocks(i) \cup {NULL} /\ met[2] \subseteq FreeBlocks(i)
  /\ met[1] \notin met[2]
  /\ met[1] # NULL => Cardinality(met[2]) = n
  /\ m_pBeginBlock[i] \in met[2] \cup {met[1]}
  /\ \A b \in met[2] \cup {met[1]} :
       b # NULL => m_pPreBlock[b] \in met[2] \cup {NULL}
  /\ \A b \in met[2] : m_pNextBlock[b] \in met[2] \cup {met[1]}

LEMMA WalkGoesOn ==
  ASSUME IInv, NEW i \in AllocatorIndices, NEW met, NEW n \in Nat,
         Walked(i, met, n)
  PROVE  Walked(i, Onward(met), n + 1)
<1> DEFINE b == met[1]
           next == m_pNextBlock[b]
<1>1. CASE b = NULL
  BY <1>1 DEF Walked, Onward
<1>2. CASE b # NULL
  <2>1. /\ Onward(met) = <<next, met[2] \cup {b}>>
        /\ b \in FreeBlocks(i) /\ b \in Blocks
    BY <1>2 DEF Onward, Walked, FreeBlocks
  <2>2. Neighbours(i, b)
    BY <2>1 DEF IInv, DoublyLinked, Linked
  <2>3. next \in FreeBlocks(i) \cup {NULL} /\ (next # NULL => m_pPreBlock[next] = b)
    BY <2>2 DEF Neighbours
  <2>4. next \notin met[2] \cup {b}
    <3>1. NULL \notin met[2] \cup {b}
      BY <1>2, PoolAssumption DEF Walked, FreeBlocks
    <3>2. ASSUME next # NULL, next \in met[2] \cup {b} PROVE FALSE
      BY <1>2, <2>3, <3>2 DEF Walked
    <3>3. QED
      BY <3>1, <3>2
  <2>5. Cardinality(met[2] \cup {b}) = n + 1
    <3>1. IsFiniteSet(met[2])
      BY BlocksFinite, FS_Subset DEF Walked
    <3>2. QED
      BY <1>2, <3>1, AddOne DEF Walked
  <2>6. \A c \in met[2] \cup {b, next} :
          c # NULL => m_pPreBlock[c] \in met[2] \cup {b, NULL}
    BY <2>3 DEF Walked
  <2>7. Walked(i, <<next, met[2] \cup {b}>>, n + 1)
    BY <2>1, <2>3, <2>4, <2>5, <2>6 DEF Walked
  <2>8. QED
    BY <2>1, <2>7
<1>3. QED
  BY <1>1, <1>2

\* After as many steps as there are blocks the walk has left the last free
\* block; what it has not met would be closed under m_pPreBlock.
LEMMA WalkIsComplete ==
  ASSUME IInv, Chained, NEW i \in AllocatorIndices, NEW met,
         Walked(i, met, Cardinality(Blocks))
  PROVE  met = <<NULL, FreeBlocks(i)>>
<1>1. met[2] \subseteq FreeBlocks(i) /\ FreeBlocks(i) \subseteq Blocks
  BY DEF Walked, FreeBlocks
<1>2. met[1] = NULL
  <2>1. SUFFICES ASSUME met[1] # NULL PROVE FALSE
    OBVIOUS
  <2>2. met[1] \in Blocks \ met[2] /\ Cardinality(met[2]) = Cardinality(Blocks)
    BY <2>1 DEF Walked, FreeBlocks
  <2>3. met[2] = Blocks
    BY <1>1, <2>2, PoolAssumption, FS_Subset
  <2>4. QED
    BY <2>2, <2>3
<1>3. SUFFICES ASSUME FreeBlocks(i) \ met[2] # {} PROVE FALSE
  BY <1>1, <1>2 DEF Walked
<1> DEFINE S == FreeBlocks(i) \ met[2]
<1>4. ASSUME NEW b \in S PROVE m_pPreBlock[b] \in S \cup {NULL}
  <2>1. Neighbours(i, b) /\ b # NULL
    BY PoolAssumption DEF IInv, DoublyLinked, Linked, FreeBlocks
  <2>2. m_pPreBlock[b] \notin met[2]
    BY <1>2, <2>1, PoolAssumption DEF Neighbours, Walked, FreeBlocks
  <2>3. QED
    BY <2>1, <2>2 DEF Neighbours
<1>5. m_pBeginBlock[i] \in S
  BY <1>3, <1>4 DEF Chained, Closed
<1>6. m_pBeginBlock[i] \in met[2]
  BY <1>2, <1>5, PoolAssumption DEF Walked, FreeBlocks
<1>7. QED
  BY <1>5, <1>6

LEMMA FollowIsComplete ==
  ASSUME IInv, Chained, NEW i \in AllocatorIndices
  PROVE  Follow(i) = <<NULL, FreeBlocks(i)>>
<1>1. PICK visit :
        /\ visit[0] = <<m_pBeginBlock[i], {}>>
        /\ \A n \in Nat : visit[n + 1] = Onward(visit[n])
        /\ Follow(i) = visit[Cardinality(Blocks)]
  BY FollowUnfolds DEF IInv
<1> DEFINE S == {n \in Nat : Walked(i, visit[n], n)}
<1>2. 0 \in S
  <2>1. m_pBeginBlock[i] \in FreeBlocks(i) \cup {NULL} /\ Cardinality({}) = 0
    BY FS_EmptySet DEF IInv, DoublyLinked, Linked
  <2>2. m_pBeginBlock[i] # NULL => m_pPreBlock[m_pBeginBlock[i]] = NULL
    BY <2>1 DEF IInv, DoublyLinked, Linked, Neighbours
  <2>3. QED
    BY <1>1, <2>1, <2>2 DEF Walked
<1>3. ASSUME NEW n \in Nat, n \in S PROVE n + 1 \in S
  BY <1>1, <1>3, WalkGoesOn
<1>4. Nat \subseteq S
  <2> HIDE DEF S
  <2>1. QED
    BY <1>2, <1>3, SetInduction
<1>5. Cardinality(Blocks) \in Nat
  BY PoolAssumption, FS_CardinalityType
<1>6. Walked(i, Follow(i), Cardinality(Blocks))
  BY <1>1, <1>4, <1>5
<1>7. QED
  BY <1>6, WalkIsComplete

\* The walk that AllocMemory and FreeMemory leave behind, along m_pNextBlock
\* from m_pBeginBlock, meets every free block of the allocator and no other: no
\* block is lost, and none that a user has can be handed out.
THEOREM ListsAreComplete == Spec => []ListIsComplete
<1>1. IInv /\ Chained => ListIsComplete
  BY FollowIsComplete DEF ListIsComplete
<1>2. QED
  BY <1>1, ChainInvariance, PTL
=============================================================================
