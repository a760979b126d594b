--------------------------- MODULE Memory_proofs ----------------------------
(***************************************************************************)
(* Theorems about what the library keeps in memory: the ManagedArray family, *)
(* for any arrays, blocks, elements and sizes, and PasswordProtectedSecret,  *)
(* for any passwords, secrets and strengths and any number of random values  *)
(* and of stored records.  The two specifications share nothing.             *)
(***************************************************************************)
EXTENDS ManagedArray, PasswordProtectedSecret, SequenceTheorems, FiniteSetTheorems, TLAPS

(***************************************************************************)
(* The ManagedArray family, until operator== has been called for arrays    *)
(* with different pointers: it assigns the pointer, and the block it       *)
(* overwrites is lost.                                                     *)
(***************************************************************************)
ArrayRecord == [ptr : Blocks \cup {null}, cnt : 0..MaxSize, owning : BOOLEAN]

\* Types, function by function.
ArrayShape ==
  /\ DOMAIN arr \subseteq Arrays /\ arr \in [DOMAIN arr -> ArrayRecord]
  /\ DOMAIN heap \subseteq Blocks /\ heap \in [DOMAIN heap -> BlockContents]
  /\ given \subseteq Buffers
  /\ nextBlock \in 1..MaxBlock + 1

\* The allocator has not handed out the next address yet.
Unallocated == \A b \in DOMAIN heap : b \in Buffers \/ b \in 1..nextBlock - 1

\* The buffers of the caller are there until it gives them away.
Lent == Buffers \ given
LentExist == Lent \subseteq DOMAIN heap

\* An array knows its block, and owns it unless the caller does.
PointersFit ==
  \A o \in Alive :
    IF arr[o].ptr = null
      THEN arr[o].cnt = 0
      ELSE /\ arr[o].ptr \in DOMAIN heap
           /\ arr[o].cnt = Len(heap[arr[o].ptr])
           /\ arr[o].owning <=> arr[o].ptr \notin Lent

Owns(o, b) == o \in Alive /\ arr[o].owning /\ arr[o].ptr = b

OwnersDiffer ==
  \A b \in Blocks : \A o, p \in Arrays : Owns(o, b) /\ Owns(p, b) => o = p

NothingLeaks == \A b \in DOMAIN heap \ Lent : \E o \in Arrays : Owns(o, b)

ArrayIInv ==
  /\ ArrayShape /\ Unallocated /\ LentExist
  /\ PointersFit /\ OwnersDiffer /\ NothingLeaks

-----------------------------------------------------------------------------
\* The contents of a block: a sequence of at most MaxSize elements.
LEMMA ContentsAreShort ==
  \A c : c \in BlockContents <=> c \in Seq(Elements) /\ Len(c) \in 0..MaxSize
<1>1. MaxSize \in Nat
  BY ArrayAssumption
<1>2. ASSUME NEW c \in BlockContents PROVE c \in Seq(Elements) /\ Len(c) \in 0..MaxSize
  <2>1. PICK n \in 0..MaxSize : c \in [1..n -> Elements]
    BY DEF BlockContents
  <2>2. c \in Seq(Elements)
    BY <1>1, <2>1, SeqDef
  <2>3. Len(c) = n
    BY <1>1, <2>1, <2>2
  <2> QED
    BY <2>2, <2>3
<1>3. ASSUME NEW c \in Seq(Elements), Len(c) \in 0..MaxSize PROVE c \in BlockContents
  <2>1. c \in [1..Len(c) -> Elements]
    OBVIOUS
  <2> QED
    BY <1>3, <2>1 DEF BlockContents
<1> QED
  BY <1>2, <1>3

\* Addresses: the allocator hands out numbers, the caller names, and null is neither.
LEMMA AddressFacts ==
  /\ MaxSize \in Nat \ {0} /\ MaxBlock \in Nat
  /\ null \notin Blocks
  /\ \A i \in 1..MaxBlock : i \in Blocks /\ i \notin Buffers
BY ArrayAssumption DEF Blocks, null

\* What is left of the heap when array o, if it is alive, has given up its
\* block.
Left(o) == IF o \in Alive THEN Released(o) ELSE heap

\* Giving up a block removes it and no other from the heap.
LEMMA LeftFacts ==
  ASSUME ArrayIInv, NEW o \in Arrays
  PROVE  /\ Left(o) \in [DOMAIN Left(o) -> BlockContents]
         /\ DOMAIN Left(o) \subseteq DOMAIN heap
         /\ \A b \in DOMAIN Left(o) : Left(o)[b] = heap[b]
         /\ \A b \in DOMAIN heap : b \in DOMAIN Left(o) <=> ~Owns(o, b)
<1>1. CASE o \in Alive /\ arr[o].owning /\ arr[o].ptr # null
  BY <1>1 DEF Left, Released, Owns, ArrayIInv, ArrayShape
<1>2. CASE ~(o \in Alive /\ arr[o].owning /\ arr[o].ptr # null)
  <2>1. Left(o) = heap
    BY <1>2 DEF Left, Released
  <2>2. \A b \in DOMAIN heap : ~Owns(o, b)
    BY <1>2, AddressFacts DEF Owns, ArrayIInv, ArrayShape
  <2> QED
    BY <2>1, <2>2 DEF ArrayIInv, ArrayShape
<1> QED
  BY <1>1, <1>2

HoldsNothing(o) == o \in Alive => arr[o].ptr = null /\ arr[o].cnt = 0

\* A step that concerns no array but o.
OthersStay(o) ==
  /\ arr' \in [DOMAIN arr' -> ArrayRecord]
  /\ DOMAIN arr' \cup {o} = DOMAIN arr \cup {o}
  /\ \A p \in DOMAIN arr \ {o} : arr'[p] = arr[p]

\* An array gives up the block it had and is empty or destroyed, or is made
\* without one.
LEMMA EmptiedInv ==
  ASSUME ArrayIInv, NEW o \in Arrays, HoldsNothing(o)', OthersStay(o),
         heap' = Left(o), UNCHANGED <<given, nextBlock>>
  PROVE  ArrayIInv'
<1>1. /\ DOMAIN arr' \cup {o} = DOMAIN arr \cup {o}
      /\ \A p \in DOMAIN arr \ {o} : arr'[p] = arr[p]
      /\ arr' \in [DOMAIN arr' -> ArrayRecord] /\ DOMAIN arr' \subseteq Arrays
      /\ o \in DOMAIN arr' => arr'[o].ptr = null /\ arr'[o].cnt = 0
  BY DEF HoldsNothing, OthersStay, Alive, ArrayIInv, ArrayShape
<1>2. Lent' = Lent
  BY DEF Lent
<1>3. ArrayShape'
  <2>1. heap' \in [DOMAIN heap' -> BlockContents] /\ DOMAIN heap' \subseteq Blocks
    BY LeftFacts DEF ArrayIInv, ArrayShape
  <2> QED
    BY <1>1, <2>1 DEF ArrayIInv, ArrayShape, BlockContents, ArrayRecord, Blocks
<1>4. Unallocated' /\ LentExist'
  <2>1. Unallocated'
    BY LeftFacts DEF Unallocated, ArrayIInv
  <2>2. \A b \in Lent : ~Owns(o, b)
    BY AddressFacts DEF ArrayIInv, ArrayShape, PointersFit, Owns, Alive, Blocks, Lent
  <2> QED
    BY <1>2, <2>1, <2>2, LeftFacts DEF LentExist, ArrayIInv
<1>5. PointersFit'
  <2> SUFFICES ASSUME NEW p \in DOMAIN arr \ {o}, arr[p].ptr # null
               PROVE  /\ arr[p].ptr \in DOMAIN Left(o)
                      /\ arr[p].cnt = Len(Left(o)[arr[p].ptr])
                      /\ arr[p].owning <=> arr[p].ptr \notin Lent
    <3>1. ASSUME NEW p \in DOMAIN arr', p # o
          PROVE  p \in DOMAIN arr \ {o} /\ arr'[p] = arr[p]
      BY <1>1, <3>1
    <3>2. \A p \in DOMAIN arr \ {o} : arr[p].ptr = null => arr[p].cnt = 0
      BY DEF PointersFit, Alive, ArrayIInv
    <3> QED
      BY <1>1, <1>2, <3>1, <3>2 DEF PointersFit, Alive
  <2>1. /\ arr[p].ptr \in DOMAIN heap
        /\ arr[p].cnt = Len(heap[arr[p].ptr])
        /\ arr[p].owning <=> arr[p].ptr \notin Lent
    BY DEF PointersFit, Alive, ArrayIInv
  <2>2. ~Owns(o, arr[p].ptr)
    BY <2>1 DEF PointersFit, OwnersDiffer, Owns, Alive, ArrayIInv, ArrayShape
  <2> QED
    BY <2>1, <2>2, LeftFacts
<1>6. \A p \in Arrays, b \in Blocks : Owns(p, b)' <=> p # o /\ Owns(p, b)
  BY <1>1, AddressFacts DEF Owns, Alive
<1>7. OwnersDiffer'
  BY <1>6 DEF OwnersDiffer, ArrayIInv, Blocks
<1>8. NothingLeaks'
  <2>1. \A b \in DOMAIN Left(o) : b \in Blocks /\ b \in DOMAIN heap /\ ~Owns(o, b)
    BY LeftFacts DEF ArrayIInv, ArrayShape
  <2> QED
    BY <1>2, <1>6, <2>1 DEF NothingLeaks, ArrayIInv
<1> QED
  BY <1>3, <1>4, <1>5, <1>7, <1>8 DEF ArrayIInv

\* An array gets a block of its own and gives up the one it had.
LEMMA FreshInv ==
  ASSUME ArrayIInv, NEW o \in Arrays, NEW content \in BlockContents,
         Fresh(o, Left(o), content), UNCHANGED given
  PROVE  ArrayIInv'
<1> USE DEF Lent
<1>0. content \in Seq(Elements) /\ Len(content) \in 0..MaxSize
  BY ContentsAreShort
<1>1. CASE content = <<>>
  <2>1. arr' = With(arr, o, Empty) /\ heap' = Left(o) /\ nextBlock' = nextBlock
    BY <1>1 DEF Fresh
  <2>2. Empty \in ArrayRecord /\ Empty.ptr = null /\ Empty.cnt = 0
    BY AddressFacts DEF Empty, ArrayRecord
  <2>3. HoldsNothing(o)' /\ OthersStay(o)
    BY <2>1, <2>2 DEF HoldsNothing, OthersStay, With, Alive, ArrayIInv, ArrayShape
  <2> QED
    BY <2>1, <2>3, EmptiedInv
<1>2. CASE content # <<>>
  <2> DEFINE new == [ptr |-> nextBlock, cnt |-> Len(content), owning |-> TRUE]
  <2>1. /\ arr' = With(arr, o, new) /\ heap' = With(Left(o), nextBlock, content)
        /\ nextBlock' = nextBlock + 1 /\ nextBlock <= MaxBlock
    BY <1>2 DEF Fresh
  <2>2. nextBlock \in Blocks /\ nextBlock \notin Buffers /\ nextBlock \notin DOMAIN heap
    BY <2>1, AddressFacts DEF ArrayIInv, ArrayShape, Unallocated
  <2>3. /\ DOMAIN arr' = DOMAIN arr \cup {o}
        /\ arr'[o] = new /\ \A p \in DOMAIN arr \ {o} : arr'[p] = arr[p]
        /\ new \in ArrayRecord
    BY <1>0, <2>1, <2>2 DEF With, ArrayRecord
  <2>4. /\ DOMAIN heap' = DOMAIN Left(o) \cup {nextBlock}
        /\ heap'[nextBlock] = content
        /\ \A b \in DOMAIN Left(o) : heap'[b] = heap[b]
    BY <2>1, <2>2, LeftFacts DEF With
  <2>5. ArrayShape'
    BY <2>1, <2>2, <2>3, <2>4, LeftFacts, AddressFacts DEF With, ArrayIInv, ArrayShape, ArrayRecord, Blocks, BlockContents
  <2>6. Unallocated' /\ LentExist'
    BY <2>1, <2>4, LeftFacts, AddressFacts DEF Unallocated, LentExist, ArrayIInv, ArrayShape, Owns, PointersFit
  <2>7. PointersFit'
    BY <2>2, <2>3, <2>4, LeftFacts, AddressFacts DEF PointersFit, ArrayIInv, ArrayShape, Owns, OwnersDiffer, Alive
  <2>8. OwnersDiffer' /\ NothingLeaks'
    BY <2>2, <2>3, <2>4, LeftFacts, AddressFacts DEF NothingLeaks, ArrayIInv, ArrayShape, PointersFit, Owns, OwnersDiffer, Alive
  <2> QED
    BY <2>5, <2>6, <2>7, <2>8 DEF ArrayIInv
<1> QED
  BY <1>1, <1>2

\* An array takes the block of another one over.
LEMMA MovedInv ==
  ASSUME ArrayIInv, NEW o \in Arrays, NEW p \in Alive, o # p,
         arr' = MovedFrom(o, p), heap' = Left(o), UNCHANGED <<given, nextBlock>>
  PROVE  ArrayIInv'
<1> DEFINE taken == IF arr[p].ptr = null THEN Empty ELSE arr[p]
<1>1. /\ DOMAIN arr' = DOMAIN arr \cup {o}
      /\ arr'[o] = taken /\ arr'[p] = Empty
      /\ \A q \in DOMAIN arr \ {o, p} : arr'[q] = arr[q]
      /\ p \in Arrays
  BY DEF MovedFrom, With, ArrayIInv, ArrayShape, Alive
<1>2. Empty \in ArrayRecord /\ taken \in ArrayRecord
  BY AddressFacts DEF Empty, ArrayRecord, ArrayIInv, ArrayShape, Alive
<1>3. Lent' = Lent
  BY DEF Lent
<1>4. ArrayShape'
  <2>1. heap' \in [DOMAIN heap' -> BlockContents] /\ DOMAIN heap' \subseteq Blocks
    BY LeftFacts DEF ArrayIInv, ArrayShape
  <2>2. arr' \in [DOMAIN arr' -> ArrayRecord] /\ DOMAIN arr' \subseteq Arrays
    BY <1>1, <1>2 DEF MovedFrom, With, ArrayIInv, ArrayShape
  <2> QED
    BY <2>1, <2>2 DEF ArrayIInv, ArrayShape, BlockContents, ArrayRecord, Blocks
<1>5. Unallocated' /\ LentExist'
  <2>1. Unallocated'
    BY LeftFacts DEF Unallocated, ArrayIInv
  <2>2. \A b \in Lent : ~Owns(o, b)
    BY AddressFacts DEF ArrayIInv, ArrayShape, PointersFit, Owns, Alive, Blocks, Lent
  <2> QED
    BY <1>3, <2>1, <2>2, LeftFacts DEF LentExist, ArrayIInv
\* What held of the pointer of an array still holds, unless it was that of o.
<1>6. ASSUME NEW q \in DOMAIN arr, q # o, arr[q].ptr # null
      PROVE  /\ arr[q].ptr \in DOMAIN heap'
             /\ arr[q].cnt = Len(heap'[arr[q].ptr])
             /\ arr[q].owning <=> arr[q].ptr \notin Lent
  <2>1. /\ arr[q].ptr \in DOMAIN heap
        /\ arr[q].cnt = Len(heap[arr[q].ptr])
        /\ arr[q].owning <=> arr[q].ptr \notin Lent
    BY <1>6 DEF PointersFit, Alive, ArrayIInv
  <2>2. ~Owns(o, arr[q].ptr)
    BY <1>6, <2>1 DEF PointersFit, OwnersDiffer, Owns, Alive, ArrayIInv, ArrayShape
  <2> QED
    BY <2>1, <2>2, LeftFacts
<1>7. PointersFit'
  <2> SUFFICES ASSUME NEW q \in DOMAIN arr', arr'[q].ptr # null \/ arr'[q].cnt # 0
               PROVE  /\ arr'[q].ptr # null /\ arr'[q].ptr \in DOMAIN heap'
                      /\ arr'[q].cnt = Len(heap'[arr'[q].ptr])
                      /\ arr'[q].owning <=> arr'[q].ptr \notin Lent
    BY <1>3 DEF PointersFit, Alive
  <2>1. (arr[p].ptr # null /\ arr'[q] = arr[p]) \/ q \in DOMAIN arr \ {o, p}
    BY <1>1 DEF Empty
  <2>2. \A r \in DOMAIN arr : arr[r].ptr = null => arr[r].cnt = 0
    BY DEF PointersFit, Alive, ArrayIInv
  <2>3. CASE arr[p].ptr # null /\ arr'[q] = arr[p]
    BY <1>6, <2>3 DEF Alive
  <2>4. CASE q \in DOMAIN arr \ {o, p}
    BY <1>1, <1>6, <2>2, <2>4
  <2> QED
    BY <2>1, <2>3, <2>4
<1>8. \A q \in Arrays, b \in Blocks :
        Owns(q, b)' <=> IF q = o THEN Owns(p, b) ELSE q # p /\ Owns(q, b)
  BY <1>1, AddressFacts DEF Owns, Alive, Empty
<1>9. OwnersDiffer'
  BY <1>1, <1>8 DEF OwnersDiffer, ArrayIInv, Blocks
<1>10. NothingLeaks'
  <2>1. \A b \in DOMAIN Left(o) : b \in Blocks /\ b \in DOMAIN heap /\ ~Owns(o, b)
    BY LeftFacts DEF ArrayIInv, ArrayShape
  <2> QED
    BY <1>1, <1>3, <1>8, <2>1 DEF NothingLeaks, ArrayIInv
<1> QED
  BY <1>4, <1>5, <1>7, <1>9, <1>10 DEF ArrayIInv

\* Elements are written, in blocks that keep their sizes.
LEMMA WrittenInv ==
  ASSUME ArrayIInv, UNCHANGED <<arr, given, nextBlock>>, DOMAIN heap' = DOMAIN heap,
         heap' \in [DOMAIN heap -> BlockContents],
         \A b \in DOMAIN heap : Len(heap'[b]) = Len(heap[b])
  PROVE  ArrayIInv'
BY DEF ArrayIInv, ArrayShape, Unallocated, Lent, LentExist, PointersFit, OwnersDiffer,
       NothingLeaks, Owns, Alive, BlockContents, ArrayRecord, Blocks

\* An array is put on a buffer of the caller, who may give it away.
LEMMA ConstructOnInv ==
  ASSUME ArrayIInv, NEW o \in Arrays, NEW b \in Buffers, NEW own \in BOOLEAN,
         ConstructOn(o, b, own)
  PROVE  ArrayIInv'
<1> DEFINE new == [ptr |-> b, cnt |-> Len(heap[b]), owning |-> own]
<1>1. /\ o \notin Alive /\ b \in Lent /\ b \in Blocks /\ b # null
      /\ own => \A p \in Alive : arr[p].ptr # b
      /\ heap' = heap /\ nextBlock' = nextBlock
      /\ Lent' = IF own THEN Lent \ {b} ELSE Lent
  BY AddressFacts DEF ConstructOn, Lent, Blocks
<1>2. b \in DOMAIN heap /\ Len(heap[b]) \in 0..MaxSize
  BY <1>1, ContentsAreShort DEF ArrayIInv, ArrayShape, LentExist
<1>3. /\ DOMAIN arr' = DOMAIN arr \cup {o} /\ o \notin DOMAIN arr
      /\ arr'[o] = new /\ new \in ArrayRecord
      /\ \A p \in DOMAIN arr : arr'[p] = arr[p]
  BY <1>1, <1>2 DEF ConstructOn, With, ArrayRecord, Alive
<1>4. ArrayShape'
  <2>1. arr' \in [DOMAIN arr' -> ArrayRecord] /\ DOMAIN arr' \subseteq Arrays
    BY <1>1, <1>3 DEF ConstructOn, With, ArrayIInv, ArrayShape
  <2>2. given' \subseteq Buffers
    BY DEF ConstructOn, ArrayIInv, ArrayShape
  <2> QED
    BY <1>1, <2>1, <2>2 DEF ArrayIInv, ArrayShape, BlockContents, ArrayRecord, Blocks
<1>5. Unallocated' /\ LentExist'
  BY <1>1 DEF ArrayIInv, Unallocated, LentExist
<1>6. PointersFit'
  <2>1. ASSUME NEW p \in DOMAIN arr
        PROVE  IF arr[p].ptr = null THEN arr[p].cnt = 0
               ELSE /\ arr[p].ptr \in DOMAIN heap
                    /\ arr[p].cnt = Len(heap[arr[p].ptr])
                    /\ arr[p].owning <=> arr[p].ptr \notin Lent'
    BY <1>1 DEF PointersFit, Alive, ArrayIInv
  <2>2. b \in DOMAIN heap' /\ new.cnt = Len(heap'[b]) /\ (own <=> b \notin Lent')
    BY <1>1, <1>2
  <2> QED
    BY <1>1, <1>3, <2>1, <2>2 DEF PointersFit, Alive
<1>7. \A p \in Arrays, a \in Blocks :
        Owns(p, a)' <=> Owns(p, a) \/ (p = o /\ own /\ a = b)
  <2> SUFFICES ASSUME NEW p \in Arrays, NEW a \in Blocks
               PROVE  Owns(p, a)' <=> Owns(p, a) \/ (p = o /\ own /\ a = b)
    OBVIOUS
  <2>1. CASE p = o
    <3>1. Owns(o, a)' <=> new.owning /\ new.ptr = a
      BY <1>3 DEF Owns, Alive
    <3>2. ~Owns(o, a)
      BY <1>1 DEF Owns
    <3> QED
      BY <2>1, <3>1, <3>2
  <2>2. CASE p # o
    BY <1>3, <2>2 DEF Owns, Alive
  <2> QED
    BY <2>1, <2>2
<1>8. \A p \in Arrays : ~Owns(p, b)
  BY <1>1 DEF Owns, Alive, PointersFit, ArrayIInv
<1>9. OwnersDiffer'
  BY <1>7, <1>8 DEF OwnersDiffer, ArrayIInv, Blocks
<1>10. NothingLeaks'
  <2> SUFFICES ASSUME NEW a \in DOMAIN heap \ Lent'
               PROVE  \E p \in Arrays : Owns(p, a)'
    BY <1>1 DEF NothingLeaks
  <2>1. a \in Blocks
    BY DEF ArrayIInv, ArrayShape
  <2>2. CASE a \in Lent
    BY <1>1, <1>7, <2>1, <2>2
  <2>3. CASE a \notin Lent
    BY <1>7, <2>1, <2>3 DEF NothingLeaks, ArrayIInv
  <2> QED
    BY <2>2, <2>3
<1> QED
  BY <1>4, <1>5, <1>6, <1>9, <1>10 DEF ArrayIInv

-----------------------------------------------------------------------------
\* The elements of an array are those of its block, none without one.
LEMMA ContentIsContent ==
  ASSUME ArrayIInv, NEW o \in Alive
  PROVE  /\ ContentOf(o) \in BlockContents /\ Len(ContentOf(o)) = arr[o].cnt
         /\ arr[o].ptr # null => ContentOf(o) = heap[arr[o].ptr]
<1>1. CASE arr[o].ptr = null
  <2>1. <<>> \in BlockContents /\ Len(<<>>) = 0
    <3>1. <<>> \in Seq(Elements) /\ Len(<<>>) = 0
      BY EmptySeq
    <3>2. 0 \in 0..MaxSize
      BY AddressFacts
    <3> QED
      BY <3>1, <3>2, ContentsAreShort
  <2> QED
    BY <1>1, <2>1 DEF ContentOf, ArrayIInv, PointersFit
<1>2. CASE arr[o].ptr # null
  BY <1>2 DEF ContentOf, ArrayIInv, PointersFit, ArrayShape
<1> QED
  BY <1>1, <1>2

\* Memory of a new block holds some element.
LEMMA ZeroIsElement == Zero \in Elements
BY ArrayAssumption DEF Zero

\* A function on 1..n is a content of n elements.
LEMMA ArrayFunctionIsContent ==
  ASSUME NEW n \in 0..MaxSize, NEW c \in [1..n -> Elements]
  PROVE  c \in BlockContents /\ Len(c) = n
<1>1. c \in BlockContents
  BY DEF BlockContents
<1>2. c \in Seq(Elements)
  BY <1>1, ContentsAreShort
<1> QED
  BY <1>1, <1>2, AddressFacts

\* operator[] and copyOver() write elements to blocks that keep their sizes.
LEMMA WriteKeepsSizes ==
  ASSUME ArrayIInv, NEW o \in Arrays, NEW i \in 1..MaxSize, NEW x \in Elements, Write(o, i, x)
  PROVE  /\ UNCHANGED <<arr, given, nextBlock>> /\ DOMAIN heap' = DOMAIN heap
         /\ heap' \in [DOMAIN heap -> BlockContents]
         /\ \A b \in DOMAIN heap : Len(heap'[b]) = Len(heap[b])
<1> DEFINE b == arr[o].ptr
<1>1. o \in Alive /\ i \in 1..arr[o].cnt /\ heap' = [heap EXCEPT ![b][i] = x]
      /\ UNCHANGED <<arr, given, nextBlock>>
  BY DEF Write
<1>2. b \in DOMAIN heap /\ Len(heap[b]) = arr[o].cnt
  BY <1>1 DEF ArrayIInv, PointersFit
<1>3. heap[b] \in Seq(Elements) /\ Len(heap[b]) \in 0..MaxSize
  BY <1>2, ContentsAreShort DEF ArrayIInv, ArrayShape
<1>4. [heap[b] EXCEPT ![i] = x] \in BlockContents /\ Len([heap[b] EXCEPT ![i] = x]) = Len(heap[b])
  <2>0. heap[b] \in [1..Len(heap[b]) -> Elements]
    BY <1>3
  <2>1. [heap[b] EXCEPT ![i] = x] \in [1..Len(heap[b]) -> Elements]
    BY <2>0
  <2> QED
    BY <1>3, <2>1, ArrayFunctionIsContent
<1> QED
  BY <1>1, <1>2, <1>4 DEF ArrayIInv, ArrayShape

\* copyOver() writes within the block of the target, whatever both arrays hold.
LEMMA CopyOverKeepsSizes ==
  ASSUME ArrayIInv, NEW o \in Arrays, NEW p \in Arrays, NEW first \in 0..MaxSize - 1,
         CopyOver(o, p, first)
  PROVE  /\ UNCHANGED <<arr, given, nextBlock>> /\ DOMAIN heap' = DOMAIN heap
         /\ heap' \in [DOMAIN heap -> BlockContents]
         /\ \A b \in DOMAIN heap : Len(heap'[b]) = Len(heap[b])
<1> DEFINE b == arr[o].ptr
           c == arr[p].ptr
           new == [i \in DOMAIN heap[b] |-> IF i \in first + 1..first + arr[p].cnt
                                             THEN heap[c][i - first] ELSE heap[b][i]]
<1>1. o \in Alive /\ p \in Alive /\ arr[p].cnt # 0 /\ first + arr[p].cnt <= arr[o].cnt
      /\ heap' = [heap EXCEPT ![b] = new] /\ UNCHANGED <<arr, given, nextBlock>>
  BY DEF CopyOver
<1>2. arr[o].cnt \in 0..MaxSize /\ arr[p].cnt \in 0..MaxSize /\ arr[o].cnt # 0
  BY <1>1, AddressFacts DEF ArrayIInv, ArrayShape, ArrayRecord, Alive
<1>3. /\ b \in DOMAIN heap /\ Len(heap[b]) = arr[o].cnt
      /\ c \in DOMAIN heap /\ Len(heap[c]) = arr[p].cnt
  BY <1>1, <1>2 DEF ArrayIInv, PointersFit
<1>4. heap[b] \in Seq(Elements) /\ heap[c] \in Seq(Elements)
  BY <1>3, ContentsAreShort DEF ArrayIInv, ArrayShape
<1>5. \A i \in first + 1..first + arr[p].cnt : i - first \in 1..Len(heap[c])
  BY <1>2, <1>3, AddressFacts
<1>6. new \in [1..arr[o].cnt -> Elements]
  BY <1>3, <1>4, <1>5
<1>7. new \in BlockContents /\ Len(new) = Len(heap[b])
  BY <1>2, <1>3, <1>6, ArrayFunctionIsContent
<1> HIDE DEF new
<1> QED
  BY <1>1, <1>3, <1>7 DEF ArrayIInv, ArrayShape

\* No array, and the buffers of the caller on the heap.
LEMMA ArrayInitInv == ArrayInit => ArrayIInv
<1> SUFFICES ASSUME ArrayInit PROVE ArrayIInv
  OBVIOUS
<1>1. DOMAIN arr = {} /\ arr \in [{} -> ArrayRecord]
  BY DEF ArrayInit
<1>2. MaxSize \in 0..MaxSize /\ Buffers \subseteq Blocks
  BY AddressFacts DEF Blocks
<1>3. heap \in [Buffers -> BlockContents] /\ given = {} /\ nextBlock = 1
  BY <1>2, ArrayFunctionIsContent DEF ArrayInit
<1> QED
  BY <1>1, <1>2, <1>3, AddressFacts
  DEF ArrayIInv, ArrayShape, Unallocated, LentExist, Lent, PointersFit, OwnersDiffer,
      NothingLeaks, Owns, Alive

\* What resize() fills the new block with.
LEMMA ResizedIsContent ==
  ASSUME ArrayIInv, NEW o \in Alive, NEW n \in 0..MaxSize
  PROVE  [i \in 1..n |-> IF i <= arr[o].cnt THEN heap[arr[o].ptr][i] ELSE Zero]
           \in [1..n -> Elements]
<1>1. ASSUME NEW i \in 1..n, i <= arr[o].cnt PROVE heap[arr[o].ptr][i] \in Elements
  <2>1. arr[o].ptr # null /\ heap[arr[o].ptr] \in Seq(Elements)
        /\ Len(heap[arr[o].ptr]) = arr[o].cnt
    BY <1>1, ContentsAreShort DEF ArrayIInv, ArrayShape, PointersFit
  <2> QED
    BY <1>1, <2>1
<1> QED
  BY <1>1, ZeroIsElement

\* The operations after which an array holds nothing, or is gone.
LEMMA GivingUp ==
  ASSUME ArrayIInv, NEW o \in Arrays, NEW p \in Arrays,
         AssignToSelf(o) \/ CopyAssignFails(o, p) \/ ReleaseMemory(o) \/ Destroy(o)
  PROVE  /\ heap' = Left(o) /\ HoldsNothing(o)' /\ OthersStay(o)
         /\ o \in DOMAIN arr' <=> ~Destroy(o)
         /\ UNCHANGED <<given, nextBlock>>
<1>1. o \in Alive /\ heap' = Left(o) /\ UNCHANGED <<given, nextBlock>>
  BY DEF AssignToSelf, CopyAssignFails, ReleaseMemory, Destroy, Left
<1>2. CASE AssignToSelf(o) \/ CopyAssignFails(o, p)
  <2>1. arr' = With(arr, o, Empty)
    BY <1>2 DEF AssignToSelf, CopyAssignFails
  <2>2. Empty \in ArrayRecord
    BY AddressFacts DEF Empty, ArrayRecord
  <2>3. HoldsNothing(o)' /\ OthersStay(o) /\ o \in DOMAIN arr'
    BY <1>1, <2>1, <2>2 DEF HoldsNothing, OthersStay, With, Alive, ArrayIInv, ArrayShape, Empty
  <2>4. ~Destroy(o)
    BY <2>3 DEF Destroy
  <2> QED
    BY <1>1, <2>3, <2>4
<1>3. CASE ReleaseMemory(o)
  <2>1. arr' = [arr EXCEPT ![o].ptr = null, ![o].cnt = 0]
    BY <1>3 DEF ReleaseMemory
  <2>2. arr'[o] = [arr[o] EXCEPT !.ptr = null, !.cnt = 0] /\ DOMAIN arr' = DOMAIN arr
    BY <1>1, <2>1 DEF Alive, ArrayIInv, ArrayShape
  <2>3. arr[o] \in ArrayRecord
    BY <1>1 DEF Alive, ArrayIInv, ArrayShape
  <2>4. arr'[o] \in ArrayRecord /\ arr'[o].ptr = null /\ arr'[o].cnt = 0
    <3> DEFINE r == arr[o]
               s == [r EXCEPT !.ptr = null]
    <3>1. s \in ArrayRecord /\ s.ptr = null
      BY <2>3 DEF ArrayRecord
    <3>2. 0 \in 0..MaxSize /\ arr'[o] = [s EXCEPT !.cnt = 0]
      BY <2>2, AddressFacts
    <3> HIDE DEF s
    <3> QED
      BY <3>1, <3>2 DEF ArrayRecord
  <2>5. HoldsNothing(o)' /\ OthersStay(o) /\ o \in DOMAIN arr'
    BY <1>1, <2>1, <2>2, <2>4 DEF HoldsNothing, OthersStay, Alive, ArrayIInv, ArrayShape
  <2>6. ~Destroy(o)
    BY <2>5 DEF Destroy
  <2> QED
    BY <1>1, <2>5, <2>6
<1>4. CASE Destroy(o)
  <2>1. arr' = [q \in Alive \ {o} |-> arr[q]]
    BY <1>4 DEF Destroy
  <2>2. HoldsNothing(o)' /\ OthersStay(o) /\ o \notin DOMAIN arr'
    BY <1>1, <2>1 DEF HoldsNothing, OthersStay, Alive, ArrayIInv, ArrayShape
  <2> QED
    BY <1>1, <1>4, <2>2
<1> QED
  BY <1>2, <1>3, <1>4

\* operator== of arrays that share a pointer.
LEMMA CompareChangesNothing ==
  ASSUME ArrayIInv, NEW o \in Arrays, NEW p \in Arrays, Compare(o, p), ~overwritten'
  PROVE  UNCHANGED <<arr, heap, given, nextBlock>>
<1>1. /\ arr[o].ptr = arr[p].ptr /\ arr' = [arr EXCEPT ![o].ptr = arr[p].ptr]
      /\ o \in Alive /\ UNCHANGED <<heap, given, nextBlock>>
  BY DEF Compare
<1>2. arr[o] \in ArrayRecord /\ arr \in [DOMAIN arr -> ArrayRecord]
  BY <1>1 DEF ArrayIInv, ArrayShape, Alive
<1>3. [arr[o] EXCEPT !.ptr = arr[o].ptr] = arr[o]
  BY <1>2 DEF ArrayRecord
<1> QED
  BY <1>1, <1>2, <1>3

\* Every operation of every array keeps the invariant, until a pointer is overwritten.
LEMMA ArrayStep ==
  ArrayIInv /\ [ArrayNext]_arrayVars /\ ~overwritten' => ArrayIInv'
<1> SUFFICES ASSUME ArrayIInv, [ArrayNext]_arrayVars, ~overwritten' PROVE ArrayIInv'
  OBVIOUS
<1>1. ASSUME NEW o \in Arrays, NEW n \in 0..MaxSize, CreateArray(o, n, Zero)
      PROVE  ArrayIInv'
  <2>1. [i \in 1..n |-> Zero] \in BlockContents
    BY ZeroIsElement, ArrayFunctionIsContent
  <2> QED
    BY <1>1, <2>1, FreshInv DEF CreateArray, Left
<1>2. ASSUME NEW o \in Arrays, NEW n \in 0..MaxSize, Resize(o, n, Zero)
      PROVE  ArrayIInv'
  <2> DEFINE content ==
        [i \in 1..n |-> IF i <= arr[o].cnt THEN heap[arr[o].ptr][i] ELSE Zero]
  <2>1. o \in Alive /\ Left(o) = Released(o)
    BY <1>2 DEF Resize, Left
  <2>3. content \in BlockContents
    BY <2>1, ResizedIsContent, ArrayFunctionIsContent
  <2>4. Fresh(o, Left(o), content) /\ UNCHANGED given
    BY <1>2, <2>1 DEF Resize
  <2> QED
    BY <2>3, <2>4, FreshInv
<1>3. ASSUME NEW o \in Arrays, NEW b \in Buffers, NEW own \in BOOLEAN, ConstructOn(o, b, own)
      PROVE  ArrayIInv'
  BY <1>3, ConstructOnInv
<1>4. ASSUME NEW o \in Arrays, NEW p \in Arrays,
             AssignToSelf(o) \/ CopyAssignFails(o, p) \/ ReleaseMemory(o) \/ Destroy(o)
      PROVE  ArrayIInv'
  BY <1>4, GivingUp, EmptiedInv
<1>5. ASSUME NEW o \in Arrays, NEW p \in Arrays, CopyConstruct(o, p) \/ CopyAssign(o, p)
      PROVE  ArrayIInv'
  <2>1. p \in Alive /\ Fresh(o, Left(o), ContentOf(p)) /\ UNCHANGED given
    BY <1>5 DEF CopyConstruct, CopyAssign, FreshCopy, Left
  <2> QED
    BY <2>1, ContentIsContent, FreshInv
<1>6. ASSUME NEW o \in Arrays, NEW p \in Arrays, MoveConstruct(o, p) \/ MoveAssign(o, p)
      PROVE  ArrayIInv'
  <2>1. /\ p \in Alive /\ o # p /\ arr' = MovedFrom(o, p) /\ heap' = Left(o)
        /\ UNCHANGED <<given, nextBlock>>
    BY <1>6 DEF MoveConstruct, MoveAssign, Left
  <2> QED
    BY <2>1, MovedInv
<1>7. ASSUME NEW o \in Arrays, NEW i \in 1..MaxSize, NEW x \in Elements, Write(o, i, x)
      PROVE  ArrayIInv'
  BY <1>7, WriteKeepsSizes, WrittenInv
<1>8. ASSUME NEW o \in Arrays, NEW p \in Arrays, NEW first \in 0..MaxSize - 1,
             CopyOver(o, p, first)
      PROVE  ArrayIInv'
  BY <1>8, CopyOverKeepsSizes, WrittenInv
<1>9. ASSUME NEW o \in Arrays, NEW p \in Arrays, Compare(o, p)
      PROVE  ArrayIInv'
  <2>1. UNCHANGED <<arr, heap, given, nextBlock>>
    BY <1>9, CompareChangesNothing
  <2> QED
    BY <2>1, WrittenInv DEF ArrayIInv, ArrayShape
<1>10. ASSUME \/ UNCHANGED arrayVars
             \/ \E o \in Arrays : ConstructFails(o) \/ \E n \in 0..MaxSize : ResizeFails(o, n)
      PROVE  ArrayIInv'
  <2>1. UNCHANGED <<arr, heap, given, nextBlock>>
    BY <1>10 DEF arrayVars, ConstructFails, ResizeFails
  <2> QED
    BY <2>1, WrittenInv DEF ArrayIInv, ArrayShape
<1>11. ASSUME NEW o \in Arrays, Operation(o) PROVE ArrayIInv'
  BY <1>1, <1>2, <1>3, <1>4, <1>5, <1>6, <1>7, <1>8, <1>10, <1>11 DEF Operation
<1> QED
  BY <1>9, <1>10, <1>11 DEF ArrayNext, Undefined

\* The step that overwrites a pointer, with another one.
LEMMA OverwritingStep ==
  ArrayShape /\ (overwritten \/ overwritten') /\ [ArrayNext]_arrayVars
    => ArrayShape' /\ overwritten'
<1> SUFFICES ASSUME ArrayShape, overwritten \/ overwritten', [ArrayNext]_arrayVars
             PROVE  ArrayShape' /\ overwritten'
  OBVIOUS
<1>1. CASE UNCHANGED arrayVars
  BY <1>1 DEF arrayVars, ArrayShape, BlockContents, ArrayRecord, Blocks
<1>2. CASE ~UNCHANGED arrayVars
  <2>1. PICK o \in Arrays, p \in Arrays : Compare(o, p)
    BY <1>2 DEF ArrayNext, Undefined
  <2>2. /\ o \in DOMAIN arr /\ p \in DOMAIN arr /\ arr' = [arr EXCEPT ![o].ptr = arr[p].ptr]
        /\ UNCHANGED <<heap, given, nextBlock>>
    BY <2>1 DEF Compare, Alive
  <2>3. arr' \in [DOMAIN arr' -> ArrayRecord] /\ DOMAIN arr' = DOMAIN arr
    BY <2>2 DEF ArrayShape, ArrayRecord
  <2>4. overwritten'
    BY <1>2 DEF ArrayNext, Undefined
  <2> QED
    BY <2>2, <2>3, <2>4 DEF ArrayShape, BlockContents, ArrayRecord, Blocks
<1> QED
  BY <1>1, <1>2

\* The inductive invariant of the arrays and their heap.
ArraysFit ==
  /\ ArrayShape /\ overwritten \in BOOLEAN
  /\ overwritten \/ ArrayIInv

LEMMA ArrayInvariant == ArraySpec => []ArraysFit
<1>1. ArrayInit => ArraysFit
  BY ArrayInitInv DEF ArrayInit, ArraysFit, ArrayIInv
<1>2. ArraysFit /\ [ArrayNext]_arrayVars => ArraysFit'
  <2> SUFFICES ASSUME ArraysFit, [ArrayNext]_arrayVars PROVE ArraysFit'
    OBVIOUS
  <2>1. overwritten' \in BOOLEAN
    BY DEF ArraysFit, ArrayNext, Undefined, Compare, arrayVars
  <2>2. CASE overwritten \/ overwritten'
    BY <2>1, <2>2, OverwritingStep DEF ArraysFit
  <2>3. CASE ~overwritten /\ ~overwritten'
    BY <2>1, <2>3, ArrayStep DEF ArraysFit, ArrayIInv
  <2> QED
    BY <2>2, <2>3
<1> QED
  BY <1>1, <1>2, PTL DEF ArraySpec

\* The objects and the heap keep their types.
THEOREM ArrayTypeCorrect == ArraySpec => []ArrayTypeOK
<1>1. ArraysFit => ArrayTypeOK
  BY DEF ArraysFit, ArrayShape, ArrayTypeOK, ArrayRecord
<1> QED
  BY <1>1, ArrayInvariant, PTL

\* Whatever is called in any order: until operator== has overwritten a pointer, every
\* block has one owner.
THEOREM OneOwnerForEachBlock == ArraySpec => []OneOwner
<1>1. ASSUME ArrayIInv PROVE EachHasOneOwner
  <2>1. ASSUME NEW b \in DOMAIN heap
        PROVE  Cardinality(Owners(b)) = IF b \in Buffers \ given THEN 0 ELSE 1
    <3>0. b \in Blocks /\ b # null
      BY <1>1, AddressFacts DEF ArrayIInv, ArrayShape
    <3>1. \A o : o \in Owners(b) <=> o \in Arrays /\ Owns(o, b)
      BY <1>1 DEF Owners, Owns, ArrayIInv, ArrayShape, Alive
    <3>2. CASE b \in Lent
      <4>1. Owners(b) = {}
        BY <1>1, <3>0, <3>1, <3>2 DEF Owns, ArrayIInv, PointersFit
      <4> QED
        BY <3>2, <4>1, FS_EmptySet DEF Lent
    <3>3. CASE b \notin Lent
      <4>1. PICK o \in Arrays : Owns(o, b)
        BY <1>1, <3>3 DEF ArrayIInv, NothingLeaks
      <4>2. Owners(b) = {o}
        BY <1>1, <3>0, <3>1, <4>1 DEF ArrayIInv, OwnersDiffer
      <4> QED
        BY <3>3, <4>2, FS_Singleton DEF Lent
    <3> QED
      BY <3>2, <3>3
  <2>2. ASSUME NEW o \in Alive
        PROVE  IF arr[o].ptr = null
                 THEN arr[o].cnt = 0
                 ELSE arr[o].ptr \in DOMAIN heap /\ arr[o].cnt = Len(heap[arr[o].ptr])
    BY <1>1 DEF ArrayIInv, PointersFit
  <2> QED
    BY <2>1, <2>2 DEF EachHasOneOwner
<1>2. ArraysFit => OneOwner
  BY <1>1 DEF ArraysFit, OneOwner
<1> QED
  BY <1>2, ArrayInvariant, PTL

-----------------------------------------------------------------------------
(* Arrays are values: every step of ManagedArray is one of ArrayValues.    *)


\* Steps of ArrayValues by the operation that op' names.
LEMMA StepsByName ==
  ASSUME NEW o \in Arrays, NEW p \in Arrays
  PROVE  /\ op' = <<"construct", o, p>> /\ PlainValues!Constructed(o) => PlainValues!Step
         /\ op' = <<"copy", o, p>> /\ PlainValues!Copied(o, p) => PlainValues!Step
         /\ op' = <<"move", o, p>> /\ PlainValues!Moved(o, p) => PlainValues!Step
         /\ op' = <<"write", o, p>> /\ PlainValues!Written(o) => PlainValues!Step
         /\ op' = <<"copy over", o, p>> /\ PlainValues!CopiedOver(o, p) => PlainValues!Step
         /\ op' = <<"resize", o, p>> /\ PlainValues!Resized(o) => PlainValues!Step
         /\ op' = <<"release", o, p>> /\ PlainValues!Emptied(o) => PlainValues!Step
         /\ op' = <<"destroy", o, p>> /\ PlainValues!Become(o, Gone) => PlainValues!Step
         /\ op' = <<"compare", o, p>> /\ Shown' = Shown => PlainValues!Step
         /\ op' = <<"failed", o, p>> /\ Shown' = Shown => PlainValues!Step
         /\ op' = <<"failed", o, p>> /\ PlainValues!Emptied(o) => PlainValues!Step
<1> DEFINE StepNames == {"construct", "copy", "move", "write", "copy over", "resize", "release",
                         "destroy", "compare", "self", "failed"}
<1>1. ASSUME NEW name \in StepNames, op' = <<name, o, p>>
      PROVE  op' \in StepNames \X {o} \X {p} /\ op'[1] = name
  <2> HIDE DEF StepNames
  <2> QED
    BY <1>1
<1>2. ASSUME op' = <<"construct", o, p>>, PlainValues!Constructed(o) PROVE PlainValues!Step
  BY <1>1, <1>2 DEF PlainValues!Step
<1>3. ASSUME op' = <<"copy", o, p>>, PlainValues!Copied(o, p) PROVE PlainValues!Step
  BY <1>1, <1>3 DEF PlainValues!Step
<1>4. ASSUME op' = <<"move", o, p>>, PlainValues!Moved(o, p) PROVE PlainValues!Step
  BY <1>1, <1>4 DEF PlainValues!Step
<1>5. ASSUME op' = <<"write", o, p>>, PlainValues!Written(o) PROVE PlainValues!Step
  BY <1>1, <1>5 DEF PlainValues!Step
<1>6. ASSUME op' = <<"copy over", o, p>>, PlainValues!CopiedOver(o, p) PROVE PlainValues!Step
  BY <1>1, <1>6 DEF PlainValues!Step
<1>7. ASSUME op' = <<"resize", o, p>>, PlainValues!Resized(o) PROVE PlainValues!Step
  BY <1>1, <1>7 DEF PlainValues!Step
<1>8. ASSUME op' = <<"release", o, p>>, PlainValues!Emptied(o) PROVE PlainValues!Step
  BY <1>1, <1>8 DEF PlainValues!Step
<1>10. ASSUME op' = <<"destroy", o, p>>, PlainValues!Become(o, Gone) PROVE PlainValues!Step
  BY <1>1, <1>10 DEF PlainValues!Step
<1>11. ASSUME op' = <<"compare", o, p>>, Shown' = Shown PROVE PlainValues!Step
  BY <1>1, <1>11 DEF PlainValues!Step, Shown
<1>12. ASSUME op' = <<"failed", o, p>>, Shown' = Shown PROVE PlainValues!Step
  BY <1>1, <1>12 DEF PlainValues!Step, Shown
<1>13. ASSUME op' = <<"failed", o, p>>, PlainValues!Emptied(o) PROVE PlainValues!Step
  BY <1>1, <1>13 DEF PlainValues!Step
<1> QED
  BY <1>2, <1>3, <1>4, <1>5, <1>6, <1>7, <1>8, <1>10, <1>11, <1>12, <1>13

\* One array changes its value.
LEMMA ViewBecomes ==
  ASSUME NEW o \in Arrays, NEW v, Value(o)' = v,
         \A q \in Arrays \ {o} : Value(q)' = Value(q)
  PROVE  PlainValues!Become(o, v)
BY DEF PlainValues!Become, Shown

\* The values seen from outside when none does.
LEMMA ViewKept ==
  ASSUME \A q \in Arrays : Value(q)' = Value(q)
  PROVE  Shown' = Shown
BY DEF Shown

\* The value of an array is the content of its block.
LEMMA ValueFacts ==
  ASSUME ArrayIInv, NEW o \in Arrays
  PROVE  /\ o \notin Alive => Value(o) = Gone
         /\ o \in Alive /\ arr[o].ptr = null => Value(o) = <<>>
         /\ o \in Alive /\ arr[o].ptr \in Lent => Value(o) = Borrowed
         /\ o \in Alive /\ arr[o].ptr \notin Lent =>
              /\ Value(o) = ContentOf(o) /\ Value(o) \in BlockContents /\ Value(o) # Borrowed
              /\ Len(Value(o)) = arr[o].cnt
BY AddressFacts, ContentIsContent, OpaqueAssumption
DEF Value, ContentOf, ArrayIInv, PointersFit, ArrayShape, Lent, Blocks

\* An array keeps its value when it keeps its record and its block its elements.
LEMMA ValueStays ==
  ASSUME ArrayIInv, NEW q \in Arrays,
         q \in DOMAIN arr' <=> q \in DOMAIN arr,
         q \in DOMAIN arr => arr'[q] = arr[q],
         q \in DOMAIN arr /\ arr[q].ptr # null /\ arr[q].owning =>
           heap'[arr[q].ptr] = heap[arr[q].ptr]
  PROVE  Value(q)' = Value(q)
BY DEF Value, ContentOf, Alive

\* Whoever gives up its block, the others keep theirs.
LEMMA OthersKeepBlocks ==
  ASSUME ArrayIInv, NEW o \in Arrays, NEW q \in DOMAIN arr, q # o,
         arr[q].ptr # null, arr[q].owning
  PROVE  /\ arr[q].ptr \in DOMAIN heap /\ arr[q].ptr \in DOMAIN Left(o)
         /\ Left(o)[arr[q].ptr] = heap[arr[q].ptr]
<1>1. arr[q].ptr \in DOMAIN heap /\ arr[q].ptr \in Blocks /\ q \in Arrays
  BY DEF ArrayIInv, PointersFit, ArrayShape, Alive
<1>2. ~Owns(o, arr[q].ptr)
  BY <1>1 DEF ArrayIInv, OwnersDiffer, Owns, Alive
<1> QED
  BY <1>1, <1>2, LeftFacts

LEMMA FreshValue ==
  ASSUME ArrayIInv, NEW o \in Arrays, NEW content \in BlockContents, Fresh(o, Left(o), content)
  PROVE  PlainValues!Become(o, content)
<1>1. CASE content = <<>>
  <2>1. arr' = With(arr, o, Empty) /\ heap' = Left(o)
    BY <1>1 DEF Fresh
  <2>2. Value(o)' = <<>>
    BY <2>1 DEF With, Empty, Value, ContentOf, Alive
  <2>3. ASSUME NEW q \in Arrays \ {o} PROVE Value(q)' = Value(q)
    BY <2>1, OthersKeepBlocks, ValueStays DEF With
  <2> QED
    BY <1>1, <2>2, <2>3, ViewBecomes
<1>2. CASE content # <<>>
  <2>1. /\ arr' = With(arr, o, [ptr |-> nextBlock, cnt |-> Len(content), owning |-> TRUE])
        /\ heap' = With(Left(o), nextBlock, content)
        /\ nextBlock <= MaxBlock
    BY <1>2 DEF Fresh
  <2>2. nextBlock \notin DOMAIN heap /\ nextBlock # null
    BY <2>1, AddressFacts DEF ArrayIInv, ArrayShape, Unallocated
  <2>3. Value(o)' = content
    BY <2>1, <2>2 DEF With, Value, ContentOf, Alive
  <2>4. ASSUME NEW q \in Arrays \ {o} PROVE Value(q)' = Value(q)
    BY <2>1, <2>2, OthersKeepBlocks, ValueStays DEF With
  <2> QED
    BY <2>3, <2>4, ViewBecomes
<1> QED
  BY <1>1, <1>2

LEMMA EmptiedValue ==
  ASSUME ArrayIInv, NEW o \in Arrays, HoldsNothing(o)', OthersStay(o), heap' = Left(o)
  PROVE  PlainValues!Become(o, IF o \in DOMAIN arr' THEN <<>> ELSE Gone)
<1>1. Value(o)' = IF o \in DOMAIN arr' THEN <<>> ELSE Gone
  BY DEF Value, ContentOf, HoldsNothing, Alive
<1>2. ASSUME NEW q \in Arrays \ {o} PROVE Value(q)' = Value(q)
  BY OthersKeepBlocks, ValueStays DEF OthersStay
<1> QED
  BY <1>1, <1>2, ViewBecomes

LEMMA MovedValue ==
  ASSUME ArrayIInv, NEW o \in Arrays, NEW p \in Alive, o # p,
         arr' = MovedFrom(o, p), heap' = Left(o)
  PROVE  PlainValues!Moved(o, p)
<1>1. /\ DOMAIN arr' = DOMAIN arr \cup {o}
      /\ arr'[o] = (IF arr[p].ptr = null THEN Empty ELSE arr[p]) /\ arr'[p] = Empty
      /\ \A q \in DOMAIN arr \ {o, p} : arr'[q] = arr[q]
      /\ p \in Arrays
  BY DEF MovedFrom, With, ArrayIInv, ArrayShape, Alive
<1>2. Value(p)' = <<>>
  BY <1>1 DEF Value, ContentOf, Empty, Alive
<1>3. Value(o)' = Value(p)
  <2>1. CASE arr[p].ptr = null
    BY <1>1, <2>1 DEF Value, ContentOf, Empty, Alive
  <2>2. CASE arr[p].ptr # null
    <3>1. arr[p].owning => heap'[arr[p].ptr] = heap[arr[p].ptr]
      BY <2>2, OthersKeepBlocks DEF Alive
    <3> QED
      BY <1>1, <2>2, <3>1 DEF Value, ContentOf, Alive
  <2> QED
    BY <2>1, <2>2
<1>4. ASSUME NEW q \in Arrays \ {o, p} PROVE Value(q)' = Value(q)
  BY <1>1, OthersKeepBlocks, ValueStays
<1> QED
  BY <1>1, <1>2, <1>3, <1>4 DEF PlainValues!Moved, Shown

LEMMA WrittenValue ==
  ASSUME ArrayIInv, NEW o \in Arrays, NEW i \in 1..MaxSize, NEW x \in Elements, Write(o, i, x)
  PROVE  PlainValues!Written(o)
<1> DEFINE b == arr[o].ptr
<1>1. o \in Alive /\ i \in 1..arr[o].cnt /\ heap' = [heap EXCEPT ![b][i] = x] /\ arr' = arr
  BY DEF Write
<1>2. arr[o].cnt \in Nat /\ b # null /\ b \in DOMAIN heap /\ b \in Blocks
  BY <1>1 DEF ArrayIInv, PointersFit, ArrayShape, ArrayRecord, Alive
<1>3. ASSUME NEW q \in Arrays, q \in Alive /\ arr[q].owning => arr[q].ptr # b
      PROVE  Value(q)' = Value(q)
  <2>1. q \in DOMAIN arr /\ arr[q].ptr # null /\ arr[q].owning => heap'[arr[q].ptr] = heap[arr[q].ptr]
    BY <1>1, <1>3 DEF ArrayIInv, PointersFit, ArrayShape, Alive
  <2> QED
    BY <1>1, <2>1, ValueStays
<1>4. CASE b \in Lent
  <2>1. \A q \in Arrays : q \in Alive /\ arr[q].owning => arr[q].ptr # b
    BY <1>2, <1>4 DEF ArrayIInv, PointersFit
  <2>2. Shown' = Shown
    BY <1>3, <2>1, ViewKept
  <2>3. Value(o) = Borrowed
    BY <1>1, <1>4, ValueFacts
  <2> QED
    BY <2>2, <2>3 DEF PlainValues!Written, Shown
<1>5. CASE b \notin Lent
  <2>1. arr[o].owning
    BY <1>1, <1>2, <1>5 DEF ArrayIInv, PointersFit
  <2>2. /\ Value(o) = heap[b] /\ Value(o) # Borrowed /\ Len(Value(o)) = arr[o].cnt
    BY <1>1, <1>2, <1>5, ValueFacts, ContentIsContent
  <2>3. Value(o)' = [Value(o) EXCEPT ![i] = x]
    BY <1>1, <1>2, <2>1, <2>2 DEF Value, ContentOf, Alive, ArrayIInv, ArrayShape
  <2>4. \A q \in Arrays \ {o} : Value(q)' = Value(q)
    BY <1>1, <1>2, <1>3, <2>1 DEF ArrayIInv, OwnersDiffer, Owns, Alive
  <2>5. PlainValues!Become(o, [Value(o) EXCEPT ![i] = x])
    BY <2>3, <2>4, ViewBecomes
  <2> QED
    BY <1>1, <2>2, <2>5 DEF Shown, PlainValues!Written
<1> QED
  BY <1>4, <1>5

LEMMA CopiedOverValue ==
  ASSUME ArrayIInv, NEW o \in Arrays, NEW p \in Arrays, NEW first \in 0..MaxSize - 1,
         CopyOver(o, p, first)
  PROVE  PlainValues!CopiedOver(o, p)
<1> DEFINE b == arr[o].ptr
           c == arr[p].ptr
           new == [i \in DOMAIN heap[b] |-> IF i \in first + 1..first + arr[p].cnt
                                             THEN heap[c][i - first] ELSE heap[b][i]]
<1>1. /\ o \in Alive /\ p \in Alive /\ arr[p].cnt # 0 /\ first + arr[p].cnt <= arr[o].cnt
      /\ heap' = [heap EXCEPT ![b] = new] /\ arr' = arr
  BY DEF CopyOver
<1>2. arr[o].cnt \in 0..MaxSize /\ arr[p].cnt \in 0..MaxSize /\ arr[o].cnt # 0
  BY <1>1, AddressFacts DEF ArrayIInv, ArrayShape, ArrayRecord, Alive
<1>3. /\ b # null /\ b \in DOMAIN heap /\ Len(heap[b]) = arr[o].cnt /\ b \in Blocks
      /\ c # null /\ c \in DOMAIN heap /\ Len(heap[c]) = arr[p].cnt
  BY <1>1, <1>2 DEF ArrayIInv, PointersFit, ArrayShape
<1>4. heap[b] \in Seq(Elements) /\ heap[c] \in Seq(Elements)
  BY <1>3, ContentsAreShort DEF ArrayIInv, ArrayShape
<1>5. new \in [1..arr[o].cnt -> Elements]
  <2>1. \A i \in first + 1..first + arr[p].cnt : i - first \in 1..Len(heap[c])
    BY <1>2, <1>3, AddressFacts
  <2> QED
    BY <1>3, <1>4, <2>1
<1>6. ASSUME NEW q \in Arrays, q \in Alive /\ arr[q].owning => arr[q].ptr # b
      PROVE  Value(q)' = Value(q)
  <2> HIDE DEF new
  <2>1. q \in DOMAIN arr /\ arr[q].ptr # null /\ arr[q].owning => heap'[arr[q].ptr] = heap[arr[q].ptr]
    BY <1>1, <1>6 DEF ArrayIInv, PointersFit, ArrayShape, Alive
  <2> QED
    BY <1>1, <2>1, ValueStays
<1>7. CASE b \in Lent
  <2>1. \A q \in Arrays : q \in Alive /\ arr[q].owning => arr[q].ptr # b
    BY <1>3, <1>7 DEF ArrayIInv, PointersFit
  <2>2. Shown' = Shown
    BY <1>6, <2>1, ViewKept
  <2>3. Value(o) = Borrowed
    BY <1>1, <1>7, ValueFacts
  <2> QED
    BY <2>2, <2>3 DEF PlainValues!CopiedOver, Shown
<1>8. CASE b \notin Lent
  <2>1. arr[o].owning
    BY <1>1, <1>3, <1>8 DEF ArrayIInv, PointersFit
  <2>2. /\ Value(o) = heap[b] /\ Value(o) # Borrowed /\ Len(Value(o)) = arr[o].cnt
    BY <1>1, <1>3, <1>8, ValueFacts, ContentIsContent
  <2>3. Value(o)' = new
    <3> HIDE DEF new
    <3> QED
      BY <1>1, <1>3, <2>1 DEF Value, ContentOf, Alive, ArrayIInv, ArrayShape
  <2>4. \A q \in Arrays \ {o} : Value(q)' = Value(q)
    BY <1>1, <1>3, <1>6, <2>1 DEF ArrayIInv, OwnersDiffer, Owns, Alive
  <2>5. PlainValues!Become(o, new)
    BY <2>3, <2>4, ViewBecomes
  <2>6. CASE Value(p) = Borrowed
    <3> HIDE DEF new
    <3> QED
      BY <1>5, <2>2, <2>5, <2>6 DEF Shown, PlainValues!CopiedOver
  <2>7. CASE Value(p) # Borrowed
    <3>1. c \notin Lent
      BY <1>1, <2>7, ValueFacts
    <3>2. Value(p) = heap[c] /\ Len(Value(p)) = arr[p].cnt
      BY <1>1, <1>3, <3>1, ValueFacts, ContentIsContent
    <3>3. first \in 0..Len(Value(o)) - Len(Value(p))
      BY <1>1, <1>2, <2>2, <3>2, AddressFacts
    <3>4. new = [i \in 1..Len(Value(o)) |->
                   IF i \in first + 1..first + Len(Value(p)) THEN Value(p)[i - first]
                                                             ELSE Value(o)[i]]
      BY <1>3, <1>4, <2>2, <3>2
    <3> QED
      BY <2>2, <2>5, <2>7, <3>3, <3>4 DEF Shown, PlainValues!CopiedOver
  <2> QED
    BY <2>6, <2>7
<1> QED
  BY <1>7, <1>8

LEMMA ResizedValue ==
  ASSUME ArrayIInv, NEW o \in Arrays, NEW n \in 0..MaxSize, Resize(o, n, Zero)
  PROVE  PlainValues!Resized(o)
<1> DEFINE content ==
      [i \in 1..n |-> IF i <= arr[o].cnt THEN heap[arr[o].ptr][i] ELSE Zero]
<1>1. o \in Alive /\ arr[o].owning /\ Fresh(o, Left(o), content)
  BY DEF Resize, Left
<1>2. content \in BlockContents /\ Len(content) = n
  BY <1>1, ResizedIsContent, ArrayFunctionIsContent
<1>3. PlainValues!Become(o, content)
  BY <1>1, <1>2, FreshValue
<1>4. arr[o].ptr \notin Lent /\ arr[o].cnt \in Nat
  BY <1>1, AddressFacts DEF ArrayIInv, PointersFit, Lent, Blocks, ArrayShape, ArrayRecord, Alive
<1>5. Value(o) = ContentOf(o) /\ Len(Value(o)) = arr[o].cnt
  BY <1>1, <1>4, ValueFacts
<1>6. ASSUME NEW i \in 1..Len(content), i <= Len(Value(o))
      PROVE  content[i] = Value(o)[i]
  <2>1. arr[o].ptr # null
    BY <1>1, <1>4, <1>5, <1>6, <1>2 DEF ArrayIInv, PointersFit
  <2> QED
    BY <1>1, <1>2, <1>5, <1>6, <2>1, ContentIsContent
<1> HIDE DEF content
<1> QED
  BY <1>2, <1>3, <1>6 DEF Shown, PlainValues!Resized, PlainValues!Contents, BlockContents

LEMMA PlainStep ==
  ArrayIInv /\ ~overwritten' /\ [ArrayNext]_arrayVars
    => [PlainValues!Step \/ op'[1] = "self"]_<<Shown, op>>
<1> DEFINE Fits == PlainValues!Step \/ op'[1] = "self" \/ UNCHANGED <<Shown, op>>
<1> SUFFICES ASSUME ArrayIInv, ~overwritten', [ArrayNext]_arrayVars PROVE Fits
  OBVIOUS
<1> USE DEF Called, PlainValues!Contents
<1>1. ASSUME NEW o \in Arrays, NEW n \in 0..MaxSize, CreateArray(o, n, Zero)
      PROVE  PlainValues!Step
  <2>1. [i \in 1..n |-> Zero] \in BlockContents
    BY ZeroIsElement, ArrayFunctionIsContent
  <2>2. PlainValues!Become(o, [i \in 1..n |-> Zero])
    BY <1>1, <2>1, FreshValue DEF CreateArray, Left
  <2>3. Value(o) = Gone /\ op' = <<"construct", o, o>>
    BY <1>1, ValueFacts DEF CreateArray
  <2>4. PlainValues!Constructed(o)
    BY <2>1, <2>2, <2>3 DEF Shown, PlainValues!Constructed, BlockContents
  <2> QED
    BY <2>3, <2>4, StepsByName
<1>2. ASSUME NEW o \in Arrays, NEW n \in 0..MaxSize, Resize(o, n, Zero)
      PROVE  PlainValues!Step
  BY <1>2, ResizedValue, StepsByName DEF Resize
<1>3. ASSUME NEW o \in Arrays, NEW b \in Buffers, NEW own \in BOOLEAN, ConstructOn(o, b, own)
      PROVE  PlainValues!Step
  <2>1. /\ o \notin Alive /\ heap' = heap /\ op' = <<"construct", o, o>>
        /\ arr' = With(arr, o, [ptr |-> b, cnt |-> Len(heap[b]), owning |-> own])
        /\ b \in Lent /\ b # null
    BY <1>3, AddressFacts DEF ConstructOn, Lent, Blocks
  <2>2. heap[b] \in BlockContents
    BY <2>1 DEF ArrayIInv, LentExist, ArrayShape
  <2>3. Value(o)' = IF own THEN heap[b] ELSE Borrowed
    BY <2>1 DEF With, Value, ContentOf, Alive
  <2>4. ASSUME NEW q \in Arrays \ {o} PROVE Value(q)' = Value(q)
    BY <2>1, ValueStays DEF With
  <2>5. PlainValues!Become(o, IF own THEN heap[b] ELSE Borrowed)
    BY <2>3, <2>4, ViewBecomes
  <2>6. PlainValues!Constructed(o)
    BY <2>1, <2>2, <2>5, ValueFacts DEF Shown, PlainValues!Constructed, BlockContents
  <2> QED
    BY <2>1, <2>6, StepsByName
<1>4. ASSUME NEW o \in Arrays, NEW p \in Arrays, CopyConstruct(o, p) \/ CopyAssign(o, p)
      PROVE  PlainValues!Step
  <2>1. /\ p \in Alive /\ Fresh(o, Left(o), ContentOf(p)) /\ op' = <<"copy", o, p>>
    BY <1>4 DEF CopyConstruct, CopyAssign, FreshCopy, Left
  <2>2. ContentOf(p) \in BlockContents /\ PlainValues!Become(o, ContentOf(p))
    BY <2>1, ContentIsContent, FreshValue
  <2>3. Value(p) = Borrowed \/ Value(p) = ContentOf(p)
    BY <2>1, ValueFacts
  <2>4. PlainValues!Copied(o, p)
    BY <2>2, <2>3 DEF Shown, PlainValues!Copied, BlockContents
  <2> QED
    BY <2>1, <2>4, StepsByName
<1>5. ASSUME NEW o \in Arrays, NEW p \in Arrays, MoveConstruct(o, p) \/ MoveAssign(o, p)
      PROVE  PlainValues!Step
  <2>1. /\ p \in Alive /\ o # p /\ arr' = MovedFrom(o, p) /\ heap' = Left(o)
        /\ op' = <<"move", o, p>>
    BY <1>5 DEF MoveConstruct, MoveAssign, Left
  <2> QED
    BY <2>1, MovedValue, StepsByName
<1>6. ASSUME NEW o \in Arrays, NEW p \in Arrays,
             CopyAssignFails(o, p) \/ ReleaseMemory(o) \/ Destroy(o)
      PROVE  PlainValues!Step
  <2>1. /\ heap' = Left(o) /\ HoldsNothing(o)' /\ OthersStay(o)
        /\ o \in DOMAIN arr' <=> ~Destroy(o)
    BY <1>6, GivingUp
  <2>2. PlainValues!Become(o, IF o \in DOMAIN arr' THEN <<>> ELSE Gone)
    BY <2>1, EmptiedValue
  <2>3. CASE Destroy(o)
    BY <2>1, <2>2, <2>3, StepsByName DEF Destroy
  <2>4. CASE ~Destroy(o)
    <3>1. PlainValues!Emptied(o)
      BY <2>1, <2>2, <2>4 DEF PlainValues!Emptied
    <3>2. op' \in {<<"failed", o, p>>, <<"release", o, o>>}
      BY <1>6, <2>4 DEF CopyAssignFails, ReleaseMemory
    <3> QED
      BY <3>1, <3>2, StepsByName
  <2> QED
    BY <2>3, <2>4
<1>7. ASSUME NEW o \in Arrays, NEW i \in 1..MaxSize, NEW x \in Elements, Write(o, i, x)
      PROVE  PlainValues!Step
  BY <1>7, WrittenValue, StepsByName DEF Write
<1>8. ASSUME NEW o \in Arrays, NEW p \in Arrays, NEW first \in 0..MaxSize - 1,
             CopyOver(o, p, first)
      PROVE  PlainValues!Step
  BY <1>8, CopiedOverValue, StepsByName DEF CopyOver
<1>9. ASSUME NEW o \in Arrays, NEW p \in Arrays, Compare(o, p)
      PROVE  PlainValues!Step
  <2>1. arr' = arr /\ heap' = heap /\ op' = <<"compare", o, p>>
    BY <1>9, CompareChangesNothing DEF Compare
  <2>2. Shown' = Shown
    BY <2>1 DEF Shown, Value, ContentOf, Alive
  <2> QED
    BY <2>1, <2>2, StepsByName
<1>10. ASSUME NEW o \in Arrays,
              ConstructFails(o) \/ \E n \in 0..MaxSize : ResizeFails(o, n)
      PROVE  PlainValues!Step
  <2>1. arr' = arr /\ heap' = heap /\ op' = <<"failed", o, o>>
    BY <1>10 DEF ConstructFails, ResizeFails
  <2>2. Shown' = Shown
    BY <2>1 DEF Shown, Value, ContentOf, Alive
  <2> QED
    BY <2>1, <2>2, StepsByName
<1>11. ASSUME NEW o \in Arrays, AssignToSelf(o) PROVE op'[1] = "self"
  BY <1>11 DEF AssignToSelf
<1>12. ASSUME NEW o \in Arrays, Operation(o) PROVE Fits
  <2> HIDE DEF Called
  <2> QED
    BY <1>1, <1>2, <1>3, <1>4, <1>5, <1>6, <1>7, <1>8, <1>10, <1>11, <1>12 DEF Operation
<1>13. CASE UNCHANGED arrayVars
  BY <1>13 DEF arrayVars, Shown, Value, ContentOf, Alive
<1> HIDE DEF Called
<1> QED
  BY <1>9, <1>12, <1>13 DEF ArrayNext, Undefined

\* ManagedArray implements arrays as plain values: no operation on one array shows in
\* another.  Not so the assignment of an array to itself, and operator==: the promise
\* ends when it overwrites a pointer.
THEOREM ImplementsValues == ArraySpec => ArraysAreValues
<1>1. ArrayInit => PlainValues!Init
  BY DEF ArrayInit, PlainValues!Init, Shown, Value, Alive
<1>2. ArraysFit /\ [ArrayNext]_arrayVars
        => [PlainValues!Step \/ op'[1] = "self" \/ overwritten']_<<Shown, op>>
  <2> SUFFICES ASSUME ArraysFit, [ArrayNext]_arrayVars, ~overwritten'
               PROVE  [PlainValues!Step \/ op'[1] = "self"]_<<Shown, op>>
    OBVIOUS
  <2>1. ArrayIInv
    BY OverwritingStep DEF ArraysFit
  <2> QED BY <2>1, PlainStep
<1> QED
  BY <1>1, <1>2, ArrayInvariant, PTL DEF ArraySpec, ArraysAreValues

-----------------------------------------------------------------------------
(* PasswordProtectedSecret.                                                 *)

\* While no derivation has failed, the key is the password's under the
\* configuration that asString() would store.
KeyFits ==
  pwClear # None =>
    symKey \in Keys /\ ("conf" \notin spoiled => symKey = PwHash(pwClear, hashConfig))

\* A cipher has the secret, and its nonce and the key at hand belong to it.
CipherFits ==
  cipher # None =>
    /\ cipher.msg = truth.secret
    /\ "cipher" \notin spoiled =>
         /\ cipher.nonce = nonce
         /\ pwClear # None => cipher.key = symKey

NoCipherNoSecret ==
  ("cipher" \notin spoiled /\ cipher = None) => truth.secret = None

\* What is stored now can be opened by the owner of the password.
OwnerFits ==
  (spoiled = {} /\ cipher # None) =>
    truth.pw \in Passwords /\ cipher.key = PwHash(truth.pw, hashConfig)

Answers ==
  /\ ret[1] = "secret" => ret[2] \in {truth.secret, None}
  /\ "cipher" \notin spoiled =>
       /\ ret[1] = "secret" => ret[2] = truth.secret
       /\ ret[1] # "WrongPassword"

\* The next random value has sealed nothing yet.
FreshNonces == \A c \in sealed : c.nonce < fresh

RecordFits(r) ==
  /\ r.cipher # None => r.cipher.msg = r.truth.secret
  /\ r.intact =>
       IF r.cipher = None
         THEN r.truth.secret = None
         ELSE /\ r.truth.pw \in Passwords
              /\ r.cipher.key = PwHash(r.truth.pw, r.hashConfig)
              /\ r.cipher.nonce = r.nonce

RecordsFit == \A r \in records : RecordFits(r)

IInv == /\ SecretTypeOK /\ KeyFits /\ CipherFits /\ NoCipherNoSecret /\ OwnerFits
        /\ Answers /\ FreshNonces /\ NonceOnce /\ RecordsFit

Parts == <<object, fresh, truth, spoiled, sealed, records>>

\* The calls that change nothing but their answer.
LEMMA QuietStep ==
  ASSUME IInv, UNCHANGED Parts,
         ret' \in Outcomes \X (Secrets \cup {None}),
         ret'[1] = "secret" => ret'[2] \in {truth.secret, None},
         "cipher" \notin spoiled =>
           /\ ret'[1] = "secret" => ret'[2] = truth.secret
           /\ ret'[1] # "WrongPassword"
  PROVE  IInv'
<1>1. SecretTypeOK'
  BY DEF IInv, SecretTypeOK, Parts, object
<1>2. KeyFits' /\ CipherFits' /\ NoCipherNoSecret' /\ OwnerFits' /\ Answers'
  BY DEF IInv, KeyFits, CipherFits, NoCipherNoSecret, OwnerFits, Answers, Parts, object
<1>3. FreshNonces' /\ NonceOnce' /\ RecordsFit'
  BY DEF IInv, FreshNonces, NonceOnce, RecordsFit, RecordFits, Parts, object
<1> QED
  BY <1>1, <1>2, <1>3 DEF IInv

\* A call that answers with a constant outcome.
LEMMA ConstantAnswer ==
  ASSUME NEW what \in Outcomes \ {"secret"}, Returns(what)
  PROVE  /\ ret' \in Outcomes \X (Secrets \cup {None})
         /\ ret'[1] = what
  BY DEF Returns

\* A key or a cipher is never the empty buffer.
LEMMA HashIsKey ==
  ASSUME NEW pw \in Passwords, NEW conf \in Configs
  PROVE  PwHash(pw, conf) \in Keys
  BY DEF PwHash, Keys

LEMMA SealIsCipher ==
  ASSUME NEW key \in Keys, NEW n \in Nat, NEW msg \in Secrets
  PROVE  Seal(key, n, msg) \in Ciphers
  BY DEF Seal, Ciphers

LEMMA InitInv == SecretInit => IInv
<1> SUFFICES ASSUME SecretInit PROVE IInv
  OBVIOUS
<1>1. PICK strength \in Strengths :
        /\ hashConfig = [strength |-> strength, salt |-> 0]
        /\ nonce = 1
  BY DEF SecretInit, Created
<1>2. SecretTypeOK
  BY <1>1 DEF SecretInit, SecretTypeOK, Configs, Outcomes, Pieces
<1>3. KeyFits /\ CipherFits /\ NoCipherNoSecret /\ OwnerFits /\ Answers
  BY DEF SecretInit, KeyFits, CipherFits, NoCipherNoSecret, OwnerFits, Answers
<1>4. FreshNonces /\ NonceOnce /\ RecordsFit
  BY DEF SecretInit, FreshNonces, NonceOnce, RecordsFit
<1> QED
  BY <1>2, <1>3, <1>4 DEF IInv

LEMMA NewStep ==
  ASSUME IInv, NEW strength \in Strengths, New(strength)
  PROVE  IInv'
<1>1. /\ hashConfig' = [strength |-> strength, salt |-> fresh]
      /\ nonce' = fresh + 1 /\ fresh' = fresh + 2 /\ fresh \in Nat
  BY DEF New, Created, IInv, SecretTypeOK
<1>2. ret' = <<"void", None>>
  BY DEF New, Returns
<1>3. SecretTypeOK'
  BY <1>1, <1>2 DEF New, IInv, SecretTypeOK, Configs, Outcomes, Pieces
<1>4. KeyFits' /\ CipherFits' /\ NoCipherNoSecret' /\ OwnerFits' /\ Answers'
  BY <1>2 DEF New, KeyFits, CipherFits, NoCipherNoSecret, OwnerFits, Answers
<1>5. FreshNonces'
  BY <1>1 DEF New, IInv, SecretTypeOK, FreshNonces, Ciphers
<1>6. NonceOnce' /\ RecordsFit'
  BY DEF New, IInv, NonceOnce, RecordsFit, RecordFits
<1> QED
  BY <1>3, <1>4, <1>5, <1>6 DEF IInv

LEMMA LoadStep ==
  ASSUME IInv, NEW r \in records, Load(r)
  PROVE  IInv'
<1>1. RecordFits(r) /\ r \in Records
  BY DEF IInv, RecordsFit, SecretTypeOK
<1>2. ret' = <<"void", None>>
  BY DEF Load, Returns
<1>3. SecretTypeOK'
  BY <1>1, <1>2 DEF Load, IInv, SecretTypeOK, Records, Outcomes, Pieces
<1>4. spoiled' = {} \/ spoiled' = Pieces
  BY DEF Load
<1>5. KeyFits' /\ CipherFits' /\ NoCipherNoSecret' /\ OwnerFits' /\ Answers'
  BY <1>1, <1>2, <1>4 DEF Load, RecordFits, Pieces, KeyFits, CipherFits,
     NoCipherNoSecret, OwnerFits, Answers
<1>6. FreshNonces' /\ NonceOnce' /\ RecordsFit'
  BY DEF Load, IInv, FreshNonces, NonceOnce, RecordsFit, RecordFits
<1> QED
  BY <1>3, <1>5, <1>6 DEF IInv

LEMMA EraseStep ==
  ASSUME IInv, EraseSecret
  PROVE  IInv'
<1>1. ret' = <<"true", None>>
  BY DEF EraseSecret, Returns
<1>2. SecretTypeOK'
  BY <1>1 DEF EraseSecret, IInv, SecretTypeOK, Outcomes
<1>3. KeyFits' /\ CipherFits' /\ NoCipherNoSecret' /\ OwnerFits' /\ Answers'
  BY <1>1 DEF EraseSecret, IInv, SecretTypeOK, KeyFits, CipherFits, NoCipherNoSecret,
     OwnerFits, Answers
<1>4. FreshNonces' /\ NonceOnce' /\ RecordsFit'
  BY DEF EraseSecret, IInv, FreshNonces, NonceOnce, RecordsFit, RecordFits
<1> QED
  BY <1>2, <1>3, <1>4 DEF IInv

\* A message sealed under the next random value leaves no nonce used twice.
LEMMA SealingIsFresh ==
  ASSUME IInv, NEW c \in Ciphers, c.nonce >= fresh,
         sealed' = sealed \cup {c}, fresh' = c.nonce + 1
  PROVE  FreshNonces' /\ NonceOnce' /\ sealed' \in SUBSET Ciphers
<1>1. /\ sealed \in SUBSET Ciphers /\ fresh \in Nat /\ c.nonce \in Nat
      /\ \A d \in sealed : d.nonce \in Nat /\ d.nonce < fresh
  BY DEF IInv, SecretTypeOK, FreshNonces, Ciphers
<1>2. FreshNonces'
  BY <1>1 DEF FreshNonces
<1>3. \A d \in sealed : d.nonce # c.nonce
  BY <1>1
<1>4. NonceOnce'
  BY <1>3 DEF IInv, NonceOnce
<1> QED
  BY <1>1, <1>2, <1>4

LEMMA SetSecretStep ==
  ASSUME IInv, NEW sec \in Secrets, NEW fails \in BOOLEAN, SetSecret(sec, fails)
  PROVE  IInv'
<1>1. /\ pwClear # None /\ pwClear \in Passwords /\ symKey \in Keys
      /\ fresh \in Nat /\ nonce' = fresh /\ fresh' = fresh + 1
  BY DEF SetSecret, DrawNonce, IInv, SecretTypeOK, KeyFits
<1>2. UNCHANGED <<hashConfig, pwClear, symKey, records>>
  BY DEF SetSecret
<1>3. RecordsFit'
  BY <1>2 DEF IInv, RecordsFit, RecordFits
<1>4. CASE ~fails
  <2> DEFINE c == Seal(symKey, fresh, sec)
  <2>1. /\ cipher' = c /\ sealed' = sealed \cup {c}
        /\ truth' = [secret |-> sec, pw |-> pwClear]
        /\ spoiled' = spoiled \ {"cipher"} /\ ret' = <<"true", None>>
    BY <1>1, <1>4 DEF SetSecret, Returns
  <2>2. c \in Ciphers /\ c.key = symKey /\ c.nonce = fresh /\ c.msg = sec
    BY <1>1, SealIsCipher DEF Seal
  <2> HIDE DEF c
  <2>3. FreshNonces' /\ NonceOnce' /\ sealed' \in SUBSET Ciphers
    BY <1>1, <2>1, <2>2, SealingIsFresh
  <2>4. SecretTypeOK'
    BY <1>1, <1>2, <2>1, <2>2, <2>3 DEF IInv, SecretTypeOK, Outcomes
  <2>5. cipher' # None
    BY <2>1, <2>2, NoneAssumption
  <2>6. KeyFits' /\ CipherFits' /\ NoCipherNoSecret' /\ OwnerFits' /\ Answers'
    BY <1>1, <1>2, <2>1, <2>2, <2>5 DEF IInv, KeyFits, CipherFits,
       NoCipherNoSecret, OwnerFits, Answers
  <2> QED
    BY <1>3, <2>3, <2>4, <2>6 DEF IInv
<1>5. CASE fails
  <2>1. /\ UNCHANGED <<cipher, truth, sealed>> /\ ret' = <<"error", None>>
        /\ cipher = None => spoiled' = spoiled
        /\ cipher # None => spoiled' = spoiled \cup {"cipher"}
    BY <1>5 DEF SetSecret, Returns
  <2>2. spoiled' \in SUBSET Pieces
    BY <2>1 DEF IInv, SecretTypeOK, Pieces
  <2>3. SecretTypeOK'
    BY <1>1, <1>2, <2>1, <2>2 DEF IInv, SecretTypeOK, Outcomes
  <2>4. KeyFits' /\ CipherFits' /\ NoCipherNoSecret' /\ OwnerFits' /\ Answers'
    BY <1>1, <1>2, <2>1 DEF IInv, KeyFits, CipherFits, NoCipherNoSecret,
       OwnerFits, Answers
  <2>5. FreshNonces'
    BY <1>1, <2>1 DEF IInv, SecretTypeOK, FreshNonces, Ciphers
  <2>6. NonceOnce'
    BY <2>1 DEF IInv, NonceOnce
  <2> QED
    BY <1>3, <2>3, <2>4, <2>5, <2>6 DEF IInv
<1> QED
  BY <1>4, <1>5

\* An answer of getSecret() is the kept secret, because key, nonce and cipher
\* belong together unless a call has spoiled them.
LEMMA GetSecretStep ==
  ASSUME IInv, NEW fails \in BOOLEAN, GetSecret(fails)
  PROVE  IInv'
<1>1. UNCHANGED Parts
  BY DEF GetSecret, Parts
<1>2. \/ ret' = <<"NoPasswordSet", None>> \/ ret' = <<"error", None>>
      \/ ret' = <<"secret", None>> /\ cipher = None
      \/ cipher # None /\ pwClear # None /\ ret' =
           IF Opens(cipher, nonce, symKey) THEN <<"secret", cipher.msg>>
                                           ELSE <<"WrongPassword", None>>
  BY DEF GetSecret, Returns
<1>3. cipher # None => cipher.msg \in Secrets
  BY DEF IInv, SecretTypeOK, Ciphers
<1>4. ret' \in Outcomes \X (Secrets \cup {None})
  BY <1>2, <1>3 DEF Outcomes
<1>5. "cipher" \notin spoiled =>
        /\ ret'[1] = "secret" => ret'[2] = truth.secret
        /\ ret'[1] # "WrongPassword"
  BY <1>2 DEF IInv, CipherFits, NoCipherNoSecret, Opens
<1>6. ret'[1] = "secret" => ret'[2] \in {truth.secret, None}
  BY <1>2 DEF IInv, CipherFits
<1> QED
  BY <1>1, <1>4, <1>5, <1>6, QuietStep

LEMMA SetPasswordStep ==
  ASSUME IInv, NEW pw \in Passwords, SetPassword(pw)
  PROVE  IInv'
<1> DEFINE key == PwHash(pw, hashConfig)
<1>1. key \in Keys /\ pw # None /\ pwClear = None
  BY HashIsKey, NoneAssumption DEF IInv, SecretTypeOK, SetPassword
<1>2. UNCHANGED <<hashConfig, cipher, nonce, fresh, spoiled, sealed, records>>
  BY DEF SetPassword
<1>3. /\ symKey' = key
      /\ \/ /\ cipher = None /\ pwClear' = pw /\ ret' = <<"true", None>>
            /\ truth' = [truth EXCEPT !.pw = pw]
         \/ /\ cipher # None /\ Opens(cipher, nonce, key) /\ pwClear' = pw
            /\ ret' = <<"true", None>> /\ truth' = truth
         \/ /\ cipher # None /\ pwClear' = None
            /\ ret' = <<"false", None>> /\ truth' = truth
  BY DEF SetPassword, Password2SymKey, ReleasePassword, Returns
<1> HIDE DEF key
<1>4. truth' \in [secret : Secrets \cup {None}, pw : Passwords \cup {None}]
  BY <1>3 DEF IInv, SecretTypeOK
<1>5. SecretTypeOK'
  BY <1>1, <1>2, <1>3, <1>4 DEF IInv, SecretTypeOK, Outcomes
<1>6. KeyFits'
  BY <1>1, <1>2, <1>3 DEF KeyFits, key
<1>7. truth'.secret = truth.secret
  BY <1>3 DEF IInv, SecretTypeOK
<1>8. CipherFits' /\ NoCipherNoSecret' /\ Answers'
  BY <1>1, <1>2, <1>3, <1>7 DEF IInv, CipherFits, NoCipherNoSecret, Answers, Opens
<1>9. OwnerFits'
  BY <1>2, <1>3 DEF IInv, OwnerFits
<1>10. FreshNonces' /\ NonceOnce' /\ RecordsFit'
  BY <1>2 DEF IInv, FreshNonces, NonceOnce, RecordsFit, RecordFits
<1> QED
  BY <1>5, <1>6, <1>8, <1>9, <1>10 DEF IInv

LEMMA UncheckedStep ==
  ASSUME IInv, NEW pw \in Passwords, SetPasswordUnchecked(pw)
  PROVE  IInv'
<1>1. PwHash(pw, hashConfig) \in Keys
  BY HashIsKey DEF IInv, SecretTypeOK
<1>2. /\ symKey' = PwHash(pw, hashConfig) /\ pwClear' = pw
      /\ spoiled' = spoiled \cup {"cipher"} /\ ret' = <<"error", None>>
      /\ UNCHANGED <<hashConfig, cipher, nonce, fresh, truth, sealed, records>>
  BY DEF SetPasswordUnchecked, Password2SymKey, Returns
<1>3. SecretTypeOK'
  BY <1>1, <1>2 DEF IInv, SecretTypeOK, Outcomes, Pieces
<1>4. KeyFits' /\ CipherFits' /\ NoCipherNoSecret' /\ OwnerFits' /\ Answers'
  BY <1>1, <1>2 DEF IInv, KeyFits, CipherFits, NoCipherNoSecret, OwnerFits, Answers
<1>5. FreshNonces' /\ NonceOnce' /\ RecordsFit'
  BY <1>2 DEF IInv, FreshNonces, NonceOnce, RecordsFit, RecordFits
<1> QED
  BY <1>3, <1>4, <1>5 DEF IInv

\* A key that was derived although the password could not be copied opens nothing, as
\* long as there is no password.
LEMMA SetPasswordFailsStep ==
  ASSUME IInv, NEW pw \in Passwords, SetPasswordFails(pw)
  PROVE  IInv'
<1>1. PwHash(pw, hashConfig) \in Keys
  BY HashIsKey DEF IInv, SecretTypeOK
<1>2. /\ symKey' \in Keys \cup {None} /\ pwClear = None /\ ret' = <<"error", None>>
      /\ UNCHANGED <<hashConfig, cipher, nonce, pwClear, fresh, truth, spoiled, sealed, records>>
  BY <1>1 DEF SetPasswordFails, Returns, IInv, SecretTypeOK
<1>3. SecretTypeOK'
  BY <1>2 DEF IInv, SecretTypeOK, Outcomes
<1>4. KeyFits' /\ CipherFits' /\ NoCipherNoSecret' /\ OwnerFits' /\ Answers'
  BY <1>2 DEF IInv, KeyFits, CipherFits, NoCipherNoSecret, OwnerFits, Answers
<1>5. FreshNonces' /\ NonceOnce' /\ RecordsFit'
  BY <1>2 DEF IInv, FreshNonces, NonceOnce, RecordsFit, RecordFits
<1> QED
  BY <1>3, <1>4, <1>5 DEF IInv

LEMMA CopyFailsStep ==
  ASSUME IInv, NEW oldPw \in Passwords, NEW newPw \in Passwords, NEW strength \in Strengths,
         ChangePasswordCopyFails(oldPw, newPw, strength)
  PROVE  IInv'
<1> DEFINE conf == [strength |-> strength, salt |-> fresh]
<1>1. /\ hashConfig' = conf /\ symKey' = PwHash(newPw, conf)
      /\ fresh' = fresh + 1 /\ fresh \in Nat /\ ret' = <<"error", None>>
      /\ spoiled' = spoiled \cup {"conf"} \cup IF cipher = None THEN {} ELSE {"cipher"}
      /\ UNCHANGED <<cipher, nonce, pwClear, truth, sealed, records>>
  BY DEF ChangePasswordCopyFails, Returns, IInv, SecretTypeOK
<1>2. conf \in Configs /\ symKey' \in Keys
  <2>1. conf \in Configs
    BY <1>1 DEF Configs
  <2> QED BY <1>1, <2>1, HashIsKey
<1> HIDE DEF conf
<1>3. SecretTypeOK'
  BY <1>1, <1>2 DEF IInv, SecretTypeOK, Outcomes, Pieces
<1>4. KeyFits' /\ CipherFits' /\ NoCipherNoSecret' /\ OwnerFits' /\ Answers'
  BY <1>1, <1>2 DEF IInv, KeyFits, CipherFits, NoCipherNoSecret, OwnerFits, Answers
<1>5. FreshNonces'
  BY <1>1 DEF IInv, SecretTypeOK, FreshNonces, Ciphers
<1>6. NonceOnce' /\ RecordsFit'
  BY <1>1 DEF IInv, NonceOnce, RecordsFit, RecordFits
<1> QED
  BY <1>3, <1>4, <1>5, <1>6 DEF IInv

LEMMA HashFailsStep ==
  ASSUME IInv, NEW oldPw \in Passwords, NEW strength \in Strengths,
         ChangePasswordHashFails(oldPw, strength)
  PROVE  IInv'
<1>1. /\ hashConfig' = [strength |-> strength, salt |-> fresh]
      /\ fresh' = fresh + 1 /\ fresh \in Nat
      /\ spoiled' = spoiled \cup {"conf"} /\ ret' = <<"error", None>>
      /\ UNCHANGED <<cipher, nonce, pwClear, symKey, truth, sealed, records>>
  BY DEF ChangePasswordHashFails, Returns, IInv, SecretTypeOK
<1>2. SecretTypeOK'
  BY <1>1 DEF IInv, SecretTypeOK, Configs, Outcomes, Pieces
<1>3. KeyFits' /\ CipherFits' /\ NoCipherNoSecret' /\ OwnerFits' /\ Answers'
  BY <1>1 DEF IInv, KeyFits, CipherFits, NoCipherNoSecret, OwnerFits, Answers
<1>4. FreshNonces'
  BY <1>1 DEF IInv, SecretTypeOK, FreshNonces, Ciphers
<1>5. NonceOnce' /\ RecordsFit'
  BY <1>1 DEF IInv, NonceOnce, RecordsFit, RecordFits
<1> QED
  BY <1>2, <1>3, <1>4, <1>5 DEF IInv

\* The secret that is open when the password changes is the kept one, and it
\* is sealed again under the new key before the record can be stored.
LEMMA ChangePasswordStep ==
  ASSUME IInv, NEW oldPw \in Passwords, NEW newPw \in Passwords,
         NEW strength \in Strengths, NEW fails \in BOOLEAN,
         ChangePassword(oldPw, newPw, strength, fails)
  PROVE  IInv'
<1> DEFINE conf == [strength |-> strength, salt |-> fresh]
           key == PwHash(newPw, conf)
<1>1. fresh \in Nat /\ conf \in Configs /\ newPw # None
  BY NoneAssumption DEF IInv, SecretTypeOK, Configs
<1>2. key \in Keys /\ key = PwHash(newPw, conf)
  BY <1>1, HashIsKey
<1>3. /\ hashConfig' = conf /\ symKey' = key /\ pwClear' = newPw
      /\ records' = records
  BY DEF ChangePassword, Password2SymKey
<1> HIDE DEF conf, key
<1>4. KeyFits'
  BY <1>2, <1>3 DEF KeyFits
<1>5. RecordsFit'
  BY <1>3 DEF IInv, RecordsFit, RecordFits
<1>6. [truth EXCEPT !.pw = newPw] \in
        [secret : Secrets \cup {None}, pw : Passwords \cup {None}]
      /\ [truth EXCEPT !.pw = newPw].secret = truth.secret
      /\ [truth EXCEPT !.pw = newPw].pw = newPw
  BY DEF IInv, SecretTypeOK
<1>7. CASE cipher = None
  <2>1. /\ fresh' = fresh + 1 /\ truth' = [truth EXCEPT !.pw = newPw]
        /\ spoiled' = spoiled \ {"conf"} /\ ret' = <<"true", None>>
        /\ UNCHANGED <<cipher, nonce, sealed>>
    BY <1>7 DEF ChangePassword, Returns
  <2>2. SecretTypeOK'
    BY <1>1, <1>2, <1>3, <1>6, <2>1 DEF IInv, SecretTypeOK, Outcomes
  <2>3. CipherFits' /\ NoCipherNoSecret' /\ OwnerFits' /\ Answers'
    BY <1>6, <1>7, <2>1 DEF IInv, CipherFits, NoCipherNoSecret, OwnerFits, Answers
  <2>4. FreshNonces'
    BY <1>1, <2>1 DEF IInv, SecretTypeOK, FreshNonces, Ciphers
  <2>5. NonceOnce'
    BY <2>1 DEF IInv, NonceOnce
  <2> QED
    BY <1>4, <1>5, <2>2, <2>3, <2>4, <2>5 DEF IInv
<1>8. CASE cipher # None /\ ~fails
  <2> DEFINE c == Seal(key, fresh + 1, cipher.msg)
  <2>1. cipher \in Ciphers /\ cipher.msg \in Secrets
    BY <1>8 DEF IInv, SecretTypeOK, Ciphers
  <2>2. /\ nonce' = fresh + 1 /\ fresh' = fresh + 2
        /\ cipher' = c /\ sealed' = sealed \cup {c}
        /\ truth' = [truth EXCEPT !.pw = newPw]
        /\ spoiled' = spoiled \ {"conf"} /\ ret' = <<"true", None>>
    BY <1>1, <1>3, <1>8 DEF ChangePassword, DrawNonce, Returns
  <2>3. /\ c \in Ciphers /\ c.key = key /\ c.nonce = fresh + 1
        /\ c.msg = cipher.msg
    BY <1>1, <1>2, <2>1, SealIsCipher DEF Seal
  <2> HIDE DEF c
  <2>4. FreshNonces' /\ NonceOnce' /\ sealed' \in SUBSET Ciphers
    BY <1>1, <2>2, <2>3, SealingIsFresh
  <2>5. SecretTypeOK'
    BY <1>1, <1>2, <1>3, <1>6, <2>2, <2>3, <2>4 DEF IInv, SecretTypeOK, Outcomes
  <2>6. cipher' # None
    BY <2>2, <2>3, NoneAssumption
  <2>7. CipherFits' /\ NoCipherNoSecret' /\ Answers'
    BY <1>3, <1>6, <1>8, <2>2, <2>3, <2>6 DEF IInv, CipherFits,
       NoCipherNoSecret, Answers
  <2>8. OwnerFits'
    BY <1>2, <1>3, <1>6, <2>2, <2>3 DEF OwnerFits
  <2> QED
    BY <1>4, <1>5, <2>4, <2>5, <2>7, <2>8 DEF IInv
<1>9. CASE cipher # None /\ fails
  <2>1. /\ nonce' = fresh + 1 /\ fresh' = fresh + 2
        /\ cipher' = None /\ ret' = <<"error", None>>
        /\ spoiled' = (spoiled \ {"conf"}) \cup {"cipher"}
        /\ UNCHANGED <<truth, sealed>>
    BY <1>1, <1>9 DEF ChangePassword, DrawNonce, Returns
  <2>2. SecretTypeOK'
    BY <1>1, <1>2, <1>3, <2>1 DEF IInv, SecretTypeOK, Outcomes, Pieces
  <2>3. CipherFits' /\ NoCipherNoSecret' /\ OwnerFits' /\ Answers'
    BY <2>1 DEF CipherFits, NoCipherNoSecret, OwnerFits, Answers
  <2>4. FreshNonces'
    BY <1>1, <2>1 DEF IInv, SecretTypeOK, FreshNonces, Ciphers
  <2>5. NonceOnce'
    BY <2>1 DEF IInv, NonceOnce
  <2> QED
    BY <1>4, <1>5, <2>2, <2>3, <2>4, <2>5 DEF IInv
<1> QED
  BY <1>7, <1>8, <1>9

LEMMA AsStringStep ==
  ASSUME IInv, NEW kept \in SUBSET records, AsString(kept)
  PROVE  IInv'
<1> DEFINE r == [hashConfig |-> hashConfig, cipher |-> cipher, nonce |-> nonce,
                 truth |-> truth, intact |-> spoiled = {}]
<1>1. /\ records' = kept \cup {r} /\ ret' = <<"true", None>>
      /\ UNCHANGED <<object, fresh, truth, spoiled, sealed>>
  BY DEF AsString, Returns
<1>2. r \in Records
  BY DEF IInv, SecretTypeOK, Records
<1>3. RecordFits(r)
  BY DEF IInv, RecordFits, CipherFits, NoCipherNoSecret, OwnerFits
<1> HIDE DEF r
<1>4. SecretTypeOK'
  BY <1>1, <1>2 DEF IInv, SecretTypeOK, object, Outcomes
<1>5. KeyFits' /\ CipherFits' /\ NoCipherNoSecret' /\ OwnerFits' /\ Answers'
  BY <1>1 DEF IInv, object, KeyFits, CipherFits, NoCipherNoSecret, OwnerFits, Answers
<1>6. FreshNonces' /\ NonceOnce'
  BY <1>1 DEF IInv, FreshNonces, NonceOnce
<1>7. RecordsFit'
  <2> SUFFICES ASSUME NEW q \in records' PROVE RecordFits(q)
    BY DEF RecordsFit, RecordFits
  <2> QED
    BY <1>1, <1>3 DEF IInv, RecordsFit
<1> QED
  BY <1>4, <1>5, <1>6, <1>7 DEF IInv

\* No call that is refused or that only looks has anything to report but what
\* is true of the object.
LEMMA RefusedStep ==
  ASSUME IInv,
         \/ SetSecretRefused
         \/ \E pw \in Passwords \cup {None} :
              SetPasswordRefused(pw) \/ IsValidPassword(pw)
  PROVE  IInv'
<1>1. UNCHANGED Parts
  BY DEF SetSecretRefused, SetPasswordRefused, IsValidPassword, Parts
<1>2. \E what \in {"NoPasswordSet", "false", "true"} : Returns(what)
  BY DEF SetSecretRefused, SetPasswordRefused, IsValidPassword
<1>3. PICK what \in {"NoPasswordSet", "false", "true"} : Returns(what)
  BY <1>2
<1>4. what \in Outcomes \ {"secret"} /\ what # "WrongPassword"
  BY DEF Outcomes
<1>5. ret' \in Outcomes \X (Secrets \cup {None}) /\ ret'[1] = what
  BY <1>3, <1>4, ConstantAnswer
<1> QED
  BY <1>1, <1>4, <1>5, QuietStep

LEMMA ChangeRefusedStep ==
  ASSUME IInv, NEW oldPw \in Passwords \cup {None}, NEW newPw \in Passwords \cup {None},
         ChangePasswordRefused(oldPw, newPw)
  PROVE  IInv'
<1>1. UNCHANGED Parts
  BY DEF ChangePasswordRefused, Parts
<1>2. \/ Returns("false") \/ Returns("NoPasswordSet") \/ Returns("error")
      \/ /\ Returns("WrongPassword") /\ pwClear # None
         /\ cipher # None /\ ~Opens(cipher, nonce, symKey)
  BY DEF ChangePasswordRefused
<1>3. PICK what \in {"false", "NoPasswordSet", "error", "WrongPassword"} : Returns(what)
  BY <1>2
<1>4. what \in Outcomes \ {"secret"}
  BY DEF Outcomes
<1>5. ret' \in Outcomes \X (Secrets \cup {None}) /\ ret'[1] = what
  BY <1>3, <1>4, ConstantAnswer
<1>6. "cipher" \notin spoiled => ret'[1] # "WrongPassword"
  BY <1>2 DEF IInv, CipherFits, Opens, Returns
<1> QED
  BY <1>1, <1>4, <1>5, <1>6, QuietStep

LEMMA NextStep == IInv /\ [SecretNext]_secretVars => IInv'
<1> SUFFICES ASSUME IInv, [SecretNext]_secretVars PROVE IInv'
  OBVIOUS
<1>1. CASE UNCHANGED secretVars
  <2>1. UNCHANGED Parts /\ ret' = ret
    BY <1>1 DEF secretVars, Parts, object
  <2> QED
    BY <2>1, QuietStep DEF IInv, SecretTypeOK, Answers
<1>2. CASE \E strength \in Strengths : New(strength)
  BY <1>2, NewStep
<1>3. CASE \E r \in records : Load(r)
  BY <1>3, LoadStep
<1>4. CASE EraseSecret
  BY <1>4, EraseStep
<1>5. CASE \E sec \in Secrets, fails \in BOOLEAN : SetSecret(sec, fails)
  BY <1>5, SetSecretStep
<1>6. CASE \E fails \in BOOLEAN : GetSecret(fails)
  BY <1>6, GetSecretStep
<1>7. CASE \E pw \in Passwords :
             SetPassword(pw) \/ SetPasswordUnchecked(pw) \/ SetPasswordFails(pw)
  BY <1>7, SetPasswordStep, UncheckedStep, SetPasswordFailsStep
<1>8. CASE \/ \E oldPw \in Passwords, strength \in Strengths :
                ChangePasswordHashFails(oldPw, strength)
           \/ \E oldPw, newPw \in Passwords, strength \in Strengths :
                ChangePasswordCopyFails(oldPw, newPw, strength)
  BY <1>8, HashFailsStep, CopyFailsStep
<1>9. CASE \E oldPw, newPw \in Passwords, strength \in Strengths, fails \in BOOLEAN :
             ChangePassword(oldPw, newPw, strength, fails)
  BY <1>9, ChangePasswordStep
<1>10. CASE \E kept \in SUBSET records : AsString(kept)
  BY <1>10, AsStringStep
<1>11. CASE \/ SetSecretRefused
            \/ \E pw \in Passwords \cup {None} :
                 SetPasswordRefused(pw) \/ IsValidPassword(pw)
  BY <1>11, RefusedStep
<1>12. CASE \E oldPw, newPw \in Passwords \cup {None} :
              ChangePasswordRefused(oldPw, newPw)
  BY <1>12, ChangeRefusedStep
<1>13. CASE SecretNext
  BY <1>13, <1>2, <1>3, <1>4, <1>5, <1>6, <1>7, <1>8, <1>9, <1>10, <1>11, <1>12,
     Zenon DEF SecretNext
<1> QED
  BY <1>1, <1>13

LEMMA Invariance == SecretSpec => []IInv
<1> QED
  BY InitInv, NextStep, PTL DEF SecretSpec

\* Every field of the object and of the stored records keeps its type; in
\* particular asString() always finds a nonce to store.
THEOREM TypeCorrect == SecretSpec => []SecretTypeOK
<1>1. IInv => SecretTypeOK
  BY DEF IInv
<1> QED
  BY <1>1, Invariance, PTL

\* For any sequence of calls and failures and of stored and loaded records, no
\* secret is returned but the one that was set last; and until a failure has
\* spoiled the cipher, whoever holds the password gets it, and no password that
\* was accepted is reported as wrong (SecretKept).
THEOREM SecretIsKept == SecretSpec => []SecretKept
<1>1. IInv => SecretKept
  BY DEF IInv, KeyFits, CipherFits, NoCipherNoSecret, Answers, SecretKept, Opens
<1> QED
  BY <1>1, Invariance, PTL

\* A stored record has the secret that was set last, and if no failure had spoiled
\* the object it opens with its own password and with no other.
THEOREM RecordsAlwaysOpen == SecretSpec => []RecordsOpen
<1>1. IInv => RecordsOpen
  <2>0. ASSUME IInv, NEW r \in records, r.cipher # None PROVE r.cipher.msg = r.truth.secret
    BY <2>0 DEF IInv, RecordsFit, RecordFits
  <2> SUFFICES ASSUME IInv, NEW r \in records, r.intact, r.cipher # None
               PROVE  \A pw \in Passwords :
                        Opens(r.cipher, r.nonce, PwHash(pw, r.hashConfig)) <=> pw = r.truth.pw
    BY <2>0 DEF RecordsOpen
  <2>1. /\ r.cipher.key = PwHash(r.truth.pw, r.hashConfig)
        /\ r.cipher.nonce = r.nonce
    BY DEF IInv, RecordsFit, RecordFits
  <2>2. \A pw \in Passwords : PwHash(pw, r.hashConfig) = PwHash(r.truth.pw, r.hashConfig)
                              <=> pw = r.truth.pw
    BY DEF PwHash
  <2> QED
    BY <2>1, <2>2 DEF Opens
<1> QED
  BY <1>1, Invariance, PTL

\* No nonce serves two messages under one key (NonceOnce).
THEOREM NoncesServeOnce == SecretSpec => []NonceOnce
<1>1. IInv => NonceOnce
  BY DEF IInv
<1> QED
  BY <1>1, Invariance, PTL

=============================================================================
