---------------------------- MODULE ManagedArray ----------------------------
(***************************************************************************)
(* ManagedArray and MemArray (Memory.h): arrays on the heap that are       *)
(* copied, moved, resized and released, and arrays that only refer to a    *)
(* buffer of the caller.  The heap is part of the model: who owns a block  *)
(* is decided by the pointers and flags of the objects alone.              *)
(***************************************************************************)
EXTENDS Sequences, Integers, FiniteSets

CONSTANTS
  Arrays,        \* the objects
  Elements,      \* the values of the elements
  Buffers,       \* blocks of the caller: allocated before, of size MaxSize
  MaxSize,       \* bound: the size of an array
  MaxBlock,      \* bound: the blocks that are ever allocated
  Gone, Borrowed \* the value of no object, and of one without a block of its own

ASSUME ArrayAssumption ==
  /\ MaxSize \in Nat \ {0} /\ MaxBlock \in Nat
  /\ Elements # {}
  /\ Buffers \cap (0..MaxBlock) = {}

null == 0      \* nullptr
Blocks == 1..MaxBlock \cup Buffers

VARIABLES
  arr,           \* the living objects: ptr, cnt, owning
  heap,          \* the blocks that are allocated, with their contents
  given,         \* the buffers whose ownership the caller has given away
  nextBlock,     \* the next address of the allocator
  op,            \* the operation that was called last: its name and arrays
  overwritten    \* history: operator== has given an array the pointer of another

arrayVars == <<arr, heap, given, nextBlock, op, overwritten>>

BlockContents == UNION {[1..n -> Elements] : n \in 0..MaxSize}

ASSUME OpaqueAssumption == Borrowed # Gone /\ {Borrowed, Gone} \cap BlockContents = {}

ArrayTypeOK ==
  /\ \E alive \in SUBSET Arrays :
       arr \in [alive -> [ptr : Blocks \cup {null}, cnt : 0..MaxSize, owning : BOOLEAN]]
  /\ \E live \in SUBSET Blocks : heap \in [live -> BlockContents]
  /\ given \in SUBSET Buffers
  /\ nextBlock \in 1..MaxBlock + 1
  /\ overwritten \in BOOLEAN

Alive == DOMAIN arr
Called(name, o, p) == op' = <<name, o, p>>

-----------------------------------------------------------------------------
(* releaseMem() of the block of an object, if it has one and owns it.      *)
Released(o) ==
  IF arr[o].owning /\ arr[o].ptr # null
    THEN [b \in DOMAIN heap \ {arr[o].ptr} |-> heap[b]]
    ELSE heap

With(f, x, y) == [z \in DOMAIN f \cup {x} |-> IF z = x THEN y ELSE f[z]]

Empty == [ptr |-> null, cnt |-> 0, owning |-> FALSE]

(* The slip that counts one element more than there is memory for.         *)
FreshOneMore(o, h, content) ==
  /\ nextBlock <= MaxBlock
  /\ arr' = With(arr, o, [ptr |-> nextBlock, cnt |-> Len(content) + 1, owning |-> TRUE])
  /\ heap' = With(h, nextBlock, content)
  /\ nextBlock' = nextBlock + 1

(* An object with a new block of its own, as the constructors, the copy    *)
(* assignment and resize() make it; none is allocated for no elements.     *)
Fresh(o, h, content) ==
  IF content = <<>>
    THEN /\ arr' = With(arr, o, Empty)
         /\ heap' = h
         /\ UNCHANGED nextBlock
    ELSE /\ nextBlock <= MaxBlock
         /\ arr' = With(arr, o, [ptr |-> nextBlock, cnt |-> Len(content), owning |-> TRUE])
         /\ heap' = With(h, nextBlock, content)
         /\ nextBlock' = nextBlock + 1

(* The elements of a block that an array refers to.                        *)
ContentOf(o) == IF arr[o].ptr = null THEN <<>> ELSE heap[arr[o].ptr]

(* The slip of a copy that takes the pointer over.                         *)
SharedFresh(o, h, p) ==
  /\ arr' = With(arr, o, arr[p]) /\ heap' = h /\ UNCHANGED nextBlock

(* A deep copy of p.                                                       *)
FreshCopy(o, h, p) == Fresh(o, h, ContentOf(p))

(* The slip of a move that leaves the other array its pointer.             *)
MovedAndKept(o, p) == With(arr, o, arr[p])

(* The pointer, the size and the ownership of p go over to o; a flag of    *)
(* ownership without a pointer does not.                                   *)
MovedFrom(o, p) ==
  With(With(arr, o, IF arr[p].ptr = null THEN Empty ELSE arr[p]), p, Empty)

-----------------------------------------------------------------------------
ArrayInit ==
  /\ arr = <<>>
  /\ heap \in [Buffers -> [1..MaxSize -> Elements]]
  /\ given = {}
  /\ nextBlock = 1
  /\ op = <<"none">>
  /\ overwritten = FALSE

(* The constructors: default, for a number of elements (they are zeroed),  *)
(* and for a pointer of the caller, with or without ownership.             *)
CreateArray(o, n, zero) ==
  /\ o \notin Alive
  /\ Fresh(o, heap, [i \in 1..n |-> zero])
  /\ Called("construct", o, o)
  /\ UNCHANGED given

ConstructOn(o, b, takeOwnership) ==
  /\ o \notin Alive /\ b \notin given
  /\ takeOwnership => \A p \in Alive : arr[p].ptr # b
  /\ arr' = With(arr, o, [ptr |-> b, cnt |-> Len(heap[b]), owning |-> takeOwnership])
  /\ given' = IF takeOwnership THEN given \cup {b} ELSE given
  /\ Called("construct", o, o)
  /\ UNCHANGED <<heap, nextBlock>>

(* A constructor that gets no memory makes no object.                      *)
ConstructFails(o) ==
  /\ o \notin Alive
  /\ Called("failed", o, o)
  /\ UNCHANGED <<arr, heap, given, nextBlock>>

CopyConstruct(o, p) ==
  /\ o \notin Alive /\ p \in Alive
  /\ FreshCopy(o, heap, p)
  /\ Called("copy", o, p)
  /\ UNCHANGED given

MoveConstruct(o, p) ==
  /\ o \notin Alive /\ p \in Alive
  /\ arr' = MovedFrom(o, p)
  /\ Called("move", o, p)
  /\ UNCHANGED <<heap, given, nextBlock>>

(* Copy assignment: the own block goes first, then the other array is      *)
(* looked at, which is empty by now when it is the same one.               *)
CopyAssign(o, p) ==
  /\ {o, p} \subseteq Alive /\ o # p
  /\ FreshCopy(o, Released(o), p)
  /\ Called("copy", o, p)
  /\ UNCHANGED given

AssignToSelf(o) ==
  /\ o \in Alive
  /\ arr' = With(arr, o, Empty)
  /\ heap' = Released(o)
  /\ Called("self", o, o)
  /\ UNCHANGED <<given, nextBlock>>

CopyAssignFails(o, p) ==
  /\ {o, p} \subseteq Alive /\ o # p /\ arr[p].cnt # 0
  /\ arr' = With(arr, o, Empty)
  /\ heap' = Released(o)
  /\ Called("failed", o, p)
  /\ UNCHANGED <<given, nextBlock>>

(* Move assignment; of an array to itself it is AssignToSelf.              *)
MoveAssign(o, p) ==
  /\ {o, p} \subseteq Alive /\ o # p
  /\ arr' = MovedFrom(o, p)
  /\ heap' = Released(o)
  /\ Called("move", o, p)
  /\ UNCHANGED <<given, nextBlock>>

-----------------------------------------------------------------------------
(* releaseMemory(): an empty array, and one that owns what it has; the     *)
(* flag of ownership stays.  Memory of the caller is refused.              *)
ReleaseMemory(o) ==
  /\ o \in Alive
  /\ arr[o].owning \/ arr[o].ptr = null
  /\ arr' = [arr EXCEPT ![o].ptr = null, ![o].cnt = 0]
  /\ heap' = Released(o)
  /\ Called("release", o, o)
  /\ UNCHANGED <<given, nextBlock>>

(* resize(): the elements both sizes have are kept, the rest of the new    *)
(* block is zeroed by new T[]; resize(0) is releaseMemory().  Without      *)
(* ownership - also of an array that was never filled - and without        *)
(* memory nothing changes.                                                 *)
Resize(o, n, zero) ==
  /\ o \in Alive
  /\ n \notin {arr[o].cnt, 0} /\ arr[o].owning
  /\ Fresh(o, Released(o),
           [i \in 1..n |-> IF i <= arr[o].cnt THEN heap[arr[o].ptr][i] ELSE zero])
  /\ Called("resize", o, o)
  /\ UNCHANGED given

ResizeFails(o, n) ==
  /\ o \in Alive /\ n # arr[o].cnt
  /\ n = 0 => ~arr[o].owning
  /\ Called("failed", o, o)
  /\ UNCHANGED <<arr, heap, given, nextBlock>>

(* operator[] writes through the pointer, copyOver() the elements of any   *)
(* array, if they fit.                                                     *)
Write(o, i, x) ==
  /\ o \in Alive /\ i \in 1..arr[o].cnt
  /\ heap' = [heap EXCEPT ![arr[o].ptr][i] = x]
  /\ Called("write", o, o)
  /\ UNCHANGED <<arr, given, nextBlock>>

CopyOver(o, p, first) ==
  /\ {o, p} \subseteq Alive /\ arr[p].cnt # 0
  /\ first + arr[p].cnt <= arr[o].cnt
  /\ heap' = [heap EXCEPT ![arr[o].ptr] =
       [i \in DOMAIN @ |-> IF i \in first + 1..first + arr[p].cnt
                            THEN heap[arr[p].ptr][i - first] ELSE @[i]]]
  /\ Called("copy over", o, p)
  /\ UNCHANGED <<arr, given, nextBlock>>

(* operator== assigns the pointer instead of comparing it.                 *)
Compare(o, p) ==
  /\ {o, p} \subseteq Alive
  /\ arr' = [arr EXCEPT ![o].ptr = arr[p].ptr]
  /\ overwritten' = (arr[o].ptr # arr[p].ptr)
  /\ Called("compare", o, p)
  /\ UNCHANGED <<heap, given, nextBlock>>

Destroy(o) ==
  /\ o \in Alive
  /\ arr' = [p \in Alive \ {o} |-> arr[p]]
  /\ heap' = Released(o)
  /\ Called("destroy", o, o)
  /\ UNCHANGED <<given, nextBlock>>

Zero == CHOOSE x \in Elements : TRUE

Operation(o) ==
  \/ \E n \in 0..MaxSize : CreateArray(o, n, Zero) \/ Resize(o, n, Zero) \/ ResizeFails(o, n)
  \/ \E b \in Buffers, own \in BOOLEAN : ConstructOn(o, b, own)
  \/ ConstructFails(o) \/ AssignToSelf(o) \/ ReleaseMemory(o) \/ Destroy(o)
  \/ \E p \in Arrays :
       \/ CopyConstruct(o, p) \/ CopyAssign(o, p) \/ CopyAssignFails(o, p)
       \/ MoveConstruct(o, p) \/ MoveAssign(o, p)
       \/ \E first \in 0..MaxSize - 1 : CopyOver(o, p, first)
  \/ \E i \in 1..MaxSize, x \in Elements : Write(o, i, x)

(* Two arrays with one pointer, or a size without its block, end in freed  *)
(* memory that is used or freed again: behaviours are modelled up to where *)
(* operator== has overwritten a pointer with another one.                  *)
Undefined == overwritten /\ UNCHANGED arrayVars

ArrayNext ==
  \/ ~overwritten /\ \E o \in Arrays : Operation(o) /\ UNCHANGED overwritten
  \/ ~overwritten /\ \E o, p \in Arrays : Compare(o, p)
  \/ Undefined

ArraySpec == ArrayInit /\ [][ArrayNext]_arrayVars

-----------------------------------------------------------------------------
Owners(b) == {o \in Alive : arr[o].owning /\ arr[o].ptr = b}

(* What the comment at operator== says, that arrays never share a pointer  *)
(* and a resource is owned by one instance only: every allocated block has *)
(* exactly one owner, an array or the caller, so that it is freed once and *)
(* not lost; nothing that was freed is referred to; and an array knows the *)
(* size of its block.  operator== itself breaks it.                        *)
EachHasOneOwner ==
  /\ \A b \in DOMAIN heap :
       Cardinality(Owners(b)) = IF b \in Buffers \ given THEN 0 ELSE 1
  /\ \A o \in Alive :
       IF arr[o].ptr = null
         THEN arr[o].cnt = 0
         ELSE arr[o].ptr \in DOMAIN heap /\ arr[o].cnt = Len(heap[arr[o].ptr])

(* So it is whatever else is called, in any order: until operator== is     *)
(* called for arrays with different pointers, every block has one owner.   *)
OneOwner == overwritten \/ EachHasOneOwner

(* Arrays are values: no copy, move, write, resize or release of one array *)
(* changes the elements of another, and a copy has the elements of its     *)
(* source, a moved array takes them along.  Arrays on a buffer of the      *)
(* caller share it.  Two operations are left out: operator== of arrays     *)
(* with different pointers, and the assignment of an array to itself,      *)
(* which empties it although it is documented as a deep copy.              *)
Value(o) == IF o \notin Alive THEN Gone
            ELSE IF arr[o].ptr # null /\ ~arr[o].owning THEN Borrowed
            ELSE ContentOf(o)

Shown == [o \in Arrays |-> Value(o)]

PlainValues == INSTANCE ArrayValues WITH val <- Shown

ArraysAreValues ==
  /\ PlainValues!Init
  /\ [][PlainValues!Step \/ op'[1] = "self" \/ overwritten']_<<Shown, op>>
=============================================================================
