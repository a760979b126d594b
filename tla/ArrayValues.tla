---------------------------- MODULE ArrayValues ----------------------------
(***************************************************************************)
(* What ManagedArray promises its users: an array is a value of its own.   *)
(* An operation gives the array it is called for a value, takes the value  *)
(* of the array it moves from, and leaves all other arrays alone.          *)
(***************************************************************************)
EXTENDS Sequences, Integers

CONSTANTS Arrays, Elements, MaxSize, Gone, Borrowed

VARIABLES
  val,    \* for each array its elements, Gone, or Borrowed from the caller
  op      \* the operation that was called last: its name and two arrays

Contents == UNION {[1..n -> Elements] : n \in 0..MaxSize}

Become(o, v) == val' = [val EXCEPT ![o] = v]

Init == val = [o \in Arrays |-> Gone] /\ op = <<"none">>

(* What the step of an operation may do to the values.                     *)
Constructed(o) == val[o] = Gone /\ \E v \in Contents \cup {Borrowed} : Become(o, v)

Copied(o, p) == IF val[p] = Borrowed THEN \E v \in Contents : Become(o, v)
                                     ELSE Become(o, val[p])

Moved(o, p) == val' = [val EXCEPT ![p] = <<>>, ![o] = val[p]]

Written(o) == \/ /\ val[o] # Borrowed
                 /\ \E i \in 1..Len(val[o]), x \in Elements :
                      Become(o, [val[o] EXCEPT ![i] = x])
              \/ val[o] = Borrowed /\ UNCHANGED val

CopiedOver(o, p) ==
  IF val[o] = Borrowed \/ val[p] = Borrowed
    THEN \/ UNCHANGED val
         \/ val[o] # Borrowed /\ \E v \in [1..Len(val[o]) -> Elements] : Become(o, v)
    ELSE \E d \in 0..Len(val[o]) - Len(val[p]) :
           Become(o, [i \in 1..Len(val[o]) |->
             IF i \in d + 1..d + Len(val[p]) THEN val[p][i - d] ELSE val[o][i]])

Resized(o) == \E v \in Contents :
                /\ \A i \in 1..Len(v) : i <= Len(val[o]) => v[i] = val[o][i]
                /\ Become(o, v)

(* A copy that runs out of memory leaves its target empty.                 *)
Emptied(o) == Become(o, <<>>)

Step ==
  \E o, p \in Arrays :
    /\ op' \in {"construct", "copy", "move", "write", "copy over", "resize", "release",
                "destroy", "compare", "self", "failed"} \X {o} \X {p}
    /\ CASE op'[1] = "construct" -> Constructed(o)
         [] op'[1] = "copy"      -> Copied(o, p)
         [] op'[1] = "move"      -> Moved(o, p)
         [] op'[1] = "write"     -> Written(o)
         [] op'[1] = "copy over" -> CopiedOver(o, p)
         [] op'[1] = "resize"    -> Resized(o)
         [] op'[1] = "destroy"   -> Become(o, Gone)
         [] op'[1] = "release"   -> Emptied(o)
         \* An assignment makes a deep copy of its source, the array itself.
         [] op'[1] \in {"compare", "self"} -> UNCHANGED val
         [] op'[1] = "failed"    -> UNCHANGED val \/ Emptied(o)
=============================================================================
