--------------------------- MODULE Texts_proofs -----------------------------
(***************************************************************************)
(* Proofs about the components that take a text apart: SyntaxTree and        *)
(* TemplateStore, and CsvTable.  The two specifications share nothing.       *)
(*                                                                          *)
(* About parse(), for texts of any length and any nesting: it accepts        *)
(* exactly the well-formed ones, and its items are linked in the order of    *)
(* the text.  The loop keeps ParserFits and SameBlocks: the first says how   *)
(* the links and the local variables of parse() fit each other, the second   *)
(* that the chain of parents is the list of blocks still open in the text.   *)
(* Holds says that the items hold the pieces read so far, and Laid where in  *)
(* the text each item stands.                                                *)
(*                                                                           *)
(* About the store, for any files, dictionaries and requests: StoreIInv is   *)
(* inductive, and the type invariant, what the store holds and that no       *)
(* template is ever expanded within itself follow from it.                   *)
(*                                                                          *)
(* About CsvTable, for tables of any size: IInv is inductive.                *)
(***************************************************************************)
EXTENDS TemplateMeaning, CsvTable, FiniteSetTheorems, SequenceTheorems, TLAPS

-----------------------------------------------------------------------------
(***************************************************************************)
(* Induction over numbers, from the facts about finite sets: a lemma about a *)
(* set can be cited where one about an operator cannot.                     *)
(***************************************************************************)

\* A set of numbers that is not empty has a least element.
LEMMA LeastNat ==
  ASSUME NEW T \in SUBSET Nat, T # {}
  PROVE  \E n \in T : \A m \in T : n <= m
<1> DEFINE F == {0..n : n \in T}
<1>1. F \subseteq FiniteSubsetsOf(Nat)
  <2> SUFFICES ASSUME NEW n \in T PROVE 0..n \in FiniteSubsetsOf(Nat)
    OBVIOUS
  <2>1. IsFiniteSet(0..n)
    BY FS_Interval
  <2>2. 0..n \subseteq Nat
    OBVIOUS
  <2> QED BY <2>1, <2>2 DEF FiniteSubsetsOf
<1>2. IsWellFoundedOn(StrictSubsetOrdering(Nat), FiniteSubsetsOf(Nat))
  BY FS_StrictSubsetOrderingWellFounded
<1>3. \E x \in F : \A y \in F : ~(<<y, x>> \in StrictSubsetOrdering(Nat))
  <2>1. F # {}
    OBVIOUS
  <2> HIDE DEF F
  <2> QED BY <1>1, <1>2, <2>1, WFMin
<1>4. PICK n \in T : \A y \in F : ~(<<y, 0..n>> \in StrictSubsetOrdering(Nat))
  BY <1>3
<1>5. ASSUME NEW m \in T, m < n PROVE FALSE
  <2>1. n \in 0..n /\ n \notin 0..m
    BY <1>5
  <2>2. 0..m \subseteq 0..n /\ 0..m # 0..n /\ 0..n \subseteq Nat
    BY <1>5, <2>1
  <2> QED BY <1>4, <2>2 DEF StrictSubsetOrdering
<1> QED BY <1>4, <1>5

\* Induction up to n, said of the set of the numbers for which it holds.
LEMMA SetInduction ==
  ASSUME NEW n \in Nat, NEW T, 0 \in T, \A i \in 0..n-1 : i \in T => i + 1 \in T
  PROVE  0..n \subseteq T
<1> SUFFICES ASSUME NEW j \in 0..n, j \notin T
             PROVE  FALSE
  OBVIOUS
<1> DEFINE F == {i \in 0..n : i \notin T}
<1>1. F \in SUBSET Nat /\ j \in F
  OBVIOUS
<1>2. PICK m \in F : \A k \in F : m <= k
  BY <1>1, LeastNat
<1>3. m \in 0..n /\ m \notin T /\ m # 0
  BY <1>2
<1>4. m - 1 \in 0..n-1 /\ ~(m <= m - 1) /\ (m - 1) + 1 = m
  BY <1>3
<1>5. m - 1 \in T
  BY <1>2, <1>4
<1> QED
  BY <1>3, <1>4, <1>5

\* Induction from n down to 1: each number follows from all those above it.
LEMMA DownwardSetInduction ==
  ASSUME NEW n \in Nat, NEW T, \A i \in 1..n : (\A j \in i+1..n : j \in T) => i \in T
  PROVE  1..n \subseteq T
<1> DEFINE S == {i \in 0..n : \A j \in n-i+1..n : j \in T}
<1>1. 0 \in S
  OBVIOUS
<1>2. ASSUME NEW i \in 0..n-1, i \in S PROVE i + 1 \in S
  <2>1. n - i \in 1..n /\ (n - i) + 1 = n - i + 1
    BY <1>2
  <2>2. n - i \in T
    BY <2>1, <1>2
  <2> QED
    BY <1>2, <2>1, <2>2
<1>3. 0..n \subseteq S
  <2> HIDE DEF S
  <2> QED BY <1>1, <1>2, SetInduction
<1>4. n \in S
  BY <1>3
<1> QED
  BY <1>4

\* One round of the loop over the pieces of s.
Round(s, p, i) == IF p.err \/ s[i].k \in Plain THEN p ELSE HandleToken(s, p, i)

\* The loop of parse() is what its recursive definition says.
LEMMA LoopRounds ==
  ASSUME NEW s, Len(s) \in Nat
  PROVE  /\ Loop(s)[0] = NewParser
         /\ \A i \in 1..Len(s) : Loop(s)[i] = Round(s, Loop(s)[i - 1], i)
<1> DEFINE n == Len(s)
           Is(f, m) == f = [i \in 0..m |-> IF i = 0 THEN NewParser ELSE Round(s, f[i - 1], i)]
           T == {m \in 0..n : \E f : Is(f, m)}
<1>1. 0 \in T
  <2> DEFINE f == [i \in 0..0 |-> NewParser]
  <2>1. Is(f, 0)
    <3>1. f = [i \in 0..0 |-> IF i = 0 THEN NewParser ELSE Round(s, f[i - 1], i)]
      <4>1. \A i \in 0..0 : i = 0
        OBVIOUS
      <4>2. \A i \in 0..0 : f[i] = IF i = 0 THEN NewParser ELSE Round(s, f[i - 1], i)
        BY <4>1
      <4>3. f = [i \in 0..0 |-> f[i]]
        OBVIOUS
      <4> HIDE DEF f
      <4> QED BY <4>2, <4>3
    <3> QED BY <3>1
  <2> HIDE DEF Is
  <2> QED BY <2>1
<1>2. ASSUME NEW m \in 0..n-1, m \in T PROVE m + 1 \in T
  <2>1. PICK f : Is(f, m)
    BY <1>2
  <2> DEFINE g == [i \in 0..m+1 |-> IF i <= m THEN f[i] ELSE Round(s, f[m], i)]
  <2>2. \A i \in 0..m+1 : g[i] = IF i = 0 THEN NewParser ELSE Round(s, g[i - 1], i)
    <3> SUFFICES ASSUME NEW i \in 0..m+1
                 PROVE  g[i] = IF i = 0 THEN NewParser ELSE Round(s, g[i - 1], i)
      OBVIOUS
    <3>1. CASE i = 0
      BY <2>1, <3>1
    <3>2. CASE i # 0 /\ i <= m
      <4>1. i - 1 \in 0..m+1 /\ i - 1 <= m /\ i \in 0..m
        BY <3>2
      <4> QED
        BY <2>1, <3>2, <4>1
    <3>3. CASE i = m + 1
      <4>1. i - 1 = m /\ i # 0 /\ ~(i <= m) /\ m \in 0..m+1
        BY <3>3
      <4> QED
        BY <3>3, <4>1
    <3> QED BY <3>1, <3>2, <3>3
  <2>3. Is(g, m + 1)
    <3> HIDE DEF Is
    <3>1. g = [i \in 0..m+1 |-> g[i]]
      OBVIOUS
    <3> HIDE DEF g
    <3> QED BY <2>2, <3>1 DEF Is
  <2>4. m + 1 \in 0..n
    BY <1>2
  <2> HIDE DEF g, Is
  <2> QED BY <2>3, <2>4
<1>3. \E f : Is(f, n)
  <2> HIDE DEF Is
  <2>1. n \in 0..n
    OBVIOUS
  <2>2. 0..n \subseteq T
    <3> HIDE DEF T
    <3> QED BY <1>1, <1>2, SetInduction
  <2> QED BY <2>1, <2>2
<1>4. Is(Loop(s), n)
  <2>1. Loop(s) = CHOOSE f : Is(f, n)
    BY DEF Loop, Round
  <2> HIDE DEF Is
  <2> QED BY <1>3, <2>1
<1> QED
  <2>1. \A i \in 1..n : i \in 0..n /\ i # 0
    OBVIOUS
  <2> QED BY <1>4, <2>1

-----------------------------------------------------------------------------
(***************************************************************************)
(* What parse() keeps true of its items: parents, first children and next   *)
(* siblings as they are linked while the list grows.                        *)
(***************************************************************************)

\* The types of the items.
ItemTypes == {"Static", "Variable", "Condition", "ForLoop", "IncludeCmd"}

\* The pieces of a text, and the items that parse() can make of them.
Pieces(s) == {s[i] : i \in DOMAIN s}

Items(s) == [t : ItemTypes, text : Pieces(s) \cup Seq(Pieces(s)),
             idxNextSibling : Nat, idxFirstChild : Nat, idxParent : Nat]

\* What the local variables of parse() may be.
Parsers(s) == [tree : Seq(Items(s)), idxParentItem : Nat, idxLastSibling : Nat,
               updateParent : BOOLEAN, curSection : {"Root", "Condition", "ForLoop"},
               curSectionStart : Nat \ {0}, err : BOOLEAN]

\* Parser q has one item more than p, linked as updateLinks() does.
Pushed(s, p, q, t, text) ==
    LET n == Len(p.tree)
    IN  /\ q \in Parsers(s) /\ n \in Nat /\ Len(q.tree) = n + 1
        /\ q.idxParentItem = p.idxParentItem /\ q.idxLastSibling = n + 1
        /\ q.updateParent = FALSE /\ q.curSection = p.curSection
        /\ q.curSectionStart = p.curSectionStart /\ q.err = p.err
        /\ \A j \in 1..n :
             /\ q.tree[j].idxParent = p.tree[j].idxParent
             /\ q.tree[j].t = p.tree[j].t /\ q.tree[j].text = p.tree[j].text
             /\ q.tree[j].idxFirstChild =
                  IF p.updateParent /\ j = p.idxParentItem THEN n + 1
                  ELSE p.tree[j].idxFirstChild
             /\ q.tree[j].idxNextSibling =
                  IF j = p.idxLastSibling THEN n + 1 ELSE p.tree[j].idxNextSibling
        /\ q.tree[n + 1] = [t |-> t, text |-> text, idxNextSibling |-> 0,
                            idxFirstChild |-> 0, idxParent |-> p.idxParentItem]

\* What Push() does.
LEMMA PushFacts ==
  ASSUME NEW s, NEW p \in Parsers(s), NEW t \in ItemTypes,
         NEW text \in Pieces(s) \cup Seq(Pieces(s))
  PROVE  Pushed(s, p, Push(p, t, text), t, text)
<1> DEFINE q == Push(p, t, text)
           n == Len(p.tree)
<1>1. n \in Nat /\ p.tree \in Seq(Items(s)) /\ \A j \in 1..n : p.tree[j] \in Items(s)
  BY DEF Parsers
<1> DEFINE fc(j) == IF p.updateParent /\ j = p.idxParentItem THEN n + 1
                    ELSE p.tree[j].idxFirstChild
           nx(j) == IF j = p.idxLastSibling THEN n + 1 ELSE p.tree[j].idxNextSibling
           linked == [j \in 1..n |-> [p.tree[j] EXCEPT !.idxFirstChild = fc(j),
                                                       !.idxNextSibling = nx(j)]]
           new == [t |-> t, text |-> text, idxNextSibling |-> 0,
                   idxFirstChild |-> 0, idxParent |-> p.idxParentItem]
<1>2. ASSUME NEW j \in 1..n
      PROVE  /\ fc(j) \in Nat /\ nx(j) \in Nat
             /\ linked[j] \in Items(s)
             /\ linked[j].idxParent = p.tree[j].idxParent /\ linked[j].t = p.tree[j].t
             /\ linked[j].text = p.tree[j].text
             /\ linked[j].idxFirstChild = fc(j) /\ linked[j].idxNextSibling = nx(j)
  <2>1. fc(j) \in Nat /\ nx(j) \in Nat
    BY <1>1, SMTT(30) DEF Items
  <2> HIDE DEF fc, nx
  <2>2. linked[j] = [p.tree[j] EXCEPT !.idxFirstChild = fc(j), !.idxNextSibling = nx(j)]
    BY Zenon
  <2> HIDE DEF linked
  <2> QED
    BY <1>1, <2>1, <2>2 DEF Items
<1>3. linked \in Seq(Items(s)) /\ Len(linked) = n
  <2> HIDE DEF fc, nx
  <2>1. linked \in [1..n -> Items(s)]
    BY Zenon, <1>2
  <2> HIDE DEF linked
  <2> QED BY <1>1, <2>1, SeqDef
<1>4. new \in Items(s)
  BY DEF Items, Parsers
<1>5. q = [p EXCEPT !.tree = Append(linked, new), !.updateParent = FALSE,
                    !.idxLastSibling = n + 1]
  <2>1. n + 1 - 1 = n
    BY <1>1
  <2> QED BY <2>1 DEF Push, NoItem
<1> HIDE DEF linked, new, fc, nx, q
<1>6. /\ Append(linked, new) \in Seq(Items(s)) /\ Len(Append(linked, new)) = n + 1
      /\ \A j \in 1..n : Append(linked, new)[j] = linked[j]
      /\ Append(linked, new)[n + 1] = new
  BY <1>1, <1>3, <1>4, AppendProperties
<1>7. /\ q \in Parsers(s) /\ q.tree = Append(linked, new)
      /\ q.idxParentItem = p.idxParentItem /\ q.idxLastSibling = n + 1
      /\ q.updateParent = FALSE /\ q.curSection = p.curSection
      /\ q.curSectionStart = p.curSectionStart /\ q.err = p.err
  <2> DEFINE grown == Append(linked, new)
             last == n + 1
  <2>1. grown \in Seq(Items(s)) /\ last \in Nat
    BY <1>1, <1>6
  <2>2. q = [p EXCEPT !.tree = grown, !.updateParent = FALSE, !.idxLastSibling = last]
    BY <1>5
  <2> HIDE DEF grown, last
  <2>3. /\ q.tree = grown /\ q.idxLastSibling = last /\ q.updateParent = FALSE
        /\ q.idxParentItem = p.idxParentItem /\ q.curSection = p.curSection
        /\ q.curSectionStart = p.curSectionStart /\ q.err = p.err
    BY <2>2 DEF Parsers
  <2>4. q \in Parsers(s)
    BY <2>1, <2>2 DEF Parsers
  <2> QED BY <2>3, <2>4 DEF grown, last
<1>8. ASSUME NEW j \in 1..n
      PROVE  /\ q.tree[j].idxParent = p.tree[j].idxParent
             /\ q.tree[j].t = p.tree[j].t /\ q.tree[j].text = p.tree[j].text
             /\ q.tree[j].idxFirstChild = fc(j)
             /\ q.tree[j].idxNextSibling = nx(j)
  <2>1. q.tree[j] = linked[j]
    BY <1>6, <1>7
  <2> QED BY <1>2, <2>1
<1>9. q.tree[n + 1] = new /\ Len(q.tree) = n + 1
  BY <1>6, <1>7
<1>10. Pushed(s, p, q, t, text)
  BY <1>1, <1>7, <1>8, <1>9 DEF fc, nx, new, Pushed
<1> QED
  BY <1>10 DEF q

\* The types of the items that have children.
Blocks == {"Condition", "ForLoop"}

\* The parents: of an earlier item, that has a block, and in their nesting.
ParentsFit(tree) ==
    /\ \A j \in 1..Len(tree) :
         /\ tree[j].idxParent \in 0..j-1
         /\ tree[j].idxParent # 0 => tree[tree[j].idxParent].t \in Blocks
    /\ \A j, k \in 1..Len(tree) :
         tree[k].idxParent < j /\ j < k => tree[k].idxParent <= tree[j].idxParent

\* The first child of an item is the next item, if that is a child of it.
ChildrenFit(tree) ==
    \A j \in 1..Len(tree) :
        /\ tree[j].idxFirstChild \in {0, j + 1}
        /\ tree[j].idxFirstChild = j + 1 => j + 1 \in 1..Len(tree) /\ tree[j + 1].idxParent = j
        /\ tree[j].idxFirstChild = 0 /\ j + 1 \in 1..Len(tree) => tree[j + 1].idxParent # j

\* The next sibling of an item is the next one with its parent.
SiblingsFit(tree) ==
    \A j \in 1..Len(tree) :
        LET k == tree[j].idxNextSibling
        IN  /\ k # 0 => k \in j+1..Len(tree) /\ tree[k].idxParent = tree[j].idxParent
            /\ \A m \in j+1..Len(tree) :
                 tree[m].idxParent = tree[j].idxParent => k # 0 /\ k <= m

\* All links of a tree are right.
TreeFits(tree) == ParentsFit(tree) /\ ChildrenFit(tree) /\ SiblingsFit(tree)

\* The variables of parse() fit the tree.
PlaceFits(tree, idxParent, last, update, sec) ==
    /\ idxParent \in 0..Len(tree)
    /\ idxParent # 0 => tree[idxParent].t \in Blocks
    /\ update = (idxParent # 0 /\ idxParent = Len(tree))
    /\ sec = SectionOf(tree, idxParent)
    /\ last \in 0..Len(tree)
    /\ last # 0 => tree[last].idxParent = idxParent
    /\ \A j \in 1..Len(tree) : tree[j].idxParent = idxParent => last # 0 /\ j <= last
    /\ \A j \in idxParent+1..Len(tree) : idxParent <= tree[j].idxParent

\* The invariant of the loop in parse().
ParserFits(s, p) ==
    /\ p \in Parsers(s)
    /\ TreeFits(p.tree)
    /\ PlaceFits(p.tree, p.idxParentItem, p.idxLastSibling, p.updateParent, p.curSection)

\* It holds before the first round.
LEMMA NewParserFits ==
  ASSUME NEW s
  PROVE  ParserFits(s, NewParser)
<1>1. <<>> \in Seq(Items(s)) /\ Len(<<>>) = 0
  BY EmptySeq
<1>2. NewParser \in Parsers(s)
  BY <1>1 DEF NewParser, Parsers, NoItem
<1> DEFINE tree == NewParser.tree
<1>3. Len(tree) = 0
  BY <1>1 DEF NewParser
<1>4. TreeFits(tree)
  <2> HIDE DEF tree
  <2> QED BY <1>3 DEF TreeFits, ParentsFit, ChildrenFit, SiblingsFit
<1>5. PlaceFits(tree, 0, 0, FALSE, "Root")
  <2> HIDE DEF tree
  <2> QED BY <1>3 DEF PlaceFits, SectionOf, NoItem
<1> QED
  BY <1>2, <1>4, <1>5 DEF ParserFits, NewParser, NoItem

\* A new item keeps all links right.
LEMMA PushFits ==
  ASSUME NEW s, NEW p, ParserFits(s, p), NEW t \in ItemTypes,
         NEW text \in Pieces(s) \cup Seq(Pieces(s)),
         NEW q, q = Push(p, t, text)
  PROVE  /\ ParserFits(s, q)
         /\ q.err = p.err /\ q.curSection = p.curSection
         /\ q.idxParentItem = p.idxParentItem
         /\ Len(q.tree) = Len(p.tree) + 1
         /\ \A j \in 1..Len(p.tree) : /\ q.tree[j].idxParent = p.tree[j].idxParent
                                      /\ q.tree[j].t = p.tree[j].t
         /\ q.tree[Len(q.tree)].idxParent = p.idxParentItem
         /\ q.tree[Len(q.tree)].t = t
<1> DEFINE n == Len(p.tree)
           P == p.idxParentItem
           L == p.idxLastSibling
           U == p.updateParent
           old == p.tree
           new == q.tree
<1>0. Pushed(s, p, q, t, text) /\ p \in Parsers(s)
  BY PushFacts DEF ParserFits
<1>1. /\ q \in Parsers(s) /\ n \in Nat /\ Len(new) = n + 1
      /\ q.idxParentItem = P /\ q.idxLastSibling = n + 1
      /\ q.updateParent = FALSE /\ q.curSection = p.curSection
      /\ q.curSectionStart = p.curSectionStart /\ q.err = p.err
  BY <1>0 DEF Pushed
<1>2. \A j \in 1..n :
         /\ new[j].idxParent = old[j].idxParent
         /\ new[j].t = old[j].t
         /\ new[j].idxFirstChild = IF U /\ j = P THEN n + 1 ELSE old[j].idxFirstChild
         /\ new[j].idxNextSibling = IF j = L THEN n + 1 ELSE old[j].idxNextSibling
  BY <1>0 DEF Pushed
<1>3. /\ new[n + 1].idxParent = P /\ new[n + 1].t = t
      /\ new[n + 1].idxFirstChild = 0 /\ new[n + 1].idxNextSibling = 0
  <2>1. new[n + 1] = [t |-> t, text |-> text, idxNextSibling |-> 0,
                      idxFirstChild |-> 0, idxParent |-> P]
    BY <1>0 DEF Pushed
  <2> HIDE DEF n, P, new
  <2> QED BY <2>1
<1>4. TreeFits(old) /\ PlaceFits(old, P, L, U, p.curSection)
  BY DEF ParserFits
<1>5. \A j \in 1..n : /\ old[j].idxParent \in Nat /\ old[j].idxFirstChild \in Nat
                      /\ old[j].idxNextSibling \in Nat
  <2>1. old \in Seq(Items(s))
    BY <1>0 DEF Parsers
  <2>2. \A j \in 1..n : old[j] \in Items(s)
    BY <2>1, ElementOfSeq
  <2> HIDE DEF old, n
  <2> QED BY <2>2 DEF Items
<1>6. Len(old) = n
  OBVIOUS
<1> HIDE DEF n, P, L, U, old, new
<1>7. P \in 0..n /\ L \in 0..n /\ U = (P # 0 /\ P = n)
  BY <1>4, <1>6 DEF PlaceFits
<1>8. ParentsFit(new)
  <2>1. ASSUME NEW j \in 1..n+1
        PROVE  /\ new[j].idxParent \in 0..j-1
               /\ new[j].idxParent # 0 => new[new[j].idxParent].t \in Blocks
    <3>1. CASE j \in 1..n
      <4>1. /\ old[j].idxParent \in 0..j-1
            /\ old[j].idxParent # 0 => old[old[j].idxParent].t \in Blocks
        BY <3>1, <1>4, <1>6 DEF TreeFits, ParentsFit
      <4>2. old[j].idxParent # 0 => old[j].idxParent \in 1..n
        BY <4>1, <3>1, <1>1
      <4> QED BY <4>1, <4>2, <3>1, <1>2
    <3>2. CASE j = n + 1
      BY <3>2, <1>1, <1>2, <1>3, <1>4, <1>6, <1>7 DEF PlaceFits
    <3> QED BY <3>1, <3>2, <1>1
  <2>2. ASSUME NEW j \in 1..n+1, NEW k \in 1..n+1, new[k].idxParent < j, j < k
        PROVE  new[k].idxParent <= new[j].idxParent
    <3>1. j \in 1..n /\ new[j].idxParent = old[j].idxParent
      BY <2>2, <1>1, <1>2
    <3>2. CASE k \in 1..n
      BY <3>1, <3>2, <2>2, <1>2, <1>4, <1>6 DEF TreeFits, ParentsFit
    <3>3. CASE k = n + 1
      BY <3>1, <3>3, <2>2, <1>1, <1>3, <1>4, <1>6, <1>7 DEF PlaceFits
    <3> QED BY <3>2, <3>3, <1>1
  <2> QED
    BY <2>1, <2>2, <1>1 DEF ParentsFit
<1>9. ChildrenFit(new)
  <2> SUFFICES ASSUME NEW j \in 1..n+1
               PROVE  /\ new[j].idxFirstChild \in {0, j + 1}
                      /\ new[j].idxFirstChild = j + 1 =>
                           j + 1 \in 1..n+1 /\ new[j + 1].idxParent = j
                      /\ new[j].idxFirstChild = 0 /\ j + 1 \in 1..n+1 =>
                           new[j + 1].idxParent # j
    BY <1>1 DEF ChildrenFit
  <2>1. CASE j \in 1..n-1
    <3>1. j + 1 \in 1..n /\ j \in 1..n /\ j # n
      BY <2>1, <1>1
    <3>0. ~(U /\ j = P)
      BY <3>1, <1>7
    <3> QED
      BY <3>0, <3>1, <1>1, <1>2, <1>4, <1>6 DEF TreeFits, ChildrenFit
  <2>2. CASE j = n /\ j \in 1..n
    <3>1. old[n].idxFirstChild = 0
      BY <2>2, <1>4, <1>6, <1>1 DEF TreeFits, ChildrenFit
    <3>2. new[n].idxFirstChild = IF P = n THEN n + 1 ELSE 0
      <4>0. n \in 1..n /\ n # 0
        BY <2>2, <1>1
      <4>1. CASE P = n
        <5>1. U
          BY <4>0, <4>1, <1>7
        <5> QED BY <5>1, <4>0, <4>1, <1>2
      <4>2. CASE P # n
        BY <3>1, <4>0, <4>2, <1>2
      <4> QED BY <4>1, <4>2
    <3> QED BY <3>2, <2>2, <1>1, <1>3, <1>7
  <2>3. CASE j = n + 1
    BY <2>3, <1>3, <1>1
  <2> QED BY <2>1, <2>2, <2>3, <1>1
<1>10. SiblingsFit(new)
  <2> SUFFICES ASSUME NEW j \in 1..n+1, NEW k, k = new[j].idxNextSibling
               PROVE  /\ k # 0 => k \in j+1..n+1 /\ new[k].idxParent = new[j].idxParent
                      /\ \A m \in j+1..n+1 :
                           new[m].idxParent = new[j].idxParent => k # 0 /\ k <= m
    BY <1>1 DEF SiblingsFit
  <2>1. CASE j = n + 1
    BY <2>1, <1>1, <1>3
  <2>2. CASE j \in 1..n /\ j = L
    <3>1. k = n + 1 /\ old[j].idxParent = P /\ new[j].idxParent = P
      BY <2>2, <1>1, <1>2, <1>4, <1>6 DEF PlaceFits
    <3>2. \A m \in j+1..n : old[m].idxParent # P
      BY <2>2, <1>1, <1>4, <1>6 DEF PlaceFits
    <3> QED BY <3>1, <3>2, <2>2, <1>1, <1>2, <1>3
  <2>3. CASE j \in 1..n /\ j # L
    <3>1. k = old[j].idxNextSibling /\ new[j].idxParent = old[j].idxParent
      BY <2>3, <1>2
    <3>2. /\ k # 0 => k \in j+1..n /\ old[k].idxParent = old[j].idxParent
          /\ \A m \in j+1..n : old[m].idxParent = old[j].idxParent => k # 0 /\ k <= m
      BY <2>3, <3>1, <1>4, <1>6 DEF TreeFits, SiblingsFit
    <3>3. ASSUME old[j].idxParent = P PROVE k # 0 /\ k <= n
      <4>1. L \in j+1..n /\ old[L].idxParent = P
        BY <2>3, <3>3, <1>4, <1>6, <1>7, <1>1 DEF PlaceFits
      <4> QED BY <3>2, <3>3, <4>1, <1>1
    <3>4. k # 0 => k \in j+1..n+1 /\ new[k].idxParent = new[j].idxParent
      BY <3>1, <3>2, <1>1, <1>2, <2>3
    <3>5. ASSUME NEW m \in j+1..n+1, new[m].idxParent = new[j].idxParent
          PROVE  k # 0 /\ k <= m
      <4>1. CASE m \in j+1..n
        BY <4>1, <3>5, <3>1, <3>2, <1>1, <1>2, <2>3
      <4>2. CASE m = n + 1
        <5>1. old[j].idxParent = P
          BY <4>2, <3>5, <3>1, <1>3
        <5> QED BY <5>1, <3>2, <3>3, <4>2, <1>1, <2>3
      <4> QED BY <4>1, <4>2, <1>1
    <3> QED BY <3>4, <3>5
  <2> QED BY <2>1, <2>2, <2>3, <1>1
<1>11. PlaceFits(new, P, n + 1, FALSE, p.curSection)
  <2>1. /\ P \in 0..n+1 /\ n + 1 \in 0..n+1 /\ FALSE = (P # 0 /\ P = n + 1)
        /\ P # 0 => new[P].t \in Blocks
        /\ n + 1 # 0 => new[n + 1].idxParent = P
    BY <1>1, <1>2, <1>3, <1>4, <1>6, <1>7 DEF PlaceFits
  <2>2. p.curSection = SectionOf(new, P)
    BY <1>1, <1>2, <1>4, <1>7 DEF PlaceFits, SectionOf, NoItem
  <2>3. \A j \in P+1..n+1 : P <= new[j].idxParent
    <3> SUFFICES ASSUME NEW j \in P+1..n+1 PROVE P <= new[j].idxParent
      OBVIOUS
    <3>1. CASE j = n + 1
      BY <3>1, <1>3, <1>7, <1>1
    <3>2. CASE j \in P+1..n
      BY <3>2, <1>2, <1>4, <1>6, <1>7, <1>1 DEF PlaceFits
    <3> QED BY <3>1, <3>2, <1>1, <1>7
  <2> QED
    BY <2>1, <2>2, <2>3, <1>1 DEF PlaceFits
<1>12. ParserFits(s, q)
  BY <1>1, <1>8, <1>9, <1>10, <1>11 DEF ParserFits, TreeFits, new
<1> QED
  BY <1>1, <1>2, <1>3, <1>12 DEF new, old, n, P

\* A tree that has grown.
Grown(old, new) ==
    /\ Len(old) <= Len(new)
    /\ \A j \in 1..Len(old) : /\ new[j].idxParent = old[j].idxParent
                              /\ new[j].t = old[j].t

\* Where the next static text begins, and whether there was an error, is nothing
\* that the links depend on.
LEMMA StartAndErrorFit ==
  ASSUME NEW s, NEW p, ParserFits(s, p), NEW k \in Nat \ {0}
  PROVE  /\ ParserFits(s, [p EXCEPT !.curSectionStart = k])
         /\ ParserFits(s, [p EXCEPT !.err = TRUE])
<1>1. p \in Parsers(s)
  BY DEF ParserFits
<1> DEFINE q == [p EXCEPT !.curSectionStart = k]
           r == [p EXCEPT !.err = TRUE]
<1>2. /\ q \in Parsers(s) /\ q.tree = p.tree /\ q.idxParentItem = p.idxParentItem
      /\ q.idxLastSibling = p.idxLastSibling /\ q.updateParent = p.updateParent
      /\ q.curSection = p.curSection
  BY <1>1 DEF Parsers
<1>3. /\ r \in Parsers(s) /\ r.tree = p.tree /\ r.idxParentItem = p.idxParentItem
      /\ r.idxLastSibling = p.idxLastSibling /\ r.updateParent = p.updateParent
      /\ r.curSection = p.curSection
  BY <1>1 DEF Parsers
<1> HIDE DEF q, r
<1>4. ParserFits(s, q) /\ ParserFits(s, r)
  BY <1>2, <1>3 DEF ParserFits
<1> QED BY <1>4 DEF q, r

\* levelDown() after an item that has just been added opens its block.
LEMMA LevelDownFits ==
  ASSUME NEW s, NEW p, ParserFits(s, p), Len(p.tree) # 0,
         p.tree[Len(p.tree)].t \in Blocks
  PROVE  /\ ParserFits(s, LevelDown(p))
         /\ LevelDown(p).tree = p.tree /\ LevelDown(p).idxParentItem = Len(p.tree)
         /\ LevelDown(p).err = p.err
<1> DEFINE q == LevelDown(p)
           n == Len(p.tree)
           tree == p.tree
           sec == SectionOf(tree, n)
<1>1. p \in Parsers(s) /\ n \in Nat /\ tree \in Seq(Items(s))
  BY DEF ParserFits, Parsers
<1>2. sec \in {"Root", "Condition", "ForLoop"}
  BY DEF SectionOf
<1>3. q = [p EXCEPT !.idxParentItem = n, !.updateParent = TRUE, !.idxLastSibling = 0,
                    !.curSection = sec]
  BY DEF LevelDown, NoItem
<1> HIDE DEF q, sec, n
<1>4. /\ q \in Parsers(s) /\ q.tree = tree /\ q.idxParentItem = n
      /\ q.updateParent = TRUE /\ q.idxLastSibling = 0 /\ q.curSection = sec /\ q.err = p.err
  BY <1>1, <1>2, <1>3 DEF Parsers
<1> HIDE DEF tree
<1>5. TreeFits(tree)
  BY DEF ParserFits, tree
<1>6. PlaceFits(tree, n, 0, TRUE, sec)
  <2>1. Len(tree) = n /\ tree[n].t \in Blocks
    BY DEF tree, n
  <2>3. n # 0
    BY DEF n
  <2>2. \A j \in 1..n : tree[j].idxParent # n
    BY <1>1, <1>5, <2>1 DEF TreeFits, ParentsFit
  <2> QED
    BY <1>1, <2>1, <2>2, <2>3 DEF PlaceFits, sec
<1> QED
  BY <1>4, <1>5, <1>6 DEF ParserFits, q, tree, n

\* levelUp() closes the innermost block.
LEMMA LevelUpFits ==
  ASSUME NEW s, NEW p, ParserFits(s, p), p.idxParentItem # 0
  PROVE  /\ ParserFits(s, LevelUp(p))
         /\ LevelUp(p).tree = p.tree /\ LevelUp(p).err = p.err
         /\ LevelUp(p).idxParentItem = p.tree[p.idxParentItem].idxParent
<1> DEFINE q == LevelUp(p)
           tree == p.tree
           n == Len(tree)
           P == p.idxParentItem
           up == tree[P].idxParent
           sec == SectionOf(tree, up)
<1>1. p \in Parsers(s) /\ n \in Nat /\ tree \in Seq(Items(s))
  BY DEF ParserFits, Parsers
<1>2. sec \in {"Root", "Condition", "ForLoop"}
  BY DEF SectionOf
<1>3. q = [p EXCEPT !.idxLastSibling = P, !.idxParentItem = up, !.updateParent = FALSE,
                    !.curSection = sec]
  BY DEF LevelUp, NoItem
<1>4. TreeFits(tree) /\ PlaceFits(tree, P, p.idxLastSibling, p.updateParent, p.curSection)
  BY DEF ParserFits
<1>5. P \in 1..n
  <2> HIDE DEF tree
  <2> QED BY <1>1, <1>4 DEF PlaceFits
<1>6. up \in 0..P-1 /\ (up # 0 => tree[up].t \in Blocks) /\ P # 0
  <2> HIDE DEF P, tree
  <2> QED BY <1>4, <1>5 DEF TreeFits, ParentsFit
<1> HIDE DEF q, sec, up
<1>7. /\ q \in Parsers(s) /\ q.tree = tree /\ q.idxParentItem = up
      /\ q.updateParent = FALSE /\ q.idxLastSibling = P /\ q.curSection = sec /\ q.err = p.err
  <2>1. up \in Nat /\ P \in Nat
    BY <1>5, <1>6
  <2> QED
    BY <1>1, <1>2, <1>3, <2>1 DEF Parsers
<1> HIDE DEF tree, P, n
<1>8. PlaceFits(tree, up, P, FALSE, sec)
  <2>1. Len(tree) = n /\ tree[P].idxParent = up
    BY DEF n, up
  <2>2. up \in 0..n /\ P \in 0..n /\ up # n
    BY <1>1, <1>5, <1>6
  <2>3. ASSUME NEW j \in 1..n, tree[j].idxParent = up PROVE j <= P
    <3> SUFFICES ASSUME P < j PROVE FALSE
      BY <1>5, <1>1
    <3>1. P <= tree[j].idxParent
      BY <1>1, <1>4, <1>5, <2>1 DEF PlaceFits
    <3> QED BY <2>3, <3>1, <1>5, <1>6, <1>1
  <2>4. ASSUME NEW j \in up+1..n PROVE up <= tree[j].idxParent
    <3>0. j \in 1..n /\ tree[j].idxParent \in 0..j-1
      BY <1>1, <1>4, <1>6, <2>1, <2>2 DEF TreeFits, ParentsFit
    <3>1. CASE j < P
      <4>1. tree[P].idxParent < j
        BY <2>1, <1>5, <1>6, <1>1
      <4>2. tree[P].idxParent <= tree[j].idxParent
        BY <4>1, <3>0, <3>1, <1>4, <1>5, <2>1 DEF TreeFits, ParentsFit
      <4> QED BY <4>2, <2>1
    <3>2. CASE j = P
      BY <3>2, <2>1, <1>6, <1>5, <1>1
    <3>3. CASE P < j
      <4>1. P <= tree[j].idxParent
        BY <3>3, <3>0, <1>1, <1>4, <1>5, <2>1 DEF PlaceFits
      <4> QED BY <4>1, <3>0, <1>5, <1>6, <1>1
    <3> QED BY <3>1, <3>2, <3>3, <3>0, <1>5, <1>1
  <2> QED
    BY <1>1, <1>5, <1>6, <2>1, <2>2, <2>3, <2>4 DEF PlaceFits, sec
<1>9. ParserFits(s, q)
  BY <1>4, <1>7, <1>8 DEF ParserFits
<1> QED
  BY <1>7, <1>9 DEF q, tree, up, P

-----------------------------------------------------------------------------
(***************************************************************************)
(* The parser opens and closes the blocks that the reduction of the text    *)
(* opens and closes, and both fail at the same texts.                       *)
(***************************************************************************)

\* The type of the item that a token opens a block with.
BlockType(k) == IF k = "if" THEN "Condition" ELSE "ForLoop"

\* The blocks that the parser has open are those of the text.
Chain(tree, idxParent, open, c) ==
    /\ c \in [1..Len(open) -> 1..Len(tree)]
    /\ open \in Seq(Opener)
    /\ \A q \in 1..Len(open) :
         /\ tree[c[q]].idxParent = IF q = 1 THEN 0 ELSE c[q - 1]
         /\ tree[c[q]].t = BlockType(open[q])
    /\ idxParent = IF Len(open) = 0 THEN 0 ELSE c[Len(open)]

\* A malformed token among the first i pieces, and an end that has met no beginning.
BadUpTo(s, i) == \E j \in 1..i : s[j].k = "bad"

Wrong(open) == \E q \in 1..Len(open) : open[q] = "error"

\* The parser and the reduction have the same blocks open, or both have met an
\* error.
SameBlocks(s, i, p, open) ==
    /\ ParserFits(s, p)
    /\ open \in Seq(Opener \cup {"error"})
    /\ p.err => BadUpTo(s, i) \/ Wrong(open)
    /\ ~p.err => ~BadUpTo(s, i) /\ \E c : Chain(p.tree, p.idxParentItem, open, c)

\* One step of Opened().
OpenedBy(kind, before) ==
    IF kind \in Opener THEN Append(before, kind)
    ELSE IF kind \notin DOMAIN Begin THEN before
    ELSE IF before # <<>> /\ Last(before) = Begin[kind] THEN Front(before)
    ELSE Append(before, "error")

\* A sequence without its last element.
LEMMA FrontFacts ==
  ASSUME NEW S, NEW e \in Seq(S), e # <<>>
  PROVE  /\ Front(e) \in Seq(S) /\ Len(Front(e)) = Len(e) - 1
         /\ \A q \in 1..Len(e)-1 : Front(e)[q] = e[q]
         /\ Len(e) \in Nat \ {0} /\ Last(e) \in S /\ Last(e) = e[Len(e)]
<1> DEFINE m == Len(e)
           f == SubSeq(e, 1, m - 1)
<1>1. m \in Nat /\ m # 0 /\ m - 1 \in Int
  BY EmptySeq
<1>2. \A q \in 1..m-1 : e[q] \in S
  BY <1>1
<1>3. /\ f \in Seq(S) /\ Len(f) = IF 1 <= m - 1 THEN (m - 1) - 1 + 1 ELSE 0
      /\ \A q \in 1..(m - 1)-1+1 : f[q] = e[1+q-1]
  BY <1>1, <1>2, SubSeqProperties
<1> HIDE DEF f
<1>4. Len(f) = m - 1
  <2> HIDE DEF m
  <2>1. CASE m = 1
    BY <2>1, <1>3
  <2>2. CASE m # 1
    <3>1. 1 <= m - 1 /\ (m - 1) - 1 + 1 = m - 1
      BY <2>2, <1>1
    <3> QED BY <3>1, <1>3
  <2> QED BY <2>1, <2>2
<1>5. ASSUME NEW q \in 1..m-1 PROVE f[q] = e[q]
  <2>1. q \in 1..(m - 1)-1+1 /\ 1 + q - 1 = q
    BY <1>1
  <2> QED BY <1>3, <2>1
<1>6. Last(e) = e[m] /\ e[m] \in S
  BY <1>1 DEF Last
<1>7. Front(e) = f
  BY DEF Front, f
<1> QED
  BY <1>1, <1>3, <1>4, <1>5, <1>6, <1>7

\* A tree that grows keeps the open blocks.
LEMMA ChainGrows ==
  ASSUME NEW old, NEW new, Grown(old, new), Len(old) \in Nat, Len(new) \in Nat,
         NEW idxParent, NEW open, NEW c, Chain(old, idxParent, open, c)
  PROVE  Chain(new, idxParent, open, c)
<1>1. \A q \in 1..Len(open) : c[q] \in 1..Len(old)
  BY DEF Chain
<1>2. c \in [1..Len(open) -> 1..Len(new)]
  BY DEF Chain, Grown
<1> QED
  BY <1>1, <1>2 DEF Chain, Grown

\* The chain c of m blocks with item n as one more, and without its last one.
Deeper(c, m, n) == [q \in 1..m+1 |-> IF q = m + 1 THEN n ELSE c[q]]
Shorter(c, m) == [q \in 1..m-1 |-> c[q]]

\* A new item that opens a block is the innermost of the open ones.
LEMMA ChainDown ==
  ASSUME NEW old, NEW new, Grown(old, new), Len(old) \in Nat,
         NEW idxParent, NEW open, NEW c, Chain(old, idxParent, open, c),
         NEW kind \in Opener, Len(new) = Len(old) + 1,
         new[Len(new)].idxParent = idxParent, new[Len(new)].t = BlockType(kind)
  PROVE  Chain(new, Len(new), Append(open, kind), Deeper(c, Len(open), Len(new)))
<1> DEFINE m == Len(open)
           n == Len(new)
           d == Deeper(c, m, n)
           opens == Append(open, kind)
<1>1. Chain(new, idxParent, open, c)
  BY ChainGrows
<1>2. open \in Seq(Opener) /\ m \in Nat /\ n \in Nat /\ n \in 1..n
  BY <1>1 DEF Chain
<1>3. /\ opens \in Seq(Opener) /\ Len(opens) = m + 1
      /\ opens[m + 1] = kind /\ \A q \in 1..m : opens[q] = open[q]
  BY <1>2, AppendProperties
<1>4. \A q \in 1..m : c[q] \in 1..n
  BY <1>1 DEF Chain
<1>5. d \in [1..m+1 -> 1..n]
  BY <1>2, <1>4 DEF Deeper
<1>6. d[m + 1] = n /\ \A q \in 1..m : d[q] = c[q]
  BY <1>2 DEF Deeper
<1>7. new[n].idxParent = idxParent /\ new[n].t = BlockType(kind)
  OBVIOUS
<1> HIDE DEF d, opens, m, n
<1>8. ASSUME NEW q \in 1..m+1
      PROVE  /\ new[d[q]].idxParent = IF q = 1 THEN 0 ELSE d[q - 1]
             /\ new[d[q]].t = BlockType(opens[q])
  <2>1. CASE q \in 1..m
    <3>1. /\ new[c[q]].idxParent = IF q = 1 THEN 0 ELSE c[q - 1]
          /\ new[c[q]].t = BlockType(open[q])
      BY <1>1, <2>1 DEF Chain, m
    <3>2. q # 1 => q - 1 \in 1..m
      BY <2>1, <1>2
    <3> QED BY <3>1, <3>2, <2>1, <1>3, <1>6
  <2>2. CASE q = m + 1
    <3>1. idxParent = IF m = 0 THEN 0 ELSE c[m]
      BY <1>1 DEF Chain, m
    <3>2. m # 0 => m \in 1..m /\ q - 1 = m /\ q # 1
      BY <2>2, <1>2
    <3>3. m = 0 => q = 1
      BY <2>2
    <3> QED BY <3>1, <3>2, <3>3, <2>2, <1>3, <1>6, <1>7
  <2> QED BY <2>1, <2>2, <1>2
<1>9. n = IF Len(opens) = 0 THEN 0 ELSE d[Len(opens)]
  BY <1>2, <1>3, <1>6
<1>10. Chain(new, n, opens, d)
  BY <1>3, <1>5, <1>8, <1>9 DEF Chain, n
<1> QED
  BY <1>10 DEF n, opens, d, m

\* Closing the innermost block leaves the ones around it.
LEMMA ChainUp ==
  ASSUME NEW tree, NEW idxParent, NEW open, NEW c, Chain(tree, idxParent, open, c),
         open # <<>>, Len(tree) \in Nat
  PROVE  /\ idxParent \in 1..Len(tree) /\ tree[idxParent].t = BlockType(Last(open))
         /\ Last(open) \in Opener
         /\ Chain(tree, tree[idxParent].idxParent, Front(open), Shorter(c, Len(open)))
<1> DEFINE m == Len(open)
           d == Shorter(c, m)
           front == Front(open)
<1>1. open \in Seq(Opener) /\ m \in Nat /\ m # 0
  BY EmptySeq DEF Chain
<1>2. m \in 1..m /\ idxParent = c[m] /\ c[m] \in 1..Len(tree) /\ open[m] \in Opener
  BY <1>1 DEF Chain
<1>3. /\ tree[idxParent].t = BlockType(open[m])
      /\ tree[idxParent].idxParent = IF m = 1 THEN 0 ELSE c[m - 1]
  BY <1>2 DEF Chain
<1>4. /\ front \in Seq(Opener) /\ Len(front) = m - 1
      /\ \A q \in 1..m-1 : front[q] = open[q]
  BY <1>1, FrontFacts
<1> HIDE DEF front
<1>5. Chain(tree, tree[idxParent].idxParent, front, d)
  <2>1. d \in [1..m-1 -> 1..Len(tree)]
    BY <1>1 DEF Chain, Shorter
  <2>2. ASSUME NEW q \in 1..m-1
        PROVE  /\ tree[d[q]].idxParent = IF q = 1 THEN 0 ELSE d[q - 1]
               /\ tree[d[q]].t = BlockType(front[q])
    <3>1. q \in 1..m /\ d[q] = c[q] /\ (q # 1 => d[q - 1] = c[q - 1])
      BY <1>1 DEF Shorter
    <3> QED BY <3>1, <1>4 DEF Chain
  <2>3. tree[idxParent].idxParent = IF m - 1 = 0 THEN 0 ELSE d[m - 1]
    <3>1. m # 1 => m - 1 \in 1..m-1
      <4> HIDE DEF m
      <4> QED BY <1>1
    <3> QED BY <1>1, <1>3, <3>1 DEF Shorter
  <2> HIDE DEF d, m
  <2> QED BY <1>4, <2>1, <2>2, <2>3 DEF Chain
<1> HIDE DEF d
<1>6. Last(open) = open[m]
  BY DEF Last
<1> QED
  BY <1>2, <1>3, <1>5, <1>6 DEF front, d, m

\* An error stays in the list of open blocks.
LEMMA WrongStays ==
  ASSUME NEW kind, NEW open \in Seq(Opener \cup {"error"})
  PROVE  /\ OpenedBy(kind, open) \in Seq(Opener \cup {"error"})
         /\ Wrong(open) => Wrong(OpenedBy(kind, open))
<1> DEFINE m == Len(open)
           S == Opener \cup {"error"}
           front == Front(open)
<1>1. m \in Nat /\ open \in Seq(S)
  OBVIOUS
<1>2. ASSUME NEW e \in S
      PROVE  /\ Append(open, e) \in Seq(S) /\ Len(Append(open, e)) = m + 1
             /\ \A q \in 1..m : Append(open, e)[q] = open[q]
  BY <1>1, AppendProperties
<1>3. ASSUME open # <<>>
      PROVE  /\ front \in Seq(S) /\ Len(front) = m - 1
             /\ \A q \in 1..m-1 : front[q] = open[q]
  BY <1>1, <1>3, FrontFacts
<1> HIDE DEF front
<1>4. CASE kind \in Opener
  <2>1. OpenedBy(kind, open) = Append(open, kind) /\ kind \in S
    BY <1>4 DEF OpenedBy
  <2> QED BY <2>1, <1>1, <1>2 DEF Wrong
<1>5. CASE kind \notin Opener /\ kind \notin DOMAIN Begin
  BY <1>5 DEF OpenedBy
<1>6. CASE kind \notin Opener /\ kind \in DOMAIN Begin
  <2>1. Begin[kind] # "error"
    BY <1>6 DEF Begin
  <2>2. CASE open # <<>> /\ Last(open) = Begin[kind]
    <3>1. OpenedBy(kind, open) = front
      BY <1>6, <2>2 DEF OpenedBy, front
    <3>2. open[m] # "error"
      BY <2>1, <2>2 DEF Last
    <3>3. ASSUME NEW q \in 1..m, open[q] = "error" PROVE q \in 1..m-1
      BY <3>2, <3>3, <1>1
    <3> QED BY <3>1, <3>3, <2>2, <1>1, <1>3 DEF Wrong
  <2>3. CASE ~(open # <<>> /\ Last(open) = Begin[kind])
    <3>1. OpenedBy(kind, open) = Append(open, "error") /\ "error" \in S
      BY <1>6, <2>3 DEF OpenedBy
    <3> QED BY <3>1, <1>1, <1>2 DEF Wrong
  <2> QED BY <2>2, <2>3
<1> QED
  BY <1>4, <1>5, <1>6

\* The item for the text before a token leaves the open blocks alone.
LEMMA TextBeforeFits ==
  ASSUME NEW s, IsText(s), NEW p, ParserFits(s, p), NEW i \in 1..Len(s)
  PROVE  /\ ParserFits(s, TextBefore(s, p, i))
         /\ TextBefore(s, p, i).err = p.err
         /\ TextBefore(s, p, i).curSection = p.curSection
         /\ TextBefore(s, p, i).idxParentItem = p.idxParentItem
         /\ Grown(p.tree, TextBefore(s, p, i).tree)
<1> DEFINE text == SubSeq(s, p.curSectionStart, i - 1)
           q == Push(p, "Static", text)
<1>1. s \in Seq(Pieces(s)) /\ Len(s) \in Nat /\ p \in Parsers(s)
  BY DEF IsText, Pieces, ParserFits
<1>2. p.curSectionStart \in Nat \ {0} /\ Len(p.tree) \in Nat
  BY <1>1 DEF Parsers
<1>3. text \in Seq(Pieces(s))
  <2>1. \A j \in p.curSectionStart..i-1 : j \in 1..Len(s)
    BY <1>1, <1>2
  <2>2. \A j \in p.curSectionStart..i-1 : s[j] \in Pieces(s)
    BY <1>1, <2>1, ElementOfSeq
  <2> QED
    BY <1>1, <1>2, <2>2, SubSeqProperties
<1> HIDE DEF text
<1>4. CASE p.curSectionStart = i
  <2>1. TextBefore(s, p, i) = p
    BY <1>4 DEF TextBefore
  <2> QED BY <1>2, <2>1 DEF Grown
<1>5. CASE p.curSectionStart # i
  <2>1. TextBefore(s, p, i) = q
    BY <1>5 DEF TextBefore, text
  <2>2. "Static" \in ItemTypes
    BY DEF ItemTypes
  <2>3. /\ ParserFits(s, q)
        /\ q.err = p.err /\ q.curSection = p.curSection
        /\ q.idxParentItem = p.idxParentItem
        /\ Len(q.tree) = Len(p.tree) + 1
        /\ \A j \in 1..Len(p.tree) : /\ q.tree[j].idxParent = p.tree[j].idxParent
                                     /\ q.tree[j].t = p.tree[j].t
    <3> HIDE DEF q
    <3>1. text \in Pieces(s) \cup Seq(Pieces(s)) /\ q = Push(p, "Static", text)
      BY <1>3 DEF q
    <3> QED BY <2>2, <3>1, PushFits
  <2> HIDE DEF q
  <2> QED BY <1>2, <2>1, <2>3 DEF Grown
<1> QED BY <1>4, <1>5

\* Round i of the loop and step i of the reduction keep in step.
LEMMA RoundFits ==
  ASSUME NEW s, IsText(s), NEW i \in 1..Len(s), NEW p, NEW open,
         SameBlocks(s, i - 1, p, open)
  PROVE  SameBlocks(s, i, Round(s, p, i), OpenedBy(s[i].k, open))
<1> DEFINE kind == s[i].k
           token == s[i]
           q == TextBefore(s, p, i)
           r == Round(s, p, i)
           opens == OpenedBy(kind, open)
<1>1. /\ s \in Seq(Pieces(s)) /\ Len(s) \in Nat /\ token \in Pieces(s)
      /\ kind \in Kinds /\ i \in DOMAIN s
  BY DEF IsText, Pieces
<1>2. /\ ParserFits(s, p) /\ open \in Seq(Opener \cup {"error"})
      /\ p.err => BadUpTo(s, i - 1) \/ Wrong(open)
      /\ ~p.err => ~BadUpTo(s, i - 1) /\ \E c : Chain(p.tree, p.idxParentItem, open, c)
  BY DEF SameBlocks
<1>3. opens \in Seq(Opener \cup {"error"}) /\ (Wrong(open) => Wrong(opens))
  BY <1>2, WrongStays
<1>4. BadUpTo(s, i) <=> BadUpTo(s, i - 1) \/ kind = "bad"
  <2>1. \A j \in 1..i : j \in 1..i-1 \/ j = i
    OBVIOUS
  <2>2. i \in 1..i /\ \A j \in 1..i-1 : j \in 1..i
    OBVIOUS
  <2> QED BY <2>1, <2>2 DEF BadUpTo
<1> SUFFICES ASSUME ~(p.err)
             PROVE  SameBlocks(s, i, r, opens)
  <2>1. ASSUME p.err PROVE SameBlocks(s, i, r, opens)
    <3>1. r = p
      BY <2>1 DEF Round
    <3> HIDE DEF r, opens
    <3> QED BY <2>1, <3>1, <1>2, <1>3, <1>4 DEF SameBlocks
  <2> QED BY <2>1
<1>5. PICK c : Chain(p.tree, p.idxParentItem, open, c)
  BY <1>2
<1>6. /\ ParserFits(s, q) /\ q.err = p.err /\ q.curSection = p.curSection
      /\ q.idxParentItem = p.idxParentItem /\ Grown(p.tree, q.tree)
  BY <1>2, TextBeforeFits
<1>7. Len(p.tree) \in Nat /\ Len(q.tree) \in Nat /\ q \in Parsers(s)
  BY <1>2, <1>6 DEF ParserFits, Parsers
<1>8. Chain(q.tree, q.idxParentItem, open, c)
  BY <1>5, <1>6, <1>7, ChainGrows
<1>9. q.curSection = SectionOf(q.tree, q.idxParentItem)
  BY <1>6 DEF ParserFits, PlaceFits
<1> DEFINE start == IF SkipNewLineChar(s, i) THEN i + 2 ELSE i + 1
<1>10. start \in Nat \ {0}
  BY <1>1
<1> HIDE DEF q, start
<1>11. CASE kind \in Plain
  <2>1. r = p
    BY <1>11 DEF Round
  <2>2. opens = open /\ kind # "bad"
    BY <1>11 DEF OpenedBy, Plain, Opener, Begin
  <2> HIDE DEF r, opens
  <2> QED BY <2>1, <2>2, <1>2, <1>4 DEF SameBlocks
<1>12. CASE kind = "empty"
  <2>1. r = [q EXCEPT !.curSectionStart = i]
    BY <1>12 DEF Round, HandleToken, q, Plain
  <2>2. opens = open
    BY <1>12 DEF OpenedBy, Opener, Begin
  <2>3. /\ ParserFits(s, r) /\ r.err = q.err /\ r.tree = q.tree
        /\ r.idxParentItem = q.idxParentItem
    <3>1. i \in Nat \ {0}
      BY <1>1
    <3> HIDE DEF r
    <3> QED BY <2>1, <3>1, <1>6, <1>7, StartAndErrorFit DEF Parsers
  <2> HIDE DEF r, opens
  <2> QED BY <2>2, <2>3, <1>2, <1>4, <1>6, <1>8, <1>12 DEF SameBlocks
<1>13. CASE kind # "empty" /\ kind \notin Plain /\ ~SyntaxOkay(token, q.curSection)
  <2>1. r = [q EXCEPT !.err = TRUE]
    BY <1>13 DEF Round, HandleToken, q, Plain
  <2>2. ParserFits(s, r) /\ r.err
    <3>1. 1 \in Nat \ {0}
      OBVIOUS
    <3> HIDE DEF r
    <3> QED BY <2>1, <3>1, <1>6, <1>7, StartAndErrorFit DEF Parsers
  <2>3. kind = "bad" \/ Wrong(opens)
    <3> SUFFICES ASSUME kind # "bad" PROVE Wrong(opens)
      OBVIOUS
    <3>1. /\ kind \in {"endif", "endfor"}
          /\ kind = "endif" => q.curSection # "Condition"
          /\ kind = "endfor" => q.curSection # "ForLoop"
          /\ kind = "endif" \/ kind = "endfor"
      BY <1>13 DEF SyntaxOkay
    <3>2. ~(open # <<>> /\ Last(open) = Begin[kind])
      <4> SUFFICES ASSUME open # <<>>, Last(open) = Begin[kind] PROVE FALSE
        OBVIOUS
      <4>1. /\ q.idxParentItem \in 1..Len(q.tree)
            /\ q.tree[q.idxParentItem].t = BlockType(Last(open))
        BY <1>7, <1>8, ChainUp
      <4>2. q.curSection = BlockType(Begin[kind])
        BY <4>1, <1>9 DEF SectionOf, NoItem, BlockType
      <4> QED BY <3>1, <4>2 DEF BlockType, Begin
    <3>3. kind \notin Opener /\ kind \in DOMAIN Begin
      BY <3>1 DEF Opener, Begin
    <3>4. opens = Append(open, "error")
      BY <3>2, <3>3 DEF OpenedBy
    <3>5. Len(opens) = Len(open) + 1 /\ opens[Len(open) + 1] = "error" /\ Len(open) \in Nat
      BY <1>2, <3>4, AppendProperties
    <3> HIDE DEF opens
    <3> QED BY <3>5 DEF Wrong
  <2> HIDE DEF r, opens
  <2> QED BY <2>2, <2>3, <1>3, <1>4 DEF SameBlocks
<1>14. CASE kind \in {"endif", "endfor"} /\ SyntaxOkay(token, q.curSection)
  <2> DEFINE u == LevelUp(q)
  <2>1. r = [u EXCEPT !.curSectionStart = start]
    BY <1>14 DEF Round, HandleToken, q, start, Plain
  <2>2. q.idxParentItem # 0 /\ open # <<>>
    <3>1. q.curSection # "Root"
      BY <1>14 DEF SyntaxOkay
    <3>2. q.idxParentItem # 0
      BY <1>9, <3>1 DEF SectionOf, NoItem
    <3>3. open = <<>> => Len(open) = 0
      BY EmptySeq
    <3> QED BY <3>2, <3>3, <1>8 DEF Chain
  <2>3. /\ ParserFits(s, u) /\ u.tree = q.tree /\ u.err = q.err
        /\ u.idxParentItem = q.tree[q.idxParentItem].idxParent
    BY <2>2, <1>6, LevelUpFits
  <2>4. /\ q.idxParentItem \in 1..Len(q.tree)
        /\ q.tree[q.idxParentItem].t = BlockType(Last(open)) /\ Last(open) \in Opener
        /\ \E d : Chain(q.tree, q.tree[q.idxParentItem].idxParent, Front(open), d)
    BY <2>2, <1>7, <1>8, ChainUp, SMTT(30)
  <2>5. Last(open) = Begin[kind]
    <3>1. q.curSection = BlockType(Last(open))
      BY <2>4, <1>9 DEF SectionOf, NoItem, BlockType
    <3> QED BY <3>1, <2>4, <1>14 DEF SyntaxOkay, BlockType, Opener, Begin
  <2>6. opens = Front(open) /\ kind # "bad"
    <3>1. kind \notin Opener /\ kind \in DOMAIN Begin /\ kind # "bad"
      BY <1>14 DEF Opener, Begin
    <3> QED BY <3>1, <2>2, <2>5 DEF OpenedBy
  <2> HIDE DEF u
  <2>7. /\ ParserFits(s, r) /\ r.err = u.err /\ r.tree = u.tree
        /\ r.idxParentItem = u.idxParentItem
    <3>1. u \in Parsers(s)
      BY <2>3 DEF ParserFits
    <3> HIDE DEF r
    <3> QED BY <2>1, <2>3, <3>1, <1>10, StartAndErrorFit DEF Parsers
  <2> HIDE DEF r, opens
  <2> QED BY <2>3, <2>4, <2>6, <2>7, <1>2, <1>3, <1>4, <1>6 DEF SameBlocks
<1>15. CASE kind \in Opener \cup {"var", "str", "include"}
  <2> DEFINE pushed == Push(q, TypeOf(token), token)
             down == IF kind \in Opener THEN LevelDown(pushed) ELSE pushed
             n == Len(pushed.tree)
  <2>0. SyntaxOkay(token, q.curSection) /\ kind # "bad"
    BY <1>15 DEF SyntaxOkay, Opener
  <2>1. r = [down EXCEPT !.curSectionStart = start]
    <3>1. kind \notin Plain /\ kind # "empty" /\ kind \notin {"endif", "endfor"}
      BY <1>15 DEF Plain, Opener
    <3> QED BY <2>0, <3>1 DEF Round, HandleToken, q, start
  <2>2. /\ TypeOf(token) \in ItemTypes
        /\ kind \in Opener => TypeOf(token) = BlockType(kind) /\ TypeOf(token) \in Blocks
    BY <1>15 DEF TypeOf, ItemTypes, BlockType, Blocks, Opener
  <2> HIDE DEF pushed
  <2>3. /\ ParserFits(s, pushed) /\ pushed.err = q.err
        /\ pushed.idxParentItem = q.idxParentItem
        /\ Len(pushed.tree) = Len(q.tree) + 1
        /\ \A j \in 1..Len(q.tree) : /\ pushed.tree[j].idxParent = q.tree[j].idxParent
                                     /\ pushed.tree[j].t = q.tree[j].t
        /\ pushed.tree[Len(pushed.tree)].idxParent = q.idxParentItem
        /\ pushed.tree[Len(pushed.tree)].t = TypeOf(token)
    <3>1. pushed = Push(q, TypeOf(token), token) /\ token \in Pieces(s) \cup Seq(Pieces(s))
      BY <1>1 DEF pushed
    <3> HIDE DEF token
    <3> QED BY <2>2, <3>1, <1>6, PushFits, SMTT(30)
  <2>4. Grown(q.tree, pushed.tree) /\ n \in Nat /\ n # 0
    BY <2>3, <1>7 DEF Grown
  <2>5. /\ ParserFits(s, down) /\ down.err = q.err
        /\ \E d : Chain(down.tree, down.idxParentItem, opens, d)
    <3>1. CASE kind \in Opener
      <4>1. /\ ParserFits(s, LevelDown(pushed)) /\ LevelDown(pushed).tree = pushed.tree
            /\ LevelDown(pushed).idxParentItem = n /\ LevelDown(pushed).err = pushed.err
        <5>1. pushed.tree[n].t \in Blocks /\ ParserFits(s, pushed)
          BY <2>2, <2>3, <3>1
        <5> QED BY <2>4, <5>1, LevelDownFits
      <4>2. opens = Append(open, kind)
        BY <3>1 DEF OpenedBy
      <4>3. \E d : Chain(pushed.tree, n, Append(open, kind), d)
        BY <2>2, <2>3, <2>4, <3>1, <1>7, <1>8, ChainDown
      <4> QED BY <3>1, <4>1, <4>2, <4>3, <2>3
    <3>2. CASE kind \notin Opener
      <4>1. opens = open /\ down = pushed
        BY <1>15, <3>2 DEF OpenedBy, Begin
      <4>2. Chain(pushed.tree, q.idxParentItem, open, c)
        BY <2>4, <1>7, <1>8, ChainGrows
      <4> QED BY <4>1, <4>2, <2>3
    <3> QED BY <3>1, <3>2
  <2> HIDE DEF down
  <2>6. /\ ParserFits(s, r) /\ r.err = down.err /\ r.tree = down.tree
        /\ r.idxParentItem = down.idxParentItem
    <3>1. down \in Parsers(s)
      BY <2>5 DEF ParserFits
    <3> HIDE DEF r
    <3> QED BY <2>1, <2>5, <3>1, <1>10, StartAndErrorFit DEF Parsers
  <2> HIDE DEF r, opens
  <2> QED BY <2>0, <2>5, <2>6, <1>2, <1>3, <1>4, <1>6 DEF SameBlocks
<1>16. /\ kind = "bad" => ~SyntaxOkay(token, q.curSection)
       /\ kind \in Plain \/ kind = "empty" \/ kind = "bad" \/ kind \in {"endif", "endfor"}
            \/ kind \in Opener \cup {"var", "str", "include"}
  BY <1>1 DEF SyntaxOkay, Kinds, Plain, Control, Opener
<1> HIDE DEF r, opens, kind, token
<1> QED BY <1>11, <1>12, <1>13, <1>14, <1>15, <1>16

-----------------------------------------------------------------------------
(***************************************************************************)
(* parse() as a whole.                                                      *)
(***************************************************************************)

\* The list of open blocks is what its recursive definition says.
LEMMA OpenedSteps ==
  ASSUME NEW s, Len(s) \in Nat
  PROVE  /\ Opened(s)[0] = <<>>
         /\ \A i \in 1..Len(s) : Opened(s)[i] = OpenedBy(s[i].k, Opened(s)[i - 1])
<1> DEFINE n == Len(s)
           Is(f, m) == f = [i \in 0..m |-> IF i = 0 THEN <<>> ELSE OpenedBy(s[i].k, f[i - 1])]
           T == {m \in 0..n : \E f : Is(f, m)}
<1>1. 0 \in T
  <2> DEFINE f == [i \in 0..0 |-> <<>>]
  <2>1. Is(f, 0)
    <3>1. \A i \in 0..0 : i = 0
      OBVIOUS
    <3>2. \A i \in 0..0 : f[i] = IF i = 0 THEN <<>> ELSE OpenedBy(s[i].k, f[i - 1])
      BY <3>1
    <3>3. f = [i \in 0..0 |-> f[i]]
      OBVIOUS
    <3> HIDE DEF f
    <3> QED BY <3>2, <3>3
  <2> HIDE DEF Is
  <2> QED BY <2>1
<1>2. ASSUME NEW m \in 0..n-1, m \in T PROVE m + 1 \in T
  <2>1. PICK f : Is(f, m)
    BY <1>2
  <2> DEFINE g == [i \in 0..m+1 |-> IF i <= m THEN f[i] ELSE OpenedBy(s[i].k, f[m])]
  <2>2. \A i \in 0..m+1 : g[i] = IF i = 0 THEN <<>> ELSE OpenedBy(s[i].k, g[i - 1])
    <3> SUFFICES ASSUME NEW i \in 0..m+1
                 PROVE  g[i] = IF i = 0 THEN <<>> ELSE OpenedBy(s[i].k, g[i - 1])
      OBVIOUS
    <3>1. CASE i = 0
      BY <2>1, <3>1
    <3>2. CASE i # 0 /\ i <= m
      <4>1. i - 1 \in 0..m+1 /\ i - 1 <= m /\ i \in 0..m
        BY <3>2
      <4> QED
        BY <2>1, <3>2, <4>1
    <3>3. CASE i = m + 1
      <4>1. i - 1 = m /\ i # 0 /\ ~(i <= m) /\ m \in 0..m+1
        BY <3>3
      <4> QED
        BY <3>3, <4>1
    <3> QED BY <3>1, <3>2, <3>3
  <2>3. Is(g, m + 1)
    <3> HIDE DEF Is
    <3>1. g = [i \in 0..m+1 |-> g[i]]
      OBVIOUS
    <3> HIDE DEF g
    <3> QED BY <2>2, <3>1 DEF Is
  <2>4. m + 1 \in 0..n
    BY <1>2
  <2> HIDE DEF g, Is
  <2> QED BY <2>3, <2>4
<1>3. \E f : Is(f, n)
  <2> HIDE DEF Is
  <2>1. n \in 0..n
    OBVIOUS
  <2>2. 0..n \subseteq T
    <3> HIDE DEF T
    <3> QED BY <1>1, <1>2, SetInduction
  <2> QED BY <2>1, <2>2
<1>4. Is(Opened(s), n)
  <2>1. Opened(s) = CHOOSE f : Is(f, n)
    BY DEF Opened, OpenedBy
  <2> HIDE DEF Is
  <2> QED BY <1>3, <2>1
<1> QED
  <2>1. \A i \in 1..n : i \in 0..n /\ i # 0
    OBVIOUS
  <2> QED BY <1>4, <2>1

\* The loop and the reduction agree all the way.
LEMMA LoopFits ==
  ASSUME NEW s, IsText(s)
  PROVE  \A i \in 0..Len(s) : SameBlocks(s, i, Loop(s)[i], Opened(s)[i])
<1> DEFINE n == Len(s)
           T == {i \in 0..n : SameBlocks(s, i, Loop(s)[i], Opened(s)[i])}
<1>1. n \in Nat
  BY DEF IsText
<1>2. /\ Loop(s)[0] = NewParser
      /\ \A i \in 1..n : Loop(s)[i] = Round(s, Loop(s)[i - 1], i)
  BY <1>1, LoopRounds
<1>3. /\ Opened(s)[0] = <<>>
      /\ \A i \in 1..n : Opened(s)[i] = OpenedBy(s[i].k, Opened(s)[i - 1])
  BY <1>1, OpenedSteps
<1>4. 0 \in T
  <2>1. SameBlocks(s, 0, NewParser, <<>>)
    <3>1. ParserFits(s, NewParser)
      BY NewParserFits
    <3>2. /\ <<>> \in Seq(Opener \cup {"error"}) /\ <<>> \in Seq(Opener)
          /\ Len(<<>>) = 0
      BY EmptySeq
    <3>3. ~NewParser.err /\ NewParser.tree = <<>> /\ NewParser.idxParentItem = 0
      BY DEF NewParser, NoItem
    <3>4. Chain(<<>>, 0, <<>>, <<>>)
      <4>1. <<>> \in [1..0 -> 1..0]
        OBVIOUS
      <4> QED BY <3>2, <4>1 DEF Chain
    <3>5. ~BadUpTo(s, 0)
      BY DEF BadUpTo
    <3> QED BY <3>1, <3>2, <3>3, <3>4, <3>5 DEF SameBlocks
  <2> QED BY <1>1, <1>2, <1>3, <2>1
<1>5. ASSUME NEW j \in 0..n-1, j \in T PROVE j + 1 \in T
  <2>1. j + 1 \in 1..n /\ j + 1 \in 0..n /\ (j + 1) - 1 = j
    BY <1>1
  <2>2. SameBlocks(s, (j + 1) - 1, Loop(s)[j], Opened(s)[j])
    BY <1>5, <2>1
  <2>3. SameBlocks(s, j + 1, Round(s, Loop(s)[j], j + 1), OpenedBy(s[j + 1].k, Opened(s)[j]))
    BY <2>1, <2>2, RoundFits
  <2>4. /\ Loop(s)[j + 1] = Round(s, Loop(s)[j], j + 1)
        /\ Opened(s)[j + 1] = OpenedBy(s[j + 1].k, Opened(s)[j])
    <3>1. /\ Loop(s)[j + 1] = Round(s, Loop(s)[(j + 1) - 1], j + 1)
          /\ Opened(s)[j + 1] = OpenedBy(s[j + 1].k, Opened(s)[(j + 1) - 1])
      BY <1>2, <1>3, <2>1
    <3> QED BY <2>1, <3>1
  <2> QED BY <2>1, <2>3, <2>4
<1>6. 0..n \subseteq T
  <2> HIDE DEF T
  <2> QED BY <1>1, <1>4, <1>5, SetInduction
<1> QED
  BY <1>1, <1>6

\* The parser accepts the well-nested texts, and its links fit.
LEMMA ParseFits ==
  ASSUME NEW s, IsText(s)
  PROVE  /\ Parse(s).err \in BOOLEAN /\ (Parse(s).err <=> ~WellFormed(s))
         /\ Parse(s).tree \in Seq(Items(s))
         /\ TreeFits(Parse(s).tree)
<1> DEFINE n == Len(s)
           p == Loop(s)[n]
           open == Opened(s)[n]
           r == Parse(s)
           text == SubSeq(s, p.curSectionStart, n)
           q == Push(p, "Static", text)
<1>1. s \in Seq(Pieces(s)) /\ n \in Nat /\ DOMAIN s = 1..n /\ SameBlocks(s, n, p, open)
  <2>1. s \in Seq(Pieces(s)) /\ n \in Nat /\ DOMAIN s = 1..n
    BY DEF IsText, Pieces
  <2>2. n \in 0..n
    BY <2>1
  <2> QED BY <2>1, <2>2, LoopFits
<1> HIDE DEF p, open
<1>2. /\ ParserFits(s, p) /\ open \in Seq(Opener \cup {"error"})
      /\ p.err => BadUpTo(s, n) \/ Wrong(open)
      /\ ~p.err => ~BadUpTo(s, n) /\ \E c : Chain(p.tree, p.idxParentItem, open, c)
  BY <1>1 DEF SameBlocks
<1>3. p \in Parsers(s) /\ p.err \in BOOLEAN
  BY <1>2 DEF ParserFits, Parsers
<1>4. WellFormed(s) <=> (~BadUpTo(s, n) /\ open = <<>>)
  BY <1>1 DEF WellFormed, Nested, BadUpTo, open
<1>5. Len(open) \in Nat /\ (open = <<>> <=> Len(open) = 0)
  BY <1>2, EmptySeq
<1>6. ASSUME NEW x, ParserFits(s, x)
      PROVE  x.tree \in Seq(Items(s)) /\ TreeFits(x.tree)
  BY <1>6 DEF ParserFits, Parsers
<1>7. CASE p.err
  <2>1. r = p
    BY <1>7 DEF Parse, p
  <2>2. ~WellFormed(s)
    <3>1. Wrong(open) => open # <<>>
      BY <1>5 DEF Wrong
    <3> QED BY <1>2, <1>4, <1>7, <3>1
  <2>3. p.err = TRUE
    BY <1>3, <1>7
  <2> HIDE DEF r
  <2> QED BY <1>2, <1>6, <2>1, <2>2, <2>3 DEF r
<1>8. CASE ~p.err
  <2>1. PICK c : Chain(p.tree, p.idxParentItem, open, c)
    BY <1>2, <1>8
  <2>2. ~BadUpTo(s, n) /\ p.err = FALSE /\ p.err \in BOOLEAN
    BY <1>2, <1>3, <1>8
  <2>3. p.curSection # "Root" <=> open # <<>>
    <3>1. p.curSection = SectionOf(p.tree, p.idxParentItem)
      BY <1>2 DEF ParserFits, PlaceFits
    <3>2. p.curSection # "Root" <=> p.idxParentItem # 0
      BY <3>1 DEF SectionOf, NoItem
    <3>3. Len(open) # 0 => c[Len(open)] # 0
      BY <1>5, <2>1 DEF Chain
    <3> QED BY <1>5, <2>1, <3>2, <3>3 DEF Chain
  <2>4. CASE s = <<>>
    <3>1. r = p
      BY <2>4 DEF Parse, p
    <3>2. n = 0
      BY <2>4, EmptySeq
    <3>3. open = <<>>
      BY <1>1, <3>2, OpenedSteps DEF open
    <3> HIDE DEF r
    <3> QED BY <1>2, <1>4, <1>6, <2>2, <3>1, <3>3 DEF r
  <2>5. CASE s # <<>> /\ p.curSection # "Root"
    <3>1. r = [p EXCEPT !.err = TRUE]
      BY <1>8, <2>5 DEF Parse, p
    <3>2. 1 \in Nat \ {0}
      OBVIOUS
    <3> HIDE DEF r
    <3>3. ParserFits(s, r)
      BY <1>2, <3>1, <3>2, StartAndErrorFit
    <3>4. r.err = TRUE
      BY <1>3, <3>1 DEF Parsers
    <3>5. ~WellFormed(s)
      BY <1>4, <2>3, <2>5
    <3> QED BY <1>6, <3>3, <3>4, <3>5 DEF r
  <2>6. CASE s # <<>> /\ p.curSection = "Root" /\ ~(p.curSectionStart <= n)
    <3>1. r = p
      BY <1>8, <2>6 DEF Parse, p
    <3> HIDE DEF r
    <3> QED BY <1>2, <1>4, <1>6, <2>2, <2>3, <2>6, <3>1 DEF r
  <2>7. CASE s # <<>> /\ p.curSection = "Root" /\ p.curSectionStart <= n
    <3>1. r = q
      BY <1>8, <2>7 DEF Parse, p
    <3>2. text \in Seq(Pieces(s))
      <4>1. p.curSectionStart \in Nat \ {0}
        BY <1>3 DEF Parsers
      <4>2. \A j \in p.curSectionStart..n : j \in 1..n
        BY <1>1, <4>1
      <4>3. \A j \in p.curSectionStart..n : s[j] \in Pieces(s)
        BY <1>1, <4>2, ElementOfSeq
      <4> QED BY <1>1, <4>1, <4>3, SubSeqProperties
    <3>3. "Static" \in ItemTypes /\ text \in Pieces(s) \cup Seq(Pieces(s))
      BY <3>2 DEF ItemTypes
    <3>4. q = Push(p, "Static", text)
      OBVIOUS
    <3> HIDE DEF q, r, text
    <3>5. ParserFits(s, q) /\ q.err = p.err
      BY <1>2, <3>3, <3>4, PushFits
    <3> QED BY <1>4, <1>6, <2>2, <2>3, <2>7, <3>1, <3>5 DEF r
  <2> QED BY <2>4, <2>5, <2>6, <2>7
<1> QED BY <1>7, <1>8

-----------------------------------------------------------------------------
(***************************************************************************)
(* The items hold the text: after each round the pieces of the items, and   *)
(* those from curSectionStart on, are what is to be kept of the text so far. *)
(***************************************************************************)

\* What the parser puts into the items, after each piece of s: what is to be kept,
\* and the rests of the empty tokens.
InItems(s) ==
    LET kept[i \in 0..Len(s)] ==
          IF i = 0 THEN <<>>
          ELSE IF s[i].k \in {"endif", "endfor"} \/ Hidden(s, i) THEN kept[i - 1]
          ELSE Append(kept[i - 1], s[i])
    IN  kept

\* One step of InItems() and of Contents().
KeptBy(s, i, before) ==
    IF s[i].k \in {"endif", "endfor"} \/ Hidden(s, i) THEN before ELSE Append(before, s[i])

OwnPieces(item) == IF item.t = "Static" THEN item.text ELSE <<item.text>>

FilledBy(tree, j, before) == before \o OwnPieces(tree[j])

\* What is in the items is what its recursive definition says.
LEMMA KeptSteps ==
  ASSUME NEW s, Len(s) \in Nat
  PROVE  /\ InItems(s)[0] = <<>>
         /\ \A i \in 1..Len(s) : InItems(s)[i] = KeptBy(s, i, InItems(s)[i - 1])
<1> DEFINE n == Len(s)
           Is(f, m) == f = [i \in 0..m |-> IF i = 0 THEN <<>> ELSE KeptBy(s, i, f[i - 1])]
           T == {m \in 0..n : \E f : Is(f, m)}
<1>1. 0 \in T
  <2> DEFINE f == [i \in 0..0 |-> <<>>]
  <2>1. Is(f, 0)
    <3>1. \A i \in 0..0 : i = 0
      OBVIOUS
    <3>2. \A i \in 0..0 : f[i] = IF i = 0 THEN <<>> ELSE KeptBy(s, i, f[i - 1])
      BY <3>1
    <3>3. f = [i \in 0..0 |-> f[i]]
      OBVIOUS
    <3> HIDE DEF f
    <3> QED BY <3>2, <3>3
  <2> HIDE DEF Is
  <2> QED BY <2>1
<1>2. ASSUME NEW m \in 0..n-1, m \in T PROVE m + 1 \in T
  <2>1. PICK f : Is(f, m)
    BY <1>2
  <2> DEFINE g == [i \in 0..m+1 |-> IF i <= m THEN f[i] ELSE KeptBy(s, i, f[m])]
  <2>2. \A i \in 0..m+1 : g[i] = IF i = 0 THEN <<>> ELSE KeptBy(s, i, g[i - 1])
    <3> SUFFICES ASSUME NEW i \in 0..m+1
                 PROVE  g[i] = IF i = 0 THEN <<>> ELSE KeptBy(s, i, g[i - 1])
      OBVIOUS
    <3>1. CASE i = 0
      BY <2>1, <3>1
    <3>2. CASE i # 0 /\ i <= m
      <4>1. i - 1 \in 0..m+1 /\ i - 1 <= m /\ i \in 0..m
        BY <3>2
      <4> QED
        BY <2>1, <3>2, <4>1
    <3>3. CASE i = m + 1
      <4>1. i - 1 = m /\ i # 0 /\ ~(i <= m) /\ m \in 0..m+1
        BY <3>3
      <4> QED
        BY <3>3, <4>1
    <3> QED BY <3>1, <3>2, <3>3
  <2>3. Is(g, m + 1)
    <3> HIDE DEF Is
    <3>1. g = [i \in 0..m+1 |-> g[i]]
      OBVIOUS
    <3> HIDE DEF g
    <3> QED BY <2>2, <3>1 DEF Is
  <2>4. m + 1 \in 0..n
    BY <1>2
  <2> HIDE DEF g, Is
  <2> QED BY <2>3, <2>4
<1>3. \E f : Is(f, n)
  <2> HIDE DEF Is
  <2>1. n \in 0..n
    OBVIOUS
  <2>2. 0..n \subseteq T
    <3> HIDE DEF T
    <3> QED BY <1>1, <1>2, SetInduction
  <2> QED BY <2>1, <2>2
<1>4. Is(InItems(s), n)
  <2>1. InItems(s) = CHOOSE f : Is(f, n)
    BY DEF InItems, KeptBy
  <2> HIDE DEF Is
  <2> QED BY <1>3, <2>1
<1> QED
  <2>1. \A i \in 1..n : i \in 0..n /\ i # 0
    OBVIOUS
  <2> QED BY <1>4, <2>1

\* The pieces of the items are what their recursive definition says.
LEMMA ContentsSteps ==
  ASSUME NEW tree, Len(tree) \in Nat
  PROVE  /\ Contents(tree)[0] = <<>>
         /\ \A i \in 1..Len(tree) : Contents(tree)[i] = FilledBy(tree, i, Contents(tree)[i - 1])
<1> DEFINE n == Len(tree)
           Is(f, m) == f = [i \in 0..m |-> IF i = 0 THEN <<>> ELSE FilledBy(tree, i, f[i - 1])]
           T == {m \in 0..n : \E f : Is(f, m)}
<1>1. 0 \in T
  <2> DEFINE f == [i \in 0..0 |-> <<>>]
  <2>1. Is(f, 0)
    <3>1. \A i \in 0..0 : i = 0
      OBVIOUS
    <3>2. \A i \in 0..0 : f[i] = IF i = 0 THEN <<>> ELSE FilledBy(tree, i, f[i - 1])
      BY <3>1
    <3>3. f = [i \in 0..0 |-> f[i]]
      OBVIOUS
    <3> HIDE DEF f
    <3> QED BY <3>2, <3>3
  <2> HIDE DEF Is
  <2> QED BY <2>1
<1>2. ASSUME NEW m \in 0..n-1, m \in T PROVE m + 1 \in T
  <2>1. PICK f : Is(f, m)
    BY <1>2
  <2> DEFINE g == [i \in 0..m+1 |-> IF i <= m THEN f[i] ELSE FilledBy(tree, i, f[m])]
  <2>2. \A i \in 0..m+1 : g[i] = IF i = 0 THEN <<>> ELSE FilledBy(tree, i, g[i - 1])
    <3> SUFFICES ASSUME NEW i \in 0..m+1
                 PROVE  g[i] = IF i = 0 THEN <<>> ELSE FilledBy(tree, i, g[i - 1])
      OBVIOUS
    <3>1. CASE i = 0
      BY <2>1, <3>1
    <3>2. CASE i # 0 /\ i <= m
      <4>1. i - 1 \in 0..m+1 /\ i - 1 <= m /\ i \in 0..m
        BY <3>2
      <4> QED
        BY <2>1, <3>2, <4>1
    <3>3. CASE i = m + 1
      <4>1. i - 1 = m /\ i # 0 /\ ~(i <= m) /\ m \in 0..m+1
        BY <3>3
      <4> QED
        BY <3>3, <4>1
    <3> QED BY <3>1, <3>2, <3>3
  <2>3. Is(g, m + 1)
    <3> HIDE DEF Is
    <3>1. g = [i \in 0..m+1 |-> g[i]]
      OBVIOUS
    <3> HIDE DEF g
    <3> QED BY <2>2, <3>1 DEF Is
  <2>4. m + 1 \in 0..n
    BY <1>2
  <2> HIDE DEF g, Is
  <2> QED BY <2>3, <2>4
<1>3. \E f : Is(f, n)
  <2> HIDE DEF Is
  <2>1. n \in 0..n
    OBVIOUS
  <2>2. 0..n \subseteq T
    <3> HIDE DEF T
    <3> QED BY <1>1, <1>2, SetInduction
  <2> QED BY <2>1, <2>2
<1>4. Is(Contents(tree), n)
  <2>1. Contents(tree) = CHOOSE f : Is(f, n)
    BY DEF Contents, FilledBy, OwnPieces
  <2> HIDE DEF Is
  <2> QED BY <1>3, <2>1
<1> QED
  <2>1. \A i \in 1..n : i \in 0..n /\ i # 0
    OBVIOUS
  <2> QED BY <1>4, <2>1

\* The static items are plain text, the others tokens of their type.
ItemsFit(s, tree) ==
    \A j \in 1..Len(tree) :
        IF tree[j].t = "Static"
        THEN /\ tree[j].text \in Seq(Pieces(s))
             /\ \A i \in 1..Len(tree[j].text) : tree[j].text[i].k \in Plain \cup {"empty"}
        ELSE tree[j].text \in Pieces(s) /\ tree[j].t = TypeOf(tree[j].text)

\* All pieces of the items.
Full(tree) == Contents(tree)[Len(tree)]

\* The items fit and hold certain pieces.
Holds(s, tree, pieces) ==
    ItemsFit(s, tree) /\ Full(tree) \in Seq(Pieces(s)) /\ Full(tree) = pieces

\* The part of the invariant of the loop that is about the text.
TextFits(s, i, p) ==
    LET k == p.curSectionStart
    IN  /\ k \in 1..i+2
        /\ ItemsFit(s, p.tree)
        /\ Full(p.tree) \in Seq(Pieces(s))
        /\ Full(p.tree) \o SubSeq(s, k, i) = InItems(s)[i]
        /\ \A j \in k..i : s[j].k \in Plain \cup {"empty"}
        /\ i < Len(s) => (Hidden(s, i + 1) <=> k = i + 2)

\* The pieces of a tree with one item more.
LEMMA FullGrows ==
  ASSUME NEW old, NEW new, Len(old) \in Nat, Len(new) = Len(old) + 1,
         \A j \in 1..Len(old) : new[j].t = old[j].t /\ new[j].text = old[j].text
  PROVE  Full(new) = Full(old) \o OwnPieces(new[Len(new)])
<1> DEFINE n == Len(old)
           T == {j \in 0..n : Contents(new)[j] = Contents(old)[j]}
<1>1. n \in Nat /\ Len(new) = n + 1 /\ n + 1 \in Nat
  OBVIOUS
<1>2. /\ Contents(old)[0] = <<>>
      /\ \A j \in 1..n : Contents(old)[j] = FilledBy(old, j, Contents(old)[j - 1])
  BY <1>1, ContentsSteps
<1>3. /\ Contents(new)[0] = <<>>
      /\ \A j \in 1..n+1 : Contents(new)[j] = FilledBy(new, j, Contents(new)[j - 1])
  <2>1. Len(new) \in Nat
    BY <1>1
  <2> QED BY <1>1, <2>1, ContentsSteps
<1>4. \A j \in 1..n : OwnPieces(new[j]) = OwnPieces(old[j])
  BY DEF OwnPieces
<1> HIDE DEF n
<1>5. 0 \in T
  BY <1>1, <1>2, <1>3
<1>6. ASSUME NEW j \in 0..n-1, j \in T PROVE j + 1 \in T
  <2>1. j + 1 \in 1..n /\ j + 1 \in 1..n+1 /\ j + 1 \in 0..n /\ (j + 1) - 1 = j
    BY <1>1
  <2>2. Contents(old)[j + 1] = Contents(old)[j] \o OwnPieces(old[j + 1])
    <3>1. Contents(old)[j + 1] = FilledBy(old, j + 1, Contents(old)[(j + 1) - 1])
      BY <1>2, <2>1
    <3> QED BY <2>1, <3>1 DEF FilledBy
  <2>3. Contents(new)[j + 1] = Contents(new)[j] \o OwnPieces(new[j + 1])
    <3>1. Contents(new)[j + 1] = FilledBy(new, j + 1, Contents(new)[(j + 1) - 1])
      BY <1>3, <2>1
    <3> QED BY <2>1, <3>1 DEF FilledBy
  <2>4. Contents(new)[j] = Contents(old)[j]
    BY <1>6
  <2>5. OwnPieces(new[j + 1]) = OwnPieces(old[j + 1])
    BY <1>4, <2>1
  <2> QED BY <2>1, <2>2, <2>3, <2>4, <2>5
<1>7. Contents(new)[n] = Contents(old)[n]
  <2> HIDE DEF T
  <2>1. 0..n \subseteq T
    BY <1>1, <1>5, <1>6, SetInduction
  <2> QED BY <1>1, <2>1 DEF T
<1>8. Contents(new)[n + 1] = Contents(new)[n] \o OwnPieces(new[n + 1])
  <2>1. n + 1 \in 1..n+1 /\ (n + 1) - 1 = n
    BY <1>1
  <2>2. Contents(new)[n + 1] = FilledBy(new, n + 1, Contents(new)[(n + 1) - 1])
    BY <1>3, <2>1
  <2> QED BY <2>1, <2>2 DEF FilledBy
<1> QED BY <1>1, <1>7, <1>8 DEF Full, n

\* An item made of pieces of the text adds them to those of the tree.
LEMMA PushHolds ==
  ASSUME NEW s, NEW p, p \in Parsers(s), ItemsFit(s, p.tree), Full(p.tree) \in Seq(Pieces(s)),
         NEW t \in ItemTypes, NEW text,
         \/ /\ t = "Static" /\ text \in Seq(Pieces(s))
            /\ \A i \in 1..Len(text) : text[i].k \in Plain \cup {"empty"}
         \/ t # "Static" /\ text \in Pieces(s) /\ t = TypeOf(text),
         NEW q, q = Push(p, t, text)
  PROVE  /\ q \in Parsers(s) /\ q.curSectionStart = p.curSectionStart
         /\ q.err = p.err
         /\ Holds(s, q.tree, Full(p.tree) \o IF t = "Static" THEN text ELSE <<text>>)
<1> DEFINE n == Len(p.tree)
           own == IF t = "Static" THEN text ELSE <<text>>
<1>1. Pushed(s, p, q, t, text)
  <2>1. text \in Pieces(s) \cup Seq(Pieces(s))
    OBVIOUS
  <2> QED BY <2>1, PushFacts, SMTT(30)
<1>2. /\ q \in Parsers(s) /\ q.curSectionStart = p.curSectionStart /\ q.err = p.err
      /\ n \in Nat /\ Len(q.tree) = n + 1
      /\ \A j \in 1..n : q.tree[j].t = p.tree[j].t /\ q.tree[j].text = p.tree[j].text
  BY <1>1 DEF Pushed
<1>3. q.tree[n + 1].t = t /\ q.tree[n + 1].text = text
  <2>1. q.tree[n + 1] = [t |-> t, text |-> text, idxNextSibling |-> 0,
                         idxFirstChild |-> 0, idxParent |-> p.idxParentItem]
    BY <1>1 DEF Pushed
  <2> QED BY <2>1
<1>4. Full(q.tree) = Full(p.tree) \o own
  <2>1. OwnPieces(q.tree[n + 1]) = own
    BY <1>3 DEF OwnPieces
  <2> DEFINE old == p.tree
             new == q.tree
  <2>2. /\ Len(old) \in Nat /\ Len(new) = Len(old) + 1
        /\ \A j \in 1..Len(old) : new[j].t = old[j].t /\ new[j].text = old[j].text
    BY <1>2
  <2>3. OwnPieces(new[Len(new)]) = own
    BY <1>2, <2>1
  <2> HIDE DEF old, new, own
  <2>4. Full(new) = Full(old) \o OwnPieces(new[Len(new)])
    BY <2>2, FullGrows
  <2> QED BY <2>3, <2>4 DEF old, new
<1>5. own \in Seq(Pieces(s))
  OBVIOUS
<1>6. Full(p.tree) \o own \in Seq(Pieces(s))
  <2> HIDE DEF own
  <2> QED BY <1>5, ConcatProperties
<1>7. ItemsFit(s, q.tree)
  <2> SUFFICES ASSUME NEW j \in 1..n+1
               PROVE  IF q.tree[j].t = "Static"
                      THEN /\ q.tree[j].text \in Seq(Pieces(s))
                           /\ \A i \in 1..Len(q.tree[j].text) :
                                q.tree[j].text[i].k \in Plain \cup {"empty"}
                      ELSE q.tree[j].text \in Pieces(s) /\ q.tree[j].t = TypeOf(q.tree[j].text)
    BY <1>2 DEF ItemsFit
  <2>1. CASE j = n + 1
    BY <1>3, <2>1
  <2>2. CASE j \in 1..n
    BY <1>2, <2>2 DEF ItemsFit
  <2> QED BY <1>2, <2>1, <2>2
<1> QED BY <1>2, <1>4, <1>6, <1>7 DEF Holds

\* The text before a token.
LEMMA TextBeforeHolds ==
  ASSUME NEW s, IsText(s), NEW i \in 1..Len(s), NEW p, ParserFits(s, p),
         TextFits(s, i - 1, p), s[i].k # "nl"
  PROVE  /\ TextBefore(s, p, i) \in Parsers(s) /\ TextBefore(s, p, i).err = p.err
         /\ Holds(s, TextBefore(s, p, i).tree, InItems(s)[i - 1])
<1> DEFINE k == p.curSectionStart
           text == SubSeq(s, k, i - 1)
           q == TextBefore(s, p, i)
<1>1. s \in Seq(Pieces(s)) /\ Len(s) \in Nat /\ p \in Parsers(s)
  BY DEF IsText, Pieces, ParserFits
<1>2. /\ k \in 1..(i-1)+2 /\ ItemsFit(s, p.tree) /\ Full(p.tree) \in Seq(Pieces(s))
      /\ Full(p.tree) \o text = InItems(s)[i - 1]
      /\ \A j \in k..i-1 : s[j].k \in Plain \cup {"empty"}
      /\ i - 1 < Len(s) => (Hidden(s, (i - 1) + 1) <=> k = (i - 1) + 2)
  BY DEF TextFits
<1>3. k \in 1..i
  <2>1. (i - 1) + 1 = i /\ i - 1 < Len(s) /\ (i - 1) + 2 = i + 1
    BY <1>1
  <2>2. ~Hidden(s, i)
    BY DEF Hidden
  <2> HIDE DEF k
  <2> QED BY <1>2, <2>1, <2>2
<1> HIDE DEF k
<1>4. /\ text \in Seq(Pieces(s)) /\ Len(text) = (IF k <= i - 1 THEN (i - 1) - k + 1 ELSE 0)
      /\ \A j \in 1..(i - 1)-k+1 : text[j] = s[k + j - 1]
  <2>1. k \in Int /\ i - 1 \in Int /\ \A j \in k..i-1 : s[j] \in Pieces(s)
    <3>1. \A j \in k..i-1 : j \in 1..Len(s)
      BY <1>1, <1>3
    <3> QED BY <1>1, <1>3, <3>1, ElementOfSeq
  <2> QED BY <2>1, SubSeqProperties
<1>5. CASE k = i
  <2>1. q = p
    BY <1>5 DEF TextBefore, k
  <2>2. text = <<>>
    BY <1>1, <1>5, SubSeqEmpty
  <2>3. Full(p.tree) = InItems(s)[i - 1]
    BY <1>2, <2>2, ConcatEmptySeq
  <2> HIDE DEF q
  <2> QED BY <1>1, <1>2, <2>1, <2>3 DEF Holds, q
<1>6. CASE k # i
  <2>1. q = Push(p, "Static", text)
    BY <1>6 DEF TextBefore, k
  <2>2. \A j \in 1..Len(text) : text[j].k \in Plain \cup {"empty"}
    <3> SUFFICES ASSUME NEW j \in 1..Len(text) PROVE text[j].k \in Plain \cup {"empty"}
      OBVIOUS
    <3>1. j \in 1..(i - 1)-k+1 /\ k + j - 1 \in k..i-1
      BY <1>1, <1>3, <1>4, <1>6
    <3> QED BY <1>2, <1>4, <3>1
  <2>3. "Static" \in ItemTypes
    BY DEF ItemTypes
  <2> HIDE DEF q, text
  <2>4. /\ q \in Parsers(s) /\ q.err = p.err
        /\ Holds(s, q.tree, Full(p.tree) \o IF "Static" = "Static" THEN text ELSE <<text>>)
    <3> DEFINE t == "Static"
    <3>1. \/ /\ t = "Static" /\ text \in Seq(Pieces(s))
             /\ \A j \in 1..Len(text) : text[j].k \in Plain \cup {"empty"}
          \/ t # "Static" /\ text \in Pieces(s) /\ t = TypeOf(text)
      BY <1>4, <2>2
    <3>2. t \in ItemTypes /\ q = Push(p, t, text)
      BY <2>1, <2>3
    <3> HIDE DEF t
    <3>3. /\ q \in Parsers(s) /\ q.err = p.err
          /\ Holds(s, q.tree, Full(p.tree) \o IF t = "Static" THEN text ELSE <<text>>)
      BY <1>1, <1>2, <3>1, <3>2, PushHolds
    <3> QED BY <3>3 DEF t
  <2>5. Holds(s, q.tree, InItems(s)[i - 1])
    BY <1>2, <2>4
  <2> QED BY <2>4, <2>5 DEF q
<1> QED BY <1>5, <1>6

\* A round leaves no piece behind.
LEMMA RoundHolds ==
  ASSUME NEW s, IsText(s), NEW i \in 1..Len(s), NEW p, ParserFits(s, p),
         TextFits(s, i - 1, p), ~p.err, ~Round(s, p, i).err
  PROVE  TextFits(s, i, Round(s, p, i))
<1> DEFINE kind == s[i].k
           token == s[i]
           q == TextBefore(s, p, i)
           r == Round(s, p, i)
           k == p.curSectionStart
           kept == InItems(s)
<1>1. /\ s \in Seq(Pieces(s)) /\ Len(s) \in Nat /\ token \in Pieces(s)
      /\ kind \in Kinds /\ i \in Nat /\ p \in Parsers(s)
      /\ \A j \in 1..Len(s) : s[j] \in Pieces(s)
  BY DEF IsText, Pieces, ParserFits
<1>2. /\ k \in 1..(i-1)+2 /\ ItemsFit(s, p.tree) /\ Full(p.tree) \in Seq(Pieces(s))
      /\ Full(p.tree) \o SubSeq(s, k, i - 1) = kept[i - 1]
      /\ \A j \in k..i-1 : s[j].k \in Plain \cup {"empty"}
      /\ i - 1 < Len(s) => (Hidden(s, (i - 1) + 1) <=> k = (i - 1) + 2)
  BY DEF TextFits
<1>3. /\ k \in 1..i+1 /\ (Hidden(s, i) <=> k = i + 1)
      /\ kept[i] = KeptBy(s, i, kept[i - 1])
  <2>1. (i - 1) + 1 = i /\ i - 1 < Len(s) /\ (i - 1) + 2 = i + 1
    BY <1>1
  <2>2. kept[i] = KeptBy(s, i, kept[i - 1])
    BY <1>1, KeptSteps
  <2> HIDE DEF k, kept
  <2> QED BY <1>2, <2>1, <2>2
<1>4. kept[i - 1] \in Seq(Pieces(s))
  <2>1. SubSeq(s, k, i - 1) \in Seq(Pieces(s))
    <3>1. k \in Int /\ i - 1 \in Int /\ \A j \in k..i-1 : j \in 1..Len(s)
      BY <1>1, <1>3
    <3>2. \A j \in k..i-1 : s[j] \in Pieces(s)
      BY <1>1, <3>1
    <3> QED BY <3>1, <3>2, SubSeqProperties
  <2> QED BY <1>2, <2>1, ConcatProperties
<1> HIDE DEF kept, k
\* What is left to show of a token whose items hold all of it.
<1>5. ASSUME NEW tree, NEW start \in {i + 1, i + 2}, Holds(s, tree, kept[i]),
             start = i + 2 <=> SkipNewLineChar(s, i),
             r.tree = tree, r.curSectionStart = start
      PROVE  TextFits(s, i, r)
  <2>1. SubSeq(s, start, i) = <<>>
    BY <1>1, <1>5, SubSeqEmpty
  <2>2. Full(tree) \o SubSeq(s, start, i) = kept[i] /\ ItemsFit(s, tree)
        /\ Full(tree) \in Seq(Pieces(s))
    BY <1>5, <2>1, ConcatEmptySeq DEF Holds
  <2>3. start \in 1..i+2 /\ \A j \in start..i : FALSE
    BY <1>1, <1>5
  <2>4. i < Len(s) => (Hidden(s, i + 1) <=> start = i + 2)
    <3>1. i + 1 > 1 /\ (i + 1) - 1 = i /\ (i + 1) - 2 = i - 1 /\ (i + 1 > 2 <=> i > 1)
      BY <1>1
    <3> QED BY <1>5, <3>1 DEF Hidden, SkipNewLineChar
  <2> HIDE DEF r
  <2> QED BY <1>5, <2>2, <2>3, <2>4 DEF TextFits, kept
<1>6. CASE kind \in Plain
  <2>1. r = p
    BY <1>6 DEF Round
  <2>2. Full(p.tree) \o SubSeq(s, k, i) = kept[i]
    <3>1. CASE k = i + 1
      <4>1. kept[i] = kept[i - 1]
        BY <1>3, <3>1 DEF KeptBy
      <4>2. SubSeq(s, k, i) = <<>> /\ SubSeq(s, k, i - 1) = <<>>
        BY <1>1, <3>1, SubSeqEmpty
      <4> QED BY <1>2, <4>1, <4>2
    <3>2. CASE k # i + 1
      <4>1. kept[i] = Append(kept[i - 1], s[i])
        BY <1>3, <1>6, <3>2 DEF KeptBy, Plain
      <4>2. k \in 1..i /\ i \in k..Len(s) /\ k \in 1..Len(s)
        BY <1>1, <1>3, <3>2
      <4>3. SubSeq(s, k, i) = SubSeq(s, k, i - 1) \o <<s[i]>>
        BY <1>1, <4>2, SubSeqRecursiveSecond
      <4>4. kept[i] = kept[i - 1] \o <<s[i]>>
        BY <1>1, <1>4, <4>1, AppendIsConcat
      <4>5. SubSeq(s, k, i - 1) \in Seq(Pieces(s)) /\ <<s[i]>> \in Seq(Pieces(s))
        <5>1. k \in Int /\ i - 1 \in Int /\ \A j \in k..i-1 : j \in 1..Len(s)
          BY <1>1, <1>3
        <5>2. \A j \in k..i-1 : s[j] \in Pieces(s)
          BY <1>1, <5>1
        <5> QED BY <1>1, <5>1, <5>2, SubSeqProperties
      <4>6. (Full(p.tree) \o SubSeq(s, k, i - 1)) \o <<s[i]>>
              = Full(p.tree) \o (SubSeq(s, k, i - 1) \o <<s[i]>>)
        <5> DEFINE full == Full(p.tree)
                   part == SubSeq(s, k, i - 1)
                   one == <<s[i]>>
                   S == Seq(Pieces(s))
        <5>1. full \in S /\ part \in S /\ one \in S
          BY <1>2, <4>5
        <5> HIDE DEF full, part, one
        <5>2. (full \o part) \o one = full \o (part \o one)
          BY <5>1, ConcatAssociative
        <5> QED BY <5>2 DEF full, part, one
      <4> QED BY <1>2, <4>3, <4>4, <4>6
    <3> QED BY <3>1, <3>2
  <2>3. \A j \in k..i : s[j].k \in Plain \cup {"empty"}
    BY <1>1, <1>2, <1>3, <1>6
  <2>4. i < Len(s) => (Hidden(s, i + 1) <=> k = i + 2)
    <3>1. k # i + 2 /\ (i + 1) - 1 = i
      BY <1>1, <1>3
    <3> QED BY <1>6, <3>1 DEF Hidden, Plain, Control
  <2>5. k \in 1..i+2
    BY <1>1, <1>3
  <2>6. TextFits(s, i, p)
    <3>1. ItemsFit(s, p.tree) /\ Full(p.tree) \in Seq(Pieces(s))
      BY <1>2
    <3> QED BY <2>2, <2>3, <2>4, <2>5, <3>1 DEF TextFits, kept, k
  <2> QED BY <2>1, <2>6
<1> SUFFICES ASSUME kind \notin Plain
             PROVE  TextFits(s, i, r)
  BY <1>6
<1>7. /\ q \in Parsers(s) /\ q.err = p.err
      /\ Holds(s, q.tree, kept[i - 1])
  <2>1. kind # "nl"
    BY DEF Plain
  <2> QED BY <2>1, TextBeforeHolds DEF kept
<1>8. ItemsFit(s, q.tree) /\ Full(q.tree) = kept[i - 1]
  BY <1>7 DEF Holds
<1>9. ~Hidden(s, i)
  BY DEF Hidden, Plain
<1> DEFINE start == IF SkipNewLineChar(s, i) THEN i + 2 ELSE i + 1
<1>10. start \in {i + 1, i + 2} /\ (start = i + 2 <=> SkipNewLineChar(s, i))
  BY <1>1
<1> HIDE DEF q, start
<1>11. CASE kind = "empty"
  <2>1. r = [q EXCEPT !.curSectionStart = i]
    BY <1>11 DEF Round, HandleToken, q
  <2>2. r.tree = q.tree /\ r.curSectionStart = i
    <3> HIDE DEF r
    <3> QED BY <1>7, <2>1 DEF Parsers
  <2>3. Full(q.tree) \o SubSeq(s, i, i) = kept[i]
    <3>1. kept[i] = Append(kept[i - 1], s[i])
      BY <1>3, <1>9, <1>11 DEF KeptBy
    <3>2. SubSeq(s, i, i) = SubSeq(s, i, i - 1) \o <<s[i]>>
      BY <1>1, SubSeqRecursiveSecond
    <3>3. SubSeq(s, i, i - 1) = <<>> /\ <<s[i]>> \in Seq(Pieces(s))
      BY <1>1, SubSeqEmpty
    <3>4. SubSeq(s, i, i) = <<s[i]>>
      BY <3>2, <3>3, ConcatEmptySeq
    <3> QED BY <1>1, <1>4, <1>8, <3>1, <3>4, AppendIsConcat
  <2>4. \A j \in i..i : s[j].k \in Plain \cup {"empty"}
    BY <1>1, <1>11
  <2>5. ~Hidden(s, i + 1) /\ i # i + 2 /\ i \in 1..i+2
    <3>1. (i + 1) - 1 = i
      BY <1>1
    <3> QED BY <1>1, <1>11, <3>1 DEF Hidden, Control
  <2> HIDE DEF r
  <2> QED BY <1>4, <1>8, <2>2, <2>3, <2>4, <2>5 DEF TextFits, kept
<1> SUFFICES ASSUME kind # "empty"
             PROVE  TextFits(s, i, r)
  BY <1>11
<1>12. SyntaxOkay(token, q.curSection)
  <2> SUFFICES ASSUME ~SyntaxOkay(token, q.curSection) PROVE FALSE
    OBVIOUS
  <2>1. r = [q EXCEPT !.err = TRUE]
    BY DEF Round, HandleToken, q
  <2> HIDE DEF r
  <2>2. r.err
    BY <1>7, <2>1 DEF Parsers
  <2> QED BY <2>2 DEF r
<1>13. CASE kind \in {"endif", "endfor"}
  <2> DEFINE u == LevelUp(q)
  <2>1. r = [u EXCEPT !.curSectionStart = start]
    BY <1>12, <1>13 DEF Round, HandleToken, q, start
  <2>2. /\ u.tree = q.tree /\ [u EXCEPT !.curSectionStart = start].tree = q.tree
        /\ [u EXCEPT !.curSectionStart = start].curSectionStart = start
    <3>1. CASE q.idxParentItem = NoItem
      BY <1>7, <3>1 DEF LevelUp, Parsers
    <3>2. CASE q.idxParentItem # NoItem
      <4> DEFINE up == q.tree[q.idxParentItem].idxParent
                 par == q.idxParentItem
                 sec == SectionOf(q.tree, up)
      <4>1. u = [q EXCEPT !.idxLastSibling = par, !.idxParentItem = up,
                          !.updateParent = FALSE, !.curSection = sec]
        BY <3>2 DEF LevelUp
      <4> HIDE DEF u, up, sec, par
      <4> QED BY <1>7, <4>1 DEF Parsers
    <3> QED BY <3>1, <3>2
  <2>3. kept[i] = kept[i - 1]
    BY <1>3, <1>13 DEF KeptBy
  <2> HIDE DEF u, r
  <2>4. r.tree = q.tree /\ r.curSectionStart = start
    BY <2>1, <2>2
  <2>5. Holds(s, q.tree, kept[i])
    BY <1>7, <2>3
  <2> QED BY <1>5, <1>10, <2>4, <2>5
<1>14. CASE kind \notin {"endif", "endfor"}
  <2> DEFINE t == TypeOf(token)
             pushed == Push(q, t, token)
             down == IF kind \in Opener THEN LevelDown(pushed) ELSE pushed
  <2>1. r = [down EXCEPT !.curSectionStart = start]
    BY <1>12, <1>14 DEF Round, HandleToken, q, start
  <2>2. t \in ItemTypes /\ t # "Static"
    BY DEF TypeOf, ItemTypes
  <2>3. kept[i] = kept[i - 1] \o <<token>>
    <3>1. kept[i] = Append(kept[i - 1], token)
      BY <1>3, <1>9, <1>14 DEF KeptBy
    <3> QED BY <1>1, <1>4, <3>1, AppendIsConcat
  <2> HIDE DEF pushed
  <2>4. /\ pushed \in Parsers(s)
        /\ Holds(s, pushed.tree, Full(q.tree) \o IF t = "Static" THEN <<token>> ELSE <<token>>)
    <3>1. pushed = Push(q, t, token) /\ t = TypeOf(token)
      BY DEF pushed
    <3> HIDE DEF t, token, kind
    <3>2. /\ pushed \in Parsers(s)
          /\ Holds(s, pushed.tree, Full(q.tree) \o IF t = "Static" THEN token ELSE <<token>>)
      BY <1>1, <1>4, <1>7, <1>8, <2>2, <3>1, PushHolds
    <3> QED BY <2>2, <3>2
  <2>5. Holds(s, pushed.tree, kept[i])
    BY <1>8, <2>3, <2>4
  <2>6. /\ [down EXCEPT !.curSectionStart = start].tree = pushed.tree
        /\ [down EXCEPT !.curSectionStart = start].curSectionStart = start
    <3>1. CASE kind \in Opener
      <4> DEFINE m == Len(pushed.tree)
                 sec == SectionOf(pushed.tree, m)
      <4>1. down = [pushed EXCEPT !.idxParentItem = m, !.updateParent = TRUE,
                                  !.idxLastSibling = NoItem, !.curSection = sec]
        BY <3>1 DEF LevelDown
      <4> HIDE DEF down, m, sec
      <4> QED BY <2>4, <4>1 DEF Parsers
    <3>2. CASE kind \notin Opener
      BY <2>4, <3>2 DEF Parsers
    <3> QED BY <3>1, <3>2
  <2> HIDE DEF down, r, t, token
  <2>7. r.tree = pushed.tree /\ r.curSectionStart = start
    BY <2>1, <2>6
  <2> QED BY <1>5, <1>10, <2>5, <2>7
<1> QED BY <1>13, <1>14

\* Before the first round nothing is left behind.
LEMMA NewParserHolds ==
  ASSUME NEW s, IsText(s)
  PROVE  TextFits(s, 0, NewParser)
<1> DEFINE tree == NewParser.tree
<1>1. Len(tree) = 0 /\ NewParser.curSectionStart = 1
  BY EmptySeq DEF NewParser
<1> HIDE DEF tree
<1>2. Full(tree) = <<>>
  <2>1. Len(tree) \in Nat
    BY <1>1
  <2> QED BY <1>1, <2>1, ContentsSteps DEF Full
<1>3. InItems(s)[0] = <<>>
  BY KeptSteps DEF IsText
<1>4. SubSeq(s, 1, 0) = <<>>
  BY SubSeqEmpty
<1>5. <<>> \in Seq(Pieces(s)) /\ <<>> \o <<>> = <<>>
  BY EmptySeq, ConcatEmptySeq
<1>6. ~Hidden(s, 0 + 1) /\ ItemsFit(s, tree)
  BY <1>1 DEF Hidden, ItemsFit
<1> QED BY <1>1, <1>2, <1>3, <1>4, <1>5, <1>6 DEF TextFits, tree

-----------------------------------------------------------------------------
(***************************************************************************)
(* Where the items come from: every item begins at a piece of the text, and  *)
(* its links lead to where the text goes on after it, or within it.          *)
(***************************************************************************)

\* Nothing but a hidden newline between two places of a text.
Leads(s, x, y) == y = x \/ (y = x + 1 /\ x \in 1..Len(s) /\ Hidden(s, x))

\* The end of a block, or of the text, comes next.
Stops(s, y) == y = Len(s) + 1 \/ (y \in 1..Len(s) /\ s[y].k \in {"endif", "endfor"})

StopsAt(s, x) == \E y : Leads(s, x, y) /\ Stops(s, y)

\* The place behind an item that begins at piece x: behind the end of its block.
Behind(s, item, x) ==
    IF item.t = "Static" THEN x + Len(item.text)
    ELSE IF item.t \in Blocks THEN Closer(s, x) + 1
    ELSE x + 1

\* The pieces of the item are those from x on.
ItemAt(s, item, x) ==
    IF item.t = "Static"
    THEN /\ item.text \in Seq(Pieces(s)) /\ Len(item.text) # 0
         /\ x + Len(item.text) <= Len(s) + 1
         /\ \A i \in 1..Len(item.text) :
              /\ item.text[i] = s[x + i - 1] /\ ~Hidden(s, x + i - 1)
              /\ s[x + i - 1].k \in Plain \cup {"empty"}
    ELSE /\ item.text = s[x] /\ item.t = TypeOf(s[x])
         /\ s[x].k \in Opener \cup {"var", "str", "include"}

\* A block that has met its end.
Closed(s, tree, at, j) ==
    tree[j].t \in Blocks =>
        LET e == Closer(s, at[j])
            child == tree[j].idxFirstChild
        IN  /\ e \in at[j]+1..Len(s) /\ s[e].k \in {"endif", "endfor"}
            /\ IF child = 0 THEN Leads(s, at[j] + 1, e)
               ELSE child \in 1..Len(tree) /\ at[child] < e

\* The links of item j, while the blocks in O are open, the item that will be linked
\* next is last, and all items come from before piece k.
SettledItem(s, tree, at, O, last, k, j) ==
    /\ at[j] \in 1..k-1
    /\ ItemAt(s, tree[j], at[j])
    /\ tree[j].idxFirstChild # 0 => /\ tree[j].idxFirstChild \in 1..Len(tree)
                                    /\ Leads(s, at[j] + 1, at[tree[j].idxFirstChild])
    /\ tree[j].idxParent \in 0..Len(tree)
    /\ tree[j].idxParent # 0 =>
         /\ at[tree[j].idxParent] < at[j]
         /\ tree[j].idxParent \notin O =>
              j \notin O /\ Behind(s, tree[j], at[j]) <= Closer(s, at[tree[j].idxParent])
    /\ IF j \in O
       THEN tree[j].t \in Blocks /\ tree[j].idxNextSibling = 0
       ELSE /\ Closed(s, tree, at, j)
            /\ Behind(s, tree[j], at[j]) <= k
            /\ IF tree[j].idxNextSibling # 0
               THEN /\ tree[j].idxNextSibling \in 1..Len(tree)
                    /\ Leads(s, Behind(s, tree[j], at[j]), at[tree[j].idxNextSibling])
               ELSE j # last => StopsAt(s, Behind(s, tree[j], at[j]))

Settled(s, tree, at, O, last, k) ==
    \A j \in 1..Len(tree) : SettledItem(s, tree, at, O, last, k, j)

\* The place where the next item will be linked leads to piece k.
Dangling(s, tree, at, O, idxParent, last, update, k) ==
    /\ IF update THEN Leads(s, at[idxParent] + 1, k)
       ELSE IF last # 0 THEN Leads(s, Behind(s, tree[last], at[last]), k)
       ELSE Len(tree) = 0 /\ Leads(s, 1, k)
    /\ Len(tree) # 0 => Leads(s, 1, at[1])
    /\ \A j \in O : tree[j].idxFirstChild = 0 => update /\ j = idxParent

\* The places of the items with one more at piece k.
PlusAt(at, n, k) == [j \in 1..n+1 |-> IF j = n + 1 THEN k ELSE at[j]]

\* Where an item comes from depends on what it is and holds alone.
LEMMA SameItem ==
  ASSUME NEW s, NEW item, NEW other, item.t = other.t, item.text = other.text, NEW x
  PROVE  /\ ItemAt(s, item, x) <=> ItemAt(s, other, x)
         /\ Behind(s, item, x) = Behind(s, other, x)
BY DEF ItemAt, Behind

\* What the variables of parse() say of the open blocks O.
OpenFits(p, O) ==
    /\ O \subseteq 1..Len(p.tree) /\ Len(p.tree) \in Nat
    /\ p.updateParent \in BOOLEAN
    /\ p.idxParentItem \in O \cup {0}
    /\ p.idxLastSibling \notin O
    /\ p.updateParent => /\ p.idxParentItem \in O /\ p.idxLastSibling = 0
                         /\ p.tree[p.idxParentItem].idxFirstChild = 0
    /\ p.idxLastSibling # 0 => /\ p.idxLastSibling \in 1..Len(p.tree)
                               /\ p.tree[p.idxLastSibling].idxNextSibling = 0

\* The new item n from piece k is closed before piece e, or one more open block.
ClosedOrOpen(s, item, t, n, k, e, O, Q, last) ==
    \/ Q = O /\ last = n /\ t \notin Blocks /\ Behind(s, item, k) <= e
    \/ Q = O \cup {n} /\ last = 0 /\ t \in Blocks

\* The items with the new one among them, and the next one from piece e.
Added(s, tree, to, O, Q, last, e) ==
    /\ Settled(s, tree, to, Q, last, e)
    /\ Leads(s, 1, to[1])
    /\ \A j \in O : tree[j].idxFirstChild # 0

\* A new item from piece k, that is closed at once or opens a block.
LEMMA ItemAdded ==
  ASSUME NEW s, Len(s) \in Nat, NEW p, NEW q, NEW t, NEW text, Pushed(s, p, q, t, text),
         NEW at, NEW O, NEW k \in 1..Len(s), OpenFits(p, O),
         Settled(s, p.tree, at, O, p.idxLastSibling, k),
         Dangling(s, p.tree, at, O, p.idxParentItem, p.idxLastSibling, p.updateParent, k),
         ItemAt(s, q.tree[Len(p.tree) + 1], k),
         NEW e \in k+1..Len(s)+1, NEW Q, NEW last,
         ClosedOrOpen(s, q.tree[Len(p.tree) + 1], t, Len(p.tree) + 1, k, e, O, Q, last),
         NEW to, to = PlusAt(at, Len(p.tree), k)
  PROVE  Added(s, q.tree, to, O, Q, last, e)
<1> /\ O \subseteq 1..Len(p.tree) /\ p.updateParent \in BOOLEAN
    /\ p.idxParentItem \in O \cup {0} /\ p.idxLastSibling \notin O
    /\ p.updateParent => p.idxParentItem \in O
    /\ p.updateParent => p.idxLastSibling = 0
    /\ p.updateParent => p.tree[p.idxParentItem].idxFirstChild = 0
    /\ p.idxLastSibling # 0 => /\ p.idxLastSibling \in 1..Len(p.tree)
                               /\ p.tree[p.idxLastSibling].idxNextSibling = 0
  BY DEF OpenFits
<1> \/ /\ Q = O /\ last = Len(p.tree) + 1 /\ t \notin Blocks
       /\ Behind(s, q.tree[Len(p.tree) + 1], k) <= e
    \/ Q = O \cup {Len(p.tree) + 1} /\ last = 0 /\ t \in Blocks
  BY DEF ClosedOrOpen
<1> DEFINE n == Len(p.tree)
           P == p.idxParentItem
           L == p.idxLastSibling
           U == p.updateParent
           old == p.tree
           new == q.tree
<1>1. /\ n \in Nat /\ Len(new) = n + 1
      /\ \A j \in 1..n :
           /\ new[j].idxParent = old[j].idxParent
           /\ new[j].t = old[j].t /\ new[j].text = old[j].text
           /\ new[j].idxFirstChild = IF U /\ j = P THEN n + 1 ELSE old[j].idxFirstChild
           /\ new[j].idxNextSibling = IF j = L THEN n + 1 ELSE old[j].idxNextSibling
  BY DEF Pushed
<1>2. /\ new[n + 1].t = t /\ new[n + 1].text = text /\ new[n + 1].idxParent = P
      /\ new[n + 1].idxFirstChild = 0 /\ new[n + 1].idxNextSibling = 0
  <2>1. new[n + 1] = [t |-> t, text |-> text, idxNextSibling |-> 0,
                      idxFirstChild |-> 0, idxParent |-> P]
    BY DEF Pushed
  <2> QED BY <2>1
<1>3. \A j \in 1..n : SettledItem(s, old, at, O, L, k, j)
  BY DEF Settled
<1>4. /\ IF U THEN Leads(s, at[P] + 1, k)
         ELSE IF L # 0 THEN Leads(s, Behind(s, old[L], at[L]), k)
         ELSE n = 0 /\ Leads(s, 1, k)
      /\ n # 0 => Leads(s, 1, at[1])
      /\ \A j \in O : old[j].idxFirstChild = 0 => U /\ j = P
  BY DEF Dangling
<1>5. to[n + 1] = k /\ \A j \in 1..n : to[j] = at[j]
  BY <1>1 DEF PlusAt
<1>6. n + 1 \notin O /\ n + 1 \notin 1..n /\ 0 \notin O
  BY <1>1
<1>7. Q \subseteq O \cup {n + 1} /\ O \subseteq Q /\ (\A j \in 1..n : j \in Q <=> j \in O)
  BY <1>1
<1> HIDE DEF n, P, L, U, old, new
<1>8. Leads(s, 1, to[1])
  <2>1. CASE n = 0
    <3>1. ~U /\ L = 0
      <4>1. 1..n = {} /\ O \subseteq 1..n
        BY <2>1 DEF n
      <4>2. ~U
        BY <4>1 DEF U, P
      <4>3. L = 0
        BY <4>1 DEF L, n
      <4> QED BY <4>2, <4>3
    <3> QED BY <1>4, <1>5, <2>1, <3>1
  <2>2. CASE n # 0
    BY <1>1, <1>4, <1>5, <2>2
  <2> QED BY <2>1, <2>2
<1>9. ASSUME NEW j \in O PROVE new[j].idxFirstChild # 0
  <2>1. j \in 1..n
    BY DEF n
  <2> QED BY <1>1, <1>4, <2>1
<1>10. ASSUME NEW j \in 1..n PROVE SettledItem(s, new, to, Q, last, e, j)
  <2>1. /\ at[j] \in 1..k-1
        /\ ItemAt(s, old[j], at[j])
        /\ old[j].idxFirstChild # 0 => /\ old[j].idxFirstChild \in 1..n
                                       /\ Leads(s, at[j] + 1, at[old[j].idxFirstChild])
        /\ old[j].idxParent \in 0..n
        /\ old[j].idxParent # 0 =>
             /\ at[old[j].idxParent] < at[j]
             /\ old[j].idxParent \notin O =>
                  j \notin O /\ Behind(s, old[j], at[j]) <= Closer(s, at[old[j].idxParent])
    BY <1>3 DEF SettledItem, n, old
  <2>2. j \in O => old[j].t \in Blocks /\ old[j].idxNextSibling = 0
    BY <1>3 DEF SettledItem
  <2>3. j \notin O => /\ Closed(s, old, at, j)
                      /\ Behind(s, old[j], at[j]) <= k
                      /\ IF old[j].idxNextSibling # 0
                         THEN /\ old[j].idxNextSibling \in 1..n
                              /\ Leads(s, Behind(s, old[j], at[j]), at[old[j].idxNextSibling])
                         ELSE j # L => StopsAt(s, Behind(s, old[j], at[j]))
    BY <1>3 DEF SettledItem, n, old
  <2>4. /\ ItemAt(s, new[j], at[j])
        /\ Behind(s, new[j], at[j]) = Behind(s, old[j], at[j])
    <3> DEFINE item == new[j]
               other == old[j]
               x == at[j]
    <3>1. item.t = other.t /\ item.text = other.text /\ ItemAt(s, other, x)
      BY <1>1, <2>1
    <3> HIDE DEF item, other, x
    <3>2. ItemAt(s, item, x) /\ Behind(s, item, x) = Behind(s, other, x)
      BY <3>1, SameItem
    <3> QED BY <3>2 DEF item, other, x
  <2>5. to[j] = at[j] /\ to[j] \in 1..e-1 /\ (j \in Q <=> j \in O) /\ j # n + 1
    BY <1>1, <1>5, <1>7, <2>1
  <2>6. new[j].idxFirstChild # 0 => /\ new[j].idxFirstChild \in 1..n+1
                                    /\ Leads(s, at[j] + 1, to[new[j].idxFirstChild])
    <3>1. CASE U /\ j = P
      <4>1. new[j].idxFirstChild = n + 1 /\ to[n + 1] = k /\ Leads(s, at[j] + 1, k)
        BY <1>1, <1>4, <1>5, <3>1
      <4> QED BY <1>1, <4>1
    <3>2. CASE ~(U /\ j = P)
      <4>1. new[j].idxFirstChild = old[j].idxFirstChild
        BY <1>1, <3>2
      <4> QED BY <1>1, <1>5, <2>1, <4>1
    <3> QED BY <3>1, <3>2
  <2>11. new[j].idxParent \in 0..n+1
    BY <1>1, <2>1
  <2>7. new[j].idxParent # 0 =>
          /\ to[new[j].idxParent] < to[j]
          /\ new[j].idxParent \notin Q =>
               j \notin Q /\ Behind(s, new[j], to[j]) <= Closer(s, to[new[j].idxParent])
    <3> SUFFICES ASSUME new[j].idxParent # 0
                 PROVE  /\ to[new[j].idxParent] < to[j]
                        /\ new[j].idxParent \notin Q =>
                             /\ j \notin Q
                             /\ Behind(s, new[j], to[j]) <= Closer(s, to[new[j].idxParent])
      OBVIOUS
    <3>1. new[j].idxParent = old[j].idxParent
      BY <1>1
    <3>2. old[j].idxParent \in 1..n
      BY <1>1, <2>1, <3>1
    <3>3. to[new[j].idxParent] = at[old[j].idxParent]
      BY <1>5, <3>1, <3>2
    <3>4. new[j].idxParent \notin Q => old[j].idxParent \notin O
      BY <1>7, <3>1
    <3> QED BY <2>1, <2>4, <2>5, <3>1, <3>3, <3>4
  <2>8. j \in Q => new[j].t \in Blocks /\ new[j].idxNextSibling = 0
    <3>1. j \in O => j # L
      BY DEF L
    <3> QED BY <1>1, <2>2, <2>5, <3>1
  <2>9. j \notin Q => Closed(s, new, to, j)
    <3> SUFFICES ASSUME j \notin O PROVE Closed(s, new, to, j)
      BY <2>5
    <3>1. ~(U /\ j = P)
      BY DEF U, P
    <3>2. new[j].idxFirstChild = old[j].idxFirstChild /\ new[j].t = old[j].t
      BY <1>1, <3>1
    <3>3. old[j].idxFirstChild \in 1..n => to[old[j].idxFirstChild] = at[old[j].idxFirstChild]
      BY <1>5
    <3>4. 1..n \subseteq 1..n+1 /\ Len(old) = n /\ Len(new) = n + 1
      BY <1>1 DEF n, old
    <3> QED BY <2>3, <2>5, <3>2, <3>3, <3>4 DEF Closed
  <2>10. j \notin Q =>
           /\ Behind(s, new[j], to[j]) <= e
           /\ IF new[j].idxNextSibling # 0
              THEN /\ new[j].idxNextSibling \in 1..n+1
                   /\ Leads(s, Behind(s, new[j], to[j]), to[new[j].idxNextSibling])
              ELSE j # last => StopsAt(s, Behind(s, new[j], to[j]))
    <3> SUFFICES ASSUME j \notin O
                 PROVE  /\ Behind(s, old[j], at[j]) <= e
                        /\ IF new[j].idxNextSibling # 0
                           THEN /\ new[j].idxNextSibling \in 1..n+1
                                /\ Leads(s, Behind(s, old[j], at[j]), to[new[j].idxNextSibling])
                           ELSE j # last => StopsAt(s, Behind(s, old[j], at[j]))
      BY <2>4, <2>5
    <3>1. Behind(s, old[j], at[j]) <= e
      <4> DEFINE b == Behind(s, old[j], at[j])
      <4>1. b \in Int
        <5>1. at[j] \in Int
          BY <2>1
        <5>2. old[j].t = "Static" => Len(old[j].text) \in Nat
          BY <2>1 DEF ItemAt
        <5>3. old[j].t \in Blocks => Closer(s, at[j]) \in at[j]+1..Len(s)
          BY <2>3 DEF Closed
        <5>4. old[j].t \in Blocks => Closer(s, at[j]) \in Int
          BY <5>1, <5>3
        <5> QED BY <5>1, <5>2, <5>4 DEF Behind
      <4>2. b <= k
        BY <2>3
      <4> HIDE DEF b
      <4>3. b <= e
        BY <4>1, <4>2
      <4> QED BY <4>3 DEF b
    <3>2. CASE j = L
      <4>1. L # 0 /\ ~U
        BY <3>2, <1>1 DEF L, U
      <4>2. Leads(s, Behind(s, old[j], at[j]), k)
        BY <1>4, <3>2, <4>1
      <4>3. new[j].idxNextSibling = n + 1 /\ n + 1 # 0 /\ n + 1 \in 1..n+1
        BY <1>1, <3>2
      <4> QED BY <1>5, <3>1, <4>2, <4>3
    <3>3. CASE j # L
      <4>1. new[j].idxNextSibling = old[j].idxNextSibling
        BY <1>1, <3>3
      <4>2. old[j].idxNextSibling \in 1..n =>
              /\ to[old[j].idxNextSibling] = at[old[j].idxNextSibling]
              /\ old[j].idxNextSibling \in 1..n+1
        BY <1>1, <1>5
      <4> QED BY <2>3, <3>1, <3>3, <4>1, <4>2
    <3> QED BY <3>2, <3>3
  <2> HIDE DEF n
  <2> QED BY <1>1, <2>4, <2>5, <2>6, <2>7, <2>8, <2>9, <2>10, <2>11 DEF SettledItem
<1>11. SettledItem(s, new, to, Q, last, e, n + 1)
  <2>1. ItemAt(s, new[n + 1], k)
    BY DEF n, new
  <2>2. (P # 0 => P \in O /\ P \in 1..n) /\ P \in 0..n+1
    <3>1. P # 0 => P \in O /\ P \in 1..n
      BY DEF P, n
    <3> QED BY <1>1, <3>1
  <2>3. P # 0 => to[P] < k /\ P \in Q
    <3>1. P # 0 => at[P] \in 1..k-1
      BY <1>3, <2>2 DEF SettledItem
    <3> QED BY <1>5, <1>7, <2>2, <3>1
  <2>4. CASE Q = O /\ last = n + 1 /\ t \notin Blocks /\ Behind(s, new[n + 1], k) <= e
    <3>1. Closed(s, new, to, n + 1)
      BY <1>2, <2>4 DEF Closed
    <3> QED BY <1>1, <1>2, <1>5, <1>6, <2>1, <2>2, <2>3, <2>4, <3>1 DEF SettledItem
  <2>5. CASE Q = O \cup {n + 1} /\ last = 0 /\ t \in Blocks
    <3>1. n + 1 \in Q /\ k \in 1..e-1
      BY <2>5
    <3> QED BY <1>1, <1>2, <1>5, <2>1, <2>2, <2>3, <2>5, <3>1 DEF SettledItem
  <2> QED BY <2>4, <2>5 DEF n, new
<1>12. Settled(s, new, to, Q, last, e)
  <2>1. \A j \in 1..n+1 : j \in 1..n \/ j = n + 1
    BY <1>1
  <2> QED BY <1>1, <1>10, <1>11, <2>1 DEF Settled
<1> QED BY <1>8, <1>9, <1>12 DEF Added, new

\* The end of a block is where fewer blocks are open for the first time.
LEMMA CloserFound ==
  ASSUME NEW s, Len(s) \in Nat, NEW x \in 1..Len(s), NEW i \in x+1..Len(s),
         Len(Opened(s)[i]) < Len(Opened(s)[x]),
         \A m \in x..i-1 : Len(Opened(s)[m]) >= Len(Opened(s)[x]),
         \A m \in 0..Len(s) : Len(Opened(s)[m]) \in Nat
  PROVE  Closer(s, x) = i
<1> DEFINE depth(j) == Len(Opened(s)[j])
           Fit(j) == depth(j) < depth(x) /\ \A k \in x..j-1 : depth(k) >= depth(x)
<1>1. Closer(s, x) = CHOOSE j \in x+1..Len(s) : Fit(j)
  BY DEF Closer
<1>2. Fit(i)
  OBVIOUS
<1>3. ASSUME NEW j \in x+1..Len(s), Fit(j) PROVE j = i
  <2>1. j \in x..i-1 \/ i \in x..j-1 \/ i = j
    OBVIOUS
  <2>2. \A m \in x..Len(s) : depth(m) \in Nat
    OBVIOUS
  <2>3. depth(x) \in Nat /\ depth(i) \in Nat /\ depth(j) \in Nat
    BY <2>2
  <2>4. ~(j \in x..i-1)
    BY <1>3, <2>3
  <2>5. ~(i \in x..j-1)
    BY <1>2, <1>3, <2>3
  <2> QED BY <2>1, <2>4, <2>5
<1> HIDE DEF Fit
<1> QED BY <1>1, <1>2, <1>3

\* The innermost open block is closed by the end at piece i.
LEMMA BlockClosed ==
  ASSUME NEW s, Len(s) \in Nat, NEW tree, Len(tree) \in Nat, NEW at, NEW O,
         O \subseteq 1..Len(tree), NEW P \in O, NEW last, NEW update \in BOOLEAN,
         NEW i \in 1..Len(s), s[i].k \in {"endif", "endfor"},
         Settled(s, tree, at, O, last, i), Dangling(s, tree, at, O, P, last, update, i),
         Closer(s, at[P]) = i, \A j \in O : j <= P,
         \A j \in 1..Len(tree) : tree[j].idxParent \in 0..j-1,
         update => last = 0,
         NEW k \in i+1..Len(s)+1, Leads(s, i + 1, k), NEW up
  PROVE  /\ Settled(s, tree, at, O \ {P}, P, k)
         /\ Dangling(s, tree, at, O \ {P}, up, P, FALSE, k)
<1> DEFINE n == Len(tree)
<1>1. P \in 1..n /\ i \in Int /\ k \in Int
  OBVIOUS
<1>2. /\ IF update THEN Leads(s, at[P] + 1, i)
         ELSE IF last # 0 THEN Leads(s, Behind(s, tree[last], at[last]), i)
         ELSE n = 0 /\ Leads(s, 1, i)
      /\ n # 0 => Leads(s, 1, at[1])
      /\ \A j \in O : tree[j].idxFirstChild = 0 => update /\ j = P
  BY DEF Dangling
<1>3. Stops(s, i)
  BY DEF Stops
<1>4. at[P] \in 1..i-1 /\ tree[P].t \in Blocks /\ tree[P].idxNextSibling = 0
  BY <1>1 DEF Settled, SettledItem
<1>5. Behind(s, tree[P], at[P]) = i + 1
  BY <1>4 DEF Behind, Blocks
<1>6. Closed(s, tree, at, P)
  <2> DEFINE child == tree[P].idxFirstChild
  <2>1. i \in at[P]+1..Len(s)
    BY <1>4
  <2>2. child = 0 => Leads(s, at[P] + 1, i)
    BY <1>2
  <2>3. child # 0 => child \in 1..n /\ at[child] \in 1..i-1
    BY <1>1 DEF Settled, SettledItem
  <2>4. child # 0 => child \in 1..n /\ at[child] < i
    BY <2>3
  <2> QED BY <2>1, <2>2, <2>4 DEF Closed
<1>7. ASSUME NEW j \in 1..n, j \notin O
      PROVE  SettledItem(s, tree, at, O \ {P}, P, k, j)
  <2>1. /\ at[j] \in 1..i-1
        /\ ItemAt(s, tree[j], at[j])
        /\ tree[j].idxFirstChild # 0 => /\ tree[j].idxFirstChild \in 1..Len(tree)
                                        /\ Leads(s, at[j] + 1, at[tree[j].idxFirstChild])
        /\ tree[j].idxParent \in 0..Len(tree)
        /\ tree[j].idxParent # 0 =>
             /\ at[tree[j].idxParent] < at[j]
             /\ tree[j].idxParent \notin O =>
                  j \notin O /\ Behind(s, tree[j], at[j]) <= Closer(s, at[tree[j].idxParent])
        /\ Closed(s, tree, at, j)
        /\ Behind(s, tree[j], at[j]) <= i
        /\ IF tree[j].idxNextSibling # 0
           THEN /\ tree[j].idxNextSibling \in 1..Len(tree)
                /\ Leads(s, Behind(s, tree[j], at[j]), at[tree[j].idxNextSibling])
           ELSE j # last => StopsAt(s, Behind(s, tree[j], at[j]))
    BY <1>7 DEF Settled, SettledItem
  <2>2. Behind(s, tree[j], at[j]) \in Int
    <3>1. at[j] \in Int
      BY <2>1
    <3>2. tree[j].t = "Static" => Len(tree[j].text) \in Nat
      BY <2>1 DEF ItemAt
    <3>3. tree[j].t \in Blocks => Closer(s, at[j]) \in at[j]+1..Len(s)
      BY <2>1 DEF Closed
    <3>4. tree[j].t \in Blocks => Closer(s, at[j]) \in Int
      BY <3>1, <3>3
    <3> QED BY <3>1, <3>2, <3>4 DEF Behind
  <2>3. Behind(s, tree[j], at[j]) <= k
    BY <2>1, <2>2
  <2>4. tree[j].idxParent = P =>
          j \notin O \ {P} /\ Behind(s, tree[j], at[j]) <= Closer(s, at[tree[j].idxParent])
    BY <1>7, <2>1
  <2>5. tree[j].idxNextSibling = 0 => StopsAt(s, Behind(s, tree[j], at[j]))
    <3>1. CASE j = last
      <4>1. last # 0 /\ ~update
        BY <3>1
      <4>2. Leads(s, Behind(s, tree[j], at[j]), i)
        BY <1>2, <3>1, <4>1
      <4> QED BY <1>3, <4>2 DEF StopsAt
    <3>2. CASE j # last
      BY <2>1, <3>2
    <3> QED BY <3>1, <3>2
  <2>6. at[j] \in 1..k-1
    BY <2>1
  <2> QED BY <1>7, <2>1, <2>3, <2>4, <2>5, <2>6 DEF SettledItem
<1>8. ASSUME NEW j \in O
      PROVE  SettledItem(s, tree, at, O \ {P}, P, k, j)
  <2>1. /\ at[j] \in 1..i-1
        /\ ItemAt(s, tree[j], at[j])
        /\ tree[j].idxFirstChild # 0 => /\ tree[j].idxFirstChild \in 1..Len(tree)
                                        /\ Leads(s, at[j] + 1, at[tree[j].idxFirstChild])
        /\ tree[j].idxParent \in 0..Len(tree)
        /\ tree[j].idxParent # 0 =>
             /\ at[tree[j].idxParent] < at[j]
             /\ tree[j].idxParent \in O
        /\ tree[j].t \in Blocks /\ tree[j].idxNextSibling = 0
    BY <1>8 DEF Settled, SettledItem
  <2>2. tree[j].idxParent # P
    <3>1. j \in 1..n /\ j <= P /\ tree[j].idxParent \in 0..j-1
      OBVIOUS
    <3> QED BY <1>1, <3>1
  <2>3. at[j] \in 1..k-1
    BY <2>1
  <2>4. j = P => Closed(s, tree, at, j) /\ Behind(s, tree[j], at[j]) <= k
    BY <1>5, <1>6
  <2> QED BY <2>1, <2>2, <2>3, <2>4 DEF SettledItem
<1>9. Settled(s, tree, at, O \ {P}, P, k)
  BY <1>7, <1>8 DEF Settled
<1>10. Dangling(s, tree, at, O \ {P}, up, P, FALSE, k)
  BY <1>1, <1>2, <1>5 DEF Dangling
<1> QED BY <1>9, <1>10

\* The items of the open blocks, the outermost first.
OpenItems(open, c) == {c[q] : q \in 1..Len(open)}

Rising(open, c) == \A q, r \in 1..Len(open) : q < r => c[q] < c[r]

\* Since a block has begun it has not ended.
DepthFits(s, i, at, open, c) ==
    \A q \in 1..Len(open) :
        /\ at[c[q]] \in 1..i
        /\ Len(Opened(s)[at[c[q]]]) = q
        /\ \A m \in at[c[q]]..i : Len(Opened(s)[m]) >= q

\* The part of the invariant of the loop that is about where the items come from.
Lay(s, i, p, open, k, at, c) ==
    /\ Chain(p.tree, p.idxParentItem, open, c)
    /\ Rising(open, c)
    /\ DepthFits(s, i, at, open, c)
    /\ Settled(s, p.tree, at, OpenItems(open, c), p.idxLastSibling, k)
    /\ Dangling(s, p.tree, at, OpenItems(open, c), p.idxParentItem, p.idxLastSibling,
                p.updateParent, k)

\* The place where the next text begins: not at a hidden newline.
TextStart(s, start, k) ==
    /\ k \in 1..Len(s)+1
    /\ k = IF start <= Len(s) THEN start ELSE Len(s) + 1
    /\ k <= Len(s) => ~Hidden(s, k)

Laying(s, i, p) ==
    \E k, at, c : TextStart(s, p.curSectionStart, k) /\ Lay(s, i, p, Opened(s)[i], k, at, c)

\* What the variables of parse() say of the open blocks.
LEMMA PlaceFacts ==
  ASSUME NEW s, NEW p, ParserFits(s, p), NEW open, NEW c, Rising(open, c),
         Chain(p.tree, p.idxParentItem, open, c), NEW O, O = OpenItems(open, c)
  PROVE  /\ OpenFits(p, O)
         /\ O \subseteq 1..Len(p.tree) /\ Len(p.tree) \in Nat /\ Len(open) \in Nat
         /\ \A j \in O : j <= p.idxParentItem
         /\ \A j \in 1..Len(p.tree) : p.tree[j].idxParent \in 0..j-1
<1> DEFINE tree == p.tree
           n == Len(tree)
           P == p.idxParentItem
           L == p.idxLastSibling
           m == Len(open)
<1>1. n \in Nat /\ p.updateParent \in BOOLEAN /\ m \in Nat
  BY DEF ParserFits, Parsers, Chain
<1>2. TreeFits(tree) /\ PlaceFits(tree, P, L, p.updateParent, p.curSection)
  BY DEF ParserFits
<1>3. /\ \A q \in 1..m : c[q] \in 1..n
      /\ \A q \in 1..m : tree[c[q]].idxParent = IF q = 1 THEN 0 ELSE c[q - 1]
      /\ P = IF m = 0 THEN 0 ELSE c[m]
  BY DEF Chain
<1>4. \A j \in 1..n : tree[j].idxParent \in 0..j-1
  BY <1>2 DEF TreeFits, ParentsFit
<1>5. /\ P \in 0..n /\ p.updateParent = (P # 0 /\ P = n) /\ L \in 0..n
      /\ L # 0 => tree[L].idxParent = P
      /\ \A j \in 1..n : tree[j].idxParent = P => L # 0 /\ j <= L
  BY <1>2 DEF PlaceFits
<1> HIDE DEF tree, n, P, L, m
<1>6. /\ O \subseteq 1..n
      /\ \A j \in O : \E q \in 1..m : j = c[q]
      /\ \A q \in 1..m : c[q] \in O
  BY <1>3 DEF OpenItems, m
<1>7. P # 0 => m \in 1..m /\ P = c[m] /\ P \in O
  BY <1>1, <1>3, <1>6
<1>8. ASSUME NEW q \in 1..m PROVE c[q] <= P
  <2>1. m # 0 /\ P = c[m] /\ m \in 1..m /\ c[q] \in 1..n /\ c[m] \in 1..n
    BY <1>1, <1>3
  <2>2. q = m \/ q < m
    BY <1>1
  <2>3. q < m => c[q] < c[m]
    BY <2>1 DEF Rising, m
  <2> QED BY <2>1, <2>2, <2>3
<1>9. \A j \in O : j <= P
  BY <1>6, <1>8
<1>10. L \notin O
  <2> SUFFICES ASSUME L \in O PROVE FALSE
    OBVIOUS
  <2>1. PICK q \in 1..m : L = c[q]
    BY <1>6
  <2>2. L # 0 /\ L \in 1..n /\ tree[L].idxParent = P
    BY <1>3, <1>5, <2>1
  <2>3. L <= P /\ P \in 0..L-1
    BY <1>4, <1>8, <2>1, <2>2
  <2> QED BY <2>2, <2>3
<1>11. p.updateParent => P \in O /\ L = 0 /\ tree[P].idxFirstChild = 0
  <2> SUFFICES ASSUME p.updateParent PROVE P \in O /\ L = 0 /\ tree[P].idxFirstChild = 0
    OBVIOUS
  <2>1. P # 0 /\ P = n /\ P \in 1..n
    <3>1. P # 0 /\ P = n
      BY <1>5
    <3> QED BY <1>1, <3>1
  <2>2. L = 0
    <3> SUFFICES ASSUME L # 0 PROVE FALSE
      OBVIOUS
    <3>1. L \in 1..n /\ tree[L].idxParent = P
      BY <1>5
    <3> QED BY <1>4, <2>1, <3>1
  <2>3. tree[P].idxFirstChild \in {0, P + 1}
        /\ (tree[P].idxFirstChild = P + 1 => P + 1 \in 1..n)
    BY <1>2, <2>1 DEF TreeFits, ChildrenFit, n
  <2> QED BY <1>1, <1>7, <2>1, <2>2, <2>3
<1>12. L # 0 => L \in 1..n /\ tree[L].idxNextSibling = 0
  <2> SUFFICES ASSUME L # 0 PROVE L \in 1..n /\ tree[L].idxNextSibling = 0
    OBVIOUS
  <2>1. L \in 1..n /\ tree[L].idxParent = P
    BY <1>5
  <2>2. ASSUME tree[L].idxNextSibling # 0 PROVE FALSE
    <3> DEFINE j == tree[L].idxNextSibling
    <3>1. j \in L+1..n /\ tree[j].idxParent = P
      BY <1>2, <2>1, <2>2 DEF TreeFits, SiblingsFit, n
    <3> HIDE DEF j
    <3>2. j \in 1..n /\ j <= L
      BY <1>5, <2>1, <3>1
    <3> QED BY <2>1, <3>1, <3>2
  <2> QED BY <2>1, <2>2
<1>13. P \in O \cup {0}
  BY <1>7
<1>14. OpenFits(p, O)
  BY <1>1, <1>6, <1>10, <1>11, <1>12, <1>13 DEF OpenFits, tree, n, P, L
<1> QED BY <1>1, <1>4, <1>6, <1>9, <1>14 DEF tree, n, P, m

\* The places of the open blocks do not change when an item is added.
LEMMA SamePlaces ==
  ASSUME NEW s, NEW i, NEW at, NEW open, NEW c, NEW n \in Nat,
         OpenItems(open, c) \subseteq 1..n, DepthFits(s, i, at, open, c), NEW k
  PROVE  DepthFits(s, i, PlusAt(at, n, k), open, c)
<1>1. \A q \in 1..Len(open) : c[q] \in 1..n
  BY DEF OpenItems
<1>2. \A j \in 1..n : PlusAt(at, n, k)[j] = at[j]
  BY DEF PlusAt
<1>3. \A q \in 1..Len(open) : PlusAt(at, n, k)[c[q]] = at[c[q]]
  BY <1>1, <1>2
<1> QED BY <1>3 DEF DepthFits

\* A piece after which all blocks are still open.
LEMMA StillOpen ==
  ASSUME NEW s, NEW i \in 1..Len(s), Len(s) \in Nat, NEW at, NEW open, NEW c, Len(open) \in Nat,
         DepthFits(s, i - 1, at, open, c), Len(Opened(s)[i]) >= Len(open),
         Len(Opened(s)[i]) \in Nat
  PROVE  DepthFits(s, i, at, open, c)
<1> SUFFICES ASSUME NEW q \in 1..Len(open)
             PROVE  /\ at[c[q]] \in 1..i
                    /\ Len(Opened(s)[at[c[q]]]) = q
                    /\ \A m \in at[c[q]]..i : Len(Opened(s)[m]) >= q
  BY DEF DepthFits
<1>1. /\ at[c[q]] \in 1..i-1
      /\ Len(Opened(s)[at[c[q]]]) = q
      /\ \A m \in at[c[q]]..i-1 : Len(Opened(s)[m]) >= q
  BY DEF DepthFits
<1>2. \A m \in at[c[q]]..i : m \in at[c[q]]..i-1 \/ m = i
  BY <1>1
<1>3. Len(Opened(s)[i]) >= q
  OBVIOUS
<1> QED BY <1>1, <1>2, <1>3

\* A new item that opens no block.
LEMMA LeafLays ==
  ASSUME NEW s, Len(s) \in Nat, NEW p, ParserFits(s, p), NEW open, NEW i, NEW at, NEW c,
         NEW k \in 1..Len(s), Lay(s, i, p, open, k, at, c),
         NEW t, t \notin Blocks, NEW text, NEW q, Pushed(s, p, q, t, text),
         ItemAt(s, q.tree[Len(p.tree) + 1], k),
         NEW e \in k+1..Len(s)+1, Behind(s, q.tree[Len(p.tree) + 1], k) <= e,
         Leads(s, Behind(s, q.tree[Len(p.tree) + 1], k), e)
  PROVE  Lay(s, i, q, open, e, PlusAt(at, Len(p.tree), k), c)
<1> DEFINE n == Len(p.tree)
           O == OpenItems(open, c)
           to == PlusAt(at, n, k)
<1>1. /\ Chain(p.tree, p.idxParentItem, open, c) /\ Rising(open, c)
      /\ DepthFits(s, i, at, open, c)
      /\ Settled(s, p.tree, at, O, p.idxLastSibling, k)
      /\ Dangling(s, p.tree, at, O, p.idxParentItem, p.idxLastSibling, p.updateParent, k)
  BY DEF Lay
<1>2. OpenFits(p, O) /\ O \subseteq 1..n /\ n \in Nat
  BY <1>1, PlaceFacts
<1>3. /\ Len(q.tree) = n + 1 /\ q.idxParentItem = p.idxParentItem
      /\ q.idxLastSibling = n + 1 /\ q.updateParent = FALSE
      /\ \A j \in 1..n : /\ q.tree[j].idxParent = p.tree[j].idxParent
                         /\ q.tree[j].t = p.tree[j].t
  BY DEF Pushed
<1> HIDE DEF O, n
<1>5. /\ Settled(s, q.tree, to, O, n + 1, e)
      /\ Leads(s, 1, to[1])
      /\ \A j \in O : q.tree[j].idxFirstChild # 0
  <2> DEFINE item == q.tree[Len(p.tree) + 1]
  <2> HIDE DEF to
  <2>1. to = PlusAt(at, Len(p.tree), k)
    BY DEF to, n
  <2>2. ClosedOrOpen(s, item, t, Len(p.tree) + 1, k, e, O, O, n + 1)
    BY DEF ClosedOrOpen, n
  <2>3. Added(s, q.tree, to, O, O, n + 1, e)
    BY <1>1, <1>2, <2>1, <2>2, ItemAdded
  <2> QED BY <2>3 DEF Added
<1>6. to[n + 1] = k
  BY <1>2 DEF PlusAt
<1>7. Dangling(s, q.tree, to, O, q.idxParentItem, q.idxLastSibling, q.updateParent, e)
  <2>1. Leads(s, Behind(s, q.tree[n + 1], to[n + 1]), e)
    BY <1>6 DEF n
  <2>2. n + 1 # 0
    BY <1>2
  <2> HIDE DEF to
  <2> QED BY <1>3, <1>5, <2>1, <2>2 DEF Dangling
<1>8. Chain(q.tree, q.idxParentItem, open, c)
  <2>1. Grown(p.tree, q.tree) /\ Len(q.tree) \in Nat /\ Len(p.tree) \in Nat
    BY <1>2, <1>3 DEF Grown, n
  <2> QED BY <1>1, <1>3, <2>1, ChainGrows
<1>9. DepthFits(s, i, to, open, c)
  BY <1>1, <1>2, SamePlaces DEF O
<1>10. Settled(s, q.tree, to, O, q.idxLastSibling, e)
  BY <1>3, <1>5
<1> HIDE DEF to
<1>11. Lay(s, i, q, open, e, to, c)
  BY <1>1, <1>7, <1>8, <1>9, <1>10 DEF Lay, O
<1> QED BY <1>11 DEF to, n


\* The item of a text that ends before piece i.
LEMMA TextLays ==
  ASSUME NEW s, IsText(s), NEW p, ParserFits(s, p), NEW i \in 1..Len(s)+1,
         TextFits(s, i - 1, p), NEW open, NEW k, NEW at, NEW c,
         TextStart(s, p.curSectionStart, k), Lay(s, i - 1, p, open, k, at, c), k < i,
         NEW q, q = Push(p, "Static", SubSeq(s, p.curSectionStart, i - 1))
  PROVE  Lay(s, i - 1, q, open, i, PlusAt(at, Len(p.tree), k), c)
<1> DEFINE text == SubSeq(s, p.curSectionStart, i - 1)
           item == q.tree[Len(p.tree) + 1]
<1>1. s \in Seq(Pieces(s)) /\ Len(s) \in Nat /\ p \in Parsers(s) /\ i \in Int
  BY DEF IsText, Pieces, ParserFits
<1>2. k = p.curSectionStart /\ k \in 1..i-1 /\ k \in 1..Len(s) /\ ~Hidden(s, k)
  BY <1>1 DEF TextStart
<1>3. \A j \in k..i-1 : s[j].k \in Plain \cup {"empty"}
  BY <1>2 DEF TextFits
<1>4. \A j \in k..i-1 : ~Hidden(s, j)
  <2> SUFFICES ASSUME NEW j \in k..i-1, j # k PROVE ~Hidden(s, j)
    BY <1>2
  <2>1. j - 1 \in k..i-1
    BY <1>2
  <2>2. s[j - 1].k \in Plain \cup {"empty"}
    BY <1>3, <2>1
  <2> QED BY <2>2 DEF Hidden, Plain, Control
<1>5. /\ text \in Seq(Pieces(s)) /\ Len(text) = i - k
      /\ \A j \in 1..i-k : text[j] = s[k + j - 1]
  <2>1. k \in Int /\ i - 1 \in Int /\ \A j \in k..i-1 : s[j] \in Pieces(s)
    <3>1. \A j \in k..i-1 : j \in 1..Len(s)
      BY <1>1, <1>2
    <3> QED BY <1>1, <1>2, <3>1, ElementOfSeq
  <2>2. /\ text \in Seq(Pieces(s))
        /\ Len(text) = (IF k <= i - 1 THEN (i - 1) - k + 1 ELSE 0)
        /\ \A j \in 1..(i - 1)-k+1 : text[j] = s[k + j - 1]
    BY <1>2, <2>1, SubSeqProperties
  <2>3. (i - 1) - k + 1 = i - k /\ k <= i - 1
    BY <1>1, <1>2
  <2> QED BY <2>2, <2>3
<1>6. Pushed(s, p, q, "Static", text)
  <2>1. "Static" \in ItemTypes /\ text \in Pieces(s) \cup Seq(Pieces(s))
    BY <1>5 DEF ItemTypes
  <2> QED BY <1>1, <2>1, PushFacts
<1> HIDE DEF text
<1>7. item.t = "Static" /\ item.text = text
  BY <1>6 DEF Pushed
<1>8. ItemAt(s, item, k)
  <2>1. \A j \in 1..i-k : k + j - 1 \in k..i-1
    BY <1>1, <1>2
  <2>2. k + Len(text) <= Len(s) + 1 /\ Len(text) # 0
    BY <1>1, <1>2, <1>5
  <2>3. \A j \in 1..Len(text) : /\ text[j] = s[k + j - 1] /\ ~Hidden(s, k + j - 1)
                                /\ s[k + j - 1].k \in Plain \cup {"empty"}
    BY <1>3, <1>4, <1>5, <2>1
  <2> HIDE DEF item
  <2> QED BY <1>5, <1>7, <2>2, <2>3 DEF ItemAt
<1>9. Behind(s, item, k) = i
  <2>1. k + (i - k) = i
    BY <1>1, <1>2
  <2> HIDE DEF item
  <2> QED BY <1>5, <1>7, <2>1 DEF Behind
<1>10. i \in k+1..Len(s)+1 /\ Behind(s, item, k) <= i /\ Leads(s, Behind(s, item, k), i)
  BY <1>1, <1>2, <1>9 DEF Leads
<1>11. "Static" \notin Blocks
  BY DEF Blocks
<1> QED BY <1>1, <1>2, <1>6, <1>8, <1>10, <1>11, LeafLays

\* What the text before a token i leaves behind.
LEMMA TextBeforeLays ==
  ASSUME NEW s, IsText(s), NEW p, ParserFits(s, p), NEW i \in 1..Len(s),
         TextFits(s, i - 1, p), s[i].k # "nl", NEW open, NEW k, NEW at, NEW c,
         TextStart(s, p.curSectionStart, k), Lay(s, i - 1, p, open, k, at, c)
  PROVE  \E to : Lay(s, i - 1, TextBefore(s, p, i), open, i, to, c)
<1>1. Len(s) \in Nat /\ i \in 1..Len(s)+1
  BY DEF IsText
<1>2. /\ p.curSectionStart \in 1..(i-1)+2
      /\ i - 1 < Len(s) => (Hidden(s, (i - 1) + 1) <=> p.curSectionStart = (i - 1) + 2)
  BY DEF TextFits
<1>3. p.curSectionStart \in 1..i
  <2>1. (i - 1) + 1 = i /\ i - 1 < Len(s) /\ (i - 1) + 2 = i + 1
    BY <1>1
  <2>2. ~Hidden(s, i)
    BY DEF Hidden
  <2> QED BY <1>2, <2>1, <2>2
<1>4. k = p.curSectionStart
  BY <1>1, <1>3 DEF TextStart
<1>5. CASE k = i
  BY <1>4, <1>5 DEF TextBefore
<1>6. CASE k # i
  <2>1. TextBefore(s, p, i) = Push(p, "Static", SubSeq(s, p.curSectionStart, i - 1))
    BY <1>4, <1>6 DEF TextBefore
  <2>2. k < i
    BY <1>1, <1>3, <1>4, <1>6
  <2> DEFINE q == TextBefore(s, p, i)
  <2> HIDE DEF q
  <2>3. q = Push(p, "Static", SubSeq(s, p.curSectionStart, i - 1))
    BY <2>1 DEF q
  <2>4. Lay(s, i - 1, q, open, i, PlusAt(at, Len(p.tree), k), c)
    BY <1>1, <2>2, <2>3, TextLays
  <2> QED BY <2>4 DEF q
<1> QED BY <1>5, <1>6


\* A token that opens a block.
LEMMA BlockLays ==
  ASSUME NEW s, Len(s) \in Nat, NEW p, ParserFits(s, p), NEW open, NEW i \in 1..Len(s),
         NEW at, NEW c, Lay(s, i - 1, p, open, i, at, c),
         NEW kind \in Opener, NEW text, NEW q, Pushed(s, p, q, BlockType(kind), text),
         ItemAt(s, q.tree[Len(p.tree) + 1], i),
         Opened(s)[i] = Append(open, kind),
         NEW e \in i+1..Len(s)+1, Leads(s, i + 1, e),
         NEW r, r.tree = q.tree, r.idxParentItem = Len(q.tree), r.idxLastSibling = 0,
         r.updateParent = TRUE
  PROVE  Lay(s, i, r, Opened(s)[i], e, PlusAt(at, Len(p.tree), i),
             Deeper(c, Len(open), Len(p.tree) + 1))
<1> DEFINE n == Len(p.tree)
           m == Len(open)
           O == OpenItems(open, c)
           Q == O \cup {n + 1}
           to == PlusAt(at, n, i)
           d == Deeper(c, m, n + 1)
           opens == Opened(s)[i]
           t == BlockType(kind)
<1>1. /\ Chain(p.tree, p.idxParentItem, open, c) /\ Rising(open, c)
      /\ DepthFits(s, i - 1, at, open, c)
      /\ Settled(s, p.tree, at, O, p.idxLastSibling, i)
      /\ Dangling(s, p.tree, at, O, p.idxParentItem, p.idxLastSibling, p.updateParent, i)
  BY DEF Lay
<1>2. OpenFits(p, O) /\ O \subseteq 1..n /\ n \in Nat /\ m \in Nat
  BY <1>1, PlaceFacts
<1>3. /\ Len(q.tree) = n + 1
      /\ \A j \in 1..n : /\ q.tree[j].idxParent = p.tree[j].idxParent
                         /\ q.tree[j].t = p.tree[j].t
      /\ q.tree[n + 1].idxParent = p.idxParentItem /\ q.tree[n + 1].t = t
  BY DEF Pushed
<1>4. t \in Blocks
  BY DEF BlockType, Blocks
<1>5. /\ open \in Seq(Opener) /\ \A j \in 1..m : c[j] \in 1..n
  BY <1>1 DEF Chain
<1>6. Len(opens) = m + 1
  BY <1>5, AppendProperties
<1>7. Chain(r.tree, r.idxParentItem, opens, d)
  <2>1. Grown(p.tree, q.tree) /\ Len(p.tree) \in Nat /\ Len(q.tree) = Len(p.tree) + 1
    BY <1>2, <1>3 DEF Grown, n
  <2>2. q.tree[Len(q.tree)].idxParent = p.idxParentItem /\ q.tree[Len(q.tree)].t = BlockType(kind)
    BY <1>3
  <2>3. Chain(q.tree, Len(q.tree), Append(open, kind), Deeper(c, Len(open), Len(q.tree)))
    BY <1>1, <2>1, <2>2, ChainDown, SMTT(30)
  <2> QED BY <1>3, <2>3
<1>8. d[m + 1] = n + 1 /\ \A j \in 1..m : d[j] = c[j]
  BY <1>2 DEF Deeper
<1>9. to[n + 1] = i /\ \A j \in 1..n : to[j] = at[j]
  BY <1>2 DEF PlusAt
<1>10. /\ Settled(s, q.tree, to, Q, 0, e)
       /\ Leads(s, 1, to[1])
       /\ \A j \in O : q.tree[j].idxFirstChild # 0
  <2> DEFINE item == q.tree[Len(p.tree) + 1]
  <2>1. ClosedOrOpen(s, item, t, Len(p.tree) + 1, i, e, O, Q, 0)
    BY <1>4 DEF ClosedOrOpen
  <2>2. to = PlusAt(at, Len(p.tree), i)
    OBVIOUS
  <2>3. Pushed(s, p, q, t, text)
    OBVIOUS
  <2> DEFINE last == 0
  <2>4. ClosedOrOpen(s, item, t, Len(p.tree) + 1, i, e, O, Q, last)
    BY <2>1
  <2> HIDE DEF O, Q, to, t, last
  <2>5. Added(s, q.tree, to, O, Q, last, e)
    BY <1>1, <1>2, <2>2, <2>3, <2>4, ItemAdded
  <2> QED BY <2>5 DEF Added, last
<1> HIDE DEF d, to, opens, m, n
<1>11. OpenItems(opens, d) = Q
  <2>1. \A j \in 1..m+1 : j \in 1..m \/ j = m + 1
    BY <1>2
  <2>2. m + 1 \in 1..m+1 /\ \A j \in 1..m : j \in 1..m+1
    BY <1>2
  <2>3. \A x : x \in OpenItems(opens, d) <=> \E j \in 1..m+1 : x = d[j]
    BY <1>6 DEF OpenItems
  <2>4. \A x : x \in O <=> \E j \in 1..m : x = c[j]
    BY DEF OpenItems, m
  <2> HIDE DEF O
  <2>5. \A x : x \in OpenItems(opens, d) <=> x \in Q
    BY <1>8, <2>1, <2>2, <2>3, <2>4, SMTT(30)
  <2> QED BY <2>5
<1>12. Rising(opens, d)
  <2> SUFFICES ASSUME NEW j \in 1..m+1, NEW l \in 1..m+1, j < l PROVE d[j] < d[l]
    BY <1>6 DEF Rising
  <2>1. j \in 1..m
    BY <1>2
  <2>2. CASE l \in 1..m
    <3>1. c[j] < c[l]
      BY <1>1, <2>1, <2>2 DEF Rising, m
    <3> QED BY <1>8, <2>1, <2>2, <3>1
  <2>3. CASE l = m + 1
    <3>1. c[j] \in 1..n
      BY <1>5, <2>1 DEF m, n
    <3>2. d[j] = c[j] /\ d[l] = n + 1
      BY <1>8, <2>1, <2>3
    <3>3. c[j] < n + 1
      <4>1. n \in Nat
        BY <1>2
      <4> QED BY <4>1, <3>1
    <3> QED BY <3>2, <3>3
  <2>4. l \in 1..m \/ l = m + 1
    BY <1>2
  <2> QED BY <2>2, <2>3, <2>4
<1>13. DepthFits(s, i, to, opens, d)
  <2>1. DepthFits(s, i, to, open, c)
    <3>1. DepthFits(s, i - 1, to, open, c)
      BY <1>1, <1>2, SamePlaces DEF to
    <3>2. Len(Opened(s)[i]) >= Len(open) /\ Len(Opened(s)[i]) \in Nat /\ Len(open) \in Nat
      BY <1>2, <1>6 DEF m, opens
    <3> QED BY <3>1, <3>2, StillOpen
  <2> SUFFICES ASSUME NEW j \in 1..m+1
               PROVE  /\ to[d[j]] \in 1..i
                      /\ Len(Opened(s)[to[d[j]]]) = j
                      /\ \A l \in to[d[j]]..i : Len(Opened(s)[l]) >= j
    BY <1>6 DEF DepthFits
  <2>2. CASE j \in 1..m
    BY <1>8, <2>1, <2>2 DEF DepthFits, m
  <2>3. CASE j = m + 1
    <3>1. to[d[j]] = i /\ \A l \in i..i : l = i
      BY <1>8, <1>9, <2>3
    <3>2. Len(Opened(s)[i]) = j
      BY <1>6, <2>3 DEF opens
    <3> QED BY <1>2, <2>3, <3>1, <3>2
  <2> QED BY <1>2, <2>2, <2>3
<1>14. Settled(s, r.tree, to, OpenItems(opens, d), r.idxLastSibling, e)
  <2> HIDE DEF Q
  <2> QED BY <1>10, <1>11
<1>15. Dangling(s, r.tree, to, OpenItems(opens, d), r.idxParentItem, r.idxLastSibling,
                r.updateParent, e)
  <2>1. r.idxParentItem = n + 1
    BY <1>3
  <2>2. Leads(s, to[r.idxParentItem] + 1, e)
    BY <1>9, <2>1
  <2>3. \A j \in Q : r.tree[j].idxFirstChild = 0 => j = r.idxParentItem
    BY <1>10, <2>1
  <2> HIDE DEF Q
  <2> QED BY <1>10, <1>11, <2>2, <2>3 DEF Dangling
<1>16. Lay(s, i, r, opens, e, to, d)
  BY <1>7, <1>12, <1>13, <1>14, <1>15 DEF Lay
<1> QED BY <1>16 DEF opens, to, d, n, m


\* A token that ends the innermost block.
LEMMA EndLays ==
  ASSUME NEW s, Len(s) \in Nat, NEW p, ParserFits(s, p), NEW open, open # <<>>,
         NEW i \in 1..Len(s), NEW at, NEW c, Lay(s, i - 1, p, open, i, at, c),
         s[i].k \in {"endif", "endfor"}, Opened(s)[i] = Front(open),
         \A j \in 0..Len(s) : Len(Opened(s)[j]) \in Nat,
         NEW e \in i+1..Len(s)+1, Leads(s, i + 1, e),
         NEW r, r.tree = p.tree, r.idxParentItem = p.tree[p.idxParentItem].idxParent,
         r.idxLastSibling = p.idxParentItem, r.updateParent = FALSE
  PROVE  Lay(s, i, r, Opened(s)[i], e, at, Shorter(c, Len(open)))
<1> DEFINE tree == p.tree
           m == Len(open)
           O == OpenItems(open, c)
           P == p.idxParentItem
           d == Shorter(c, m)
           opens == Opened(s)[i]
           last == p.idxLastSibling
           update == p.updateParent
<1>1. /\ Chain(tree, P, open, c) /\ Rising(open, c)
      /\ DepthFits(s, i - 1, at, open, c)
      /\ Settled(s, tree, at, O, last, i)
      /\ Dangling(s, tree, at, O, P, last, update, i)
  BY DEF Lay
<1>2. /\ O \subseteq 1..Len(tree) /\ Len(tree) \in Nat /\ m \in Nat
      /\ \A j \in O : j <= P
      /\ \A j \in 1..Len(tree) : tree[j].idxParent \in 0..j-1
      /\ OpenFits(p, O)
  BY <1>1, PlaceFacts
<1>3. update \in BOOLEAN /\ (update => last = 0)
  BY <1>2 DEF OpenFits
<1>4. open \in Seq(Opener) /\ P = IF m = 0 THEN 0 ELSE c[m]
  BY <1>1 DEF Chain
<1>5. m # 0 /\ m \in 1..m /\ P = c[m]
  <2>1. m # 0
    BY <1>4, EmptySeq
  <2> HIDE DEF m
  <2> QED BY <1>2, <1>4, <2>1
<1>6. P \in O
  BY <1>5 DEF OpenItems
<1>7. Len(opens) = m - 1
  BY <1>4, FrontFacts
<1>8. Chain(tree, tree[P].idxParent, opens, d)
  BY <1>1, <1>2, ChainUp
<1>9. \A j \in 1..m-1 : d[j] = c[j]
  BY DEF Shorter
<1> HIDE DEF tree, O, P, last, update, d, m, opens
<1>10. OpenItems(opens, d) = O \ {P}
  <2>1. \A j \in 1..m-1 : c[j] # P
    <3> SUFFICES ASSUME NEW j \in 1..m-1 PROVE c[j] # c[m]
      BY <1>5
    <3>1. j \in 1..m /\ j < m
      BY <1>2
    <3>2. c[j] < c[m]
      BY <1>1, <1>5, <3>1 DEF Rising, m
    <3>3. c[j] \in Int /\ c[m] \in Int
      <4>1. c[j] \in O /\ c[m] \in O
        BY <1>5, <3>1 DEF OpenItems, O, m
      <4>2. c[j] \in 1..Len(tree) /\ c[m] \in 1..Len(tree)
        <5>1. O \subseteq 1..Len(tree)
          BY <1>2
        <5> QED BY <4>1, <5>1
      <4> QED BY <4>2
    <3> QED BY <3>2, <3>3
  <2>2. \A j \in 1..m : j \in 1..m-1 \/ j = m
    BY <1>2
  <2>3. \A j \in 1..m-1 : j \in 1..m
    BY <1>2
  <2>4. \A x : x \in OpenItems(opens, d) <=> \E j \in 1..m-1 : x = d[j]
    BY <1>7 DEF OpenItems
  <2>5. \A x : x \in O <=> \E j \in 1..m : x = c[j]
    BY DEF OpenItems, O, m
  <2>6. ASSUME NEW x \in OpenItems(opens, d) PROVE x \in O \ {P}
    <3>1. PICK j \in 1..m-1 : x = d[j]
      BY <2>4
    <3> QED BY <1>9, <2>1, <2>3, <2>5, <3>1
  <2>7. ASSUME NEW x \in O \ {P} PROVE x \in OpenItems(opens, d)
    <3>1. PICK j \in 1..m : x = c[j]
      BY <2>5
    <3>2. j \in 1..m-1
      BY <1>5, <2>2, <2>7, <3>1
    <3> QED BY <1>9, <2>4, <3>1, <3>2
  <2> QED BY <2>6, <2>7
<1>11. Rising(opens, d)
  <2> SUFFICES ASSUME NEW j \in 1..m-1, NEW l \in 1..m-1, j < l PROVE d[j] < d[l]
    BY <1>7 DEF Rising
  <2>1. j \in 1..m /\ l \in 1..m
    BY <1>2
  <2>2. c[j] < c[l]
    BY <1>1, <2>1 DEF Rising, m
  <2> QED BY <1>9, <2>2
<1>12. DepthFits(s, i, at, opens, d)
  <2>1. DepthFits(s, i - 1, at, opens, d)
    <3>1. \A j \in 1..m-1 : j \in 1..m
      BY <1>2
    <3> QED BY <1>1, <1>7, <1>9, <3>1 DEF DepthFits, m
  <2>2. Len(Opened(s)[i]) >= Len(opens) /\ Len(Opened(s)[i]) \in Nat /\ Len(opens) \in Nat
    <3>1. m - 1 \in Nat /\ m - 1 >= m - 1
      BY <1>2, <1>5
    <3> QED BY <1>7, <3>1 DEF opens
  <2> QED BY <2>1, <2>2, StillOpen
<1>13. Closer(s, at[P]) = i
  <2> DEFINE x == at[P]
  <2>1. /\ x \in 1..i-1 /\ Len(Opened(s)[x]) = m
        /\ \A l \in x..i-1 : Len(Opened(s)[l]) >= m
    BY <1>1, <1>5 DEF DepthFits, m
  <2>2. x \in 1..Len(s) /\ i \in x+1..Len(s)
    BY <2>1
  <2>3. Len(Opened(s)[i]) < m
    BY <1>2, <1>7 DEF opens
  <2> HIDE DEF x
  <2>4. Closer(s, x) = i
    BY <2>1, <2>2, <2>3, CloserFound
  <2> QED BY <2>4 DEF x
<1>14. /\ Settled(s, tree, at, O \ {P}, P, e)
       /\ Dangling(s, tree, at, O \ {P}, r.idxParentItem, P, FALSE, e)
  <2> DEFINE up == r.idxParentItem
  <2> HIDE DEF up
  <2>1. /\ Settled(s, tree, at, O \ {P}, P, e)
        /\ Dangling(s, tree, at, O \ {P}, up, P, FALSE, e)
    BY <1>1, <1>2, <1>3, <1>6, <1>13, BlockClosed
  <2> QED BY <2>1 DEF up
<1>15. /\ r.tree = tree /\ r.idxParentItem = tree[P].idxParent
       /\ r.idxLastSibling = P /\ r.updateParent = FALSE
  BY DEF tree, P
<1>16. Lay(s, i, r, opens, e, at, d)
  BY <1>8, <1>10, <1>11, <1>12, <1>14, <1>15 DEF Lay
<1> QED BY <1>16 DEF opens, d, m


\* A piece that opens and closes nothing, and a parser with the same items.
LEMMA SameLay ==
  ASSUME NEW s, Len(s) \in Nat, NEW i \in 1..Len(s), NEW open, NEW k, NEW at, NEW c,
         NEW p, Lay(s, i - 1, p, open, k, at, c), Opened(s)[i] = open, Len(open) \in Nat,
         NEW r, r.tree = p.tree, r.idxParentItem = p.idxParentItem,
         r.idxLastSibling = p.idxLastSibling, r.updateParent = p.updateParent
  PROVE  Lay(s, i, r, Opened(s)[i], k, at, c)
<1>1. DepthFits(s, i - 1, at, open, c)
  BY DEF Lay
<1>2. DepthFits(s, i, at, open, c)
  BY <1>1, StillOpen
<1> QED BY <1>2 DEF Lay

\* Where the text goes on behind a token.
LEMMA StartLeads ==
  ASSUME NEW s, Len(s) \in Nat, NEW i \in 1..Len(s), NEW start,
         start = IF SkipNewLineChar(s, i) THEN i + 2 ELSE i + 1
  PROVE  \E e \in i+1..Len(s)+1 : TextStart(s, start, e) /\ Leads(s, i + 1, e)
<1> DEFINE e == IF start <= Len(s) THEN start ELSE Len(s) + 1
<1>1. start \in {i + 1, i + 2} /\ (start = i + 2 <=> SkipNewLineChar(s, i))
  OBVIOUS
<1>2. e \in i+1..Len(s)+1 /\ e \in 1..Len(s)+1
  BY <1>1
<1>3. (i + 1) - 1 = i /\ (i + 1) - 2 = i - 1 /\ (i + 2) - 1 = i + 1 /\ (i + 2) - 2 = i
      /\ i + 1 > 1 /\ (i + 1 > 2 <=> i > 1)
  OBVIOUS
<1>4. e <= Len(s) => ~Hidden(s, e)
  <2> SUFFICES ASSUME e <= Len(s) PROVE ~Hidden(s, e)
    OBVIOUS
  <2>1. e = start /\ start <= Len(s)
    BY <1>1
  <2>2. CASE start = i + 1
    <3>1. ~SkipNewLineChar(s, i) /\ i < Len(s)
      BY <1>1, <2>1, <2>2
    <3>2. ~Hidden(s, i + 1)
      BY <1>3, <3>1 DEF Hidden, SkipNewLineChar
    <3> QED BY <2>1, <2>2, <3>2
  <2>3. CASE start = i + 2
    <3>1. SkipNewLineChar(s, i) /\ i < Len(s)
      BY <1>1, <2>1, <2>3
    <3>2. s[i + 1].k = "nl"
      BY <3>1 DEF SkipNewLineChar
    <3>3. ~Hidden(s, i + 2)
      BY <1>3, <3>2 DEF Hidden, Control
    <3> QED BY <2>1, <2>3, <3>3
  <2> QED BY <1>1, <2>2, <2>3
<1>5. Leads(s, i + 1, e)
  <2>1. CASE e = i + 1
    BY <2>1 DEF Leads
  <2>2. CASE e # i + 1
    <3>1. e = (i + 1) + 1 /\ SkipNewLineChar(s, i) /\ i < Len(s) /\ i + 1 \in 1..Len(s)
      BY <1>1, <2>2
    <3>2. Hidden(s, i + 1)
      BY <1>3, <3>1 DEF Hidden, SkipNewLineChar
    <3> HIDE DEF e
    <3> QED BY <3>1, <3>2 DEF Leads
  <2> QED BY <2>1, <2>2
<1> HIDE DEF e
<1>6. TextStart(s, start, e)
  BY <1>2, <1>4 DEF TextStart, e
<1> QED BY <1>2, <1>5, <1>6

\* The numbers of open blocks.
LEMMA OpenedLengths ==
  ASSUME NEW s, IsText(s)
  PROVE  \A j \in 0..Len(s) : Opened(s)[j] \in Seq(Opener \cup {"error"})
                              /\ Len(Opened(s)[j]) \in Nat
BY LoopFits DEF SameBlocks

\* An end that the parser accepts closes the innermost block.
LEMMA EndCloses ==
  ASSUME NEW kind \in {"endif", "endfor"}, NEW open, open \in Seq(Opener \cup {"error"}),
         NEW tree, NEW idx, NEW c, Chain(tree, idx, OpenedBy(kind, open), c)
  PROVE  open # <<>> /\ OpenedBy(kind, open) = Front(open)
<1> SUFFICES ASSUME ~(open # <<>> /\ Last(open) = Begin[kind]) PROVE FALSE
  <2>1. kind \notin Opener /\ kind \in DOMAIN Begin
    BY DEF Opener, Begin
  <2> QED BY <2>1 DEF OpenedBy
<1>1. kind \notin Opener /\ kind \in DOMAIN Begin
  BY DEF Opener, Begin
<1> DEFINE longer == Append(open, "error")
<1>2. OpenedBy(kind, open) = longer
  BY <1>1 DEF OpenedBy
<1>3. Len(longer) = Len(open) + 1 /\ longer[Len(open) + 1] = "error" /\ Len(open) \in Nat
  BY AppendProperties
<1> HIDE DEF longer
<1>4. longer \in Seq(Opener)
  BY <1>2 DEF Chain
<1>5. longer[Len(open) + 1] \in Opener
  BY <1>3, <1>4
<1> QED BY <1>3, <1>5 DEF Opener


\* A round links the items to where they come from.
LEMMA RoundLays ==
  ASSUME NEW s, IsText(s), NEW i \in 1..Len(s), NEW p,
         SameBlocks(s, i - 1, p, Opened(s)[i - 1]), TextFits(s, i - 1, p),
         Laying(s, i - 1, p), ~p.err, ~Round(s, p, i).err
  PROVE  Laying(s, i, Round(s, p, i))
<1> DEFINE kind == s[i].k
           token == s[i]
           open == Opened(s)[i - 1]
           q == TextBefore(s, p, i)
           r == Round(s, p, i)
           start == IF SkipNewLineChar(s, i) THEN i + 2 ELSE i + 1
<1>1. /\ s \in Seq(Pieces(s)) /\ Len(s) \in Nat /\ token \in Pieces(s)
      /\ kind \in Kinds /\ i \in Nat /\ i - 1 \in 0..Len(s) /\ ParserFits(s, p)
  BY DEF IsText, Pieces, SameBlocks
<1>2. /\ open \in Seq(Opener \cup {"error"}) /\ Len(open) \in Nat
      /\ Opened(s)[i] = OpenedBy(kind, open)
      /\ \A j \in 0..Len(s) : Len(Opened(s)[j]) \in Nat
  BY <1>1, OpenedLengths, OpenedSteps
<1>3. SameBlocks(s, i, r, Opened(s)[i])
  BY <1>2, RoundFits
<1>4. PICK k, at, c : TextStart(s, p.curSectionStart, k) /\ Lay(s, i - 1, p, open, k, at, c)
  BY DEF Laying
<1>5. CASE kind \in Plain
  <2>1. r = p
    BY <1>5 DEF Round
  <2>2. Opened(s)[i] = open
    BY <1>2, <1>5 DEF OpenedBy, Plain, Opener, Begin
  <2> HIDE DEF r, open
  <2>3. Lay(s, i, r, Opened(s)[i], k, at, c)
    BY <1>1, <1>2, <1>4, <2>1, <2>2, SameLay
  <2>4. TextStart(s, r.curSectionStart, k)
    BY <1>4, <2>1
  <2>5. Laying(s, i, r)
    BY <2>3, <2>4 DEF Laying
  <2> QED BY <2>5 DEF r
<1> SUFFICES ASSUME kind \notin Plain
             PROVE  Laying(s, i, r)
  BY <1>5
<1>6. ParserFits(s, q) /\ q \in Parsers(s)
  BY <1>1, TextBeforeFits DEF ParserFits
<1>7. PICK to : Lay(s, i - 1, q, open, i, to, c)
  <2>1. s[i].k # "nl"
    BY DEF Plain
  <2> HIDE DEF q, open
  <2> QED BY <1>1, <1>4, <2>1, TextBeforeLays DEF q
<1> HIDE DEF q, start
<1>8. CASE kind = "empty"
  <2>1. r = [q EXCEPT !.curSectionStart = i]
    BY <1>8 DEF Round, HandleToken, q
  <2> HIDE DEF r
  <2>2. /\ r.curSectionStart = i /\ r.tree = q.tree /\ r.idxParentItem = q.idxParentItem
        /\ r.idxLastSibling = q.idxLastSibling /\ r.updateParent = q.updateParent
    BY <1>6, <2>1 DEF Parsers
  <2>3. Opened(s)[i] = open
    BY <1>2, <1>8 DEF OpenedBy, Opener, Begin
  <2>4. TextStart(s, i, i)
    BY <1>1, <1>8 DEF TextStart, Hidden
  <2> HIDE DEF open
  <2>5. Lay(s, i, r, Opened(s)[i], i, to, c)
    BY <1>1, <1>2, <1>7, <2>2, <2>3, SameLay
  <2> QED BY <2>2, <2>4, <2>5 DEF Laying
<1> SUFFICES ASSUME kind # "empty"
             PROVE  Laying(s, i, r)
  BY <1>8
<1>9. SyntaxOkay(token, q.curSection)
  <2> SUFFICES ASSUME ~SyntaxOkay(token, q.curSection) PROVE FALSE
    OBVIOUS
  <2>1. r = [q EXCEPT !.err = TRUE]
    BY DEF Round, HandleToken, q
  <2> HIDE DEF r
  <2>2. r.err
    BY <1>6, <2>1 DEF Parsers
  <2> QED BY <2>2 DEF r
<1>10. PICK e \in i+1..Len(s)+1 : TextStart(s, start, e) /\ Leads(s, i + 1, e)
  BY <1>1, StartLeads DEF start
<1>11. CASE kind \in {"endif", "endfor"}
  <2> DEFINE u == LevelUp(q)
             up == q.tree[q.idxParentItem].idxParent
             par == q.idxParentItem
             sec == SectionOf(q.tree, up)
  <2>1. r = [u EXCEPT !.curSectionStart = start]
    BY <1>9, <1>11 DEF Round, HandleToken, q, start
  <2>2. PICK d : Chain(r.tree, r.idxParentItem, Opened(s)[i], d)
    BY <1>3 DEF SameBlocks
  <2>3. open # <<>> /\ Opened(s)[i] = Front(open)
    <3> DEFINE tree == r.tree
               idx == r.idxParentItem
    <3>1. Chain(tree, idx, OpenedBy(kind, open), d)
      BY <1>2, <2>2
    <3> HIDE DEF tree, idx, open, kind
    <3>2. open # <<>> /\ OpenedBy(kind, open) = Front(open)
      BY <1>2, <1>11, <3>1, EndCloses
    <3> QED BY <1>2, <3>2
  <2>4. q.idxParentItem # NoItem
    <3>1. Chain(q.tree, q.idxParentItem, open, c)
      BY <1>7 DEF Lay
    <3>2. q.idxParentItem \in 1..Len(q.tree)
      <4>1. Len(q.tree) \in Nat
        BY <1>6 DEF Parsers
      <4> HIDE DEF open
      <4> QED BY <2>3, <3>1, <4>1, ChainUp
    <3> QED BY <3>2 DEF NoItem
  <2>5. u = [q EXCEPT !.idxLastSibling = par, !.idxParentItem = up,
                      !.updateParent = FALSE, !.curSection = sec]
    BY <2>4 DEF LevelUp
  <2> HIDE DEF u, r, sec
  <2>6. /\ r.tree = q.tree /\ r.idxParentItem = up
        /\ r.idxLastSibling = par /\ r.updateParent = FALSE /\ r.curSectionStart = start
    <3> HIDE DEF up, par
    <3> QED BY <1>6, <2>1, <2>5 DEF Parsers
  <2> HIDE DEF open
  <2>7. Lay(s, i, r, Opened(s)[i], e, to, Shorter(c, Len(open)))
    BY <1>1, <1>2, <1>6, <1>7, <1>10, <1>11, <2>3, <2>6, EndLays
  <2> QED BY <1>10, <2>6, <2>7 DEF Laying
<1>12. CASE kind \notin {"endif", "endfor"}
  <2> DEFINE t == TypeOf(token)
             pushed == Push(q, t, token)
             down == IF kind \in Opener THEN LevelDown(pushed) ELSE pushed
             n == Len(q.tree)
             item == pushed.tree[n + 1]
             there == PlusAt(to, n, i)
  <2>1. r = [down EXCEPT !.curSectionStart = start]
    BY <1>9, <1>12 DEF Round, HandleToken, q, start
  <2>2. t \in ItemTypes /\ t # "Static"
    BY DEF TypeOf, ItemTypes
  <2>3. Pushed(s, q, pushed, t, token)
    <3> HIDE DEF t, token
    <3> QED BY <1>1, <1>6, <2>2, PushFacts
  <2> HIDE DEF pushed
  <2>4. item.t = t /\ item.text = token /\ Len(pushed.tree) = n + 1 /\ pushed \in Parsers(s)
    BY <2>3 DEF Pushed
  <2>5. kind \in Opener \cup {"var", "str", "include"}
    BY <1>1, <1>9, <1>12 DEF Kinds, Plain, Control, Opener, SyntaxOkay
  <2>6. ItemAt(s, item, i)
    <3> HIDE DEF item, t
    <3> QED BY <2>2, <2>4, <2>5 DEF ItemAt, t
  <2>7. CASE kind \in Opener
    <3> DEFINE m == Len(pushed.tree)
               sec == SectionOf(pushed.tree, m)
    <3>1. down = [pushed EXCEPT !.idxParentItem = m, !.updateParent = TRUE,
                                !.idxLastSibling = NoItem, !.curSection = sec]
      BY <2>7 DEF LevelDown
    <3> HIDE DEF down, r, sec
    <3>2. /\ r.tree = pushed.tree /\ r.idxParentItem = m /\ r.idxLastSibling = 0
          /\ r.updateParent = TRUE /\ r.curSectionStart = start
      <4> HIDE DEF m
      <4> QED BY <2>1, <2>4, <3>1 DEF Parsers, NoItem
    <3>3. t = BlockType(kind)
      BY <2>7 DEF TypeOf, BlockType, Opener
    <3>4. Opened(s)[i] = Append(open, kind)
      BY <1>2, <2>7 DEF OpenedBy
    <3> HIDE DEF t, token, open, kind
    <3>5. Pushed(s, q, pushed, BlockType(kind), token)
      BY <2>3, <3>3
    <3>6. Lay(s, i, r, Opened(s)[i], e, there, Deeper(c, Len(open), n + 1))
      BY <1>1, <1>6, <1>7, <1>10, <2>6, <2>7, <3>2, <3>4, <3>5, BlockLays
    <3> QED BY <1>10, <3>2, <3>6 DEF Laying
  <2>8. CASE kind \notin Opener
    <3> HIDE DEF r
    <3>1. /\ r.tree = pushed.tree /\ r.idxParentItem = pushed.idxParentItem
          /\ r.idxLastSibling = pushed.idxLastSibling
          /\ r.updateParent = pushed.updateParent /\ r.curSectionStart = start
      BY <2>1, <2>4, <2>8 DEF Parsers
    <3>2. t \notin Blocks
      BY <2>5, <2>8 DEF TypeOf, Blocks, Opener
    <3>3. Opened(s)[i] = open
      BY <1>2, <1>12, <2>8 DEF OpenedBy, Begin
    <3> HIDE DEF item, t, token, open, kind, there
    <3>4. Behind(s, item, i) = i + 1
      BY <2>2, <2>4, <3>2 DEF Behind
    <3>5. i \in 1..Len(s) /\ Behind(s, item, i) <= e /\ Leads(s, Behind(s, item, i), e)
      BY <1>10, <3>4
    <3>6. Lay(s, i - 1, pushed, open, e, there, c)
      BY <1>1, <1>6, <1>7, <2>3, <2>6, <3>2, <3>5, LeafLays DEF item, there
    <3>7. Lay(s, i, r, Opened(s)[i], e, there, c)
      BY <1>1, <1>2, <3>1, <3>3, <3>6, SameLay
    <3> QED BY <1>10, <3>1, <3>7 DEF Laying
  <2> QED BY <2>7, <2>8
<1> QED BY <1>11, <1>12

\* The loop links the items to where they come from.
LEMMA LoopLays ==
  ASSUME NEW s, IsText(s)
  PROVE  ~Loop(s)[Len(s)].err => /\ TextFits(s, Len(s), Loop(s)[Len(s)])
                                 /\ Laying(s, Len(s), Loop(s)[Len(s)])
<1> DEFINE n == Len(s)
           Good(i) == ~Loop(s)[i].err => TextFits(s, i, Loop(s)[i]) /\ Laying(s, i, Loop(s)[i])
           T == {i \in 0..n : Good(i)}
<1>1. n \in Nat
  BY DEF IsText
<1>2. /\ Loop(s)[0] = NewParser
      /\ \A i \in 1..n : Loop(s)[i] = Round(s, Loop(s)[i - 1], i)
  BY <1>1, LoopRounds
<1>3. TextFits(s, 0, NewParser) /\ Laying(s, 0, NewParser)
  <2>1. Opened(s)[0] = <<>>
    BY <1>1, OpenedSteps
  <2>2. Len(<<>>) = 0 /\ <<>> \in Seq(Opener) /\ <<>> \in [1..0 -> 1..0]
    BY EmptySeq
  <2> DEFINE none == <<>>
  <2>3. /\ NewParser.tree = none /\ NewParser.idxParentItem = 0
        /\ NewParser.idxLastSibling = 0 /\ NewParser.updateParent = FALSE
        /\ NewParser.curSectionStart = 1
    BY DEF NewParser, NoItem
  <2>4. Len(none) = 0 /\ none \in Seq(Opener) /\ none \in [1..0 -> 1..0]
    BY <2>2
  <2> HIDE DEF none
  <2> DEFINE O == OpenItems(none, none)
  <2>5. O = {}
    BY <2>4 DEF OpenItems
  <2>6. Chain(none, 0, none, none) /\ Rising(none, none) /\ DepthFits(s, 0, none, none, none)
    BY <2>4 DEF Chain, Rising, DepthFits
  <2>7. \E k : TextStart(s, 1, k) /\ k = 1
    BY <1>1 DEF TextStart, Hidden
  <2>8. Settled(s, none, none, O, 0, 1)
    BY <2>4 DEF Settled
  <2>9. Dangling(s, none, none, O, 0, 0, FALSE, 1)
    BY <2>4, <2>5 DEF Dangling, Leads
  <2>10. Lay(s, 0, NewParser, none, 1, none, none)
    BY <2>3, <2>6, <2>8, <2>9 DEF Lay
  <2>11. Laying(s, 0, NewParser)
    BY <2>1, <2>3, <2>7, <2>10 DEF Laying, none
  <2>12. TextFits(s, 0, NewParser)
    BY NewParserHolds
  <2> QED BY <2>11, <2>12
<1>4. 0 \in T
  BY <1>1, <1>2, <1>3
<1>5. ASSUME NEW j \in 0..n-1, j \in T PROVE j + 1 \in T
  <2> SUFFICES ASSUME ~Loop(s)[j + 1].err
               PROVE  TextFits(s, j + 1, Loop(s)[j + 1]) /\ Laying(s, j + 1, Loop(s)[j + 1])
    BY <1>1, <1>5
  <2>1. j + 1 \in 1..n /\ (j + 1) - 1 = j /\ j \in 0..n
    BY <1>1
  <2> DEFINE i == j + 1
             p == Loop(s)[j]
  <2>2. Loop(s)[i] = Round(s, p, i)
    BY <1>2, <2>1
  <2>3. SameBlocks(s, i - 1, p, Opened(s)[i - 1]) /\ ParserFits(s, p)
    BY <2>1, LoopFits DEF SameBlocks
  <2>4. ~p.err
    <3>1. p.err => Round(s, p, i) = p
      BY DEF Round
    <3> QED BY <2>2, <3>1
  <2>5. TextFits(s, i - 1, p) /\ Laying(s, i - 1, p)
    BY <1>5, <2>1, <2>4
  <2> HIDE DEF p
  <2>6. ~Round(s, p, i).err /\ i \in 1..Len(s)
    BY <2>1, <2>2
  <2> HIDE DEF i
  <2>7. TextFits(s, i, Round(s, p, i)) /\ Laying(s, i, Round(s, p, i))
    BY <2>3, <2>4, <2>5, <2>6, RoundHolds, RoundLays
  <2> QED BY <2>2, <2>7 DEF i
<1>6. 0..n \subseteq T
  <2> HIDE DEF T
  <2> QED BY <1>1, <1>4, <1>5, SetInduction
<1> QED
  BY <1>1, <1>6

\* Without empty tokens, the items have what is to be kept.
LEMMA KeptIsInItems ==
  ASSUME NEW s, IsText(s), NoEmptyToken(s)
  PROVE  InItems(s) = Kept(s)
<1> DEFINE n == Len(s)
           Items1(f) == [i \in 0..n |->
                           IF i = 0 THEN <<>>
                           ELSE IF s[i].k \in {"endif", "endfor"} \/ Hidden(s, i) THEN f[i - 1]
                           ELSE Append(f[i - 1], s[i])]
           Items2(f) == [i \in 0..n |->
                           IF i = 0 THEN <<>>
                           ELSE IF s[i].k \in {"endif", "endfor", "empty"} \/ Hidden(s, i)
                                THEN f[i - 1]
                           ELSE Append(f[i - 1], s[i])]
<1>1. ASSUME NEW f PROVE Items1(f) = Items2(f)
  <2>1. \A i \in 0..n : i = 0 \/ s[i].k # "empty"
    <3>1. n \in Nat /\ DOMAIN s = 1..n
      BY DEF IsText
    <3>2. \A i \in 0..n : i # 0 => i \in DOMAIN s
      BY <3>1
    <3> QED BY <3>2 DEF NoEmptyToken
  <2> QED BY <2>1
<1>2. InItems(s) = CHOOSE f : f = Items1(f)
  BY DEF InItems
<1>3. Kept(s) = CHOOSE f : f = Items2(f)
  BY DEF Kept
<1> HIDE DEF Items1, Items2
<1> QED BY <1>1, <1>2, <1>3

\* What parse() returns holds the whole text, if it has no empty token.
LEMMA ParseHolds ==
  ASSUME NEW s, IsText(s), NoEmptyToken(s), ~Parse(s).err
  PROVE  HoldsText(Parse(s).tree, s)
<1> DEFINE n == Len(s)
           p == Loop(s)[n]
           r == Parse(s)
           k == p.curSectionStart
           text == SubSeq(s, k, n)
           q == Push(p, "Static", text)
<1>1. s \in Seq(Pieces(s)) /\ n \in Nat /\ p \in Parsers(s)
  <2>1. s \in Seq(Pieces(s)) /\ n \in Nat
    BY DEF IsText, Pieces
  <2>2. SameBlocks(s, n, p, Opened(s)[n])
    BY <2>1, LoopFits
  <2> HIDE DEF p
  <2> QED BY <2>1, <2>2 DEF SameBlocks, ParserFits
<1>2. ~p.err
  <2>1. p.err => r = p
    BY DEF Parse
  <2> QED BY <2>1
<1>3. TextFits(s, n, p)
  BY <1>2, LoopLays
<1> HIDE DEF p
<1>4. /\ k \in 1..n+2 /\ ItemsFit(s, p.tree) /\ Full(p.tree) \in Seq(Pieces(s))
      /\ Full(p.tree) \o text = InItems(s)[n]
      /\ \A j \in k..n : s[j].k \in Plain \cup {"empty"}
  BY <1>3 DEF TextFits
<1> HIDE DEF k
<1>5. /\ text \in Seq(Pieces(s)) /\ Len(text) = (IF k <= n THEN n - k + 1 ELSE 0)
      /\ \A j \in 1..n-k+1 : text[j] = s[k + j - 1]
  <2>1. k \in Int /\ n \in Int /\ \A j \in k..n : s[j] \in Pieces(s)
    <3>1. \A j \in k..n : j \in 1..Len(s)
      BY <1>1, <1>4
    <3> QED BY <1>1, <1>4, <3>1, ElementOfSeq
  <2> QED BY <2>1, SubSeqProperties
<1>6. /\ r.tree \in Seq(Items(s))
      /\ Holds(s, r.tree, InItems(s)[n])
  <2>1. r.tree \in Seq(Items(s))
    BY ParseFits
  <2>2. CASE r = p /\ n < k
    <3>1. text = <<>>
      BY <1>1, <1>4, <2>2, SubSeqEmpty
    <3>2. Full(p.tree) = InItems(s)[n]
      BY <1>4, <3>1, ConcatEmptySeq
    <3> HIDE DEF r
    <3> QED BY <1>4, <2>1, <2>2, <3>2 DEF Holds, r
  <2>3. CASE r = q /\ k <= n
    <3> DEFINE t == "Static"
    <3>1. \A j \in 1..Len(text) : text[j].k \in Plain \cup {"empty"}
      <4> SUFFICES ASSUME NEW j \in 1..Len(text) PROVE text[j].k \in Plain \cup {"empty"}
        OBVIOUS
      <4>1. j \in 1..n-k+1 /\ k + j - 1 \in k..n
        BY <1>1, <1>4, <1>5, <2>3
      <4> QED BY <1>4, <1>5, <4>1
    <3>2. \/ /\ t = "Static" /\ text \in Seq(Pieces(s))
             /\ \A j \in 1..Len(text) : text[j].k \in Plain \cup {"empty"}
          \/ t # "Static" /\ text \in Pieces(s) /\ t = TypeOf(text)
      BY <1>5, <3>1
    <3>3. t \in ItemTypes /\ q = Push(p, t, text)
      BY DEF ItemTypes
    <3> HIDE DEF t, q, text, r
    <3>4. Holds(s, q.tree, Full(p.tree) \o IF t = "Static" THEN text ELSE <<text>>)
      BY <1>1, <1>4, <3>2, <3>3, PushHolds
    <3>5. Holds(s, q.tree, InItems(s)[n])
      BY <1>4, <3>4 DEF t
    <3> QED BY <2>1, <2>3, <3>5
  <2>4. (r = p /\ n < k) \/ (r = q /\ k <= n)
    <3>1. CASE s = <<>>
      <4>1. r = p /\ n = 0
        BY <3>1, EmptySeq DEF Parse, p
      <4>2. n < k
        <5>1. k \in 1..n+2
          BY <1>4
        <5> HIDE DEF n
        <5> QED BY <4>1, <5>1
      <4> HIDE DEF r, p, q
      <4> QED BY <4>1, <4>2
    <3>2. CASE s # <<>> /\ p.curSection # "Root"
      <4>1. r = [p EXCEPT !.err = TRUE]
        BY <1>2, <3>2 DEF Parse, p
      <4> HIDE DEF r
      <4>2. r.err
        BY <1>1, <4>1 DEF Parsers
      <4> QED BY <4>2 DEF r
    <3>3. CASE s # <<>> /\ p.curSection = "Root"
      <4>1. r = IF k <= n THEN q ELSE p
        BY <1>2, <3>3 DEF Parse, p, k
      <4>2. n \in Nat /\ k \in 1..n+2
        BY <1>1, <1>4
      <4> HIDE DEF r, q, n
      <4> QED BY <4>1, <4>2
    <3> QED BY <3>1, <3>2, <3>3
  <2> QED BY <2>2, <2>3, <2>4
<1> HIDE DEF r
<1>7. Contents(r.tree)[Len(r.tree)] = Kept(s)[Len(s)]
  BY <1>6, KeptIsInItems DEF Holds, Full
<1>8. ASSUME NEW j \in DOMAIN r.tree
      PROVE  IF r.tree[j].t = "Static"
             THEN \A i \in DOMAIN r.tree[j].text : r.tree[j].text[i].k \in Plain
             ELSE r.tree[j].t = TypeOf(r.tree[j].text)
  <2>1. j \in 1..Len(r.tree)
    BY <1>6
  <2>2. IF r.tree[j].t = "Static"
        THEN /\ r.tree[j].text \in Seq(Pieces(s))
             /\ \A i \in 1..Len(r.tree[j].text) : r.tree[j].text[i].k \in Plain \cup {"empty"}
        ELSE r.tree[j].t = TypeOf(r.tree[j].text)
    BY <1>6, <2>1 DEF Holds, ItemsFit
  <2>3. ASSUME NEW u \in Seq(Pieces(s)), NEW i \in 1..Len(u),
               u[i].k \in Plain \cup {"empty"}
        PROVE  u[i].k \in Plain
    <3>1. u[i] \in Pieces(s)
      BY ElementOfSeq
    <3>2. PICK m \in DOMAIN s : u[i] = s[m]
      BY <3>1 DEF Pieces
    <3>3. u[i].k # "empty"
      BY <3>2 DEF NoEmptyToken
    <3> QED BY <2>3, <3>3
  <2>4. CASE r.tree[j].t = "Static"
    <3>1. /\ r.tree[j].text \in Seq(Pieces(s))
          /\ DOMAIN r.tree[j].text = 1..Len(r.tree[j].text)
          /\ \A i \in 1..Len(r.tree[j].text) : r.tree[j].text[i].k \in Plain \cup {"empty"}
      BY <2>2, <2>4
    <3> QED BY <2>3, <2>4, <3>1
  <2> QED BY <2>2, <2>4
<1> QED BY <1>7, <1>8 DEF HoldsText, r


\* The items of a parsed text come from the pieces at these places of it: each link
\* leads to where the text goes on, and a block is where its ends are.
LaidItem(s, tree, at, j) ==
    LET n == Len(tree)
        item == tree[j]
    IN  /\ at[j] \in 1..Len(s) /\ ItemAt(s, item, at[j]) /\ Closed(s, tree, at, j)
        /\ item.idxFirstChild # 0 => /\ item.idxFirstChild \in 1..n
                                     /\ Leads(s, at[j] + 1, at[item.idxFirstChild])
        /\ item.idxParent # 0 => /\ item.idxParent \in 1..n
                                 /\ at[item.idxParent] < at[j]
                                 /\ Behind(s, item, at[j]) <= Closer(s, at[item.idxParent])
        /\ IF item.idxNextSibling # 0
           THEN /\ item.idxNextSibling \in 1..n
                /\ Leads(s, Behind(s, item, at[j]), at[item.idxNextSibling])
           ELSE StopsAt(s, Behind(s, item, at[j]))

Laid(s, tree, at) ==
    /\ \A j \in 1..Len(tree) : LaidItem(s, tree, at, j)
    /\ IF Len(tree) = 0 THEN StopsAt(s, 1) ELSE Leads(s, 1, at[1])

\* At the end of the text no block is open.
LEMMA LayEnds ==
  ASSUME NEW s, Len(s) \in Nat, NEW p, ParserFits(s, p), NEW i, NEW open, Len(open) = 0,
         NEW at, NEW c, Lay(s, i, p, open, Len(s) + 1, at, c)
  PROVE  Laid(s, p.tree, at)
<1> DEFINE tree == p.tree
           O == OpenItems(open, c)
           last == p.idxLastSibling
           end == Len(s) + 1
<1>1. O = {}
  BY DEF OpenItems
<1>2. /\ Settled(s, tree, at, O, last, end)
      /\ Dangling(s, tree, at, O, p.idxParentItem, last, p.updateParent, end)
      /\ Chain(tree, p.idxParentItem, open, c) /\ Rising(open, c)
  BY DEF Lay
<1>3. OpenFits(p, O)
  BY <1>2, PlaceFacts
<1>4. /\ p.updateParent \in BOOLEAN /\ ~p.updateParent /\ Len(tree) \in Nat
  BY <1>1, <1>3 DEF OpenFits
<1>5. IF last # 0 THEN Leads(s, Behind(s, tree[last], at[last]), end)
      ELSE Len(tree) = 0 /\ Leads(s, 1, end)
  BY <1>2, <1>4 DEF Dangling
<1>6. Len(tree) # 0 => Leads(s, 1, at[1])
  BY <1>2 DEF Dangling
<1>7. Stops(s, end)
  BY DEF Stops
<1> HIDE DEF tree, last, end, O
<1>8. ASSUME NEW j \in 1..Len(tree) PROVE LaidItem(s, tree, at, j)
  <2>1. SettledItem(s, tree, at, {}, last, end, j)
    BY <1>1, <1>2 DEF Settled
  <2>2. /\ at[j] \in 1..Len(s) /\ ItemAt(s, tree[j], at[j]) /\ Closed(s, tree, at, j)
        /\ tree[j].idxFirstChild # 0 => /\ tree[j].idxFirstChild \in 1..Len(tree)
                                        /\ Leads(s, at[j] + 1, at[tree[j].idxFirstChild])
    BY <2>1 DEF SettledItem, end
  <2>3. tree[j].idxParent # 0 =>
          /\ tree[j].idxParent \in 1..Len(tree)
          /\ at[tree[j].idxParent] < at[j]
          /\ Behind(s, tree[j], at[j]) <= Closer(s, at[tree[j].idxParent])
    BY <2>1, <1>4 DEF SettledItem
  <2>4. IF tree[j].idxNextSibling # 0
        THEN /\ tree[j].idxNextSibling \in 1..Len(tree)
             /\ Leads(s, Behind(s, tree[j], at[j]), at[tree[j].idxNextSibling])
        ELSE j # last => StopsAt(s, Behind(s, tree[j], at[j]))
    BY <2>1 DEF SettledItem
  <2>5. j = last => StopsAt(s, Behind(s, tree[j], at[j]))
    <3> SUFFICES ASSUME j = last PROVE StopsAt(s, Behind(s, tree[j], at[j]))
      OBVIOUS
    <3>1. last # 0
      BY <1>4
    <3> QED BY <1>5, <1>7, <3>1 DEF StopsAt
  <2> QED BY <2>2, <2>3, <2>4, <2>5 DEF LaidItem
<1>9. Len(tree) = 0 => StopsAt(s, 1)
  <2> SUFFICES ASSUME Len(tree) = 0 PROVE StopsAt(s, 1)
    OBVIOUS
  <2>1. last = 0
    BY <1>3, <1>4 DEF OpenFits, last, tree
  <2> QED BY <1>5, <1>7, <2>1 DEF StopsAt
<1> QED BY <1>6, <1>8, <1>9 DEF Laid, tree

\* What parse() returns, with and without text behind the last token.
LEMMA ParseEnds ==
  ASSUME NEW s, IsText(s), ~Parse(s).err, NEW p, p = Loop(s)[Len(s)]
  PROVE  /\ ~p.err /\ ParserFits(s, p) /\ Nested(s)
         /\ IF p.curSectionStart <= Len(s)
            THEN Parse(s) = Push(p, "Static", SubSeq(s, p.curSectionStart, Len(s)))
            ELSE Parse(s) = p
<1> DEFINE n == Len(s)
           r == Parse(s)
           k == p.curSectionStart
           q == Push(p, "Static", SubSeq(s, k, n))
<1>1. n \in Nat /\ ParserFits(s, p) /\ p \in Parsers(s)
  <2>1. n \in Nat
    BY DEF IsText
  <2>2. SameBlocks(s, n, p, Opened(s)[n])
    BY <2>1, LoopFits
  <2> QED BY <2>1, <2>2 DEF SameBlocks, ParserFits
<1>2. ~p.err
  <2>1. p.err => r = p
    BY DEF Parse
  <2> QED BY <2>1
<1>3. Nested(s)
  BY ParseFits DEF WellFormed
<1>4. CASE s = <<>>
  <2>1. r = p /\ n = 0
    BY <1>4, EmptySeq DEF Parse
  <2>2. ~(k <= n)
    <3>1. k \in Nat \ {0}
      BY <1>1 DEF Parsers
    <3> HIDE DEF n, k
    <3> QED BY <2>1, <3>1
  <2> HIDE DEF r, q, n, k
  <2>3. IF k <= n THEN r = q ELSE r = p
    BY <2>1, <2>2
  <2> QED BY <1>1, <1>2, <1>3, <2>3 DEF n, k, r, q
<1>5. CASE s # <<>> /\ p.curSection # "Root"
  <2>1. r = [p EXCEPT !.err = TRUE]
    BY <1>2, <1>5 DEF Parse
  <2> HIDE DEF r
  <2>2. r.err
    BY <1>1, <2>1 DEF Parsers
  <2> QED BY <2>2 DEF r
<1>6. CASE s # <<>> /\ p.curSection = "Root"
  <2>1. r = IF k <= n THEN q ELSE p
    BY <1>2, <1>6 DEF Parse
  <2> QED BY <1>1, <1>2, <1>3, <2>1
<1> QED BY <1>4, <1>5, <1>6

\* parse() leaves the items where they come from in the text.
LEMMA ParseLays ==
  ASSUME NEW s, IsText(s), ~Parse(s).err
  PROVE  \E at : Laid(s, Parse(s).tree, at)
<1> DEFINE n == Len(s)
           p == Loop(s)[n]
           open == Opened(s)[n]
           start == p.curSectionStart
<1>1. n \in Nat /\ n + 1 \in 1..n+1 /\ (n + 1) - 1 = n
  BY DEF IsText
<1>2. /\ ~p.err /\ ParserFits(s, p) /\ Nested(s)
      /\ IF start <= n THEN Parse(s) = Push(p, "Static", SubSeq(s, start, n))
         ELSE Parse(s) = p
  BY ParseEnds
<1>3. TextFits(s, n, p) /\ Laying(s, n, p)
  BY <1>2, LoopLays
<1> HIDE DEF p
<1>4. PICK k, at, c : TextStart(s, start, k) /\ Lay(s, n, p, open, k, at, c)
  BY <1>3 DEF Laying
<1>5. Len(open) = 0
  BY <1>2, EmptySeq DEF Nested
<1> HIDE DEF open, start
<1>6. CASE start <= n
  <2> DEFINE q == Parse(s)
             to == PlusAt(at, Len(p.tree), k)
             i == n + 1
  <2>1. q = Push(p, "Static", SubSeq(s, start, i - 1))
    BY <1>1, <1>2, <1>6
  <2>2. k < i
    BY <1>1, <1>4, <1>6 DEF TextStart
  <2>3. TextFits(s, i - 1, p) /\ Lay(s, i - 1, p, open, k, at, c)
    BY <1>1, <1>3, <1>4
  <2>4. i \in 1..Len(s)+1
    BY <1>1
  <2> HIDE DEF q, i
  <2>5. Lay(s, i - 1, q, open, i, to, c)
    BY <1>2, <1>4, <2>1, <2>2, <2>3, <2>4, TextLays DEF start
  <2> HIDE DEF to
  <2>6. ParserFits(s, q)
    <3> DEFINE text == SubSeq(s, start, i - 1)
    <3>1. text \in Seq(Pieces(s))
      <4>1. s \in Seq(Pieces(s))
        BY DEF IsText, Pieces
      <4>2. start \in Int /\ i - 1 \in Int /\ \A j \in start..i-1 : j \in 1..Len(s)
        BY <1>1, <1>3, <1>4, <1>6 DEF TextFits, start, i
      <4>3. \A j \in start..i-1 : s[j] \in Pieces(s)
        BY <4>1, <4>2, ElementOfSeq
      <4> QED BY <4>2, <4>3, SubSeqProperties
    <3>2. "Static" \in ItemTypes /\ text \in Pieces(s) \cup Seq(Pieces(s))
      BY <3>1 DEF ItemTypes
    <3> HIDE DEF text
    <3>3. q = Push(p, "Static", text)
      BY <2>1 DEF text
    <3> QED BY <1>2, <3>2, <3>3, PushFits
  <2>7. Laid(s, q.tree, to)
    <3>1. Lay(s, i - 1, q, open, Len(s) + 1, to, c)
      BY <2>5 DEF i
    <3> QED BY <1>1, <1>5, <2>6, <3>1, LayEnds
  <2> QED BY <2>7 DEF q
<1>7. CASE ~(start <= n)
  <2>1. k = n + 1
    BY <1>4, <1>7 DEF TextStart
  <2>2. Parse(s) = p
    BY <1>2, <1>7
  <2>3. Lay(s, n, p, open, Len(s) + 1, at, c)
    BY <1>4, <2>1
  <2>4. Laid(s, p.tree, at)
    BY <1>1, <1>2, <1>5, <2>3, LayEnds
  <2> QED BY <2>2, <2>4
<1> QED BY <1>6, <1>7


-----------------------------------------------------------------------------
(***************************************************************************)
(* The walk over the links meets the items in the order of the text.        *)
(***************************************************************************)

\* The walk is what its recursive definition says: the links lead forward.
LEMMA WalkSteps ==
  ASSUME NEW tree, Len(tree) \in Nat, TreeFits(tree)
  PROVE  /\ Walk(tree)[0] = <<>>
         /\ \A i \in 1..Len(tree) :
              Walk(tree)[i] = <<i>> \o Walk(tree)[tree[i].idxFirstChild]
                                    \o Walk(tree)[tree[i].idxNextSibling]
<1> DEFINE n == Len(tree)
           fc(i) == tree[i].idxFirstChild
           nx(i) == tree[i].idxNextSibling
           Step(f, i) == IF i = 0 THEN <<>> ELSE <<i>> \o f[fc(i)] \o f[nx(i)]
           D(m) == {0} \cup (n-m+1..n)
           Is(f, m) == f = [i \in D(m) |-> Step(f, i)]
           T == {m \in 0..n : \E f : Is(f, m)}
<1>1. ASSUME NEW i \in 1..n
      PROVE  fc(i) \in {0} \cup (i+1..n) /\ nx(i) \in {0} \cup (i+1..n)
  BY <1>1 DEF TreeFits, ChildrenFit, SiblingsFit
<1> HIDE DEF n, fc, nx
<1>0. n \in Nat
  BY DEF n
<1>2. 0 \in T
  <2> DEFINE f == [i \in D(0) |-> <<>>]
  <2>1. \A i \in D(0) : i = 0
    BY <1>0
  <2>2. \A i \in D(0) : f[i] = Step(f, i)
    BY <2>1
  <2>3. f = [i \in D(0) |-> f[i]]
    OBVIOUS
  <2> HIDE DEF f, D, Step
  <2>4. Is(f, 0)
    BY <2>2, <2>3
  <2> QED BY <2>4, <1>0
<1>3. ASSUME NEW m \in 0..n-1, m \in T PROVE m + 1 \in T
  <2>1. PICK f : Is(f, m)
    BY <1>3
  <2> DEFINE k == n - m
             g == [i \in D(m + 1) |-> IF i = k THEN <<k>> \o f[fc(k)] \o f[nx(k)] ELSE f[i]]
  <2>2. /\ k \in 1..n /\ k \in D(m + 1) /\ k \notin D(m)
        /\ \A i \in D(m + 1) : i = k \/ i \in D(m)
        /\ D(m) \subseteq D(m + 1)
    BY <1>0, <1>3
  <2>3. \A i \in D(m) : i # 0 => fc(i) \in D(m) /\ nx(i) \in D(m)
    BY <1>0, <1>1, <1>3
  <2>4. fc(k) \in D(m) /\ nx(k) \in D(m)
    BY <1>0, <1>1, <2>2
  <2>0. k # 0 /\ 0 \in D(m)
    BY <2>2
  <2> HIDE DEF D, k
  <2>5. \A i \in D(m) : g[i] = f[i]
    BY <2>2
  <2>6. g[k] = Step(g, k)
    BY <2>0, <2>2, <2>4, <2>5
  <2>7. \A i \in D(m) : g[i] = Step(g, i)
    <3> SUFFICES ASSUME NEW i \in D(m) PROVE g[i] = Step(g, i)
      BY Zenon
    <3>1. f[i] = Step(f, i)
      BY <2>1
    <3>2. Step(g, i) = Step(f, i)
      <4> HIDE DEF g
      <4> QED BY <2>3, <2>5
    <3> HIDE DEF g, Step
    <3> QED BY <2>5, <3>1, <3>2
  <2>8. g = [i \in D(m + 1) |-> g[i]]
    OBVIOUS
  <2> HIDE DEF g, Step
  <2>9. Is(g, m + 1)
    BY <2>2, <2>6, <2>7, <2>8
  <2>10. m + 1 \in 0..n
    BY <1>3, <1>0
  <2> HIDE DEF Is
  <2> QED BY <2>9, <2>10
<1>4. \E f : Is(f, n)
  <2> HIDE DEF Is
  <2>1. n \in 0..n
    BY <1>0
  <2>2. 0..n \subseteq T
    <3> HIDE DEF T
    <3> QED BY <1>0, <1>2, <1>3, SetInduction
  <2> QED BY <2>1, <2>2
<1>5. D(n) = 0..n
  BY <1>0
<1>6. Walk(tree) = [i \in 0..n |-> Step(Walk(tree), i)]
  <2> DEFINE Js(f) == f = [i \in 0..n |-> Step(f, i)]
  <2>1. \E f : Js(f)
    <3> HIDE DEF D, Step
    <3> QED BY <1>4, <1>5
  <2>2. Walk(tree) = CHOOSE f : Js(f)
    BY DEF Walk, NoItem, fc, nx, n
  <2> HIDE DEF Js
  <2>3. Js(Walk(tree))
    BY <2>1, <2>2
  <2> QED BY <2>3 DEF Js
<1>7. \A i \in 1..n : i \in 0..n /\ i # 0
  BY <1>0
<1>8. 0 \in 0..n
  BY <1>0
<1>9. Walk(tree)[0] = <<>>
  BY <1>6, <1>8
<1>10. \A i \in 1..n : Walk(tree)[i] = <<i>> \o Walk(tree)[fc(i)] \o Walk(tree)[nx(i)]
  BY <1>6, <1>7
<1> QED
  BY <1>9, <1>10 DEF fc, nx, n

\* The numbers from i to e in their order.
Interval(i, e) == [j \in 1..e-i+1 |-> i + j - 1]

\* Two intervals that meet make one.
LEMMA Intervals ==
  ASSUME NEW i \in Nat, NEW e \in Nat, NEW f \in Nat, i <= e + 1, e <= f
  PROVE  Interval(i, e) \o Interval(e + 1, f) = Interval(i, f)
<1> DEFINE a == Interval(i, e)
           b == Interval(e + 1, f)
           c == Interval(i, f)
<1>1. a \in Seq(Nat) /\ Len(a) = e - i + 1
  <2>1. e - i + 1 \in Nat
    OBVIOUS
  <2>2. a \in [1..e-i+1 -> Nat]
    BY DEF Interval
  <2> HIDE DEF a
  <2> QED BY <2>1, <2>2, SeqDef
<1>2. b \in Seq(Nat) /\ Len(b) = f - e
  <2>1. f - (e + 1) + 1 = f - e /\ f - e \in Nat
    OBVIOUS
  <2>2. b \in [1..f-e -> Nat]
    BY <2>1 DEF Interval
  <2> HIDE DEF b
  <2> QED BY <2>1, <2>2, SeqDef
<1>3. c \in Seq(Nat) /\ Len(c) = f - i + 1
  <2>1. f - i + 1 \in Nat
    OBVIOUS
  <2>2. c \in [1..f-i+1 -> Nat]
    BY DEF Interval
  <2> HIDE DEF c
  <2> QED BY <2>1, <2>2, SeqDef
<1>4. /\ a \o b \in Seq(Nat) /\ Len(a \o b) = Len(a) + Len(b)
      /\ \A j \in 1..Len(a)+Len(b) :
           (a \o b)[j] = IF j <= Len(a) THEN a[j] ELSE b[j - Len(a)]
  <2> HIDE DEF a, b
  <2> QED BY <1>1, <1>2, ConcatProperties
<1>5. Len(a) + Len(b) = f - i + 1
  <2> HIDE DEF a, b
  <2> QED BY <1>1, <1>2
<1>6. ASSUME NEW j \in 1..f-i+1 PROVE (a \o b)[j] = c[j]
  <2>1. c[j] = i + j - 1
    BY DEF Interval
  <2>2. CASE j <= e - i + 1
    <3>1. j \in 1..e-i+1
      BY <2>2
    <3>2. a[j] = i + j - 1
      BY <3>1 DEF Interval
    <3> HIDE DEF a, b, c
    <3> QED BY <2>1, <2>2, <3>2, <1>1, <1>4, <1>5
  <2>3. CASE ~(j <= e - i + 1)
    <3> DEFINE d == j - (e - i + 1)
    <3>1. d \in 1..f-(e+1)+1 /\ (e + 1) + d - 1 = i + j - 1
      BY <2>3
    <3>2. b[d] = (e + 1) + d - 1
      <4> HIDE DEF d
      <4> QED BY <3>1 DEF Interval
    <3> HIDE DEF a, b, c
    <3> QED BY <2>1, <2>3, <3>1, <3>2, <1>1, <1>4, <1>5
  <2> QED BY <2>2, <2>3
<1> HIDE DEF a, b, c
<1>7. a \o b = c
  BY <1>3, <1>4, <1>5, <1>6, SeqEqual
<1> QED BY <1>7 DEF a, b, c

\* e is the last item before the block that item i is in ends.
LastOfBlock(tree, i, e) ==
    /\ e \in i..Len(tree)
    /\ \A k \in i..e : tree[i].idxParent <= tree[k].idxParent
    /\ e + 1 \in 1..Len(tree) => tree[e + 1].idxParent < tree[i].idxParent

\* Intervals of no number and of one.
LEMMA EmptyInterval ==
  ASSUME NEW i \in Nat
  PROVE  Interval(i + 1, i) = <<>> /\ Interval(i, i) = <<i>>
<1>1. i - (i + 1) + 1 = 0 /\ i - i + 1 = 1
  OBVIOUS
<1>2. Interval(i + 1, i) = [j \in 1..0 |-> (i + 1) + j - 1]
  BY <1>1 DEF Interval
<1>3. Interval(i + 1, i) = <<>>
  <2>1. Interval(i + 1, i) \in [1..0 -> Nat]
    <3>1. \A j \in 1..0 : (i + 1) + j - 1 \in Nat
      OBVIOUS
    <3> QED BY <1>2, <3>1
  <2>2. Interval(i + 1, i) \in Seq(Nat)
    BY <2>1, SeqDef
  <2>3. Len(Interval(i + 1, i)) = 0
    BY <1>2, <2>2, LenProperties
  <2> QED BY <2>2, <2>3, EmptySeq
<1>4. Interval(i, i) = [j \in 1..1 |-> i + j - 1]
  BY <1>1 DEF Interval
<1>5. Interval(i, i) = <<i>>
  <2>1. Interval(i, i) \in [1..1 -> Nat] /\ 1 \in Nat
    BY <1>4
  <2>0. Interval(i, i) \in Seq(Nat)
    BY <2>1, SeqDef
  <2>2. Interval(i, i) \in Seq(Nat) /\ <<i>> \in Seq(Nat) /\ Len(<<i>>) = 1
    BY <2>0
  <2>3. Len(Interval(i, i)) = 1
    BY <1>4, <2>2, LenProperties
  <2>4. \A j \in 1..1 : Interval(i, i)[j] = <<i>>[j]
    BY <1>4
  <2> QED BY <2>2, <2>3, <2>4, SeqEqual
<1> QED BY <1>3, <1>5

\* From an item on, the walk takes the items up to the end of its block.
LEMMA WalkIsInterval ==
  ASSUME NEW tree, Len(tree) \in Nat, TreeFits(tree)
  PROVE  \A i \in 1..Len(tree) :
           \E e : LastOfBlock(tree, i, e) /\ Walk(tree)[i] = Interval(i, e)
<1> DEFINE n == Len(tree)
           par(i) == tree[i].idxParent
           fc(i) == tree[i].idxFirstChild
           nx(i) == tree[i].idxNextSibling
           W == Walk(tree)
           T == {i \in 1..n : \E e : LastOfBlock(tree, i, e) /\ W[i] = Interval(i, e)}
<1>1. n \in Nat
  OBVIOUS
<1>2. W[0] = <<>> /\ \A i \in 1..n : W[i] = <<i>> \o W[fc(i)] \o W[nx(i)]
  BY WalkSteps
<1>3. /\ \A j \in 1..n : par(j) \in 0..j-1
      /\ \A j, k \in 1..n : par(k) < j /\ j < k => par(k) <= par(j)
  BY DEF TreeFits, ParentsFit
<1>4. \A j \in 1..n :
        /\ fc(j) \in {0, j + 1}
        /\ fc(j) = j + 1 => j + 1 \in 1..n /\ par(j + 1) = j
        /\ fc(j) = 0 /\ j + 1 \in 1..n => par(j + 1) # j
  BY DEF TreeFits, ChildrenFit
<1>5. \A j \in 1..n :
        /\ nx(j) # 0 => nx(j) \in j+1..n /\ par(nx(j)) = par(j)
        /\ \A m \in j+1..n : par(m) = par(j) => nx(j) # 0 /\ nx(j) <= m
  BY DEF TreeFits, SiblingsFit
<1>6. ASSUME NEW i \in 1..n, \A j \in i+1..n : j \in T PROVE i \in T
  <2>1. i \in Nat /\ par(i) \in 0..i-1
    BY <1>3
  \* The item and what is below it.
  <2>2. \E e : /\ e \in i..n /\ \A k \in i+1..e : i <= par(k)
               /\ e + 1 \in 1..n => par(e + 1) < i
               /\ <<i>> \o W[fc(i)] = Interval(i, e)
    <3>1. CASE fc(i) = 0
      <4>1. <<i>> \o W[fc(i)] = Interval(i, i)
        <5>1. <<i>> \in Seq(Nat)
          OBVIOUS
        <5>2. <<i>> \o <<>> = <<i>>
          BY <5>1, ConcatEmptySeq
        <5> HIDE DEF W
        <5> QED BY <1>2, <2>1, <3>1, <5>2, EmptyInterval
      <4>2. i + 1 \in 1..n => par(i + 1) < i
        <5> SUFFICES ASSUME i + 1 \in 1..n PROVE par(i + 1) < i
          OBVIOUS
        <5>1. par(i + 1) # i /\ par(i + 1) \in 0..(i+1)-1
          BY <1>3, <1>4, <3>1
        <5> HIDE DEF par
        <5> QED BY <5>1, <2>1
      <4>3. i \in i..n /\ \A k \in i+1..i : i <= par(k)
        BY <2>1
      <4> HIDE DEF W, par
      <4> QED BY <4>1, <4>2, <4>3
    <3>2. CASE fc(i) = i + 1
      <4>1. i + 1 \in 1..n /\ par(i + 1) = i /\ i + 1 \in i+1..n
        BY <1>4, <3>2
      <4>2. PICK e : LastOfBlock(tree, i + 1, e) /\ W[i + 1] = Interval(i + 1, e)
        BY <4>1, <1>6
      <4>3. /\ e \in i+1..n /\ \A k \in i+1..e : i <= par(k)
            /\ e + 1 \in 1..n => par(e + 1) < i
        BY <4>1, <4>2 DEF LastOfBlock
      <4>4. <<i>> \o W[fc(i)] = Interval(i, e)
        <5>1. <<i>> = Interval(i, i)
          BY <2>1, EmptyInterval
        <5>2. Interval(i, i) \o Interval(i + 1, e) = Interval(i, e)
          <6>1. e \in Nat /\ i <= i + 1 /\ i <= e
            BY <2>1, <4>3
          <6> QED BY <2>1, <6>1, Intervals
        <5> HIDE DEF W
        <5> QED BY <3>2, <4>2, <5>1, <5>2
      <4>5. e \in i..n
        BY <2>1, <4>3
      <4> HIDE DEF W, par
      <4> QED BY <4>3, <4>4, <4>5
    <3> QED BY <1>4, <3>1, <3>2
  <2>3. PICK e : /\ e \in i..n /\ \A k \in i+1..e : i <= par(k)
                 /\ e + 1 \in 1..n => par(e + 1) < i
                 /\ <<i>> \o W[fc(i)] = Interval(i, e)
    BY <2>2
  <2>4. W[i] = Interval(i, e) \o W[nx(i)]
    BY <1>2, <2>3
  <2> HIDE DEF W
  <2>5. nx(i) # 0 => nx(i) \in i+1..n /\ par(nx(i)) = par(i) /\ nx(i) \notin i+1..e
    <3> SUFFICES ASSUME nx(i) # 0
                 PROVE  nx(i) \in i+1..n /\ par(nx(i)) = par(i) /\ nx(i) \notin i+1..e
      OBVIOUS
    <3>1. nx(i) \in i+1..n /\ par(nx(i)) = par(i)
      BY <1>5
    <3> HIDE DEF par, nx
    <3> QED BY <2>1, <2>3, <3>1
  <2>6. ASSUME nx(i) = 0, e + 1 \in 1..n => par(e + 1) < par(i)
        PROVE  i \in T
    <3>1. LastOfBlock(tree, i, e)
      <4>1. \A k \in i..e : par(i) <= par(k)
        <5> SUFFICES ASSUME NEW k \in i..e PROVE par(i) <= par(k)
          OBVIOUS
        <5>1. k # i => i <= par(k) /\ k \in 1..n
          BY <2>1, <2>3
        <5>2. k \in 1..n => par(k) \in 0..k-1
          BY <1>3
        <5> HIDE DEF par
        <5> QED BY <5>1, <5>2, <2>1
      <4> QED BY <2>3, <2>6, <4>1 DEF LastOfBlock
    <3>2. W[i] = Interval(i, e)
      <4>1. Interval(i, e) \o <<>> = Interval(i, e)
        <5>1. Interval(i, e) \o Interval(e + 1, e) = Interval(i, e)
          <6>1. e \in Nat /\ i <= e + 1 /\ e <= e
            BY <2>1, <2>3
          <6> QED BY <2>1, <6>1, Intervals
        <5> QED BY <5>1, <2>1, <2>3, EmptyInterval
      <4> QED BY <1>2, <2>4, <2>6, <4>1
    <3> HIDE DEF par
    <3> QED BY <3>1, <3>2
  <2>7. CASE ~(e + 1 \in 1..n)
    <3>1. nx(i) = 0
      <4> HIDE DEF nx
      <4> QED BY <1>1, <2>1, <2>3, <2>5, <2>7
    <3> HIDE DEF T
    <3> QED BY <2>6, <2>7, <3>1
  <2>8. CASE e + 1 \in 1..n
    <3> DEFINE k == e + 1
    <3>1. /\ par(k) < i /\ i < k /\ k \in i+1..n /\ par(k) \in 0..k-1
      BY <1>3, <2>1, <2>3, <2>8
    <3>2. par(k) <= par(i)
      BY <1>3, <2>8, <3>1
    <3>3. CASE par(k) = par(i)
      <4>1. nx(i) # 0 /\ nx(i) <= k
        BY <1>5, <3>1, <3>3
      <4>2. nx(i) = k
        <5> DEFINE j == nx(i)
        <5>1. j \in i+1..n /\ j \notin i+1..e /\ j <= e + 1
          BY <2>5, <4>1
        <5> HIDE DEF j
        <5>2. j = e + 1
          BY <2>1, <2>3, <5>1
        <5> QED BY <5>2 DEF j
      <4>3. PICK f : LastOfBlock(tree, k, f) /\ W[k] = Interval(k, f)
        <5>1. k \in T
          <6> HIDE DEF T, k
          <6> QED BY <1>6, <3>1
        <5> QED BY <5>1
      <4>4. W[i] = Interval(i, f)
        <5>1. f \in k..n
          BY <4>3 DEF LastOfBlock
        <5>2. Interval(i, e) \o Interval(e + 1, f) = Interval(i, f)
          <6>1. e \in Nat /\ f \in Nat /\ i <= e + 1 /\ e <= f
            BY <2>1, <2>3, <5>1
          <6> QED BY <2>1, <6>1, Intervals
        <5> QED BY <2>4, <4>2, <4>3, <5>2
      <4>5. LastOfBlock(tree, i, f)
        <5>1. /\ f \in k..n /\ \A m \in k..f : par(i) <= par(m)
              /\ f + 1 \in 1..n => par(f + 1) < par(i)
          BY <3>3, <4>3 DEF LastOfBlock
        <5>2. ASSUME NEW m \in i..f PROVE par(i) <= par(m)
          <6>1. CASE m = i
            BY <6>1, <2>1
          <6>2. CASE m \in i+1..e
            <7>1. i <= par(m) /\ m \in 1..n /\ par(m) \in 0..m-1
              BY <1>3, <6>2, <2>1, <2>3
            <7> HIDE DEF par
            <7> QED BY <7>1, <2>1
          <6>3. CASE m \in k..f
            BY <6>3, <5>1
          <6> QED BY <6>1, <6>2, <6>3, <5>1, <2>1, <2>3
        <5>3. f \in i..n
          BY <2>1, <2>3, <5>1
        <5> QED BY <5>1, <5>2, <5>3 DEF LastOfBlock
      <4> HIDE DEF par
      <4> QED BY <4>4, <4>5
    <3>4. CASE par(k) < par(i)
      <4>1. nx(i) = 0
        <5> SUFFICES ASSUME nx(i) # 0 PROVE FALSE
          OBVIOUS
        <5> DEFINE j == nx(i)
        <5>1. j \in i+1..n /\ par(j) = par(i) /\ j \notin i+1..e
          BY <2>5
        <5>2. k < j /\ par(j) < k /\ j \in 1..n /\ k \in 1..n
          <6>1. j # k
            <7> HIDE DEF j, k
            <7> QED BY <2>1, <3>1, <3>4, <5>1
          <6> HIDE DEF j, par
          <6> QED BY <2>1, <2>3, <3>1, <5>1, <6>1
        <5>3. par(j) <= par(k)
          <6> HIDE DEF j, k
          <6> QED BY <1>3, <5>2
        <5> HIDE DEF j, k, par
        <5> QED BY <2>1, <3>1, <3>4, <5>1, <5>3
      <4>2. par(e + 1) < par(i)
        BY <3>4
      <4> HIDE DEF T, par, nx
      <4> QED BY <2>6, <4>1, <4>2
    <3>5. par(k) = par(i) \/ par(k) < par(i)
      <4> HIDE DEF par, k
      <4> QED BY <2>1, <3>1, <3>2
    <3> HIDE DEF T
    <3> QED BY <3>3, <3>4, <3>5
  <2> HIDE DEF T
  <2> QED BY <2>7, <2>8
<1>7. 1..n \subseteq T
  <2> HIDE DEF T, n
  <2> QED BY <1>1, <1>6, DownwardSetInduction
<1> QED
  BY <1>7

\* Parsed trees are document trees.
LEMMA DocumentTree ==
  ASSUME NEW tree, NEW S, tree \in Seq(S), TreeFits(tree)
  PROVE  IsDocumentTree(tree)
<1>1. Len(tree) \in Nat /\ DOMAIN tree = 1..Len(tree)
  OBVIOUS
<1>2. LinksFit(tree)
  <2> SUFFICES ASSUME NEW i \in 1..Len(tree), NEW c, c = tree[i].idxFirstChild,
                      NEW n, n = tree[i].idxNextSibling
               PROVE  /\ c # 0 => c = i + 1 /\ c \in 1..Len(tree) /\ tree[c].idxParent = i
                      /\ n # 0 => /\ n \in 1..Len(tree) /\ n > i
                                  /\ tree[n].idxParent = tree[i].idxParent
    BY <1>1 DEF LinksFit, NoItem
  <2>1. c # 0 => c = i + 1 /\ c \in 1..Len(tree) /\ tree[c].idxParent = i
    BY DEF TreeFits, ChildrenFit
  <2>2. n # 0 => n \in i+1..Len(tree) /\ tree[n].idxParent = tree[i].idxParent
    BY DEF TreeFits, SiblingsFit
  <2> QED BY <1>1, <2>1, <2>2
<1>3. ASSUME tree # <<>> PROVE Walk(tree)[1] = [i \in DOMAIN tree |-> i]
  <2>1. 1 \in 1..Len(tree)
    BY <1>1, <1>3, EmptySeq
  <2>2. PICK e : LastOfBlock(tree, 1, e) /\ Walk(tree)[1] = Interval(1, e)
    BY <1>1, <2>1, WalkIsInterval
  <2>3. \A j \in 1..Len(tree) : tree[j].idxParent \in 0..j-1
    BY DEF TreeFits, ParentsFit
  <2>4. tree[1].idxParent = 0
    BY <2>1, <2>3
  <2>5. e \in 1..Len(tree) /\ (e + 1 \in 1..Len(tree) => tree[e + 1].idxParent < 0)
    BY <2>2, <2>4 DEF LastOfBlock
  <2>6. ~(e + 1 \in 1..Len(tree))
    <3> SUFFICES ASSUME e + 1 \in 1..Len(tree) PROVE FALSE
      OBVIOUS
    <3>1. tree[e + 1].idxParent \in 0..(e+1)-1
      BY <2>3
    <3> QED BY <2>5, <3>1
  <2>7. e = Len(tree)
    <3> DEFINE m == Len(tree)
    <3>1. m \in Nat /\ e \in 1..m /\ ~(e + 1 \in 1..m)
      BY <1>1, <2>5, <2>6
    <3> HIDE DEF m
    <3>2. e = m
      BY <3>1
    <3> QED BY <3>2 DEF m
  <2>8. Interval(1, e) = [i \in 1..e |-> i]
    <3>1. e - 1 + 1 = e /\ \A j \in 1..e : 1 + j - 1 = j
      BY <1>1, <2>7
    <3> QED BY <3>1 DEF Interval
  <2> QED BY <1>1, <2>2, <2>7, <2>8
<1> QED
  BY <1>2, <1>3 DEF IsDocumentTree

-----------------------------------------------------------------------------
(***************************************************************************)
(* The activations of getTemplate_Recursive(): stack and visitedTemplates.  *)
(***************************************************************************)

\* A sequence, whatever its elements are.
IsSeq(s) == s \in Seq({s[i] : i \in DOMAIN s})

\* Every sequence over a set is one, with the facts the proofs need of it.
LEMMA SeqIsSeq ==
  ASSUME NEW S, NEW s \in Seq(S)
  PROVE  IsSeq(s) /\ Len(s) \in Nat /\ DOMAIN s = 1..Len(s) /\ (s = <<>> <=> Len(s) = 0)
<1>1. Len(s) \in Nat /\ s \in [1..Len(s) -> S] /\ DOMAIN s = 1..Len(s)
  BY LenProperties
<1>2. s \in [1..Len(s) -> {s[i] : i \in DOMAIN s}]
  BY <1>1
<1>3. IsSeq(s)
  BY <1>1, <1>2, SeqDef DEF IsSeq
<1> QED BY <1>1, <1>3, EmptySeq

\* A sequence with one more element.
LEMMA AppendSeq ==
  ASSUME NEW s, IsSeq(s), NEW e
  PROVE  /\ IsSeq(Append(s, e)) /\ Len(Append(s, e)) = Len(s) + 1
         /\ \A i \in 1..Len(s) : Append(s, e)[i] = s[i]
         /\ Append(s, e)[Len(s) + 1] = e /\ Append(s, e) # <<>>
         /\ Last(Append(s, e)) = e /\ Len(s) \in Nat
<1> DEFINE S == {s[i] : i \in DOMAIN s} \cup {e}
           t == Append(s, e)
<1>1. s \in Seq(S) /\ Len(s) \in Nat /\ e \in S
  <2>1. {s[i] : i \in DOMAIN s} \subseteq S
    OBVIOUS
  <2> HIDE DEF S
  <2>2. s \in Seq(S) /\ Len(s) \in Nat
    BY <2>1, SeqMonotonic DEF IsSeq
  <2> QED BY <2>2 DEF S
<1> HIDE DEF S
<1>2. /\ t \in Seq(S) /\ Len(t) = Len(s) + 1
      /\ \A i \in 1..Len(s) : t[i] = s[i]
      /\ t[Len(s) + 1] = e
  BY <1>1, AppendProperties
<1> HIDE DEF t
<1>3. IsSeq(t) /\ t # <<>>
  BY <1>1, <1>2, SeqIsSeq
<1>4. Last(t) = e
  BY <1>2 DEF Last
<1> QED BY <1>1, <1>2, <1>3, <1>4 DEF t

\* A sequence without its last element, whatever its elements are.
LEMMA FrontSeq ==
  ASSUME NEW s, IsSeq(s), s # <<>>
  PROVE  /\ IsSeq(Front(s)) /\ Len(Front(s)) = Len(s) - 1
         /\ \A i \in 1..Len(s)-1 : Front(s)[i] = s[i]
         /\ Len(s) \in Nat \ {0} /\ Last(s) = s[Len(s)]
         /\ (Front(s) = <<>> <=> Len(s) = 1)
<1> DEFINE S == {s[i] : i \in DOMAIN s}
<1>1. s \in Seq(S)
  BY DEF IsSeq
<1> HIDE DEF S
<1>2. /\ Front(s) \in Seq(S) /\ Len(Front(s)) = Len(s) - 1
      /\ \A q \in 1..Len(s)-1 : Front(s)[q] = s[q]
      /\ Len(s) \in Nat \ {0} /\ Last(s) = s[Len(s)]
  BY <1>1, FrontFacts
<1>3. IsSeq(Front(s)) /\ (Front(s) = <<>> <=> Len(Front(s)) = 0)
  BY <1>2, SeqIsSeq
<1> QED BY <1>2, <1>3

\* t is s with e in place of its element k.
Changed(s, k, e, t) ==
    /\ IsSeq(t) /\ Len(t) = Len(s) /\ t[k] = e
    /\ \A i \in 1..Len(s) : i # k => t[i] = s[i]
    /\ t # <<>> /\ Len(s) \in Nat

\* Replacing one element.
LEMMA ChangedSeq ==
  ASSUME NEW s, IsSeq(s), NEW k \in 1..Len(s), NEW e
  PROVE  Changed(s, k, e, [s EXCEPT ![k] = e])
<1> DEFINE S == {s[i] : i \in DOMAIN s} \cup {e}
           t == [s EXCEPT ![k] = e]
<1>1. s \in Seq(S) /\ Len(s) \in Nat /\ e \in S
  <2>1. {s[i] : i \in DOMAIN s} \subseteq S
    OBVIOUS
  <2> HIDE DEF S
  <2>2. s \in Seq(S) /\ Len(s) \in Nat
    BY <2>1, SeqMonotonic DEF IsSeq
  <2> QED BY <2>2 DEF S
<1> HIDE DEF S
<1>2. /\ t \in Seq(S) /\ Len(t) = Len(s)
      /\ \A j \in 1..Len(s) : t[j] = IF j = k THEN e ELSE s[j]
  BY <1>1, ExceptSeq
<1> HIDE DEF t
<1>3. IsSeq(t) /\ t # <<>>
  BY <1>1, <1>2, SeqIsSeq
<1> QED BY <1>1, <1>2, <1>3 DEF Changed, t

\* Every block opens within an item of the one around it, and so stands further on.
Descends(blocks) == \A b \in 1..Len(blocks) : blocks[b].idx # 0 => b <= blocks[b].idx

\* Activation a fits the templates d: every block stands at an item or at its end,
\* all but the innermost at the item that opened the next, and the variables in the
\* scope are those of open loops.
Fits(d, a) ==
    /\ a = [doc |-> a.doc, scope |-> a.scope, blocks |-> a.blocks]
    /\ a.doc \in DOMAIN d
    /\ IsSeq(a.blocks) /\ a.blocks # <<>>
    /\ \A b \in 1..Len(a.blocks) :
         /\ a.blocks[b] = [idx |-> a.blocks[b].idx, todo |-> a.blocks[b].todo]
         /\ a.blocks[b].idx \in 0..Len(d[a.doc])
    /\ \A b \in 1..Len(a.blocks)-1 : a.blocks[b].idx # 0
    /\ Descends(a.blocks)
    /\ \A v \in DOMAIN a.scope : \E b \in 1..Len(a.blocks)-1 :
         /\ d[a.doc][a.blocks[b].idx].t = "ForLoop"
         /\ d[a.doc][a.blocks[b].idx].text.var = v

\* No item, or one behind item j of n.
Later(j, n) == {0} \cup j+1..n

\* The links of the trees lead on, and stay within them.
DocsFit(d) ==
    \A path \in DOMAIN d :
        /\ IsSeq(d[path])
        /\ \A j \in 1..Len(d[path]) :
             /\ d[path][j].idxFirstChild \in Later(j, Len(d[path]))
             /\ d[path][j].idxNextSibling \in Later(j, Len(d[path]))

\* The blocks of an activation, the innermost one at its next sibling.
MovedBlocks(tree, blocks) ==
    LET m == Len(blocks)
    IN  [blocks EXCEPT ![m] = [idx |-> tree[blocks[m].idx].idxNextSibling,
                               todo |-> blocks[m].todo]]

\* Moving on to the next sibling changes the innermost block alone.
LEMMA NextSiblingIs ==
  ASSUME NEW a, Fits(docs, a)
  PROVE  NextSibling(a) = [doc |-> a.doc, scope |-> a.scope,
                           blocks |-> MovedBlocks(docs[a.doc], a.blocks)]
<1> DEFINE m == Len(a.blocks)
           blocks == a.blocks
           e == docs[a.doc][blocks[m].idx].idxNextSibling
           t == [blocks EXCEPT ![m] = [idx |-> e, todo |-> blocks[m].todo]]
           q == NextSibling(a)
<1>1. IsSeq(blocks) /\ blocks # <<>>
  BY DEF Fits
<1>2. m \in 1..m /\ Last(blocks) = blocks[m]
  BY <1>1, FrontSeq
<1>3. blocks[m] = [idx |-> blocks[m].idx, todo |-> blocks[m].todo]
  <2> HIDE DEF m
  <2> QED BY <1>2 DEF Fits, m
<1>4. q = [doc |-> a.doc, scope |-> a.scope, blocks |-> t]
  <2>1. q = [a EXCEPT !.blocks[m].idx = e]
    BY <1>2 DEF NextSibling
  <2>2. a = [doc |-> a.doc, scope |-> a.scope, blocks |-> blocks]
    BY DEF Fits
  <2>3. q = [a EXCEPT !.blocks = [blocks EXCEPT ![m] = [blocks[m] EXCEPT !.idx = e]]]
    BY <2>1
  <2>4. [blocks[m] EXCEPT !.idx = e] = [idx |-> e, todo |-> blocks[m].todo]
    <3> HIDE DEF e, m
    <3> QED BY <1>3
  <2>5. q = [a EXCEPT !.blocks = t]
    BY <2>3, <2>4
  <2> HIDE DEF t, q
  <2> QED BY <2>2, <2>5
<1>5. t = MovedBlocks(docs[a.doc], a.blocks)
  BY DEF MovedBlocks
<1> HIDE DEF t, q
<1> QED BY <1>4, <1>5 DEF q

\* Moving on to the next sibling keeps an activation within its tree.
LEMMA NextSiblingFits ==
  ASSUME NEW a, Fits(docs, a), DocsFit(docs), Last(a.blocks).idx # 0
  PROVE  Fits(docs, NextSibling(a)) /\ NextSibling(a).doc = a.doc
<1> DEFINE m == Len(a.blocks)
           blocks == a.blocks
           e == docs[a.doc][blocks[m].idx].idxNextSibling
           n == Len(docs[a.doc])
           t == [blocks EXCEPT ![m] = [idx |-> e, todo |-> blocks[m].todo]]
           q == NextSibling(a)
<1>1. IsSeq(blocks) /\ blocks # <<>> /\ a.doc \in DOMAIN docs
  BY DEF Fits
<1>2. m \in Nat \ {0} /\ m \in 1..m /\ Last(blocks) = blocks[m]
  BY <1>1, FrontSeq
<1>3. blocks[m] = [idx |-> blocks[m].idx, todo |-> blocks[m].todo] /\ blocks[m].idx \in 1..n
      /\ n \in Nat
  <2>1. IsSeq(docs[a.doc])
    BY <1>1 DEF DocsFit
  <2>2. n \in Nat
    BY <2>1, SeqIsSeq DEF IsSeq
  <2> HIDE DEF n, m
  <2>3. blocks[m].idx \in 0..n /\ blocks[m] = [idx |-> blocks[m].idx, todo |-> blocks[m].todo]
    BY <1>2 DEF Fits, n, m
  <2> QED BY <1>2, <2>2, <2>3
<1>4. e \in 0..n /\ (e # 0 => blocks[m].idx < e)
  <2>1. e \in Later(blocks[m].idx, n)
    <3> DEFINE j == blocks[m].idx
               doc == a.doc
    <3>1. e = docs[doc][j].idxNextSibling /\ n = Len(docs[doc]) /\ doc \in DOMAIN docs /\ j \in 1..n
      BY <1>1, <1>3
    <3> HIDE DEF j, e, n, m, doc
    <3>2. docs[doc][j].idxNextSibling \in Later(j, Len(docs[doc]))
      BY <3>1 DEF DocsFit
    <3> QED BY <3>1, <3>2 DEF j
  <2> HIDE DEF e, m, n
  <2> QED BY <1>3, <2>1 DEF Later
<1>5. q = [doc |-> a.doc, scope |-> a.scope, blocks |-> t]
  <2>1. t = MovedBlocks(docs[a.doc], a.blocks)
    BY DEF MovedBlocks
  <2> HIDE DEF t, q
  <2> QED BY <2>1, NextSiblingIs DEF q
<1>6. /\ IsSeq(t) /\ Len(t) = m /\ t[m] = [idx |-> e, todo |-> blocks[m].todo]
      /\ \A i \in 1..m : i # m => t[i] = blocks[i]
      /\ t # <<>>
  <2> DEFINE w == [idx |-> e, todo |-> blocks[m].todo]
             u == [blocks EXCEPT ![m] = w]
  <2>1. t = u
    OBVIOUS
  <2> HIDE DEF w, t
  <2>2. IsSeq(u) /\ Len(u) = m /\ u[m] = w /\ u # <<>> /\ \A i \in 1..m : i # m => u[i] = blocks[i]
    <3>1. Changed(blocks, m, w, u)
      BY <1>1, <1>2, ChangedSeq
    <3> HIDE DEF u
    <3> QED BY <1>2, <3>1 DEF Changed
  <2> QED BY Zenon, <2>1, <2>2 DEF w
<1> HIDE DEF q, t
<1>7. q.doc = a.doc /\ q.scope = a.scope /\ q.blocks = t
  BY <1>5
<1>8. \A i \in 1..m-1 : t[i] = blocks[i]
  BY <1>2, <1>6
<1>9. Fits(docs, q)
  <2>1. q = [doc |-> q.doc, scope |-> q.scope, blocks |-> q.blocks] /\ q.doc \in DOMAIN docs
    BY <1>1, <1>5, <1>7
  <2>2. \A b \in 1..m : /\ t[b] = [idx |-> t[b].idx, todo |-> t[b].todo]
                        /\ t[b].idx \in 0..n
    <3> SUFFICES ASSUME NEW b \in 1..m
                 PROVE  t[b] = [idx |-> t[b].idx, todo |-> t[b].todo] /\ t[b].idx \in 0..n
      OBVIOUS
    <3>1. CASE b = m
      BY <3>1, <1>4, <1>6, SMTT(30)
    <3>2. CASE b # m
      BY <3>2, <1>6 DEF Fits
    <3> QED BY <3>1, <3>2
  <2>3. /\ \A b \in 1..m-1 : t[b].idx # 0
        /\ \A v \in DOMAIN a.scope : \E b \in 1..m-1 :
             /\ docs[a.doc][t[b].idx].t = "ForLoop"
             /\ docs[a.doc][t[b].idx].text.var = v
    BY <1>8 DEF Fits
  <2>4. Descends(t)
    <3> SUFFICES ASSUME NEW b \in 1..m, t[b].idx # 0 PROVE b <= t[b].idx
      BY <1>6 DEF Descends
    <3>1. b <= blocks[b].idx \/ blocks[b].idx = 0
      BY DEF Fits, Descends
    <3>2. CASE b = m
      <4>1. t[m].idx = e /\ m <= blocks[m].idx
        BY <3>1, <3>2, <1>3, <1>6
      <4> HIDE DEF e, m, n
      <4>2. m <= e
        BY <3>2, <4>1, <1>2, <1>3, <1>4
      <4> QED BY <3>2, <4>1, <4>2
    <3>3. CASE b # m
      BY <3>1, <3>3, <1>6
    <3> QED BY <3>2, <3>3
  <2> HIDE DEF m, n
  <2> QED BY <1>6, <1>7, <2>1, <2>2, <2>3, <2>4, SMTT(30) DEF Fits, n
<1> QED BY <1>7, <1>9 DEF q

\* All activations fit, and all but the innermost stand at an item: their include
\* command.
StackFits(d, st) ==
    /\ IsSeq(st)
    /\ \A i \in 1..Len(st) : Fits(d, st[i])
    /\ \A i \in 1..Len(st)-1 : Last(st[i].blocks).idx # 0

\* visitedTemplates names no template twice, and the templates of the activations in
\* their order.
VisitedFits(st, vis) ==
    /\ IsSeq(vis)
    /\ \A i, j \in 1..Len(vis) : vis[i] = vis[j] => i = j
    /\ \E f \in [1..Len(st) -> 1..Len(vis)] :
         /\ \A i \in 1..Len(st) : vis[f[i]] = st[i].doc
         /\ \A i, j \in 1..Len(st) : i < j => f[i] < f[j]

\* The innermost block of an activation that fits.
LEMMA BlocksFacts ==
  ASSUME NEW d, NEW a, Fits(d, a), DocsFit(d), NEW m, m = Len(a.blocks)
  PROVE  /\ m \in Nat \ {0} /\ m \in 1..m /\ Last(a.blocks) = a.blocks[m]
         /\ IsSeq(a.blocks) /\ a.blocks # <<>>
         /\ Len(d[a.doc]) \in Nat /\ Last(a.blocks).idx \in 0..Len(d[a.doc])
         /\ DOMAIN d[a.doc] = 1..Len(d[a.doc])
<1>1. IsSeq(a.blocks) /\ a.blocks # <<>> /\ a.doc \in DOMAIN d
  BY DEF Fits
<1>2. m \in Nat \ {0} /\ m \in 1..m /\ Last(a.blocks) = a.blocks[m]
  BY <1>1, FrontSeq
<1>3. Len(d[a.doc]) \in Nat /\ DOMAIN d[a.doc] = 1..Len(d[a.doc])
  <2>1. IsSeq(d[a.doc])
    BY <1>1 DEF DocsFit
  <2> QED BY <2>1, SeqIsSeq DEF IsSeq
<1>4. Last(a.blocks).idx \in 0..Len(d[a.doc])
  BY <1>2 DEF Fits
<1> QED BY <1>1, <1>2, <1>3, <1>4

\* Opening a block, with the variable of its loop in the scope if it is one.
LEMMA BlockAdded ==
  ASSUME NEW d, DocsFit(d), NEW doc, NEW scope, NEW blocks,
         Fits(d, [doc |-> doc, scope |-> scope, blocks |-> blocks]),
         Last(blocks).idx # 0, NEW idx \in Later(Last(blocks).idx, Len(d[doc])),
         NEW todo, NEW scope2,
         \A v \in DOMAIN scope2 :
            \/ v \in DOMAIN scope
            \/ /\ d[doc][Last(blocks).idx].t = "ForLoop"
               /\ d[doc][Last(blocks).idx].text.var = v
  PROVE  Fits(d, [doc |-> doc, scope |-> scope2,
                  blocks |-> Append(blocks, [idx |-> idx, todo |-> todo])])
<1> DEFINE a == [doc |-> doc, scope |-> scope, blocks |-> blocks]
           new == [idx |-> idx, todo |-> todo]
           more == Append(blocks, new)
           m == Len(blocks)
           c == [doc |-> doc, scope |-> scope2, blocks |-> more]
<1>1. /\ m \in Nat \ {0} /\ m \in 1..m /\ Last(blocks) = blocks[m]
      /\ IsSeq(blocks) /\ blocks # <<>> /\ doc \in DOMAIN d
      /\ Last(blocks).idx \in 0..Len(d[doc]) /\ Len(d[doc]) \in Nat
  <2>1. a.blocks = blocks /\ a.doc = doc /\ Fits(d, a)
    OBVIOUS
  <2> HIDE DEF a
  <2>2. /\ m \in Nat \ {0} /\ m \in 1..m /\ Last(a.blocks) = a.blocks[m]
        /\ IsSeq(a.blocks) /\ a.blocks # <<>>
        /\ Last(a.blocks).idx \in 0..Len(d[a.doc]) /\ Len(d[a.doc]) \in Nat
    BY <2>1, BlocksFacts
  <2>3. a.doc \in DOMAIN d
    BY <2>1 DEF Fits
  <2> QED BY <2>1, <2>2, <2>3
<1>2. /\ \A b \in 1..m : /\ blocks[b] = [idx |-> blocks[b].idx, todo |-> blocks[b].todo]
                         /\ blocks[b].idx \in 0..Len(d[doc])
      /\ \A b \in 1..m-1 : blocks[b].idx # 0
      /\ \A v \in DOMAIN scope : \E b \in 1..m-1 :
           /\ d[doc][blocks[b].idx].t = "ForLoop"
           /\ d[doc][blocks[b].idx].text.var = v
      /\ Descends(blocks)
  BY DEF Fits
<1>3. /\ IsSeq(more) /\ Len(more) = m + 1 /\ more # <<>>
      /\ \A b \in 1..m : more[b] = blocks[b]
      /\ more[m + 1] = new
  <2> HIDE DEF new
  <2> QED BY <1>1, AppendSeq
<1>4. /\ new = [idx |-> new.idx, todo |-> new.todo] /\ new.idx = idx
      /\ idx \in 0..Len(d[doc]) /\ (idx # 0 => Last(blocks).idx < idx)
  <2>1. /\ new = [idx |-> new.idx, todo |-> new.todo] /\ new.idx = idx
    OBVIOUS
  <2> DEFINE last == Last(blocks).idx
             n == Len(d[doc])
  <2>2. last \in 0..n /\ n \in Nat /\ idx \in Later(last, n)
    BY <1>1
  <2> HIDE DEF last, n
  <2>3. idx \in 0..n /\ (idx # 0 => last < idx)
    BY <2>2 DEF Later
  <2> QED BY <2>1, <2>3 DEF last, n
<1>5. /\ c = [doc |-> c.doc, scope |-> c.scope, blocks |-> c.blocks]
      /\ c.doc = doc /\ c.scope = scope2 /\ c.blocks = more
  <2> HIDE DEF more
  <2> QED OBVIOUS
<1> HIDE DEF a, new, more, c, m
<1>6. \A b \in 1..m+1 : /\ more[b] = [idx |-> more[b].idx, todo |-> more[b].todo]
                        /\ more[b].idx \in 0..Len(d[doc])
  <2> SUFFICES ASSUME NEW b \in 1..m+1
               PROVE  /\ more[b] = [idx |-> more[b].idx, todo |-> more[b].todo]
                      /\ more[b].idx \in 0..Len(d[doc])
    OBVIOUS
  <2>1. CASE b = m + 1
    BY <2>1, <1>3, <1>4
  <2>2. CASE b \in 1..m
    BY <2>2, <1>2, <1>3
  <2> QED BY <2>1, <2>2, <1>1
<1>7. \A b \in 1..m : more[b].idx # 0
  <2> SUFFICES ASSUME NEW b \in 1..m PROVE more[b].idx # 0
    OBVIOUS
  <2>1. CASE b = m
    BY <2>1, <1>1, <1>3
  <2>2. CASE b \in 1..m-1
    BY <2>2, <1>2, <1>3
  <2> QED BY <2>1, <2>2, <1>1
<1>8. \A v \in DOMAIN scope2 : \E b \in 1..m :
         /\ d[doc][more[b].idx].t = "ForLoop"
         /\ d[doc][more[b].idx].text.var = v
  <2> SUFFICES ASSUME NEW v \in DOMAIN scope2
               PROVE  \E b \in 1..m : /\ d[doc][more[b].idx].t = "ForLoop"
                                      /\ d[doc][more[b].idx].text.var = v
    OBVIOUS
  <2>1. CASE v \in DOMAIN scope
    <3>1. PICK b \in 1..m-1 : /\ d[doc][blocks[b].idx].t = "ForLoop"
                              /\ d[doc][blocks[b].idx].text.var = v
      BY <2>1, <1>2
    <3>2. b \in 1..m /\ more[b] = blocks[b]
      BY <1>1, <1>3
    <3> QED BY <3>1, <3>2
  <2>2. CASE v \notin DOMAIN scope
    <3>1. /\ d[doc][blocks[m].idx].t = "ForLoop" /\ d[doc][blocks[m].idx].text.var = v
      BY <2>2, <1>1
    <3> QED BY <3>1, <1>1, <1>3
  <2> QED BY <2>1, <2>2
<1>9. (m + 1) - 1 = m
  BY <1>1
<1>10. Descends(more)
  <2> SUFFICES ASSUME NEW b \in 1..m+1, more[b].idx # 0 PROVE b <= more[b].idx
    BY <1>3 DEF Descends
  <2>1. CASE b = m + 1
    <3>1. m <= Last(blocks).idx
      BY <1>1, <1>2 DEF Descends, m
    <3>2. Last(blocks).idx < idx /\ more[b].idx = idx /\ Last(blocks).idx \in Nat /\ idx \in Nat
      BY <2>1, <1>1, <1>3, <1>4
    <3> QED BY <2>1, <3>1, <3>2, <1>1
  <2>2. CASE b \in 1..m
    BY <2>2, <1>2, <1>3 DEF Descends, m
  <2> QED BY <2>1, <2>2, <1>1
<1>11. Fits(d, c)
  BY <1>1, <1>3, <1>5, <1>6, <1>7, <1>8, <1>9, <1>10 DEF Fits
<1> QED BY <1>11 DEF c, more, new

\* Closing a block, with the variable of its loop gone from the scope.
LEMMA BlockRemoved ==
  ASSUME NEW d, DocsFit(d), NEW a, Fits(d, a), Front(a.blocks) # <<>>, NEW scope2,
         LET opener == d[a.doc][Last(Front(a.blocks)).idx]
         IN  \A v \in DOMAIN scope2 :
               v \in DOMAIN a.scope /\ (opener.t = "ForLoop" => opener.text.var # v)
  PROVE  /\ Fits(d, [doc |-> a.doc, scope |-> scope2, blocks |-> Front(a.blocks)])
         /\ Last(Front(a.blocks)).idx # 0
         /\ Last(Front(a.blocks)).idx \in 1..Len(d[a.doc])
<1> DEFINE less == Front(a.blocks)
           blocks == a.blocks
           m == Len(blocks)
           doc == a.doc
           scope == a.scope
           c == [doc |-> doc, scope |-> scope2, blocks |-> less]
<1>1. /\ m \in Nat \ {0} /\ IsSeq(blocks) /\ blocks # <<>> /\ Len(d[doc]) \in Nat
  BY BlocksFacts
<1>2. /\ \A b \in 1..m : /\ blocks[b] = [idx |-> blocks[b].idx, todo |-> blocks[b].todo]
                         /\ blocks[b].idx \in 0..Len(d[doc])
      /\ \A b \in 1..m-1 : blocks[b].idx # 0
      /\ \A v \in DOMAIN scope : \E b \in 1..m-1 :
           /\ d[doc][blocks[b].idx].t = "ForLoop"
           /\ d[doc][blocks[b].idx].text.var = v
      /\ doc \in DOMAIN d
      /\ \A b \in 1..m : blocks[b].idx # 0 => b <= blocks[b].idx
  BY DEF Fits, Descends
<1>3. /\ IsSeq(less) /\ Len(less) = m - 1 /\ less # <<>>
      /\ \A b \in 1..m-1 : less[b] = blocks[b]
  BY <1>1, FrontSeq
<1>4. Last(less) = less[m - 1] /\ m - 1 \in 1..m-1
  <2>1. Len(less) # 0 /\ Last(less) = less[Len(less)]
    BY <1>3, FrontSeq
  <2> HIDE DEF less, m
  <2> QED BY <1>1, <1>3, <2>1
<1>5. /\ c = [doc |-> c.doc, scope |-> c.scope, blocks |-> c.blocks]
      /\ c.doc = doc /\ c.scope = scope2 /\ c.blocks = less
  <2> HIDE DEF less
  <2> QED OBVIOUS
<1>6. \A v \in DOMAIN scope2 :
         /\ v \in DOMAIN scope
         /\ d[doc][less[m - 1].idx].t = "ForLoop" => d[doc][less[m - 1].idx].text.var # v
  <2> HIDE DEF less, m
  <2> QED BY <1>4 DEF less
<1> HIDE DEF less, c, m, blocks, doc, scope
<1>7. \A v \in DOMAIN scope2 : \E b \in 1..(m-1)-1 :
         /\ d[doc][less[b].idx].t = "ForLoop"
         /\ d[doc][less[b].idx].text.var = v
  <2> SUFFICES ASSUME NEW v \in DOMAIN scope2
               PROVE  \E b \in 1..(m-1)-1 : /\ d[doc][less[b].idx].t = "ForLoop"
                                            /\ d[doc][less[b].idx].text.var = v
    OBVIOUS
  <2>1. PICK b \in 1..m-1 : /\ d[doc][blocks[b].idx].t = "ForLoop"
                            /\ d[doc][blocks[b].idx].text.var = v
    BY <1>2, <1>6
  <2>2. less[b] = blocks[b]
    BY <1>3
  <2>3. b # m - 1
    BY <1>6, <2>1, <2>2
  <2>4. b \in 1..(m-1)-1
    BY <1>1, <2>3
  <2> QED BY <2>1, <2>2, <2>4
<1>8. \A b \in 1..m-1 : b \in 1..m
  BY <1>1
<1>9. \A b \in 1..(m-1)-1 : b \in 1..m-1
  BY <1>1
<1>10. Fits(d, c)
  <2>1. Descends(less)
    BY <1>2, <1>3, <1>8 DEF Descends
  <2> QED BY <1>2, <1>3, <1>5, <1>7, <1>8, <1>9, <2>1 DEF Fits
<1>11. less[m - 1].idx # 0 /\ less[m - 1].idx \in 0..Len(d[doc])
  BY <1>2, <1>3, <1>4, <1>8
<1>12. Last(less).idx # 0 /\ Last(less).idx \in 1..Len(d[doc])
  BY <1>1, <1>4, <1>11
<1> QED BY <1>10, <1>12 DEF c, less, doc, blocks

\* An activation with new blocks and a new scope.
LEMMA TwoUpdates ==
  ASSUME NEW a, a = [doc |-> a.doc, scope |-> a.scope, blocks |-> a.blocks],
         NEW blocks, NEW scope
  PROVE  [a EXCEPT !.blocks = blocks, !.scope = scope]
           = [doc |-> a.doc, scope |-> scope, blocks |-> blocks]
<1> DEFINE D == a.doc
           S == a.scope
           B == a.blocks
           t == [a EXCEPT !.blocks = blocks]
<1>1. a = [doc |-> D, scope |-> S, blocks |-> B]
  OBVIOUS
<1> HIDE DEF D, S, B
<1>2. t = [doc |-> D, scope |-> S, blocks |-> blocks]
  BY <1>1
<1> HIDE DEF t
<1>3. [t EXCEPT !.scope = scope] = [doc |-> D, scope |-> scope, blocks |-> blocks]
  BY <1>2
<1>4. [a EXCEPT !.blocks = blocks, !.scope = scope] = [t EXCEPT !.scope = scope]
  BY DEF t
<1> QED BY <1>3, <1>4 DEF D

\* The innermost activation has changed: the other ones, and the templates
\* of all, are as before.
TopBecomes(old, new) ==
    \E a : Fits(docs, a) /\ a.doc = Last(old).doc /\ new = [old EXCEPT ![Len(old)] = a]

\* Such a change keeps the stack well formed.
LEMMA TopChanges ==
  ASSUME NEW st, NEW new, StackFits(docs, st), st # <<>>, TopBecomes(st, new)
  PROVE  /\ StackFits(docs, new) /\ new # <<>> /\ Len(new) = Len(st)
         /\ \A i \in 1..Len(st) : new[i].doc = st[i].doc
<1> DEFINE m == Len(st)
<1>1. IsSeq(st) /\ m \in Nat \ {0} /\ m \in 1..m /\ Last(st) = st[m]
  BY FrontSeq DEF StackFits
<1>2. PICK a : Fits(docs, a) /\ a.doc = Last(st).doc /\ new = [st EXCEPT ![m] = a]
  BY DEF TopBecomes
<1>3. Changed(st, m, a, new)
  <2>1. Changed(st, m, a, [st EXCEPT ![m] = a])
    BY <1>1, ChangedSeq
  <2> QED BY <1>2, <2>1
<1> HIDE DEF m
<1>4. /\ IsSeq(new) /\ Len(new) = m /\ new[m] = a /\ new # <<>>
      /\ \A i \in 1..m : i # m => new[i] = st[i]
  BY <1>3 DEF Changed, m
<1>5. \A i \in 1..m-1 : i \in 1..m /\ i # m
  BY <1>1
<1>6. StackFits(docs, new)
  BY <1>2, <1>4, <1>5 DEF StackFits, m
<1>7. \A i \in 1..m : new[i].doc = st[i].doc
  BY <1>1, <1>2, <1>4
<1> QED BY <1>4, <1>6, <1>7 DEF m

\* visitedTemplates depends on the templates of the activations alone.
LEMMA SameDocsVisited ==
  ASSUME NEW st, NEW new, NEW vis, VisitedFits(st, vis), Len(new) = Len(st),
         \A i \in 1..Len(st) : new[i].doc = st[i].doc
  PROVE  VisitedFits(new, vis)
BY DEF VisitedFits

\* What WithTop() does to the stack.
LEMMA WithTopIs ==
  ASSUME StackFits(docs, stack), stack # <<>>, NEW blocks, NEW scope
  PROVE  WithTop(blocks, scope)
           = [stack EXCEPT ![Len(stack)] = [doc |-> Top.doc, scope |-> scope, blocks |-> blocks]]
<1> DEFINE m == Len(stack)
           a == [doc |-> Top.doc, scope |-> scope, blocks |-> blocks]
           new == WithTop(blocks, scope)
<1>1. /\ IsSeq(stack) /\ m \in Nat \ {0} /\ m \in 1..m /\ Top = stack[m]
      /\ DOMAIN stack = 1..m
  <2>1. IsSeq(stack) /\ m \in Nat \ {0} /\ m \in 1..m /\ Last(stack) = stack[m]
    BY FrontSeq DEF StackFits
  <2>2. DOMAIN stack = 1..m
    BY <2>1, SeqIsSeq DEF IsSeq
  <2> QED BY <2>1, <2>2 DEF Top
<1>2. stack[m] = [doc |-> stack[m].doc, scope |-> stack[m].scope, blocks |-> stack[m].blocks]
  BY <1>1 DEF StackFits, Fits
<1>3. new = [[stack EXCEPT ![m].blocks = blocks] EXCEPT ![m].scope = scope]
  BY DEF WithTop
<1>4. new = [stack EXCEPT ![m] = [[stack[m] EXCEPT !.blocks = blocks] EXCEPT !.scope = scope]]
  <2> HIDE DEF m
  <2> QED BY <1>1, <1>3
<1>5. [[stack[m] EXCEPT !.blocks = blocks] EXCEPT !.scope = scope] = a
  <2> DEFINE top == stack[m]
  <2>1. top = [doc |-> top.doc, scope |-> top.scope, blocks |-> top.blocks] /\ Top.doc = top.doc
    BY <1>1, <1>2
  <2> HIDE DEF top
  <2>2. [top EXCEPT !.blocks = blocks, !.scope = scope]
          = [doc |-> top.doc, scope |-> scope, blocks |-> blocks]
    BY Zenon, <2>1, TwoUpdates
  <2>3. [[top EXCEPT !.blocks = blocks] EXCEPT !.scope = scope]
          = [top EXCEPT !.blocks = blocks, !.scope = scope]
    OBVIOUS
  <2>4. [[top EXCEPT !.blocks = blocks] EXCEPT !.scope = scope] = a
    BY <2>1, <2>2, <2>3
  <2> QED BY <2>4 DEF top
<1> HIDE DEF a, new
<1>6. new = [stack EXCEPT ![m] = a]
  BY <1>4, <1>5
<1> QED BY <1>6 DEF a, new

\* Blocks and scope of the innermost activation may be replaced by ones that fit.
LEMMA WithTopBecomes ==
  ASSUME StackFits(docs, stack), stack # <<>>, NEW blocks, NEW scope,
         Fits(docs, [doc |-> Top.doc, scope |-> scope, blocks |-> blocks])
  PROVE  TopBecomes(stack, WithTop(blocks, scope))
<1> DEFINE a == [doc |-> Top.doc, scope |-> scope, blocks |-> blocks]
<1>1. a.doc = Last(stack).doc /\ Fits(docs, a)
  BY DEF Top
<1>2. WithTop(blocks, scope) = [stack EXCEPT ![Len(stack)] = a]
  BY WithTopIs
<1> HIDE DEF a
<1> QED BY <1>1, <1>2 DEF TopBecomes

\* The innermost activation may move on to the next sibling.
LEMMA AdvanceBecomes ==
  ASSUME NEW st, StackFits(docs, st), st # <<>>, DocsFit(docs), Last(Last(st).blocks).idx # 0
  PROVE  TopBecomes(st, [st EXCEPT ![Len(st)] = NextSibling(Last(st))])
<1> DEFINE a == NextSibling(Last(st))
<1>1. Fits(docs, Last(st))
  BY FrontSeq DEF StackFits
<1>2. Fits(docs, a) /\ a.doc = Last(st).doc
  BY <1>1, NextSiblingFits
<1> QED BY <1>2 DEF TopBecomes

\* A loop may begin its next round, or end.
LEMMA LoopRoundBecomes ==
  ASSUME StackFits(docs, stack), stack # <<>>, DocsFit(docs),
         NEW blocks, NEW scope, NEW todo,
         Fits(docs, [doc |-> Top.doc, scope |-> scope, blocks |-> blocks]),
         Last(blocks).idx # 0,
         todo # <<>> => Tree[Last(blocks).idx].t = "ForLoop"
  PROVE  TopBecomes(stack, LoopRound(blocks, scope, todo))
<1> DEFINE doc == Top.doc
           m == Len(stack)
           there == [doc |-> doc, scope |-> scope, blocks |-> blocks]
           idx == Last(blocks).idx
           loop == Tree[idx]
           n == Len(Tree)
<1>1. Fits(docs, there) /\ there.blocks = blocks /\ there.doc = doc
  OBVIOUS
<1>2. Tree = docs[doc] /\ doc \in DOMAIN docs
  <2> HIDE DEF there
  <2> QED BY <1>1 DEF Tree, Fits
<1>3. n \in Nat /\ idx \in 1..n
  <2> HIDE DEF there, doc
  <2>1. Len(docs[there.doc]) \in Nat /\ Last(there.blocks).idx \in 0..Len(docs[there.doc])
    BY <1>1, BlocksFacts
  <2> HIDE DEF idx, n
  <2>2. n \in Nat /\ idx \in 0..n /\ idx # 0
    BY <1>1, <1>2, <2>1 DEF idx, n
  <2> QED BY <2>2
<1>4. loop.idxFirstChild \in Later(idx, n)
  <2> HIDE DEF idx, doc
  <2> QED BY <1>2, <1>3 DEF DocsFit
<1>5. CASE todo = <<>>
  <2>1. LoopRound(blocks, scope, todo) =
          [stack EXCEPT ![m] = NextSibling([Top EXCEPT !.blocks = blocks, !.scope = scope])]
    BY <1>5 DEF LoopRound
  <2>2. [Top EXCEPT !.blocks = blocks, !.scope = scope] = there
    <3>1. Fits(docs, Top)
      BY FrontSeq DEF StackFits, Top
    <3>2. Top = [doc |-> Top.doc, scope |-> Top.scope, blocks |-> Top.blocks]
      BY <3>1 DEF Fits
    <3> HIDE DEF there
    <3>3. [Top EXCEPT !.blocks = blocks, !.scope = scope]
            = [doc |-> Top.doc, scope |-> scope, blocks |-> blocks]
      BY Zenon, <3>2, TwoUpdates
    <3> QED BY <3>3 DEF there
  <2> HIDE DEF there, doc
  <2>3. Fits(docs, NextSibling(there)) /\ NextSibling(there).doc = doc
    BY <1>1, NextSiblingFits
  <2> QED BY <2>1, <2>2, <2>3 DEF TopBecomes, doc, Top
<1>6. CASE todo # <<>>
  <2> DEFINE more == Append(blocks, [idx |-> loop.idxFirstChild, todo |-> Tail(todo)])
             scope2 == Emplace(scope, loop.text.var, todo[1])
  <2>1. LoopRound(blocks, scope, todo) = WithTop(more, scope2)
    BY <1>6 DEF LoopRound
  <2>2. \A v \in DOMAIN scope2 : v \in DOMAIN scope \/ loop.text.var = v
    BY DEF Emplace
  <2> HIDE DEF scope2
  <2>3. Fits(docs, [doc |-> doc, scope |-> scope2, blocks |-> more])
    <3> DEFINE fc == loop.idxFirstChild
               tail == Tail(todo)
    <3>1. fc \in Later(Last(blocks).idx, Len(docs[doc]))
      BY <1>2, <1>4
    <3>2. \A v \in DOMAIN scope2 :
            \/ v \in DOMAIN scope
            \/ /\ docs[doc][Last(blocks).idx].t = "ForLoop"
               /\ docs[doc][Last(blocks).idx].text.var = v
      BY <1>2, <1>6, <2>2
    <3> HIDE DEF fc, tail, doc
    <3>3. Fits(docs, [doc |-> doc, scope |-> scope2,
                      blocks |-> Append(blocks, [idx |-> fc, todo |-> tail])])
      BY <1>1, <3>1, <3>2, BlockAdded
    <3> QED BY <3>3 DEF fc, tail
  <2> HIDE DEF more
  <2> QED BY <2>1, <2>3, WithTopBecomes
<1> QED BY <1>5, <1>6

\* A new activation on top of activations that stand at an item.
LEMMA Pushing ==
  ASSUME NEW rest, NEW vis, StackFits(docs, rest), VisitedFits(rest, vis), DocsFit(docs),
         rest # <<>> => Last(Last(rest).blocks).idx # 0,
         NEW name \in DOMAIN docs, docs[name] # <<>>, ~Contains(vis, name),
         NEW new, new = [doc |-> name, scope |-> <<>>, blocks |-> <<[idx |-> 1, todo |-> <<>>]>>]
  PROVE  /\ StackFits(docs, Append(rest, new)) /\ Append(rest, new) # <<>>
         /\ VisitedFits(Append(rest, new), Append(vis, name))
<1> DEFINE m == Len(rest)
           st == Append(rest, new)
           n == Len(vis)
           more == Append(vis, name)
<1>1. IsSeq(rest) /\ IsSeq(vis)
  BY DEF StackFits, VisitedFits
<1>2. /\ IsSeq(st) /\ Len(st) = m + 1 /\ st[m + 1] = new /\ st # <<>> /\ m \in Nat
      /\ \A i \in 1..m : st[i] = rest[i]
  BY <1>1, AppendSeq
<1>3. /\ IsSeq(more) /\ Len(more) = n + 1 /\ more[n + 1] = name /\ n \in Nat
      /\ \A i \in 1..n : more[i] = vis[i]
  BY <1>1, AppendSeq
<1>4. Fits(docs, new)
  <2> DEFINE blocks == <<[idx |-> 1, todo |-> <<>>]>>
  <2>1. /\ IsSeq(blocks) /\ Len(blocks) = 1 /\ blocks # <<>>
        /\ blocks[1] = [idx |-> 1, todo |-> <<>>]
    <3> DEFINE S == {[idx |-> 1, todo |-> <<>>]}
    <3>1. blocks \in Seq(S) /\ Len(blocks) = 1 /\ blocks[1] = [idx |-> 1, todo |-> <<>>]
      OBVIOUS
    <3> HIDE DEF blocks, S
    <3> QED BY <3>1, SeqIsSeq
  <2>2. 1 \in 0..Len(docs[name])
    <3>1. Len(docs[name]) \in Nat /\ Len(docs[name]) # 0
      BY SeqIsSeq DEF DocsFit, IsSeq
    <3> QED BY <3>1
  <2> HIDE DEF blocks
  <2>3. /\ new = [doc |-> new.doc, scope |-> new.scope, blocks |-> new.blocks]
        /\ new.doc = name /\ new.scope = <<>> /\ new.blocks = blocks
    BY DEF blocks
  <2>4. \A b \in 1..1 : /\ blocks[b] = [idx |-> blocks[b].idx, todo |-> blocks[b].todo]
                        /\ blocks[b].idx \in 0..Len(docs[name])
    BY <2>1, <2>2
  <2>5. DOMAIN <<>> = {} /\ 1..(1-1) = {}
    OBVIOUS
  <2>6. Descends(blocks)
    BY <2>1 DEF Descends
  <2> QED BY <2>1, <2>3, <2>4, <2>5, <2>6 DEF Fits
<1> HIDE DEF st, more
<1>5. StackFits(docs, st)
  <2>1. \A i \in 1..m+1 : Fits(docs, st[i])
    <3> SUFFICES ASSUME NEW i \in 1..m+1 PROVE Fits(docs, st[i])
      OBVIOUS
    <3>1. CASE i = m + 1
      BY <3>1, <1>2, <1>4
    <3>2. CASE i \in 1..m
      BY <3>2, <1>2 DEF StackFits
    <3> QED BY <3>1, <3>2, <1>2
  <2>2. \A i \in 1..m : Last(st[i].blocks).idx # 0
    <3> SUFFICES ASSUME NEW i \in 1..m PROVE Last(st[i].blocks).idx # 0
      OBVIOUS
    <3>1. CASE i = m
      <4>1. rest # <<>>
        BY <1>2, <3>1, EmptySeq
      <4>2. Last(rest) = rest[m]
        BY DEF Last
      <4> QED BY <1>2, <3>1, <4>1, <4>2
    <3>2. CASE i \in 1..m-1
      BY <3>2, <1>2 DEF StackFits
    <3> QED BY <3>1, <3>2, <1>2
  <2>3. (m + 1) - 1 = m
    BY <1>2
  <2> QED BY <1>2, <2>1, <2>2, <2>3 DEF StackFits
<1>6. VisitedFits(st, more)
  <2>1. ASSUME NEW i \in 1..n+1, NEW j \in 1..n+1, more[i] = more[j] PROVE i = j
    <3>1. \A k \in 1..n : vis[k] # name
      BY DEF Contains
    <3>2. CASE i \in 1..n /\ j \in 1..n
      BY <3>2, <2>1, <1>3 DEF VisitedFits
    <3>3. CASE i = n + 1 /\ j \in 1..n
      BY <3>1, <3>3, <2>1, <1>3
    <3>4. CASE i \in 1..n /\ j = n + 1
      BY <3>1, <3>4, <2>1, <1>3
    <3> QED BY <3>2, <3>3, <3>4, <1>3
  <2>2. PICK f \in [1..m -> 1..n] :
          /\ \A i \in 1..m : vis[f[i]] = rest[i].doc
          /\ \A i, j \in 1..m : i < j => f[i] < f[j]
    BY DEF VisitedFits
  <2> DEFINE g == [i \in 1..m+1 |-> IF i = m + 1 THEN n + 1 ELSE f[i]]
  <2>3. /\ g \in [1..m+1 -> 1..n+1] /\ g[m + 1] = n + 1
        /\ \A i \in 1..m : g[i] = f[i] /\ f[i] \in 1..n
    <3> HIDE DEF m, n
    <3>1. \A i \in 1..m : i \in 1..m+1 /\ i # m + 1 /\ f[i] \in 1..n /\ f[i] \in 1..n+1
      BY <1>2, <1>3
    <3>2. m + 1 \in 1..m+1 /\ n + 1 \in 1..n+1
      BY <1>2, <1>3
    <3>3. \A i \in 1..m+1 : i # m + 1 => i \in 1..m
      BY <1>2
    <3> QED BY <3>1, <3>2, <3>3
  <2> HIDE DEF g
  <2>4. ASSUME NEW i \in 1..m+1 PROVE more[g[i]] = st[i].doc
    <3>1. CASE i = m + 1
      BY <3>1, <1>2, <1>3, <2>3
    <3>2. CASE i \in 1..m
      <4>1. g[i] = f[i] /\ f[i] \in 1..n /\ vis[f[i]] = rest[i].doc
        BY <3>2, <2>2, <2>3
      <4> HIDE DEF m, n
      <4>2. st[i] = rest[i] /\ more[f[i]] = vis[f[i]]
        BY <3>2, <4>1, <1>2, <1>3
      <4> QED BY <4>1, <4>2
    <3> QED BY <3>1, <3>2, <1>2
  <2>5. ASSUME NEW i \in 1..m+1, NEW j \in 1..m+1, i < j PROVE g[i] < g[j]
    <3>1. i \in 1..m
      BY <2>5, <1>2
    <3>2. CASE j = m + 1
      BY <3>1, <3>2, <1>3, <2>3
    <3>3. CASE j \in 1..m
      BY <3>1, <3>3, <2>2, <2>3, <2>5
    <3> QED BY <3>2, <3>3, <1>2
  <2> QED BY <1>2, <1>3, <2>1, <2>3, <2>4, <2>5 DEF VisitedFits
<1> QED BY <1>2, <1>5, <1>6 DEF st, more

\* The innermost activation is gone, and the name of its template with it.
LEMMA Popping ==
  ASSUME NEW st, NEW vis, StackFits(docs, st), VisitedFits(st, vis), st # <<>>
  PROVE  /\ StackFits(docs, Front(st)) /\ VisitedFits(Front(st), Front(vis))
         /\ Front(st) # <<>> => Last(Last(Front(st)).blocks).idx # 0
<1> DEFINE m == Len(st)
           n == Len(vis)
           rest == Front(st)
           less == Front(vis)
<1>1. /\ IsSeq(rest) /\ Len(rest) = m - 1 /\ m \in Nat \ {0}
      /\ \A i \in 1..m-1 : rest[i] = st[i]
      /\ (rest = <<>> <=> m = 1)
  BY FrontSeq DEF StackFits
<1>2. PICK f \in [1..m -> 1..n] :
        /\ \A i \in 1..m : vis[f[i]] = st[i].doc
        /\ \A i, j \in 1..m : i < j => f[i] < f[j]
  BY DEF VisitedFits
<1>3. IsSeq(vis) /\ n \in Nat \ {0}
  <2>1. IsSeq(vis)
    BY DEF VisitedFits
  <2>2. n \in Nat /\ f[m] \in 1..n
    <3>1. n \in Nat
      BY <2>1, SeqIsSeq DEF IsSeq
    <3> HIDE DEF n, m
    <3> QED BY <1>1, <1>2, <3>1
  <2> HIDE DEF n
  <2> QED BY <2>1, <2>2
<1>4. /\ IsSeq(less) /\ Len(less) = n - 1
      /\ \A i \in 1..n-1 : less[i] = vis[i]
  <2>1. vis # <<>>
    BY <1>3, EmptySeq
  <2> QED BY <1>3, <2>1, FrontSeq
<1> HIDE DEF rest, less
<1>5. StackFits(docs, rest)
  <2> HIDE DEF m
  <2>1. \A i \in 1..m-1 : i \in 1..m
    BY <1>1
  <2>2. \A i \in 1..(m-1)-1 : i \in 1..m-1
    BY <1>1
  <2> QED BY <1>1, <2>1, <2>2 DEF StackFits, m
<1>6. VisitedFits(rest, less)
  <2> DEFINE g == [i \in 1..m-1 |-> f[i]]
  <2>1. ASSUME NEW i \in 1..m-1 PROVE f[i] \in 1..n-1
    <3>1. i \in 1..m /\ m \in 1..m /\ i < m
      BY <1>1
    <3>2. f[i] < f[m] /\ f[i] \in 1..n /\ f[m] \in 1..n
      BY <1>2, <3>1
    <3> HIDE DEF n, m
    <3> QED BY <1>3, <3>2
  <2>2. g \in [1..m-1 -> 1..n-1] /\ \A i \in 1..m-1 : g[i] = f[i]
    BY <2>1
  <2>3. \A i \in 1..m-1 : i \in 1..m
    BY <1>1
  <2>4. \A i \in 1..n-1 : i \in 1..n
    BY <1>3
  <2> HIDE DEF g, m, n
  <2>5. \A i \in 1..m-1 : less[g[i]] = rest[i].doc
    BY <1>1, <1>2, <1>4, <2>1, <2>2, <2>3
  <2>6. \A i, j \in 1..m-1 : i < j => g[i] < g[j]
    BY <1>2, <2>2, <2>3
  <2>7. \A i, j \in 1..n-1 : less[i] = less[j] => i = j
    BY <1>4, <2>4 DEF VisitedFits, n
  <2>8. Len(less) = n - 1 /\ Len(rest) = m - 1 /\ IsSeq(less)
    BY <1>1, <1>4
  <2>9. \E h \in [1..m-1 -> 1..n-1] :
          /\ \A i \in 1..m-1 : less[h[i]] = rest[i].doc
          /\ \A i, j \in 1..m-1 : i < j => h[i] < h[j]
    BY <2>2, <2>5, <2>6
  <2> QED BY <2>7, <2>8, <2>9 DEF VisitedFits
<1>7. ASSUME rest # <<>> PROVE Last(Last(rest).blocks).idx # 0
  <2> HIDE DEF m
  <2>1. m # 1 /\ m - 1 \in 1..m-1
    BY <1>1, <1>7
  <2>2. Last(rest) = st[m - 1]
    BY <1>1, <2>1 DEF Last
  <2> QED BY <2>1, <2>2 DEF StackFits, m
<1> QED BY <1>5, <1>6, <1>7 DEF rest, less

-----------------------------------------------------------------------------
(***************************************************************************)
(* The invariant of the store and the steps of a call.                      *)
(***************************************************************************)

\* The links of a parsed text stay within its tree.
LEMMA ParsedLinks ==
  ASSUME NEW s, IsText(s)
  PROVE  /\ IsSeq(Parse(s).tree)
         /\ \A j \in 1..Len(Parse(s).tree) :
              /\ Parse(s).tree[j].idxFirstChild \in Later(j, Len(Parse(s).tree))
              /\ Parse(s).tree[j].idxNextSibling \in Later(j, Len(Parse(s).tree))
<1> DEFINE tree == Parse(s).tree
<1>1. tree \in Seq(Items(s)) /\ TreeFits(tree)
  BY ParseFits
<1>2. IsSeq(tree) /\ Len(tree) \in Nat
  BY <1>1, SeqIsSeq
<1>3. ASSUME NEW j \in 1..Len(tree)
      PROVE  /\ tree[j].idxFirstChild \in Later(j, Len(tree))
             /\ tree[j].idxNextSibling \in Later(j, Len(tree))
  <2> HIDE DEF tree
  <2>1. tree[j].idxFirstChild \in {0, j + 1}
        /\ (tree[j].idxFirstChild = j + 1 => j + 1 \in 1..Len(tree))
    BY <1>1, <1>3 DEF TreeFits, ChildrenFit
  <2>2. tree[j].idxNextSibling # 0 => tree[j].idxNextSibling \in j+1..Len(tree)
    BY <1>1, <1>3 DEF TreeFits, SiblingsFit
  <2> QED BY <2>1, <2>2, <1>2 DEF Later
<1> QED BY <1>2, <1>3

\* Every template of the store is what parse() made of its file, without an error.
DocsParsed(d) ==
    \A path \in DOMAIN d : /\ path \in DOMAIN files
                           /\ ~Parse(files[path]).err
                           /\ d[path] = Parse(files[path]).tree

\* The inductive invariant of the store. Beyond the type invariant it says that every
\* activation but the innermost stands at its include command and that each open
\* block stands at the item that opened it (or the return from a template could not
\* move on), that visitedTemplates names nothing twice (or the name taken off at a
\* return could be needed below), and that the templates are results of parse() (or
\* a link could lead out of its tree).
StoreIInv ==
    /\ files \in Files
    /\ DocsParsed(docs)
    /\ status \in {"new", "ready", "expanding", "invalid"}
    /\ status = "invalid" => docs = <<>>
    /\ calls \in 0..MaxCalls
    /\ langCode \in Langs \cup {""}
    /\ (stack # <<>>) = Running
    /\ StackFits(docs, stack)
    /\ VisitedFits(stack, visited)

\* What a step of a call leaves behind.
CallFits ==
    /\ status' \in {"ready", "expanding"}
    /\ (stack' # <<>>) = (status' = "expanding")
    /\ StackFits(docs, stack')
    /\ VisitedFits(stack', visited')

\* No activation, and no template visited.
LEMMA EmptyFits ==
  ASSUME NEW d
  PROVE  StackFits(d, <<>>) /\ VisitedFits(<<>>, <<>>)
<1>1. Len(<<>>) = 0 /\ IsSeq(<<>>)
  <2>1. <<>> \in Seq({}) /\ Len(<<>>) = 0
    BY EmptySeq
  <2> QED BY <2>1, SeqIsSeq
<1>2. StackFits(d, <<>>)
  BY <1>1 DEF StackFits
<1>3. <<>> \in [1..0 -> 1..0]
  OBVIOUS
<1>4. VisitedFits(<<>>, <<>>)
  <2> DEFINE e == <<>>
             n == Len(e)
  <2>1. IsSeq(e) /\ n = 0 /\ \A i \in 1..n : FALSE
    BY <1>1
  <2>2. e \in [1..n -> 1..n]
    BY <1>1, <1>3
  <2> HIDE DEF e, n
  <2>3. \E f \in [1..n -> 1..n] : /\ \A i \in 1..n : e[f[i]] = e[i].doc
                                  /\ \A i, j \in 1..n : i < j => f[i] < f[j]
    BY <2>1, <2>2
  <2>4. VisitedFits(e, e)
    BY <2>1, <2>3 DEF VisitedFits, n
  <2> QED BY <2>4 DEF e
<1> QED BY <1>2, <1>4

\* The trees in the store are parsed ones, so their links stay within them.
LEMMA TreesFit ==
  ASSUME StoreIInv
  PROVE  DocsFit(docs)
<1> SUFFICES ASSUME NEW path \in DOMAIN docs
             PROVE  /\ IsSeq(docs[path])
                    /\ \A j \in 1..Len(docs[path]) :
                         /\ docs[path][j].idxFirstChild \in Later(j, Len(docs[path]))
                         /\ docs[path][j].idxNextSibling \in Later(j, Len(docs[path]))
  BY DEF DocsFit
<1>1. path \in DOMAIN files /\ docs[path] = Parse(files[path]).tree /\ files \in Files
  BY Zenon DEF StoreIInv, DocsParsed
<1>2. IsText(files[path])
  BY <1>1, StoreAssumption
<1> QED BY <1>1, <1>2, ParsedLinks

\* An empty template leaves its name in visitedTemplates.
LEMMA VisitedGrows ==
  ASSUME NEW st, NEW vis, VisitedFits(st, vis), NEW name, ~Contains(vis, name)
  PROVE  VisitedFits(st, Append(vis, name))
<1> DEFINE n == Len(vis)
           more == Append(vis, name)
           m == Len(st)
<1>1. IsSeq(vis)
  BY DEF VisitedFits
<1>2. /\ IsSeq(more) /\ Len(more) = n + 1 /\ more[n + 1] = name /\ n \in Nat
      /\ \A i \in 1..n : more[i] = vis[i]
  BY <1>1, AppendSeq
<1> HIDE DEF more
<1>3. ASSUME NEW i \in 1..n+1, NEW j \in 1..n+1, more[i] = more[j] PROVE i = j
  <2>1. \A k \in 1..n : vis[k] # name
    BY DEF Contains
  <2>2. CASE i \in 1..n /\ j \in 1..n
    BY <2>2, <1>2, <1>3 DEF VisitedFits
  <2>3. CASE i = n + 1 /\ j \in 1..n
    BY <2>1, <2>3, <1>2, <1>3
  <2>4. CASE i \in 1..n /\ j = n + 1
    BY <2>1, <2>4, <1>2, <1>3
  <2> QED BY <2>2, <2>3, <2>4, <1>2
<1>4. PICK f \in [1..m -> 1..n] :
        /\ \A i \in 1..m : vis[f[i]] = st[i].doc
        /\ \A i, j \in 1..m : i < j => f[i] < f[j]
  BY DEF VisitedFits
<1>5. \A i \in 1..m : f[i] \in 1..n /\ more[f[i]] = vis[f[i]]
  BY <1>2, <1>4
<1>6. f \in [1..m -> 1..n+1]
  BY <1>2, <1>4
<1>7. \E g \in [1..m -> 1..n+1] :
        /\ \A i \in 1..m : more[g[i]] = st[i].doc
        /\ \A i, j \in 1..m : i < j => g[i] < g[j]
  BY <1>4, <1>5, <1>6
<1>8. IsSeq(more) /\ Len(more) = n + 1
  BY <1>2
<1>9. VisitedFits(st, more)
  <2> HIDE DEF n, m
  <2> QED BY <1>3, <1>7, <1>8 DEF VisitedFits, m
<1> QED BY <1>9 DEF more

\* The return of an activation to the include command below it.
LEMMA ReturnFits ==
  ASSUME NEW rest, StackFits(docs, rest), DocsFit(docs), Return(rest),
         rest # <<>> => Last(Last(rest).blocks).idx # 0,
         VisitedFits(rest, visited')
  PROVE  CallFits
<1>1. CASE rest = <<>>
  <2>1. stack' = <<>> /\ status' = "ready"
    BY <1>1 DEF Return
  <2> QED BY <1>1, <2>1, EmptyFits DEF CallFits
<1>2. CASE rest # <<>>
  <2>1. /\ stack' = [rest EXCEPT ![Len(rest)] = NextSibling(Last(rest))]
        /\ status' = "expanding"
    BY <1>2 DEF Return
  <2>2. TopBecomes(rest, stack')
    BY <1>2, <2>1, AdvanceBecomes
  <2>3. /\ StackFits(docs, stack') /\ stack' # <<>> /\ Len(stack') = Len(rest)
        /\ \A i \in 1..Len(rest) : stack'[i].doc = rest[i].doc
    BY <1>2, <2>2, TopChanges
  <2>4. VisitedFits(stack', visited')
    BY <2>3, SameDocsVisited
  <2> QED BY Zenon, <2>1, <2>3, <2>4 DEF CallFits
<1> QED BY <1>1, <1>2

\* An exception leaves no activation.
LEMMA ThrowFits ==
  ASSUME NEW e, Throw(e)
  PROVE  CallFits
BY EmptyFits DEF Throw, CallFits

\* getTemplate_Recursive() up to the call of getSyntaxSubtree().
LEMMA EnterFits ==
  ASSUME NEW path, NEW rest, NEW seen, NEW text, Enter(path, rest, seen, text),
         StackFits(docs, rest), VisitedFits(rest, seen), DocsFit(docs),
         rest # <<>> => Last(Last(rest).blocks).idx # 0
  PROVE  CallFits
<1> DEFINE name == Localized(path)
           new == [doc |-> name, scope |-> <<>>, blocks |-> <<[idx |-> 1, todo |-> <<>>]>>]
<1>1. CASE name = <<>> \/ Contains(seen, name)
  <2>1. Throw("NoSuchTemplate") \/ Throw("Circular")
    BY <1>1 DEF Enter
  <2> QED BY <2>1, ThrowFits
<1>2. CASE name # <<>> /\ ~Contains(seen, name)
  <2>1. name \in DOMAIN docs
    BY Zenon, <1>2 DEF Localized, LocalizedFor
  <2>2. /\ visited' = Append(seen, name)
        /\ IF docs[name] = <<>> THEN Return(rest)
           ELSE stack' = Append(rest, new) /\ status' = "expanding"
    BY <1>2 DEF Enter
  <2> HIDE DEF name
  <2>3. CASE docs[name] = <<>>
    <3>1. Return(rest)
      BY <2>2, <2>3
    <3>2. VisitedFits(rest, visited')
      BY <1>2, <2>2, VisitedGrows
    <3> QED BY <3>1, <3>2, ReturnFits
  <2>4. CASE docs[name] # <<>>
    <3>1. stack' = Append(rest, new) /\ status' = "expanding"
      BY <2>2, <2>4
    <3>2. /\ StackFits(docs, Append(rest, new)) /\ Append(rest, new) # <<>>
          /\ VisitedFits(Append(rest, new), Append(seen, name))
      BY <1>2, <2>1, <2>4, Pushing
    <3> HIDE DEF new
    <3> QED BY <2>2, <3>1, <3>2 DEF CallFits
  <2> QED BY <2>3, <2>4
<1> QED BY <1>1, <1>2

\* A step that changes the innermost activation only.
LEMMA TopStep ==
  ASSUME StoreIInv, Running, TopBecomes(stack, stack'), UNCHANGED <<visited, status>>
  PROVE  CallFits
<1>1. StackFits(docs, stack) /\ VisitedFits(stack, visited) /\ stack # <<>>
  BY Zenon DEF StoreIInv
<1>2. /\ StackFits(docs, stack') /\ stack' # <<>> /\ Len(stack') = Len(stack)
      /\ \A i \in 1..Len(stack) : stack'[i].doc = stack[i].doc
  BY <1>1, TopChanges
<1>3. VisitedFits(stack', visited')
  BY <1>1, <1>2, SameDocsVisited
<1> QED BY <1>2, <1>3 DEF CallFits, Running

\* Where the innermost activation stands.
LEMMA TopFacts ==
  ASSUME StoreIInv, Running
  PROVE  /\ stack # <<>> /\ StackFits(docs, stack) /\ VisitedFits(stack, visited)
         /\ DocsFit(docs) /\ Fits(docs, Top) /\ Top = Last(stack)
         /\ Top = [doc |-> Top.doc, scope |-> Top.scope, blocks |-> Top.blocks]
         /\ Tree = docs[Top.doc] /\ Top.doc \in DOMAIN docs
         /\ Block = Last(Top.blocks) /\ Block.idx \in 0..Len(Tree) /\ Len(Tree) \in Nat
<1>1. stack # <<>> /\ StackFits(docs, stack) /\ VisitedFits(stack, visited)
  BY Zenon DEF StoreIInv
<1>2. DocsFit(docs)
  BY TreesFit
<1>3. Fits(docs, Top) /\ Top = Last(stack)
  BY <1>1, FrontSeq DEF StackFits, Top
<1>4. /\ Len(docs[Top.doc]) \in Nat
      /\ Last(Top.blocks).idx \in 0..Len(docs[Top.doc])
  BY <1>2, <1>3, BlocksFacts
<1>5. /\ Top = [doc |-> Top.doc, scope |-> Top.scope, blocks |-> Top.blocks]
      /\ Top.doc \in DOMAIN docs
  BY <1>3 DEF Fits
<1> QED BY <1>1, <1>2, <1>3, <1>4, <1>5 DEF Tree, Block

\* Moves: an exception, or a change of the innermost activation alone.
Moves ==
    \/ \E e : Throw(e)
    \/ TopBecomes(stack, stack') /\ UNCHANGED <<visited, status>>

\* A handler that moves on to the next sibling.
LEMMA AdvanceMoves ==
  ASSUME StoreIInv, Running, Block.idx # 0, stack' = Advance, UNCHANGED <<visited, status>>
  PROVE  Moves
<1>1. TopBecomes(stack, [stack EXCEPT ![Len(stack)] = NextSibling(Last(stack))])
  BY TopFacts, AdvanceBecomes
<1>2. TopBecomes(stack, stack')
  BY <1>1 DEF Advance, Top
<1> QED BY <1>2 DEF Moves

\* The steps of getSyntaxSubtree() that neither call nor return.
LEMMA ExpandMoves ==
  ASSUME StoreIInv, \/ StaticText \/ Variable \/ Condition \/ ForLoop
                    \/ EndBlock /\ Front(Top.blocks) # <<>>
  PROVE  Moves
<1>1. /\ StackFits(docs, stack) /\ VisitedFits(stack, visited) /\ DocsFit(docs)
  <2>1. Running
    BY Zenon DEF StaticText, Variable, Condition, ForLoop, EndBlock, AtItem
  <2> QED BY <2>1, TopFacts
<1>2. ASSUME NEW text, NEW type, AtItem(type), Emit(text) PROVE Moves
  BY <1>2, AdvanceMoves DEF Emit, AtItem, NoItem
<1>3. CASE StaticText
  BY <1>2, <1>3 DEF StaticText
<1>4. CASE Variable
  <2>1. \E text : AtItem("Variable") /\ (Emit(text) \/ Throw(text[1].v))
    BY Zenon, <1>4 DEF Variable
  <2> QED BY <2>1, <1>2 DEF Moves
<1>5. CASE Condition
  <2>1. AtItem("Condition") /\ Running /\ Block.idx # 0 /\ Item.t = "Condition"
    BY <1>5 DEF Condition, AtItem, NoItem
  <2> DEFINE block == [idx |-> Item.idxFirstChild, todo |-> <<>>]
             more == Append(Top.blocks, block)
  <2>2. \/ \E e : Throw(e)
        \/ stack' = WithTop(more, Top.scope) /\ UNCHANGED <<visited, status>>
        \/ stack' = Advance /\ UNCHANGED <<visited, status>>
    <3> HIDE DEF more
    <3> QED BY <1>5 DEF Condition, more
  <2>3. ASSUME stack' = WithTop(more, Top.scope), UNCHANGED <<visited, status>> PROVE Moves
    <3> DEFINE fc == Item.idxFirstChild
               scope == Top.scope
               blocks == Top.blocks
               doc == Top.doc
    <3>1. fc \in Later(Last(blocks).idx, Len(docs[doc]))
      <4>1. Block = Last(blocks) /\ Block.idx \in 1..Len(Tree) /\ Tree = docs[Top.doc] /\ Top.doc \in DOMAIN docs
        BY <2>1, TopFacts
      <4> QED BY <1>1, <4>1 DEF Item, DocsFit
    <3>2. Fits(docs, [doc |-> doc, scope |-> scope, blocks |-> blocks]) /\ Last(blocks).idx # 0
      BY <2>1, TopFacts
    <3> HIDE DEF fc, scope, blocks, doc
    <3>3. Fits(docs, [doc |-> doc, scope |-> scope,
                      blocks |-> Append(blocks, [idx |-> fc, todo |-> <<>>])])
      BY <1>1, <3>1, <3>2, BlockAdded
    <3>4. Fits(docs, [doc |-> Top.doc, scope |-> Top.scope, blocks |-> more])
      BY <3>3 DEF fc, scope, blocks, doc
    <3> HIDE DEF more
    <3>5. TopBecomes(stack, WithTop(more, Top.scope))
      BY <1>1, <2>1, <3>4, TopFacts, WithTopBecomes
    <3> QED BY <2>3, <3>5 DEF Moves
  <2> QED
    <3>1. CASE \E e : Throw(e)
      BY <3>1 DEF Moves
    <3>2. CASE stack' = Advance /\ UNCHANGED <<visited, status>>
      BY <2>1, <3>2, AdvanceMoves
    <3> HIDE DEF more
    <3> QED BY <2>2, <2>3, <3>1, <3>2
<1>6. CASE ForLoop
  <2>1. AtItem("ForLoop") /\ Running /\ Block.idx # 0 /\ Item.t = "ForLoop"
    BY <1>6 DEF ForLoop, AtItem, NoItem
  <2>2. \/ \E e : Throw(e)
        \/ \E todo : /\ stack' = LoopRound(Top.blocks, Top.scope, todo)
                     /\ UNCHANGED <<visited, status>>
    BY <1>6 DEF ForLoop
  <2>3. ASSUME NEW todo, stack' = LoopRound(Top.blocks, Top.scope, todo),
               UNCHANGED <<visited, status>>
        PROVE  Moves
    <3>1. /\ Fits(docs, [doc |-> Top.doc, scope |-> Top.scope, blocks |-> Top.blocks])
          /\ Last(Top.blocks).idx # 0
          /\ Tree[Last(Top.blocks).idx].t = "ForLoop"
      BY <2>1, TopFacts DEF Item
    <3>2. TopBecomes(stack, LoopRound(Top.blocks, Top.scope, todo))
      BY <1>1, <2>1, <3>1, TopFacts, LoopRoundBecomes
    <3> QED BY <2>3, <3>2 DEF Moves
  <2> QED BY <2>2, <2>3 DEF Moves
<1>7. CASE EndBlock /\ Front(Top.blocks) # <<>>
  <2> DEFINE blocks == Front(Top.blocks)
             opener == Tree[Last(blocks).idx]
  <2>1. Running
    BY <1>7 DEF EndBlock
  <2>3. blocks # <<>>
    BY <1>7
  <2> QED
    <3>1. /\ stack' = IF opener.t = "ForLoop"
                      THEN LoopRound(blocks, Erase(Top.scope, opener.text.var), Block.todo)
                      ELSE LoopRound(blocks, Top.scope, <<>>)
          /\ UNCHANGED <<visited, status>>
      BY <1>7, <2>3 DEF EndBlock
    <3>2. ASSUME NEW scope, NEW todo, stack' = LoopRound(blocks, scope, todo),
                 todo # <<>> => opener.t = "ForLoop",
                 \A v \in DOMAIN scope :
                    v \in DOMAIN Top.scope /\ (opener.t = "ForLoop" => opener.text.var # v)
          PROVE  Moves
      <4>1. /\ Fits(docs, [doc |-> Top.doc, scope |-> scope, blocks |-> Front(Top.blocks)])
            /\ Last(Front(Top.blocks)).idx # 0
        <5> DEFINE a == Top
        <5>1. Fits(docs, a) /\ Front(a.blocks) # <<>> /\ Tree = docs[a.doc]
          BY <2>1, <2>3, TopFacts
        <5>2. LET o == docs[a.doc][Last(Front(a.blocks)).idx]
              IN  \A v \in DOMAIN scope :
                    v \in DOMAIN a.scope /\ (o.t = "ForLoop" => o.text.var # v)
          BY <3>2, <5>1
        <5> HIDE DEF a
        <5>3. /\ Fits(docs, [doc |-> a.doc, scope |-> scope, blocks |-> Front(a.blocks)])
              /\ Last(Front(a.blocks)).idx # 0
          BY <1>1, <5>1, <5>2, BlockRemoved
        <5> QED BY <5>3 DEF a
      <4>2. TopBecomes(stack, LoopRound(blocks, scope, todo))
        BY <1>1, <2>1, <3>2, <4>1, TopFacts, LoopRoundBecomes
      <4> QED BY <3>1, <3>2, <4>2 DEF Moves
    <3>3. CASE opener.t = "ForLoop"
      <4> DEFINE scope == Erase(Top.scope, opener.text.var)
      <4>1. stack' = LoopRound(blocks, scope, Block.todo)
        BY <3>1, <3>3
      <4>2. \A v \in DOMAIN scope : v \in DOMAIN Top.scope /\ opener.text.var # v
        BY DEF Erase
      <4> HIDE DEF scope, blocks, opener
      <4> QED BY <3>2, <3>3, <4>1, <4>2 DEF opener
    <3>4. CASE opener.t # "ForLoop"
      BY <3>1, <3>2, <3>4
    <3> QED BY <3>3, <3>4
<1> QED
  BY <1>3, <1>4, <1>5, <1>6, <1>7

\* The return of the innermost activation.
LEMMA Returning ==
  ASSUME StoreIInv, EndBlock, Front(Top.blocks) = <<>>
  PROVE  /\ Return(Front(stack)) /\ visited' = Front(visited)
         /\ StackFits(docs, Front(stack)) /\ VisitedFits(Front(stack), Front(visited))
         /\ Front(stack) # <<>> => Last(Last(Front(stack)).blocks).idx # 0
<1>1. Return(Front(stack)) /\ visited' = Front(visited) /\ Running
  BY DEF EndBlock
<1> QED BY <1>1, TopFacts, Popping

\* Every step of getSyntaxSubtree().
LEMMA ExpandFits ==
  ASSUME StoreIInv, Expand
  PROVE  CallFits
<1>1. Running
  BY Zenon DEF Expand, StaticText, Variable, IncludeCmd, Condition, ForLoop, EndBlock, AtItem
<1>2. StackFits(docs, stack) /\ VisitedFits(stack, visited) /\ DocsFit(docs)
  BY <1>1, TopFacts
<1>3. CASE Moves
  BY <1>1, <1>3, ThrowFits, TopStep DEF Moves
<1>4. CASE IncludeCmd
  <2>1. Block.idx # 0 /\ Enter(Item.text.path, stack, visited, result)
    BY <1>4 DEF IncludeCmd, AtItem, NoItem
  <2>2. Last(Last(stack).blocks).idx # 0
    BY <1>1, <2>1, TopFacts
  <2> QED BY <1>2, <2>1, <2>2, EnterFits
<1>5. CASE EndBlock /\ Front(Top.blocks) = <<>>
  BY <1>2, <1>5, Returning, ReturnFits
<1> QED BY <1>3, <1>4, <1>5, ExpandMoves DEF Expand

-----------------------------------------------------------------------------
(***************************************************************************)
(* The theorems about the store.                                            *)
(***************************************************************************)

\* The type invariant follows.
LEMMA TypeFromInv ==
  ASSUME StoreIInv
  PROVE  StoreTypeOK
<1>1. DOMAIN docs \subseteq DOMAIN files
  BY Zenon DEF StoreIInv, DocsParsed
<1>2. IsSeq(stack) /\ DOMAIN stack = 1..Len(stack)
  BY Zenon, SeqIsSeq DEF StoreIInv, StackFits, IsSeq
<1>3. DocsFit(docs)
  BY TreesFit
<1>4. ASSUME NEW i \in DOMAIN stack, NEW a, a = stack[i], NEW open,
             open = {docs[a.doc][a.blocks[b].idx] : b \in 1..(Len(a.blocks) - 1)}
      PROVE  /\ a.doc \in DOMAIN docs
             /\ a.blocks # <<>>
             /\ \A b \in DOMAIN a.blocks : a.blocks[b].idx \in DOMAIN docs[a.doc] \cup {0}
             /\ DOMAIN a.scope \subseteq {j.text.var : j \in {o \in open : o.t = "ForLoop"}}
  <2>1. Fits(docs, a)
    BY Zenon, <1>2, <1>4 DEF StoreIInv, StackFits
  <2>2. /\ DOMAIN docs[a.doc] = 1..Len(docs[a.doc]) /\ Len(docs[a.doc]) \in Nat
        /\ IsSeq(a.blocks)
    BY <1>3, <2>1, BlocksFacts
  <2>3. DOMAIN a.blocks = 1..Len(a.blocks)
    BY <2>2, SeqIsSeq DEF IsSeq
  <2>4. ASSUME NEW b \in DOMAIN a.blocks
        PROVE  a.blocks[b].idx \in DOMAIN docs[a.doc] \cup {0}
    <3>1. a.blocks[b].idx \in 0..Len(docs[a.doc])
      BY <2>1, <2>3 DEF Fits
    <3> QED BY <2>2, <3>1
  <2>5. ASSUME NEW v \in DOMAIN a.scope
        PROVE  v \in {j.text.var : j \in {o \in open : o.t = "ForLoop"}}
    <3>1. PICK b \in 1..Len(a.blocks)-1 :
            /\ docs[a.doc][a.blocks[b].idx].t = "ForLoop"
            /\ docs[a.doc][a.blocks[b].idx].text.var = v
      BY <2>1 DEF Fits
    <3>2. docs[a.doc][a.blocks[b].idx] \in open
      BY <1>4
    <3> QED BY <3>1, <3>2
  <2> QED BY <2>1, <2>4, <2>5 DEF Fits
<1> QED
  BY Zenon, <1>1, <1>4 DEF StoreTypeOK, StoreIInv, NoItem

\* The invariant holds in the beginning,
LEMMA StoreInitInv == StoreInit => StoreIInv
<1> SUFFICES ASSUME StoreInit PROVE StoreIInv
  OBVIOUS
<1>1. DOMAIN docs = {} /\ docs = <<>>
  <2>1. docs = <<>>
    BY Zenon DEF StoreInit
  <2>2. DOMAIN <<>> = {}
    OBVIOUS
  <2> QED BY <2>1, <2>2
<1>2. DocsParsed(docs)
  BY <1>1 DEF DocsParsed
<1>3. StackFits(docs, stack) /\ VisitedFits(stack, visited)
  BY Zenon, EmptyFits DEF StoreInit
<1>4. calls \in 0..MaxCalls
  <2>1. calls = 0
    BY Zenon DEF StoreInit
  <2>2. MaxCalls \in Nat
    BY StoreAssumption
  <2> QED BY <2>1, <2>2
<1> QED BY Zenon, <1>1, <1>2, <1>3, <1>4 DEF StoreInit, StoreIInv, Running

\* every step keeps it,
LEMMA StoreStep ==
  ASSUME StoreIInv, [StoreNext]_storeVars
  PROVE  StoreIInv'
<1>1. ASSUME CallFits, UNCHANGED <<files, docs, langCode>>, calls' \in 0..MaxCalls
      PROVE  StoreIInv'
  BY Zenon, <1>1 DEF StoreIInv, CallFits, DocsParsed, StackFits, Fits, Running
<1>2. CASE Construct
  <2>1. PICK unreadable \in Unreadable :
          LET good == {path \in DOMAIN files \ unreadable : ~Parse(files[path]).err}
          IN  /\ docs' = [path \in good |-> Parse(files[path]).tree]
              /\ status' = IF good = {} THEN "invalid" ELSE "ready"
    BY <1>2 DEF Construct
  <2> DEFINE good == {path \in DOMAIN files \ unreadable : ~Parse(files[path]).err}
  <2>2. /\ docs' = [path \in good |-> Parse(files[path]).tree]
        /\ status' = IF good = {} THEN "invalid" ELSE "ready"
    BY <2>1
  <2>3. UNCHANGED <<files, langCode, stack, visited, calls>> /\ status = "new"
    BY <1>2 DEF Construct
  <2>4. DocsParsed(docs)'
    BY <2>2, <2>3 DEF DocsParsed
  <2>5. status' = "invalid" => docs' = <<>>
    <3> SUFFICES ASSUME good = {} PROVE docs' = <<>>
      BY <2>2
    <3> HIDE DEF good
    <3>1. docs' = [path \in {} |-> Parse(files[path]).tree]
      BY <2>2
    <3> QED BY <3>1
  <2>6. stack = <<>> /\ stack' = <<>> /\ visited' = visited
    BY Zenon, <2>3 DEF StoreIInv, Running
  <2>7. StackFits(docs', stack')
    BY <2>6, EmptyFits
  <2>8. VisitedFits(stack', visited')
    BY Zenon, <2>6 DEF StoreIInv
  <2>9. /\ status' \in {"new", "ready", "expanding", "invalid"}
        /\ (stack' # <<>>) = (status' = "expanding")
    BY <2>2, <2>6
  <2> HIDE DEF good
  <2> QED
    BY Zenon, <2>3, <2>4, <2>5, <2>7, <2>8, <2>9 DEF StoreIInv, Running
<1>3. CASE SetLang \/ SetStringlist
  <2>1. /\ UNCHANGED <<files, docs, stack, visited, status, calls>>
        /\ langCode' \in Langs \cup {""}
    BY Zenon, <1>3 DEF SetLang, SetStringlist, StoreIInv
  <2> QED BY Zenon, <2>1 DEF StoreIInv, DocsParsed, Running
<1>4. CASE Get
  <2>1. PICK path \in Requests : Enter(path, <<>>, <<>>, <<>>)
    BY <1>4 DEF Get
  <2>2. DocsFit(docs) /\ StackFits(docs, <<>>) /\ VisitedFits(<<>>, <<>>)
    BY TreesFit, EmptyFits
  <2>3. CallFits
    BY <2>1, <2>2, EnterFits
  <2>4. UNCHANGED <<files, docs, langCode>> /\ calls' \in 0..MaxCalls
    <3>1. UNCHANGED <<files, docs, langCode>> /\ calls < MaxCalls /\ calls' = calls + 1
      BY <1>4 DEF Get, Fixed
    <3>2. MaxCalls \in Nat
      BY StoreAssumption
    <3>3. calls \in 0..MaxCalls
      BY Zenon DEF StoreIInv
    <3> QED BY <3>1, <3>2, <3>3
  <2> QED BY <1>1, <2>3, <2>4
<1>5. CASE Expand
  <2>1. UNCHANGED <<files, docs, langCode, calls>>
    BY Zenon, <1>5 DEF Expand, StaticText, Variable, IncludeCmd, Condition, ForLoop, EndBlock,
                Same, Fixed
  <2> QED BY Zenon, <1>1, <1>5, <2>1, ExpandFits DEF StoreIInv
<1>6. CASE UNCHANGED storeVars
  BY Zenon, <1>6 DEF storeVars, StoreIInv, DocsParsed, Running
<1> QED
  BY <1>2, <1>3, <1>4, <1>5, <1>6 DEF StoreNext, Idle

\* and so it always holds.
LEMMA StoreInvariant == StoreSpec => []StoreIInv
<1>1. StoreIInv /\ [StoreNext]_storeVars => StoreIInv'
  BY StoreStep
<1> QED BY <1>1, StoreInitInv, PTL DEF StoreSpec

\* Whatever the files, dictionaries and requests are: exactly a running call has
\* activations, every block of one stands at an item of the syntax tree or at its
\* end, and the scope of a template has only the variables of loops that are open.
\* Every access of getSyntaxSubtree() to tree[idx] is within the tree.
THEOREM StoreTypeCorrect == StoreSpec => []StoreTypeOK
<1>1. StoreIInv => StoreTypeOK
  BY TypeFromInv
<1> QED BY <1>1, StoreInvariant, PTL

\* No template twice on the stack: its name would be twice in visitedTemplates.
LEMMA NeverTwiceFromInv ==
  ASSUME StoreIInv
  PROVE  NeverActiveTwice
<1>1. /\ VisitedFits(stack, visited)
      /\ DOMAIN stack = 1..Len(stack) /\ DOMAIN visited = 1..Len(visited)
      /\ Len(stack) \in Nat
  BY Zenon, SeqIsSeq DEF StoreIInv, StackFits, VisitedFits, IsSeq
<1>2. PICK f \in [DOMAIN stack -> DOMAIN visited] :
        /\ \A i \in DOMAIN stack : visited[f[i]] = stack[i].doc
        /\ \A i, j \in DOMAIN stack : i < j => f[i] < f[j]
  BY <1>1 DEF VisitedFits
<1>3. ASSUME NEW i \in DOMAIN stack, NEW j \in DOMAIN stack, stack[i].doc = stack[j].doc
      PROVE  i = j
  <2>1. f[i] = f[j]
    BY <1>1, <1>2, <1>3 DEF VisitedFits
  <2>2. f[i] \in Nat
    BY <1>1, <1>2
  <2>3. ~(i < j) /\ ~(j < i)
    BY <1>2, <2>1, <2>2
  <2> QED BY <1>1, <2>3
<1> QED BY <1>2, <1>3 DEF NeverActiveTwice

\* getTemplate_Recursive() never has a template active twice, and visitedTemplates
\* names all active ones in their order: no chain of include commands can be longer
\* than the number of templates.
THEOREM NoTemplateWithinItself == StoreSpec => []NeverActiveTwice
<1>1. StoreIInv => NeverActiveTwice
  BY NeverTwiceFromInv
<1> QED BY <1>1, StoreInvariant, PTL

\* No more blocks are open in an activation than its template has items, but for one.
LEMMA BlocksAreItems ==
  ASSUME StoreIInv, NEW i \in 1..Len(stack)
  PROVE  Len(stack[i].blocks) <= Len(docs[stack[i].doc]) + 1
<1> DEFINE a == stack[i]
           m == Len(a.blocks)
           n == Len(docs[a.doc])
<1>1. Fits(docs, a) /\ DocsFit(docs)
  BY Zenon, TreesFit DEF StoreIInv, StackFits
<1>2. m \in Nat \ {0} /\ n \in Nat
  <2> HIDE DEF a
  <2> QED BY <1>1, BlocksFacts
<1>3. \A b \in 1..m-1 : b \in 1..m /\ b <= a.blocks[b].idx /\ a.blocks[b].idx \in 0..n
  <2> HIDE DEF a
  <2> SUFFICES ASSUME NEW b \in 1..m-1
               PROVE  b \in 1..m /\ b <= a.blocks[b].idx /\ a.blocks[b].idx \in 0..n
    OBVIOUS
  <2>1. b \in 1..m
    BY <1>2
  <2> QED BY <1>1, <2>1 DEF Fits, Descends
<1> HIDE DEF m, n, a
<1>4. m <= n + 1
  <2>1. CASE m = 1
    BY <1>2, <2>1
  <2>2. CASE m # 1
    <3>1. m - 1 \in 1..m-1
      BY <1>2, <2>2
    <3>2. m - 1 <= a.blocks[m - 1].idx /\ a.blocks[m - 1].idx \in 0..n
      BY <1>3, <3>1
    <3> QED BY <1>2, <3>2
  <2> QED BY <2>1, <2>2
<1> QED BY <1>4 DEF m, n, a

\* Neither recursion counts its depth.  A chain of include commands that
\* getTemplate_Recursive() follows is never longer than the number of templates, and
\* the calls of getSyntaxSubtree() within each other are no more than the items of
\* the template, but for one.
THEOREM RecursionIsBounded ==
  StoreSpec => [](/\ IsFiniteSet(DOMAIN docs) => Len(stack) <= Cardinality(DOMAIN docs)
                  /\ \A i \in 1..Len(stack) :
                       Len(stack[i].blocks) <= Len(docs[stack[i].doc]) + 1)
<1>1. ASSUME StoreIInv, IsFiniteSet(DOMAIN docs)
      PROVE  Len(stack) <= Cardinality(DOMAIN docs)
  <2> DEFINE n == Len(stack)
             template == [i \in 1..n |-> stack[i].doc]
  <2>1. n \in Nat /\ DOMAIN stack = 1..n
    BY Zenon, <1>1, SeqIsSeq DEF StoreIInv, StackFits, IsSeq
  <2>2. \A i \in 1..n : stack[i].doc \in DOMAIN docs
    BY Zenon, <1>1 DEF StoreIInv, StackFits, Fits
  <2>3. \A i, j \in 1..n : stack[i].doc = stack[j].doc => i = j
    BY <1>1, <2>1, NeverTwiceFromInv DEF NeverActiveTwice
  <2>4. template \in Injection(1..n, DOMAIN docs)
    BY <2>2, <2>3 DEF Injection, IsInjective
  <2>5. Cardinality(1..n) <= Cardinality(DOMAIN docs)
    BY <1>1, <2>4, FS_Injection
  <2> HIDE DEF n, template
  <2>6. Cardinality(1..n) = IF 1 > n THEN 0 ELSE n - 1 + 1
    <3>1. 1 \in Int /\ n \in Int
      BY <2>1
    <3> QED BY <3>1, FS_Interval
  <2>7. n <= Cardinality(DOMAIN docs)
    BY <2>1, <2>5, <2>6
  <2> QED BY <2>7 DEF n
<1>2. StoreIInv => \A i \in 1..Len(stack) :
                     Len(stack[i].blocks) <= Len(docs[stack[i].doc]) + 1
  BY BlocksAreItems
<1> QED BY <1>1, <1>2, StoreInvariant, PTL

\* parse() fails exactly on the texts that are not well formed, and what it returns
\* is a document tree that holds the text, if that has no empty token.
LEMMA ParseIsRight ==
  ASSUME NEW s, IsText(s)
  PROVE  /\ Parse(s).err \in BOOLEAN /\ (Parse(s).err <=> ~WellFormed(s))
         /\ IsDocumentTree(Parse(s).tree)
         /\ ~Parse(s).err /\ NoEmptyToken(s) => HoldsText(Parse(s).tree, s)
<1>1. Parse(s).tree \in Seq(Items(s)) /\ TreeFits(Parse(s).tree)
      /\ Parse(s).err \in BOOLEAN /\ (Parse(s).err <=> ~WellFormed(s))
  BY ParseFits
<1>2. IsDocumentTree(Parse(s).tree)
  BY <1>1, DocumentTree
<1> QED BY <1>1, <1>2, ParseHolds

\* Whatever the text is: parse() fails exactly if a token is malformed or the ends do
\* not meet their beginnings, and otherwise links the items so that a walk meets every
\* one of them once, in the order of the text, and each below its block; and unless the
\* text has an empty token the items hold every piece of it once and in its order, but
\* for the ends of blocks and the newlines behind control tokens on lines of their own.
THEOREM ParserAcceptsNestedTexts ==
  \A s : IsText(s) => /\ Parse(s).err <=> ~WellFormed(s)
                      /\ IsDocumentTree(Parse(s).tree)
                      /\ ~Parse(s).err /\ NoEmptyToken(s) => HoldsText(Parse(s).tree, s)
BY ParseIsRight

\* What the store holds.
LEMMA ParsedFromInv ==
  ASSUME StoreIInv
  PROVE  ParsedAsWritten
<1>1. \A path \in DOMAIN files : IsText(files[path])
  BY Zenon, StoreAssumption DEF StoreIInv
<1>2. ASSUME NEW path \in DOMAIN files
      PROVE  WellFormed(files[path]) = ~Parse(files[path]).err
  <2>1. /\ Parse(files[path]).err \in BOOLEAN
        /\ Parse(files[path]).err <=> ~WellFormed(files[path])
    BY <1>1, ParseIsRight
  <2>2. WellFormed(files[path]) \in BOOLEAN
    BY DEF WellFormed
  <2> QED BY <2>1, <2>2
<1>3. ASSUME NEW path \in DOMAIN docs
      PROVE  /\ WellFormed(files[path]) /\ IsDocumentTree(docs[path])
             /\ NoEmptyToken(files[path]) => HoldsText(docs[path], files[path])
  <2>1. path \in DOMAIN files /\ ~Parse(files[path]).err /\ docs[path] = Parse(files[path]).tree
    BY Zenon DEF StoreIInv, DocsParsed
  <2> QED BY <1>1, <2>1, ParseIsRight
<1> QED BY Zenon, <1>2, <1>3 DEF ParsedAsWritten, StoreIInv

\* Whatever the files are: the store holds the templates that are well nested and
\* only those, a walk over the links of any of its trees meets every item once and
\* in the order of the text, and unless the text has an empty token the items hold
\* what is to be kept of it.
THEOREM StoreHoldsTexts == StoreSpec => []ParsedAsWritten
<1>1. StoreIInv => ParsedAsWritten
  BY ParsedFromInv
<1> QED BY <1>1, StoreInvariant, PTL

-----------------------------------------------------------------------------
(***************************************************************************)
(* CsvTable.                                                                *)
(***************************************************************************)

\* While rows have never been without columns, a table without columns is empty.
HollowInv == ~hollow /\ colCount = 0 => rows = <<>>

IInv == TypeOK /\ HeadersFit /\ RowsFit /\ HollowInv

\* A sequence cut after element p that goes on with element j.
Without(s, p, j) == SubSeq(s, 1, p) \o SubSeq(s, j, Len(s))

LEMMA WithoutElements ==
  ASSUME NEW S, NEW s \in Seq(S), NEW p \in 0..Len(s), NEW j \in p+1..Len(s)+1
  PROVE  /\ Without(s, p, j) \in Seq(S)
         /\ Len(Without(s, p, j)) = p + (Len(s) - j + 1)
         /\ \A k \in 1..p : Without(s, p, j)[k] = s[k]
         /\ \A k \in 1..Len(s)-j+1 : Without(s, p, j)[p + k] = s[j + k - 1]
<1> DEFINE a == SubSeq(s, 1, p)
           b == SubSeq(s, j, Len(s))
<1>1. Len(s) \in Nat /\ p \in Int /\ j \in Int
  OBVIOUS
<1>2. a \in Seq(S) /\ Len(a) = p /\ \A k \in 1..p : a[k] = s[k]
  BY <1>1, SubSeqProperties
<1>3. b \in Seq(S) /\ Len(b) = Len(s) - j + 1
  BY <1>1, SubSeqProperties
<1>4. \A k \in 1..Len(s)-j+1 : b[k] = s[j + k - 1]
  BY <1>1, SubSeqProperties
<1>5. Without(s, p, j) = a \o b
  BY DEF Without
<1> HIDE DEF a, b
<1>6. /\ a \o b \in Seq(S) /\ Len(a \o b) = Len(a) + Len(b)
      /\ \A k \in 1..Len(a)+Len(b) :
           (a \o b)[k] = IF k <= Len(a) THEN a[k] ELSE b[k - Len(a)]
  BY <1>2, <1>3, ConcatProperties
<1>7. ASSUME NEW k \in 1..p PROVE (a \o b)[k] = s[k]
  <2>1. k \in 1..p+(Len(s)-j+1) /\ k <= p
    BY <1>1
  <2> QED
    BY <2>1, <1>2, <1>3, <1>6
<1>8. ASSUME NEW k \in 1..Len(s)-j+1 PROVE (a \o b)[p + k] = s[j + k - 1]
  <2>1. p + k \in 1..p+(Len(s)-j+1) /\ ~(p + k <= p) /\ p + k - p = k
    BY <1>1
  <2>2. (a \o b)[p + k] = b[k]
    BY <2>1, <1>2, <1>3, <1>6
  <2> QED
    BY <2>2, <1>4
<1> QED
  BY <1>2, <1>3, <1>5, <1>6, <1>7, <1>8

\* A row keeps the values of all other columns, those behind the erased one
\* move by one place.
LEMMA RowWithoutColumn ==
  ASSUME NEW r \in Seq(Values), NEW c \in Nat, c < Len(r)
  PROVE  /\ RowWithout(r, c) \in Seq(Values)
         /\ Len(RowWithout(r, c)) = Len(r) - 1
         /\ \A k \in 0..Len(r)-1 :
              k # c => RowWithout(r, c)[Shifted(k, c) + 1] = r[k + 1]
<1> DEFINE t == RowWithout(r, c)
           p == (c + 1) - 1
           j == (c + 1) + 1
<1>1. p \in 0..Len(r) /\ j \in p+1..Len(r)+1 /\ Len(r) \in Nat
  OBVIOUS
<1>0. p = c /\ j = c + 2
  OBVIOUS
<1>2. t = Without(r, p, j)
  BY Zenon DEF RowWithout, RemoveAt, Without
<1> HIDE DEF t, p, j
<1>3. /\ t \in Seq(Values) /\ Len(t) = p + (Len(r) - j + 1)
      /\ \A k \in 1..p : t[k] = r[k]
      /\ \A k \in 1..Len(r)-j+1 : t[p + k] = r[j + k - 1]
  <2> DEFINE w == Without(r, p, j)
  <2>1. /\ w \in Seq(Values) /\ Len(w) = p + (Len(r) - j + 1)
        /\ \A k \in 1..p : w[k] = r[k]
        /\ \A k \in 1..Len(r)-j+1 : w[p + k] = r[j + k - 1]
    BY <1>1, WithoutElements
  <2> HIDE DEF w
  <2>2. t = w
    BY <1>2 DEF w
  <2> QED
    BY <2>1, <2>2
<1>4. Len(t) = Len(r) - 1
  BY <1>0, <1>1, <1>3
<1>5. ASSUME NEW k \in 0..Len(r)-1, k # c
      PROVE  t[Shifted(k, c) + 1] = r[k + 1]
  <2>1. CASE k < c
    <3>1. Shifted(k, c) + 1 = k + 1 /\ k + 1 \in 1..p
      BY <1>0, <1>1, <1>5, <2>1 DEF Shifted
    <3> QED
      BY <1>3, <3>1
  <2>2. CASE k > c
    <3> DEFINE m == k - c
    <3>1. Shifted(k, c) + 1 = p + m /\ m \in 1..Len(r)-j+1 /\ j + m - 1 = k + 1
      BY <1>0, <1>1, <1>5, <2>2 DEF Shifted
    <3> HIDE DEF m
    <3> QED
      BY <1>3, <3>1
  <2> QED
    BY <1>5, <2>1, <2>2
<1> QED
  BY <1>3, <1>4, <1>5 DEF t

\* The header map as the proofs use it: names have distinct indices, and each
\* column has a name.
LEMMA HeaderFacts ==
  ASSUME NEW D, NEW h \in [D -> Nat], NEW n \in Nat
  PROVE  h \in Bijection(D, 0..n-1) <=>
           /\ \A x \in D : h[x] < n
           /\ \A x, y \in D : h[x] = h[y] => x = y
           /\ \A i \in 0..n-1 : \E x \in D : h[x] = i
BY DEF Bijection, Injection, Surjection, IsInjective

LEMMA InitInv == Init => IInv
<1> SUFFICES ASSUME Init PROVE IInv
  OBVIOUS
<1>1. rows = <<>> /\ DOMAIN header = {} /\ header \in [{} -> Nat] /\ DOMAIN rows = {}
  BY DEF Init, NoHeader
<1>2. rows \in Seq(Seq(Values))
  BY <1>1
<1> QED
  BY <1>1, <1>2 DEF Init, IInv, TypeOK, HeadersFit, RowsFit, HollowInv

LEMMA AppendRowInv ==
  ASSUME IInv, NEW r \in Rows, AppendRow(r)
  PROVE  IInv'
<1>1. r \in Seq(Values) /\ Len(r) \in Nat
  BY TableAssumption DEF Rows
<1>2. /\ rows' \in Seq(Seq(Values)) /\ rows' # <<>> /\ Len(rows') = Len(rows) + 1
      /\ \A i \in DOMAIN rows' : rows'[i] = r \/ (i \in DOMAIN rows /\ rows'[i] = rows[i])
  BY <1>1 DEF AppendRow, IInv, TypeOK
<1>3. colCount' \in Nat /\ colCount' = Len(r) /\ (colCount # 0 => colCount' = colCount)
  BY <1>1 DEF AppendRow, IInv, TypeOK
<1>4. hollow' = (hollow \/ colCount' = 0)
  BY <1>2 DEF AppendRow, NoteHollow
<1>5. TypeOK'
  BY <1>2, <1>3, <1>4 DEF AppendRow, IInv, TypeOK
<1>6. HeadersFit'
  <2>1. CASE colCount = 0
    <3>1. DOMAIN header = {}
      <4>1. 0..colCount-1 = {}
        BY <2>1
      <4> QED
        BY <4>1 DEF IInv, HeadersFit, Bijection, Injection
    <3> QED
      BY <3>1 DEF AppendRow, HeadersFit
  <2>2. CASE colCount # 0
    BY <2>2, <1>3 DEF AppendRow, IInv, HeadersFit
  <2> QED
    BY <2>1, <2>2
<1>7. RowsFit'
  <2>1. \A i \in DOMAIN rows' : Len(rows'[i]) \in {0, colCount'}
    BY <1>2, <1>3 DEF IInv, RowsFit
  <2>2. ASSUME ~hollow'
        PROVE  defined' /\ \A i \in DOMAIN rows' : Len(rows'[i]) = colCount'
    <3>1. ~hollow /\ defined'
      BY <1>4, <2>2 DEF IInv, RowsFit, AppendRow
    <3>2. CASE colCount = 0
      <4>1. DOMAIN rows = {}
        BY <3>1, <3>2 DEF IInv, HollowInv
      <4> QED
        BY <4>1, <1>2, <1>3, <3>1
    <3>3. CASE colCount # 0
      BY <3>1, <3>3, <1>2, <1>3 DEF IInv, RowsFit
    <3> QED
      BY <3>2, <3>3
  <2> QED
    BY <2>1, <2>2 DEF RowsFit
<1>8. HollowInv'
  BY <1>4 DEF HollowInv
<1> QED
  BY <1>5, <1>6, <1>7, <1>8 DEF IInv

LEMMA EraseRowsInv ==
  ASSUME IInv, NEW first \in DOMAIN rows, NEW last \in first+1..Len(rows)+1,
         EraseRows(first, last)
  PROVE  IInv'
<1> DEFINE p == first - 1
<1>0. rows \in Seq(Seq(Values)) /\ DOMAIN rows = 1..Len(rows) /\ Len(rows) \in Nat
  BY DEF IInv, TypeOK
<1>1. p \in 0..Len(rows) /\ last \in p+1..Len(rows)+1
  BY <1>0
<1>2. rows' = Without(rows, p, last)
  BY DEF EraseRows, Without
<1> HIDE DEF p
<1>3. /\ rows' \in Seq(Seq(Values)) /\ Len(rows') = p + (Len(rows) - last + 1)
      /\ \A k \in 1..p : rows'[k] = rows[k]
      /\ \A k \in 1..Len(rows)-last+1 : rows'[p + k] = rows[last + k - 1]
  <2> DEFINE w == Without(rows, p, last)
             R == Seq(Values)
  <2>0. rows \in Seq(R)
    BY <1>0
  <2> HIDE DEF R
  <2>1. /\ w \in Seq(R) /\ Len(w) = p + (Len(rows) - last + 1)
        /\ \A k \in 1..p : w[k] = rows[k]
        /\ \A k \in 1..Len(rows)-last+1 : w[p + k] = rows[last + k - 1]
    BY <2>0, <1>1, WithoutElements
  <2> HIDE DEF w
  <2>2. rows' = w
    BY <1>2 DEF w
  <2> QED
    BY <2>1, <2>2 DEF R
<1>5. \A i \in DOMAIN rows' : \E j \in DOMAIN rows : rows'[i] = rows[j]
  <2> SUFFICES ASSUME NEW i \in DOMAIN rows' PROVE \E j \in DOMAIN rows : rows'[i] = rows[j]
    OBVIOUS
  <2>1. i \in 1..p+(Len(rows)-last+1)
    BY <1>3
  <2>2. CASE i <= p
    <3>1. i \in 1..p /\ i \in DOMAIN rows
      BY <1>0, <1>1, <2>1, <2>2
    <3> QED
      BY <1>3, <3>1
  <2>3. CASE i > p
    <3> DEFINE m == i - p
    <3>1. m \in 1..Len(rows)-last+1
      BY <1>0, <1>1, <2>1, <2>3
    <3>2. p + m = i
      BY <1>0, <1>1, <2>1
    <3>3. last + m - 1 \in DOMAIN rows
      BY <1>0, <1>1, <3>1
    <3> HIDE DEF m
    <3> QED
      BY <1>3, <3>1, <3>2, <3>3
  <2> QED
    BY <1>0, <1>1, <2>1, <2>2, <2>3
<1>6. rows # <<>>
  BY <1>0
<1> QED
  BY <1>3, <1>5, <1>6 DEF EraseRows, IInv, TypeOK, HeadersFit, RowsFit, HollowInv

LEMMA SetHeaderOfInv ==
  ASSUME IInv, NEW c \in 0..colCount-1, NEW new, SetHeaderOf(c, new)
  PROVE  IInv'
<1>1. PICK old \in DOMAIN header :
        /\ header[old] = c
        /\ header' = [n \in (DOMAIN header \ {old}) \cup {new} |->
                        IF n = new THEN c ELSE header[n]]
  BY DEF SetHeaderOf
<1>2. /\ new \in Names /\ new \notin DOMAIN header
      /\ UNCHANGED <<colCount, rows, defined, hollow>>
  BY DEF SetHeaderOf
<1>3. /\ DOMAIN header' = (DOMAIN header \ {old}) \cup {new}
      /\ header'[new] = c /\ \A x \in DOMAIN header \ {old} : header'[x] = header[x]
  BY <1>1, <1>2
<1>4. colCount \in Nat /\ c \in Nat /\ c < colCount /\ header \in [DOMAIN header -> Nat]
  BY DEF IInv, TypeOK
<1>5. header' \in [DOMAIN header' -> Nat]
  BY <1>1, <1>4
<1>6. HeadersFit'
  <2>1. /\ \A x \in DOMAIN header : header[x] < colCount
        /\ \A x, y \in DOMAIN header : header[x] = header[y] => x = y
        /\ \A i \in 0..colCount-1 : \E x \in DOMAIN header : header[x] = i
    BY <1>1, <1>4, HeaderFacts DEF IInv, HeadersFit
  <2>2. \A x \in DOMAIN header' : header'[x] < colCount
    BY <1>3, <1>4, <2>1
  <2>3. \A x, y \in DOMAIN header' : header'[x] = header'[y] => x = y
    BY <1>1, <1>3, <2>1
  <2>4. \A i \in 0..colCount-1 : \E x \in DOMAIN header' : header'[x] = i
    BY <1>1, <1>3, <2>1
  <2>5. header' \in Bijection(DOMAIN header', 0..colCount-1)
    BY <1>4, <1>5, <2>2, <2>3, <2>4, HeaderFacts
  <2> QED
    BY <1>2, <2>5 DEF HeadersFit
<1>7. TypeOK'
  BY <1>2, <1>3, <1>5 DEF IInv, TypeOK
<1> QED
  BY <1>2, <1>6, <1>7 DEF IInv, RowsFit, HollowInv

LEMMA SetHeaderInv ==
  ASSUME IInv, NEW hs \in HeaderLists, SetHeader(hs)
  PROVE  IInv'
<1>1. /\ hs \in Seq(Names) /\ Len(hs) \in Nat /\ DOMAIN hs = 1..Len(hs)
      /\ \A i, j \in 1..Len(hs) : hs[i] = hs[j] => i = j
  <2>1. hs \in Seq(Names \cup {Invalid}) /\ Len(hs) \in Nat /\ DOMAIN hs = 1..Len(hs)
    BY TableAssumption DEF HeaderLists
  <2>2. \A i \in DOMAIN hs : hs[i] \in Names
    BY <2>1 DEF SetHeader
  <2>3. \A i, j \in 1..Len(hs) : hs[i] = hs[j] => i = j
    BY <2>1 DEF SetHeader, IsInjective
  <2> QED
    BY <2>1, <2>2, <2>3
<1> DEFINE H == {hs[i] : i \in DOMAIN hs}
<1>2. /\ header' = [n \in H |-> IndexIn(hs, n)] /\ colCount' = Len(hs)
      /\ UNCHANGED <<rows, defined>>
      /\ hollow' = (hollow \/ (colCount' = 0 /\ rows' # <<>>))
      /\ (colCount > 0 => Len(hs) = colCount)
  BY DEF SetHeader, NoteHollow
<1>3. ASSUME NEW i \in 1..Len(hs) PROVE IndexIn(hs, hs[i]) = i - 1
  <2> DEFINE P(k) == hs[k] = hs[i] /\ \A j \in 1..k-1 : hs[j] # hs[i]
  <2>1. P(i)
    BY <1>1
  <2>2. \A k \in 1..Len(hs) : P(k) => k = i
    BY <1>1
  <2>3. (CHOOSE k \in DOMAIN hs : P(k)) = i
    <3> HIDE DEF P
    <3> QED
      BY <1>1, <2>1, <2>2
  <2> QED
    BY <2>3, Zenon DEF IndexIn
<1>4. DOMAIN header' = H /\ H \subseteq Names
  BY <1>1, <1>2
<1>5. \A x \in H : \E i \in 1..Len(hs) : x = hs[i] /\ header'[x] = i - 1
  BY <1>1, <1>2, <1>3
<1>6. \A i \in 1..Len(hs) : hs[i] \in H /\ header'[hs[i]] = i - 1
  BY <1>1, <1>2, <1>3
<1> HIDE DEF H
<1>7. header' \in [H -> Nat]
  <2>1. \A x \in H : header'[x] \in Nat
    BY <1>1, <1>5
  <2> QED
    BY <1>2, <2>1
<1>8. HeadersFit'
  <2>1. \A x \in H : header'[x] < Len(hs)
    BY <1>1, <1>5
  <2>2. \A x, y \in H : header'[x] = header'[y] => x = y
    <3> SUFFICES ASSUME NEW x \in H, NEW y \in H, header'[x] = header'[y] PROVE x = y
      OBVIOUS
    <3>1. PICK i \in 1..Len(hs) : x = hs[i] /\ header'[x] = i - 1
      BY <1>5
    <3>2. PICK j \in 1..Len(hs) : y = hs[j] /\ header'[y] = j - 1
      BY <1>5
    <3>3. i = j
      BY <1>1, <3>1, <3>2
    <3> QED
      BY <3>1, <3>2, <3>3
  <2>3. \A i \in 0..Len(hs)-1 : \E x \in H : header'[x] = i
    <3> SUFFICES ASSUME NEW i \in 0..Len(hs)-1 PROVE \E x \in H : header'[x] = i
      OBVIOUS
    <3>1. i + 1 \in 1..Len(hs) /\ (i + 1) - 1 = i
      BY <1>1
    <3> QED
      BY <3>1, <1>6
  <2>4. header' \in Bijection(H, 0..Len(hs)-1)
    BY <1>1, <1>7, <2>1, <2>2, <2>3, HeaderFacts
  <2> QED
    BY <1>2, <1>4, <2>4 DEF HeadersFit
<1>9. TypeOK'
  BY <1>1, <1>2, <1>4, <1>7 DEF IInv, TypeOK
<1>10. RowsFit'
  <2>1. CASE colCount > 0
    BY <1>2, <2>1 DEF IInv, RowsFit
  <2>2. CASE colCount = 0
    <3>1. \A i \in DOMAIN rows : Len(rows[i]) = 0
      BY <2>2 DEF IInv, RowsFit
    <3>2. ~hollow => DOMAIN rows = {}
      BY <2>2 DEF IInv, HollowInv
    <3> QED
      BY <1>2, <3>1, <3>2 DEF IInv, RowsFit
  <2> QED
    BY <2>1, <2>2 DEF IInv, TypeOK
<1> QED
  BY <1>2, <1>8, <1>9, <1>10 DEF IInv, HollowInv

\* In a state of the invariant a column can be erased from all rows or from none.
LEMMA EraseColumnFacts ==
  ASSUME IInv, NEW c \in 0..colCount-1, EraseColumn(c),
         ~\E i \in DOMAIN rows : Len(rows[i]) <= c
  PROVE  /\ rows' = [i \in DOMAIN rows |-> RowWithout(rows[i], c)]
         /\ header' = [n \in {m \in DOMAIN header : header[m] # c} |->
                         Shifted(header[n], c)]
         /\ colCount' = colCount - 1
         /\ hollow' = (hollow \/ (colCount' = 0 /\ rows' # <<>>))
         /\ defined' = defined
         /\ \A i \in DOMAIN rows : rows[i] \in Seq(Values) /\ c < Len(rows[i])
<1>1. \A i \in DOMAIN rows : rows[i] \in Seq(Values) /\ Len(rows[i]) \in Nat
  BY DEF IInv, TypeOK
<1>2. c \in Int
  OBVIOUS
<1>3. \A i \in DOMAIN rows : c < Len(rows[i])
  BY <1>1, <1>2
<1> QED
  BY <1>1, <1>3 DEF EraseColumn, HeaderWithout, NoteHollow

LEMMA EraseColumnInv ==
  ASSUME IInv, NEW c \in 0..colCount-1, EraseColumn(c)
  PROVE  IInv'
<1>1. CASE \E i \in DOMAIN rows : Len(rows[i]) <= c
  <2>1. PICK i \in DOMAIN rows : Len(rows[i]) <= c
    BY <1>1
  <2>2. Len(rows[i]) # colCount
    BY <2>1 DEF IInv, TypeOK
  <2>3. hollow
    BY <2>2 DEF IInv, RowsFit
  <2>4. defined' = FALSE /\ UNCHANGED <<colCount, rows, header, hollow>>
    BY <1>1 DEF EraseColumn
  <2> QED
    BY <2>3, <2>4 DEF IInv, TypeOK, HeadersFit, RowsFit, HollowInv
<1>2. CASE ~\E i \in DOMAIN rows : Len(rows[i]) <= c
  <2> DEFINE D == {m \in DOMAIN header : header[m] # c}
  <2>1. /\ rows' = [i \in DOMAIN rows |-> RowWithout(rows[i], c)]
        /\ header' = [n \in D |-> Shifted(header[n], c)]
        /\ colCount' = colCount - 1
        /\ hollow' = (hollow \/ (colCount' = 0 /\ rows' # <<>>))
        /\ defined' = defined
        /\ \A i \in DOMAIN rows : rows[i] \in Seq(Values) /\ c < Len(rows[i])
    BY <1>2, EraseColumnFacts
  <2>2. /\ c \in Nat /\ colCount \in Nat /\ c < colCount
        /\ rows \in Seq(Seq(Values)) /\ DOMAIN rows = 1..Len(rows) /\ Len(rows) \in Nat
        /\ header \in [DOMAIN header -> Nat] /\ DOMAIN header \subseteq Names
    BY DEF IInv, TypeOK
  <2>3. \A i \in DOMAIN rows :
          RowWithout(rows[i], c) \in Seq(Values)
            /\ Len(RowWithout(rows[i], c)) = Len(rows[i]) - 1
    BY <2>1, <2>2, RowWithoutColumn
  <2>4. rows' \in Seq(Seq(Values)) /\ DOMAIN rows' = DOMAIN rows
    BY <2>1, <2>2, <2>3
  <2>5. \A i \in DOMAIN rows : Len(rows[i]) = colCount
    BY <2>1, <2>2 DEF IInv, RowsFit
  <2>6. \A i \in DOMAIN rows' : Len(rows'[i]) = colCount'
    BY <2>1, <2>3, <2>4, <2>5
  <2>7. RowsFit'
    BY <2>1, <2>6 DEF IInv, RowsFit
  <2>8. HollowInv'
    BY <2>1 DEF HollowInv
  <2>9. DOMAIN header' = D /\ \A n \in D : header'[n] = Shifted(header[n], c)
    BY <2>1
  <2>10. \A n \in D : /\ n \in DOMAIN header /\ header[n] # c /\ header[n] \in Nat
                      /\ Shifted(header[n], c) \in Nat
    BY <2>2 DEF Shifted
  <2>11. header' \in [D -> Nat] /\ D \subseteq Names
    BY <2>1, <2>2, <2>10
  <2>12. TypeOK'
    BY <2>1, <2>2, <2>4, <2>9, <2>11 DEF IInv, TypeOK
  <2> HIDE DEF D
  <2>13. ASSUME D # {} PROVE header' \in Bijection(D, 0..colCount'-1)
    <3>1. /\ \A x \in DOMAIN header : header[x] < colCount
          /\ \A x, y \in DOMAIN header : header[x] = header[y] => x = y
          /\ \A i \in 0..colCount-1 : \E x \in DOMAIN header : header[x] = i
      BY <2>2, <2>10, <2>13, HeaderFacts DEF IInv, HeadersFit
    <3>2. \A x \in D : header'[x] < colCount'
      BY <2>1, <2>2, <2>9, <2>10, <3>1 DEF Shifted
    <3>3. \A x, y \in D : header'[x] = header'[y] => x = y
      BY <2>2, <2>9, <2>10, <3>1 DEF Shifted
    <3>4. ASSUME NEW i \in 0..colCount'-1 PROVE \E x \in D : header'[x] = i
      <4> DEFINE j == IF i < c THEN i ELSE i + 1
      <4>1. j \in 0..colCount-1 /\ j # c /\ Shifted(j, c) = i
        BY <2>1, <2>2 DEF Shifted
      <4> HIDE DEF j
      <4>2. PICK x \in DOMAIN header : header[x] = j
        BY <3>1, <4>1
      <4>3. x \in D
        BY <4>1, <4>2 DEF D
      <4> QED
        BY <2>9, <4>1, <4>2, <4>3
    <3>5. colCount' \in Nat
      BY <2>1, <2>2
    <3> QED
      BY <2>11, <3>2, <3>3, <3>4, <3>5, HeaderFacts
  <2>14. HeadersFit'
    BY <2>9, <2>13 DEF HeadersFit
  <2> QED
    BY <2>7, <2>8, <2>12, <2>14 DEF IInv
<1> QED
  BY <1>1, <1>2

LEMMA StepInv == IInv /\ [Next]_vars => IInv'
<1>1. CASE UNCHANGED vars
  BY <1>1 DEF IInv, TypeOK, HeadersFit, RowsFit, HollowInv, vars
<1>2. ASSUME IInv, Next PROVE IInv'
  BY <1>2, AppendRowInv, EraseRowsInv, SetHeaderOfInv, SetHeaderInv, EraseColumnInv
     DEF Next
<1> QED
  BY <1>1, <1>2

\* The inductive invariant of the table.
THEOREM Invariant == Spec => []IInv
BY InitInv, StepInv, PTL DEF Spec

\* Type correctness.
THEOREM TypeCorrect == Spec => []TypeOK
<1>1. IInv => TypeOK
  BY DEF IInv
<1> QED
  BY Invariant, <1>1, PTL

\* Each column has exactly one header, or none has one.
THEOREM OneHeaderPerColumn == Spec => []HeadersFit
<1>1. IInv => HeadersFit
  BY DEF IInv
<1> QED
  BY Invariant, <1>1, PTL

\* All rows have the same number of columns unless there have been rows without
\* columns, and no iterator leaves its row.
THEOREM RowsHaveEqualLength == Spec => []RowsFit
<1>1. IInv => RowsFit
  BY DEF IInv
<1> QED
  BY Invariant, <1>1, PTL

\* Header index, column count and rows fit each other, for any table.
THEOREM TableAlwaysFits == Spec => []TableFits
<1>1. HeadersFit /\ RowsFit => TableFits
  BY DEF TableFits
<1> QED
  BY OneHeaderPerColumn, RowsHaveEqualLength, <1>1, PTL

\* Of the steps only eraseColumn() reduces the number of columns.
LEMMA ErasesStep ==
  ASSUME IInv, [Next]_vars, colCount' < colCount, ~hollow,
         NEW n \in DOMAIN header'
  PROVE  n \in DOMAIN header /\ Column(rows', header', n) = Column(rows, header, n)
<1>1. PICK c \in 0..colCount-1 : EraseColumn(c)
  <2>0. colCount \in Nat
    BY DEF IInv, TypeOK
  <2>1. CASE UNCHANGED vars
    BY <2>0, <2>1 DEF vars
  <2>2. ASSUME NEW r \in Rows, AppendRow(r) PROVE FALSE
    <3>1. Len(r) \in Nat
      BY TableAssumption DEF Rows
    <3> QED
      BY <2>0, <2>2, <3>1 DEF AppendRow
  <2>3. ASSUME NEW first, NEW last, EraseRows(first, last) PROVE FALSE
    BY <2>0, <2>3 DEF EraseRows
  <2>4. ASSUME NEW c, NEW new, SetHeaderOf(c, new) PROVE FALSE
    BY <2>0, <2>4 DEF SetHeaderOf
  <2>5. ASSUME NEW hs \in HeaderLists, SetHeader(hs) PROVE FALSE
    <3>1. Len(hs) \in Nat
      BY TableAssumption DEF HeaderLists
    <3> QED
      BY <2>0, <2>5, <3>1 DEF SetHeader
  <2> QED
    BY <2>1, <2>2, <2>3, <2>4, <2>5 DEF Next
<1>2. /\ c \in Nat /\ colCount \in Nat /\ \A i \in DOMAIN rows : Len(rows[i]) = colCount
      /\ header \in [DOMAIN header -> Nat]
  BY DEF IInv, TypeOK, RowsFit
<1>3. ~\E i \in DOMAIN rows : Len(rows[i]) <= c
  BY <1>2
<1>4. /\ rows' = [i \in DOMAIN rows |-> RowWithout(rows[i], c)]
      /\ header' = [m \in {k \in DOMAIN header : header[k] # c} |->
                      Shifted(header[m], c)]
      /\ \A i \in DOMAIN rows : rows[i] \in Seq(Values) /\ c < Len(rows[i])
  BY <1>1, <1>3, EraseColumnFacts
<1>5. n \in DOMAIN header /\ header[n] # c /\ header'[n] = Shifted(header[n], c)
  BY <1>4
<1>6. header[n] \in 0..colCount-1
  <2>1. header[n] < colCount
    BY <1>2, <1>5, HeaderFacts DEF IInv, HeadersFit
  <2> QED
    BY <1>2, <1>5, <2>1
<1>7. DOMAIN rows' = DOMAIN rows
  BY <1>4
<1>8. ASSUME NEW i \in DOMAIN rows
      PROVE  rows'[i][header'[n] + 1] = rows[i][header[n] + 1]
  <2>1. rows'[i] = RowWithout(rows[i], c) /\ header[n] \in 0..Len(rows[i])-1
    BY <1>2, <1>4, <1>6
  <2>2. RowWithout(rows[i], c)[Shifted(header[n], c) + 1] = rows[i][header[n] + 1]
    BY <1>2, <1>4, <1>5, <2>1, RowWithoutColumn
  <2> QED
    BY <1>5, <2>1, <2>2
<1> QED
  BY <1>5, <1>7, <1>8 DEF Column

\* Erasing a column leaves the other columns and their names together.
THEOREM ErasedColumnOnly == Spec => ErasesNothingElse
<1>1. IInv /\ [Next]_vars =>
        [(colCount' < colCount /\ ~hollow) =>
           \A n \in DOMAIN header' :
             n \in DOMAIN header
               /\ Column(rows', header', n) = Column(rows, header, n)]_vars
  BY ErasesStep
<1> QED
  BY Invariant, <1>1, PTL DEF Spec, ErasesNothingElse

=============================================================================
