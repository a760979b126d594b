----------------------- MODULE TemplateMeaning_proofs -----------------------
(***************************************************************************)
(* get() of a TemplateStore returns what the texts mean: for any files,     *)
(* dictionaries, string lists and requests, and any nesting of blocks and   *)
(* templates.                                                               *)
(*                                                                          *)
(* The argument has four parts.  Every piece of a text stands for a text.   *)
(* The meaning, which is defined on the text, can be read off the tree:     *)
(* From(r, x, scope) is what the items from x to the end of their block     *)
(* produce.  Remains and Below say the same of an activation in the middle  *)
(* of its work, with the rounds left of its loops, and of all that wait     *)
(* below it.  The invariant MeaningInv: what a call has produced, followed  *)
(* by what its activations have still to produce, is what the template      *)
(* means.                                                                   *)
(***************************************************************************)
EXTENDS Texts_proofs

-----------------------------------------------------------------------------
(***************************************************************************)
(* Texts put behind one another, whatever they are made of.                 *)
(***************************************************************************)

\* Two texts are texts over the symbols of both.
LEMMA CommonSymbols ==
  ASSUME NEW a, IsSeq(a), NEW b, IsSeq(b)
  PROVE  \E S : a \in Seq(S) /\ b \in Seq(S)
<1> DEFINE A == {a[i] : i \in DOMAIN a}
           B == {b[i] : i \in DOMAIN b}
           S == A \cup B
<1>1. a \in Seq(A) /\ b \in Seq(B)
  BY DEF IsSeq
<1>2. A \subseteq S /\ B \subseteq S
  OBVIOUS
<1> HIDE DEF A, B, S
<1>3. a \in Seq(S) /\ b \in Seq(S)
  BY <1>1, <1>2, SeqMonotonic
<1> QED BY <1>3

\* Joining two texts.
LEMMA ConcatSeq ==
  ASSUME NEW a, IsSeq(a), NEW b, IsSeq(b)
  PROVE  /\ IsSeq(a \o b) /\ Len(a \o b) = Len(a) + Len(b)
         /\ Len(a) \in Nat /\ Len(b) \in Nat
         /\ \A i \in 1..Len(a) : (a \o b)[i] = a[i]
         /\ \A i \in 1..Len(b) : (a \o b)[Len(a) + i] = b[i]
<1>1. PICK S : a \in Seq(S) /\ b \in Seq(S)
  BY CommonSymbols
<1>2. /\ a \o b \in Seq(S) /\ Len(a \o b) = Len(a) + Len(b)
      /\ \A i \in 1..Len(a)+Len(b) : (a \o b)[i] = IF i <= Len(a) THEN a[i] ELSE b[i - Len(a)]
  BY <1>1, ConcatProperties
<1>3. IsSeq(a \o b) /\ Len(a) \in Nat /\ Len(b) \in Nat
  BY <1>1, <1>2, SeqIsSeq
<1>4. \A i \in 1..Len(a) : i \in 1..Len(a)+Len(b) /\ i <= Len(a)
  BY <1>3
<1>5. \A i \in 1..Len(b) : /\ Len(a) + i \in 1..Len(a)+Len(b) /\ ~(Len(a) + i <= Len(a))
                           /\ (Len(a) + i) - Len(a) = i
  BY <1>3
<1>6. \A i \in 1..Len(b) : (a \o b)[Len(a) + i] = b[i]
  BY <1>2, <1>5
<1> QED BY <1>2, <1>3, <1>4, <1>6

\* The order of joining three texts does not matter.
LEMMA ConcatThree ==
  ASSUME NEW a, IsSeq(a), NEW b, IsSeq(b), NEW c, IsSeq(c)
  PROVE  (a \o b) \o c = a \o (b \o c)
<1>1. PICK S : a \in Seq(S) /\ b \in Seq(S)
  BY CommonSymbols
<1>2. PICK T : b \in Seq(T) /\ c \in Seq(T)
  BY CommonSymbols
<1>3. S \subseteq S \cup T /\ T \subseteq S \cup T
  OBVIOUS
<1>4. a \in Seq(S \cup T) /\ b \in Seq(S \cup T) /\ c \in Seq(S \cup T)
  BY <1>1, <1>2, <1>3, SeqMonotonic
<1> QED BY <1>4, ConcatAssociative

\* Nothing, and a single piece.
LEMMA ShortSeqs ==
  /\ IsSeq(<<>>) /\ Len(<<>>) = 0
  /\ \A e : IsSeq(<<e>>) /\ Len(<<e>>) = 1 /\ <<e>>[1] = e /\ <<e>> # <<>>
  /\ \A a : IsSeq(a) => a \o <<>> = a /\ <<>> \o a = a
<1>1. IsSeq(<<>>) /\ Len(<<>>) = 0
  BY EmptyFits, EmptySeq DEF StackFits
<1>2. ASSUME NEW e PROVE IsSeq(<<e>>) /\ Len(<<e>>) = 1 /\ <<e>>[1] = e /\ <<e>> # <<>>
  <2>1. <<e>> \in Seq({e}) /\ Len(<<e>>) = 1 /\ <<e>>[1] = e
    OBVIOUS
  <2> QED BY <2>1, SeqIsSeq
<1>3. ASSUME NEW a, IsSeq(a) PROVE a \o <<>> = a /\ <<>> \o a = a
  <2>1. PICK S : a \in Seq(S)
    BY <1>3 DEF IsSeq
  <2> QED BY <2>1, ConcatEmptySeq
<1> QED BY <1>1, <1>2, <1>3

-----------------------------------------------------------------------------
(***************************************************************************)
(* What a text means, piece by piece.                                       *)
(***************************************************************************)

\* In a well-nested text every block has its end.
LEMMA CloserExists ==
  ASSUME NEW s, IsText(s), Nested(s), NEW i \in 1..Len(s), s[i].k \in Opener
  PROVE  Closer(s, i) \in i+1..Len(s)
<1> DEFINE n == Len(s)
           depth(j) == Len(Opened(s)[j])
           W == {j \in i+1..n : depth(j) < depth(i)}
<1>1. n \in Nat /\ \A j \in 0..n : depth(j) \in Nat
  BY OpenedLengths DEF IsText
<1>2. depth(i) # 0
  <2> DEFINE before == Opened(s)[i - 1]
  <2>1. Opened(s)[i] = OpenedBy(s[i].k, before) /\ i - 1 \in 0..n
    BY <1>1, OpenedSteps
  <2>2. before \in Seq(Opener \cup {"error"})
    BY <2>1, OpenedLengths
  <2> HIDE DEF before
  <2>3. Opened(s)[i] = Append(before, s[i].k)
    BY <2>1 DEF OpenedBy
  <2>4. Len(Opened(s)[i]) = Len(before) + 1 /\ Len(before) \in Nat
    BY <2>2, <2>3, AppendProperties
  <2> QED BY <2>4
<1>3. depth(n) = 0
  BY EmptySeq DEF Nested
<1> HIDE DEF n, depth
<1>4. n \in W
  <2>1. i \in 1..n /\ n # i
    BY <1>2, <1>3 DEF n
  <2>2. depth(i) \in Nat
    BY <1>1, <2>1
  <2> QED BY <1>1, <1>2, <1>3, <2>1, <2>2
<1>5. W \in SUBSET Nat
  <2>1. i \in Nat
    OBVIOUS
  <2> QED BY <1>1, <2>1
<1>6. PICK j \in W : \A l \in W : j <= l
  <2> HIDE DEF W
  <2> QED BY <1>4, <1>5, LeastNat
<1>7. \A k \in i..j-1 : depth(k) >= depth(i)
  <2> SUFFICES ASSUME NEW k \in i..j-1 PROVE depth(k) >= depth(i)
    OBVIOUS
  <2>1. i \in Nat /\ i \in 0..n /\ k \in 0..n /\ j \in i+1..n
    BY <1>1, <1>6
  <2>2. depth(k) \in Nat /\ depth(i) \in Nat
    BY <1>1, <2>1
  <2>3. CASE k = i
    BY <2>2, <2>3
  <2>4. CASE k # i
    <3>1. k \in i+1..n /\ ~(j <= k)
      BY <1>1, <2>1, <2>4
    <3>2. k \notin W
      BY <1>6, <3>1
    <3> QED BY <2>2, <3>1, <3>2
  <2> QED BY <2>3, <2>4
<1>8. j \in i+1..n /\ depth(j) < depth(i)
  BY <1>6
<1>9. Closer(s, i) = CHOOSE l \in i+1..n : /\ depth(l) < depth(i)
                                           /\ \A k \in i..l-1 : depth(k) >= depth(i)
  BY DEF Closer, depth, n
<1> HIDE DEF W
<1> QED BY <1>7, <1>8, <1>9 DEF n

\* Every opening token has its end: what the meaning of a text is defined by.
Ended(s) ==
    /\ Len(s) \in Nat
    /\ \A i \in 1..Len(s) : s[i].k \in Opener => Closer(s, i) \in i+1..Len(s)

\* The piece that token or text i ends with.
EndOf(s, i) == IF s[i].k \in Opener THEN Closer(s, i) ELSE i

\* One step of Meaning().
MeaningFrom(env, s, sub, i, scope, m) ==
    IF i > Len(s) THEN <<>>
    ELSE IF s[i].k \in DOMAIN Begin THEN <<>>
    ELSE Piece(env, s, sub, i, scope, m[i + 1]) \o m[EndOf(s, i) + 1][scope]

\* The meaning of a text is what its recursive definition says.
LEMMA MeaningSteps ==
  ASSUME NEW s, Ended(s), NEW env, NEW sub
  PROVE  \A i \in 1..Len(s)+1 : \A scope \in Scopes :
           Meaning(env, s, sub)[i][scope]
             = MeaningFrom(env, s, sub, i, scope, Meaning(env, s, sub))
<1> DEFINE n == Len(s)
           Step(f, i) == [scope \in Scopes |-> MeaningFrom(env, s, sub, i, scope, f)]
           D(m) == n+1-m..n+1
           Is(f, m) == f = [i \in D(m) |-> Step(f, i)]
           T == {m \in 0..n : \E f : Is(f, m)}
<1>1. n \in Nat
  BY DEF Ended
<1>2. ASSUME NEW m \in 0..n, NEW f, NEW g, NEW i \in D(m),
             \A j \in D(m) : j > i => f[j] = g[j]
      PROVE  Step(f, i) = Step(g, i)
  <2> SUFFICES ASSUME NEW scope \in Scopes
               PROVE  MeaningFrom(env, s, sub, i, scope, f)
                        = MeaningFrom(env, s, sub, i, scope, g)
    OBVIOUS
  <2>1. CASE i > n
    BY <2>1 DEF MeaningFrom
  <2>2. CASE ~(i > n)
    <3>1. i \in 1..n /\ i + 1 \in D(m) /\ i + 1 > i
      BY <1>1, <2>2
    <3>2. EndOf(s, i) \in i..n
      BY <3>1 DEF Ended, EndOf
    <3>3. EndOf(s, i) + 1 \in D(m) /\ EndOf(s, i) + 1 > i
      BY <1>1, <3>1, <3>2
    <3>4. f[i + 1] = g[i + 1] /\ f[EndOf(s, i) + 1] = g[EndOf(s, i) + 1]
      BY <1>2, <3>1, <3>3
    <3> QED BY <3>4 DEF MeaningFrom
  <2> QED BY <2>1, <2>2
<1>3. 0 \in T
  <2> DEFINE f == [i \in D(0) |-> [scope \in Scopes |-> <<>>]]
  <2>1. \A i \in D(0) : i > n
    BY <1>1
  <2>2. \A i \in D(0) : f[i] = Step(f, i)
    <3> SUFFICES ASSUME NEW i \in D(0) PROVE f[i] = Step(f, i)
      OBVIOUS
    <3>1. f[i] = [scope \in Scopes |-> <<>>]
      OBVIOUS
    <3>2. \A scope \in Scopes : MeaningFrom(env, s, sub, i, scope, f) = <<>>
      BY <2>1 DEF MeaningFrom
    <3> HIDE DEF f
    <3> QED BY <3>1, <3>2
  <2>3. f = [i \in D(0) |-> f[i]]
    OBVIOUS
  <2> HIDE DEF f, D, Step
  <2>4. Is(f, 0)
    BY <2>2, <2>3
  <2> QED BY <2>4, <1>1
<1>4. ASSUME NEW m \in 0..n-1, m \in T PROVE m + 1 \in T
  <2>1. PICK f : Is(f, m)
    BY <1>4
  <2> DEFINE k == n - m
             g == [i \in D(m + 1) |-> IF i = k THEN Step(f, k) ELSE f[i]]
  <2>2. /\ k \in D(m + 1) /\ k \notin D(m) /\ m + 1 \in 0..n /\ m \in 0..n
        /\ \A i \in D(m + 1) : i = k \/ i \in D(m)
        /\ \A i \in D(m) : i \in D(m + 1) /\ i # k
        /\ \A j \in D(m + 1) : j > k => j \in D(m)
    BY <1>1, <1>4
  <2> HIDE DEF D, k, Step
  <2>3. \A i \in D(m) : g[i] = f[i]
    BY <2>2
  <2>4. g[k] = Step(f, k)
    BY <2>2
  <2> HIDE DEF g
  <2>5. Step(f, k) = Step(g, k)
    BY <1>2, <2>2, <2>3
  <2>6. \A i \in D(m) : Step(f, i) = Step(g, i)
    BY <1>2, <2>2, <2>3
  <2>7. \A i \in D(m) : f[i] = Step(f, i)
    BY <2>1
  <2>8. g = [i \in D(m + 1) |-> g[i]]
    BY DEF g
  <2>9. \A i \in D(m + 1) : g[i] = Step(g, i)
    BY <2>2, <2>3, <2>4, <2>5, <2>6, <2>7
  <2>10. Is(g, m + 1)
    BY <2>8, <2>9
  <2> HIDE DEF Is
  <2> QED BY <2>2, <2>10
<1>5. \E f : Is(f, n)
  <2> HIDE DEF Is
  <2>1. n \in 0..n
    BY <1>1
  <2>2. 0..n \subseteq T
    <3> HIDE DEF T
    <3> QED BY <1>1, <1>3, <1>4, SetInduction
  <2> QED BY <2>1, <2>2
<1>6. D(n) = 1..n+1
  BY <1>1
<1>7. Meaning(env, s, sub) = [i \in 1..n+1 |-> Step(Meaning(env, s, sub), i)]
  <2> DEFINE Js(f) == f = [i \in 1..n+1 |-> Step(f, i)]
  <2>1. \E f : Js(f)
    <3> HIDE DEF D, Step
    <3> QED BY <1>5, <1>6
  <2>2. Meaning(env, s, sub) = CHOOSE f : Js(f)
    BY DEF Meaning, MeaningFrom, EndOf
  <2> HIDE DEF Js
  <2>3. Js(Meaning(env, s, sub))
    BY <2>1, <2>2
  <2> QED BY <2>3 DEF Js
<1> DEFINE M == Meaning(env, s, sub)
<1> HIDE DEF M
<1>8. M = [i \in 1..n+1 |-> Step(M, i)]
  BY <1>7 DEF M
<1>9. ASSUME NEW i \in 1..n+1, NEW scope \in Scopes
      PROVE  M[i][scope] = MeaningFrom(env, s, sub, i, scope, M)
  <2>1. M[i] = Step(M, i)
    BY <1>8
  <2> QED BY <2>1
<1> QED BY <1>9 DEF M

\* The joined texts are what the recursive definition of Joined() says.
LEMMA JoinedSteps ==
  ASSUME NEW texts, Len(texts) \in Nat
  PROVE  /\ Joined(texts)[Len(texts) + 1] = <<>>
         /\ \A i \in 1..Len(texts) : Joined(texts)[i] = texts[i] \o Joined(texts)[i + 1]
<1> DEFINE n == Len(texts)
           Step(f, i) == IF i > n THEN <<>> ELSE texts[i] \o f[i + 1]
           D(m) == n+1-m..n+1
           Is(f, m) == f = [i \in D(m) |-> Step(f, i)]
           T == {m \in 0..n : \E f : Is(f, m)}
<1>1. n \in Nat
  OBVIOUS
<1> HIDE DEF n
<1>2. 0 \in T
  <2> DEFINE f == [i \in D(0) |-> <<>>]
  <2>1. \A i \in D(0) : i > n
    BY <1>1
  <2>2. \A i \in D(0) : f[i] = Step(f, i)
    BY <2>1
  <2>3. f = [i \in D(0) |-> f[i]]
    OBVIOUS
  <2> HIDE DEF f, D, Step
  <2>4. Is(f, 0)
    BY <2>2, <2>3
  <2> QED BY <2>4, <1>1
<1>3. ASSUME NEW m \in 0..n-1, m \in T PROVE m + 1 \in T
  <2>1. PICK f : Is(f, m)
    BY <1>3
  <2> DEFINE k == n - m
             g == [i \in D(m + 1) |-> IF i = k THEN Step(f, k) ELSE f[i]]
  <2>2. /\ k \in D(m + 1) /\ k \notin D(m) /\ m + 1 \in 0..n
        /\ \A i \in D(m + 1) : i = k \/ i \in D(m)
        /\ \A i \in D(m) : i \in D(m + 1) /\ i # k
        /\ \A i \in D(m + 1) : i > n \/ i + 1 \in D(m)
    BY <1>1, <1>3
  <2> HIDE DEF D, k
  <2>3. \A i \in D(m) : g[i] = f[i]
    BY <2>2
  <2>4. g[k] = Step(f, k)
    BY <2>2
  <2> HIDE DEF g
  <2>5. \A i \in D(m + 1) : Step(f, i) = Step(g, i)
    BY <2>2, <2>3
  <2>6. \A i \in D(m) : f[i] = Step(f, i)
    BY <2>1
  <2>7. g = [i \in D(m + 1) |-> g[i]]
    BY DEF g
  <2> HIDE DEF Step
  <2>8. \A i \in D(m + 1) : g[i] = Step(g, i)
    BY <2>2, <2>3, <2>4, <2>5, <2>6
  <2>9. Is(g, m + 1)
    BY <2>7, <2>8
  <2> HIDE DEF Is
  <2> QED BY <2>2, <2>9
<1>4. \E f : Is(f, n)
  <2> HIDE DEF Is
  <2>1. n \in 0..n
    BY <1>1
  <2>2. 0..n \subseteq T
    <3> HIDE DEF T
    <3> QED BY <1>1, <1>2, <1>3, SetInduction
  <2> QED BY <2>1, <2>2
<1>5. D(n) = 1..n+1
  BY <1>1
<1>6. Joined(texts) = [i \in 1..n+1 |-> Step(Joined(texts), i)]
  <2> DEFINE Js(f) == f = [i \in 1..n+1 |-> Step(f, i)]
  <2>1. \E f : Js(f)
    <3> HIDE DEF D, Step
    <3> QED BY <1>4, <1>5
  <2>2. Joined(texts) = CHOOSE f : Js(f)
    BY DEF Joined, n
  <2> HIDE DEF Js
  <2>3. Js(Joined(texts))
    BY <2>1, <2>2
  <2> QED BY <2>3 DEF Js
<1> DEFINE J == Joined(texts)
<1> HIDE DEF J
<1>7. \A i \in 1..n+1 : J[i] = Step(J, i)
  <2>1. J = [i \in 1..n+1 |-> Step(J, i)]
    BY <1>6 DEF J
  <2> HIDE DEF Step
  <2> QED BY <2>1
<1>8. n + 1 \in 1..n+1 /\ n + 1 > n /\ \A i \in 1..n : i \in 1..n+1 /\ ~(i > n)
  BY <1>1
<1>9. J[n + 1] = <<>> /\ \A i \in 1..n : J[i] = texts[i] \o J[i + 1]
  BY <1>7, <1>8
<1> QED BY <1>9 DEF J, n

\* Joined texts are a text.
LEMMA JoinedFits ==
  ASSUME NEW texts, Len(texts) \in Nat, \A i \in 1..Len(texts) : IsSeq(texts[i])
  PROVE  \A i \in 1..Len(texts)+1 : IsSeq(Joined(texts)[i])
<1> DEFINE n == Len(texts)
           T == {m \in 0..n : IsSeq(Joined(texts)[n + 1 - m])}
<1>1. n \in Nat /\ Joined(texts)[n + 1] = <<>>
      /\ \A i \in 1..n : Joined(texts)[i] = texts[i] \o Joined(texts)[i + 1]
  BY JoinedSteps
<1>2. \A i \in 1..n : IsSeq(texts[i])
  OBVIOUS
<1> HIDE DEF n
<1>3. 0 \in T
  <2>1. n + 1 - 0 = n + 1 /\ 0 \in 0..n /\ IsSeq(<<>>)
    BY <1>1, ShortSeqs
  <2> QED BY <1>1, <2>1
<1>4. ASSUME NEW m \in 0..n-1, m \in T PROVE m + 1 \in T
  <2>1. n - m \in 1..n /\ (n - m) + 1 = n + 1 - m /\ n + 1 - (m + 1) = n - m /\ m + 1 \in 0..n
    BY <1>1, <1>4
  <2> DEFINE a == texts[n - m]
             b == Joined(texts)[n + 1 - m]
  <2>2. Joined(texts)[n - m] = a \o b
    BY <1>1, <2>1
  <2>3. IsSeq(Joined(texts)[n - m])
    <3>1. IsSeq(a) /\ IsSeq(b)
      BY <1>2, <1>4, <2>1
    <3> HIDE DEF a, b
    <3>2. IsSeq(a \o b)
      BY <3>1, ConcatSeq
    <3> QED BY <2>2, <3>2
  <2>4. IsSeq(Joined(texts)[n + 1 - (m + 1)])
    BY <2>1, <2>3, Zenon
  <2> QED BY <2>1, <2>4
<1>5. 0..n \subseteq T
  <2> HIDE DEF T
  <2> QED BY <1>1, <1>3, <1>4, SetInduction
<1>6. ASSUME NEW i \in 1..n+1 PROVE IsSeq(Joined(texts)[i])
  <2>1. n + 1 - i \in 0..n /\ n + 1 - (n + 1 - i) = i
    BY <1>1
  <2>2. n + 1 - i \in T
    BY <1>5, <2>1
  <2> QED BY <2>1, <2>2
<1> QED BY <1>6 DEF n

\* The joined texts without the first one.
LEMMA JoinedTail ==
  ASSUME NEW texts, Len(texts) \in Nat \ {0}, NEW less, Len(less) = Len(texts) - 1,
         \A i \in 1..Len(less) : less[i] = texts[i + 1]
  PROVE  Joined(texts)[1] = texts[1] \o Joined(less)[1]
<1> DEFINE n == Len(less)
           T == {m \in 0..n : Joined(less)[n + 1 - m] = Joined(texts)[n + 2 - m]}
<1>1. n \in Nat /\ Len(texts) = n + 1
  OBVIOUS
<1>2. /\ Joined(less)[n + 1] = <<>>
      /\ \A i \in 1..n : Joined(less)[i] = less[i] \o Joined(less)[i + 1]
  BY <1>1, JoinedSteps
<1>3. /\ Joined(texts)[(n + 1) + 1] = <<>>
      /\ \A i \in 1..n+1 : Joined(texts)[i] = texts[i] \o Joined(texts)[i + 1]
  <2>1. Len(texts) \in Nat
    OBVIOUS
  <2> HIDE DEF n
  <2> QED BY <1>1, <2>1, JoinedSteps
<1>4. \A i \in 1..n : less[i] = texts[i + 1]
  OBVIOUS
<1> HIDE DEF n
<1>5. 0 \in T
  <2>1. n + 1 - 0 = n + 1 /\ n + 2 - 0 = (n + 1) + 1 /\ 0 \in 0..n
    BY <1>1
  <2> QED BY <1>2, <1>3, <2>1
<1>6. ASSUME NEW m \in 0..n-1, m \in T PROVE m + 1 \in T
  <2>1. /\ n - m \in 1..n /\ (n - m) + 1 = n + 1 - m /\ n + 1 - (m + 1) = n - m
        /\ n + 1 - m \in 1..n+1 /\ (n + 1 - m) + 1 = n + 2 - m
        /\ n + 2 - (m + 1) = n + 1 - m /\ m + 1 \in 0..n
    BY <1>1, <1>6
  <2>2. Joined(less)[n - m] = less[n - m] \o Joined(less)[n + 1 - m]
    BY <1>2, <2>1
  <2>3. Joined(texts)[n + 1 - m] = texts[n + 1 - m] \o Joined(texts)[n + 2 - m]
    BY <1>3, <2>1
  <2>4. less[n - m] = texts[n + 1 - m]
    BY <1>4, <2>1
  <2>5. Joined(less)[n + 1 - m] = Joined(texts)[n + 2 - m]
    BY <1>6
  <2> QED BY <2>1, <2>2, <2>3, <2>4, <2>5
<1>7. 0..n \subseteq T
  <2> HIDE DEF T
  <2> QED BY <1>1, <1>5, <1>6, SetInduction
<1>8. Joined(less)[1] = Joined(texts)[2]
  <2>1. n \in 0..n /\ n + 1 - n = 1 /\ n + 2 - n = 2
    BY <1>1
  <2>2. n \in T
    BY <1>7, <2>1
  <2> QED BY <2>1, <2>2
<1>9. Joined(texts)[1] = texts[1] \o Joined(texts)[2]
  <2>1. 1 \in 1..n+1 /\ 1 + 1 = 2
    BY <1>1
  <2>2. Joined(texts)[1] = texts[1] \o Joined(texts)[1 + 1]
    BY <1>3, <2>1
  <2> QED BY <2>1, <2>2
<1> QED BY <1>8, <1>9

-----------------------------------------------------------------------------
(***************************************************************************)
(* Every piece stands for a text.                                           *)
(***************************************************************************)

\* The dictionary has values, and the string list has texts.
EnvFits(env) ==
    /\ \A x \in DOMAIN env.dic : env.dic[x] \in JsonValues
    /\ \A key \in DOMAIN env.strList : env.strList[key].t = "str"

\* The variables of the loops are known.
LoopsFit(s) == \A i \in 1..Len(s) : s[i].k = "for" => s[i].var \in LocalNames

\* The scope of a loop is one.
LEMMA BoundFits ==
  ASSUME NEW scope \in Scopes, NEW var \in LocalNames, NEW val \in JsonValues
  PROVE  Bound(scope, var, val) \in Scopes
<1>1. PICK D \in SUBSET LocalNames : scope \in [D -> JsonValues]
  BY DEF Scopes
<1>2. DOMAIN scope = D /\ \A x \in D : scope[x] \in JsonValues
  BY <1>1
<1>3. Bound(scope, var, val) \in [D \cup {var} -> JsonValues]
  <2>1. \A x \in D \cup {var} : (IF x = var THEN val ELSE scope[x]) \in JsonValues
    BY <1>2
  <2> QED BY <1>2, <2>1 DEF Bound
<1>4. D \cup {var} \in SUBSET LocalNames
  BY <1>1
<1> QED BY <1>3, <1>4 DEF Scopes

\* What a variable stands for: nothing, the exception, or a value.
LEMMA ResolveFits ==
  ASSUME NEW dictionary, \A x \in DOMAIN dictionary : dictionary[x] \in JsonValues,
         NEW scope \in Scopes, NEW var
  PROVE  \/ Resolve(var, dictionary, scope) = <<>>
         \/ Resolve(var, dictionary, scope) = <<Raised("InvalidName")>>
         \/ \E v \in JsonValues : Resolve(var, dictionary, scope) = <<v>>
<1> DEFINE first == var[1]
           base == IF first \in DOMAIN scope THEN <<scope[first]>>
                   ELSE IF first \in DOMAIN dictionary THEN <<dictionary[first]>>
                   ELSE <<>>
           found == Resolve(var, dictionary, scope)
<1>1. base = <<>> \/ \E v \in JsonValues : base = <<v>>
  <2>1. \A x \in DOMAIN scope : scope[x] \in JsonValues
    BY DEF Scopes
  <2> QED BY <2>1
<1>2. found = IF first = "" THEN <<Raised("InvalidName")>>
              ELSE IF base = <<>> \/ var[2] = "" THEN base
              ELSE IF base[1].t = "object" /\ var[2] \in DOMAIN base[1].v
                   THEN <<base[1].v[var[2]]>>
              ELSE <<>>
  BY DEF Resolve
<1> HIDE DEF base, found
<1>3. CASE base = <<>>
  BY Zenon, <1>2, <1>3 DEF found
<1>4. CASE base # <<>>
  <2>1. PICK v \in JsonValues : base = <<v>>
    BY <1>1, <1>4
  <2>2. base[1] = v
    BY <2>1
  <2>3. v.t = "object" => \A x \in DOMAIN v.v : v.v[x] \in JsonValues
    BY MeaningAssumption
  <2> QED BY Zenon, <1>2, <1>4, <2>1, <2>2, <2>3 DEF found
<1> QED BY <1>3, <1>4

\* The value of a condition is a boolean one or an exception.
LEMMA CondFits ==
  ASSUME NEW v, v \in JsonValues \/ v = Null \/ v = Raised("InvalidName")
  PROVE  \/ \E b \in BOOLEAN : CondValue(v) = Bool(b)
         \/ \E e : CondValue(v) = Raised(e)
         \/ CondValue(v) = v /\ v.t = "bool"
<1>1. v.t \in {"null", "bool", "str", "array", "object", "exception"}
  BY MeaningAssumption DEF Null, Raised
<1>2. v.t = "exception" => v = Raised("InvalidName")
  BY MeaningAssumption DEF Null, Raised
<1> QED BY <1>1, <1>2 DEF CondValue

\* What is left of a value in the text: nothing, one piece, or an exception.
LEMMA StringFits ==
  ASSUME NEW v, v \in JsonValues \/ v = Raised("InvalidName")
  PROVE  \/ Json2String(v) = <<>>
         \/ \E x : Json2String(v) = <<x>> /\ x.t # "exception"
         \/ \E e : Json2String(v) = <<Raised(e)>>
<1>1. v.t \in {"null", "bool", "str", "array", "object", "exception"}
  BY MeaningAssumption DEF Raised
<1>2. CASE v.t = "null"
  BY <1>2 DEF Json2String
<1>3. CASE v.t = "bool"
  <2>1. Json2String(v) = <<Text(IF v.v THEN "1" ELSE "0")>>
    BY <1>3 DEF Json2String
  <2> QED BY <2>1 DEF Text
<1>4. CASE v.t = "str"
  <2>1. Json2String(v) = <<v>>
    BY <1>4 DEF Json2String
  <2> QED BY <1>4, <2>1
<1>5. CASE v.t = "exception"
  <2>1. v = Raised("InvalidName")
    BY <1>5, MeaningAssumption
  <2>2. Json2String(v) = <<v>>
    BY <1>5 DEF Json2String
  <2> QED BY <2>1, <2>2
<1>6. CASE v.t \in {"array", "object"}
  BY <1>6 DEF Json2String
<1> QED BY <1>1, <1>2, <1>3, <1>4, <1>5, <1>6

\* What a piece stands for is a text, if the meanings it is made of are.
LEMMA PieceFits ==
  ASSUME NEW env, EnvFits(env), NEW s, LoopsFit(s), NEW i \in 1..Len(s),
         NEW sub, \A name \in DOMAIN sub : IsSeq(sub[name]), NEW scope \in Scopes,
         NEW within, \A c \in Scopes : IsSeq(within[c])
  PROVE  IsSeq(Piece(env, s, sub, i, scope, within))
<1> DEFINE p == s[i]
           found(var) == Resolve(var, env.dic, scope)
           name == LocalizedFor(env.langCode, env.known, p.path)
           cond == CondValue(IF found(p.var) = <<>> THEN Null ELSE found(p.var)[1])
           list == found(p.list)
           round(val) == within[Bound(scope, p.var, val)]
           hasContent == \E j \in (i + 1)..(Closer(s, i) - 1) : ~Hidden(s, j)
           texts == [j \in DOMAIN list[1].v |-> round(list[1].v[j])]
           text == Piece(env, s, sub, i, scope, within)
<1>1. \A var : \/ found(var) = <<>>
               \/ found(var) = <<Raised("InvalidName")>>
               \/ \E v \in JsonValues : found(var) = <<v>>
  BY ResolveFits DEF EnvFits
<1> HIDE DEF found
<1>2. \A var : found(var) # <<>> =>
                 found(var)[1] = Raised("InvalidName") \/ found(var)[1] \in JsonValues
  BY <1>1
<1>3. CASE p.k = "var"
  <2>1. text = IF found(p.var) # <<>> THEN Json2String(found(p.var)[1]) ELSE <<>>
    BY <1>3 DEF Piece, found
  <2>2. ASSUME found(p.var) # <<>> PROVE IsSeq(Json2String(found(p.var)[1]))
    <3> DEFINE v == found(p.var)[1]
    <3>1. v \in JsonValues \/ v = Raised("InvalidName")
      BY <1>2, <2>2
    <3> HIDE DEF v
    <3>2. Json2String(v) = <<>> \/ \E x : Json2String(v) = <<x>>
      BY <3>1, StringFits
    <3>3. IsSeq(Json2String(v))
      BY <3>2, ShortSeqs
    <3> QED BY <3>3 DEF v
  <2> HIDE DEF text
  <2> QED BY <2>1, <2>2, ShortSeqs DEF text
<1>4. CASE p.k = "str"
  <2>1. text = IF p.name # "" THEN GetString(env.strList, env.langCode, p.name) ELSE <<>>
    BY <1>4 DEF Piece
  <2>2. text = <<>> \/ \E x : text = <<x>>
    BY Zenon, <2>1 DEF GetString
  <2> HIDE DEF text
  <2>3. IsSeq(text)
    BY <2>2, ShortSeqs
  <2> QED BY <2>3 DEF text
<1>5. CASE p.k = "include"
  <2>1. text = IF name = <<>> THEN <<Raised("NoSuchTemplate")>>
               ELSE IF name \notin DOMAIN sub THEN <<Raised("Circular")>>
               ELSE sub[name]
    BY <1>5 DEF Piece
  <2> HIDE DEF text
  <2>2. IsSeq(text)
    BY <2>1, ShortSeqs
  <2> QED BY <2>2 DEF text
<1>6. CASE p.k = "if"
  <2>1. text = IF cond.t = "exception" THEN <<cond>>
               ELSE IF cond.v # p.inv THEN within[scope] ELSE <<>>
    BY <1>6 DEF Piece, found
  <2> HIDE DEF text, cond
  <2>2. IsSeq(text)
    BY <2>1, ShortSeqs
  <2> QED BY <2>2 DEF text
<1>7. CASE p.k = "for"
  <2>1. text = IF list # <<>> /\ hasContent
               THEN IF list[1].t = "exception" THEN list
                    ELSE IF list[1].t # "array" THEN <<>>
                    ELSE Joined(texts)[1]
               ELSE <<>>
    BY <1>7 DEF Piece, found
  <2> HIDE DEF text, hasContent
  <2>2. list # <<>> => IsSeq(list)
    BY <1>1, ShortSeqs
  <2>3. ASSUME list # <<>>, list[1].t = "array" PROVE IsSeq(Joined(texts)[1])
    <3>1. list[1] \in JsonValues
      BY <1>2, <2>3 DEF Raised
    <3>2. list[1].v \in Seq(JsonValues)
      BY <2>3, <3>1, MeaningAssumption
    <3> DEFINE vals == list[1].v
    <3>3. Len(vals) \in Nat /\ DOMAIN vals = 1..Len(vals)
          /\ \A j \in 1..Len(vals) : vals[j] \in JsonValues
      BY <3>2, LenProperties
    <3> HIDE DEF list, vals
    <3>4. p.var \in LocalNames
      BY <1>7 DEF LoopsFit
    <3> HIDE DEF p
    <3>5. \A j \in 1..Len(vals) : IsSeq(round(vals[j]))
      BY <3>3, <3>4, BoundFits
    <3> HIDE DEF round
    <3>6. texts = [j \in 1..Len(vals) |-> round(vals[j])]
      BY <3>3 DEF vals
    <3> HIDE DEF texts
    <3>7. Len(texts) \in Nat /\ Len(texts) = Len(vals)
      BY <3>3, <3>6
    <3>8. \A j \in 1..Len(texts) : IsSeq(texts[j])
      BY <3>3, <3>5, <3>6, <3>7
    <3>9. 1 \in 1..Len(texts)+1
      BY <3>7
    <3> QED BY <3>7, <3>8, <3>9, JoinedFits
  <2> HIDE DEF list, texts
  <2>4. IsSeq(text)
    BY <2>1, <2>2, <2>3, ShortSeqs
  <2> QED BY <2>4 DEF text
<1>8. CASE p.k \notin {"var", "str", "include", "if", "for"}
  <2>1. text = <<p>> \/ text = <<>>
    BY Zenon, <1>8 DEF Piece
  <2> HIDE DEF text, p
  <2>2. IsSeq(text)
    BY <2>1, ShortSeqs
  <2> QED BY <2>2 DEF text
<1> QED BY <1>3, <1>4, <1>5, <1>6, <1>7, <1>8

\* m has the meanings of s from each piece on.
IsMeaning(env, s, sub, m) ==
    /\ Ended(s)
    /\ \A i \in 1..Len(s)+1 : \A scope \in Scopes :
         /\ IsSeq(m[i][scope])
         /\ m[i][scope] = MeaningFrom(env, s, sub, i, scope, m)

\* The meaning of a text is a text, and what its recursive definition says.
LEMMA MeaningFits ==
  ASSUME NEW env, EnvFits(env), NEW s, Ended(s), LoopsFit(s),
         NEW sub, \A name \in DOMAIN sub : IsSeq(sub[name])
  PROVE  IsMeaning(env, s, sub, Meaning(env, s, sub))
<1> DEFINE n == Len(s)
           m == Meaning(env, s, sub)
           Done(i) == \A scope \in Scopes : IsSeq(m[i][scope])
           T == {k \in 0..n : \A i \in n+1-k..n+1 : Done(i)}
<1>1. n \in Nat
  BY DEF Ended
<1>2. \A i \in 1..n+1 : \A scope \in Scopes : m[i][scope] = MeaningFrom(env, s, sub, i, scope, m)
  BY MeaningSteps
<1> HIDE DEF m
<1>3. Done(n + 1)
  <2> SUFFICES ASSUME NEW scope \in Scopes PROVE IsSeq(m[n + 1][scope])
    OBVIOUS
  <2>1. n + 1 \in 1..n+1 /\ n + 1 > n
    BY <1>1
  <2>2. m[n + 1][scope] = <<>>
    BY <1>2, <2>1 DEF MeaningFrom
  <2> QED BY <2>2, ShortSeqs
<1>4. ASSUME NEW i \in 1..n, \A j \in i+1..n+1 : Done(j)
      PROVE  Done(i)
  <2> SUFFICES ASSUME NEW scope \in Scopes PROVE IsSeq(m[i][scope])
    OBVIOUS
  <2>1. i \in 1..n+1 /\ ~(i > n) /\ i + 1 \in i+1..n+1
    BY <1>1
  <2>2. EndOf(s, i) + 1 \in i+1..n+1
    <3>1. EndOf(s, i) \in i..n
      BY DEF Ended, EndOf
    <3> HIDE DEF n
    <3> QED BY <1>1, <3>1
  <2> DEFINE a == Piece(env, s, sub, i, scope, m[i + 1])
             b == m[EndOf(s, i) + 1][scope]
  <2>3. m[i][scope] = IF s[i].k \in DOMAIN Begin THEN <<>> ELSE a \o b
    BY <1>2, <2>1 DEF MeaningFrom
  <2>4. IsSeq(a)
    <3> DEFINE within == m[i + 1]
    <3>1. \A c \in Scopes : IsSeq(within[c])
      BY <1>4, <2>1
    <3> HIDE DEF within
    <3>2. IsSeq(Piece(env, s, sub, i, scope, within))
      BY <3>1, PieceFits
    <3> QED BY <3>2 DEF within
  <2>5. IsSeq(b)
    BY <1>4, <2>2
  <2> HIDE DEF a, b
  <2>6. IsSeq(a \o b)
    BY <2>4, <2>5, ConcatSeq
  <2> QED BY <2>3, <2>6, ShortSeqs
<1> HIDE DEF n, Done
<1>5. 0 \in T
  <2>1. \A i \in n+1-0..n+1 : i = n + 1
    BY <1>1
  <2> QED BY <1>1, <1>3, <2>1
<1>6. ASSUME NEW k \in 0..n-1, k \in T PROVE k + 1 \in T
  <2>1. /\ k \in 0..n /\ k + 1 \in 0..n /\ n - k \in 1..n
        /\ \A j \in (n-k)+1..n+1 : j \in n+1-k..n+1
        /\ \A i \in n+1-(k+1)..n+1 : i = n - k \/ i \in n+1-k..n+1
    BY <1>1, <1>6
  <2>2. \A i \in n+1-k..n+1 : Done(i)
    BY <1>6
  <2>3. Done(n - k)
    BY <1>4, <2>1, <2>2
  <2> QED BY <2>1, <2>2, <2>3
<1>7. 0..n \subseteq T
  <2> HIDE DEF T
  <2> QED BY <1>1, <1>5, <1>6, SetInduction
<1>8. \A i \in 1..n+1 : Done(i)
  <2>1. n \in T
    BY <1>1, <1>7
  <2>2. \A i \in 1..n+1 : i \in n+1-n..n+1
    BY <1>1
  <2> QED BY <2>1, <2>2
<1> QED BY <1>2, <1>8 DEF IsMeaning, n, m, Done

\* The templates of an environment can be understood: they are finitely many, and
\* their blocks have ends.
Readable(env) ==
    /\ EnvFits(env) /\ IsFiniteSet(env.known)
    /\ \A name \in env.known : Ended(env.files[name]) /\ LoopsFit(env.files[name])

\* One step of Expansion().
ExpansionFrom(env, free, f) ==
    [name \in free |-> Meaning(env, env.files[name], f[free \ {name}])[1][<<>>]]

\* The meanings of the templates are what their recursive definition says.
LEMMA ExpansionSteps ==
  ASSUME NEW env, IsFiniteSet(env.known)
  PROVE  \A free \in SUBSET env.known :
           Expansion(env)[free] = ExpansionFrom(env, free, Expansion(env))
<1> DEFINE K == env.known
           n == Cardinality(K)
           Step(f, free) == ExpansionFrom(env, free, f)
           D(m) == {free \in SUBSET K : Cardinality(free) <= m}
           Is(f, m) == f = [free \in D(m) |-> Step(f, free)]
           T == {m \in 0..n : \E f : Is(f, m)}
<1>1. n \in Nat /\ \A free \in SUBSET K : /\ IsFiniteSet(free)
                                          /\ Cardinality(free) \in 0..n
  <2>1. n \in Nat
    BY FS_CardinalityType
  <2>2. ASSUME NEW free \in SUBSET K
        PROVE  IsFiniteSet(free) /\ Cardinality(free) \in Nat /\ Cardinality(free) <= n
    BY FS_Subset, FS_CardinalityType
  <2> HIDE DEF n
  <2> QED BY <2>1, <2>2
<1>2. ASSUME NEW free \in SUBSET K, NEW name \in free
      PROVE  /\ free \ {name} \in SUBSET K
             /\ Cardinality(free \ {name}) = Cardinality(free) - 1
             /\ Cardinality(free) \in Nat \ {0}
  <2>1. IsFiniteSet(free) /\ Cardinality(free) \in Nat
    BY <1>1, FS_CardinalityType
  <2>2. Cardinality(free \ {name}) = Cardinality(free) - 1
    BY <2>1, FS_RemoveElement
  <2>3. Cardinality(free \ {name}) \in Nat
    BY <2>1, FS_RemoveElement, FS_CardinalityType
  <2> QED BY <2>1, <2>2, <2>3
<1> HIDE DEF n
<1>3. ASSUME NEW m \in 0..n, NEW f, NEW g, NEW free \in SUBSET K,
             \A less \in SUBSET K : Cardinality(less) < Cardinality(free) => f[less] = g[less]
      PROVE  Step(f, free) = Step(g, free)
  <2> SUFFICES ASSUME NEW name \in free
               PROVE  Meaning(env, env.files[name], f[free \ {name}])[1][<<>>]
                        = Meaning(env, env.files[name], g[free \ {name}])[1][<<>>]
    BY DEF ExpansionFrom
  <2>1. f[free \ {name}] = g[free \ {name}]
    BY <1>2, <1>3
  <2> QED BY <2>1
<1> HIDE DEF Step
<1>4. 0 \in T
  <2> DEFINE any == <<>>
             f == [free \in D(0) |-> Step(any, free)]
  <2>1. \A free \in D(0) : f[free] = Step(f, free)
    <3> SUFFICES ASSUME NEW free \in D(0) PROVE f[free] = Step(f, free)
      OBVIOUS
    <3>1. f[free] = Step(any, free)
      OBVIOUS
    <3>2. free \in SUBSET K /\ Cardinality(free) = 0
      BY <1>1
    <3>3. \A less \in SUBSET K : ~(Cardinality(less) < Cardinality(free))
      BY <1>1, <3>2
    <3>4. 0 \in 0..n
      BY <1>1
    <3> HIDE DEF f, any
    <3>5. Step(any, free) = Step(f, free)
      BY <1>3, <3>2, <3>3, <3>4
    <3> QED BY <3>1, <3>5
  <2>2. f = [free \in D(0) |-> f[free]]
    OBVIOUS
  <2> HIDE DEF f, D
  <2>3. Is(f, 0)
    BY <2>1, <2>2
  <2> QED BY <1>1, <2>3
<1>5. ASSUME NEW m \in 0..n-1, m \in T PROVE m + 1 \in T
  <2>1. PICK f : Is(f, m)
    BY <1>5
  <2> DEFINE g == [free \in D(m + 1) |-> IF free \in D(m) THEN f[free] ELSE Step(f, free)]
  <2>2. m \in Nat /\ m + 1 \in 0..n /\ m \in 0..n
    BY <1>1, <1>5
  <2>3. D(m) \subseteq D(m + 1)
    BY <1>1, <2>2
  <2>4. \A free \in D(m) : f[free] = Step(f, free)
    BY <2>1
  <2>5. \A free \in D(m + 1) : g[free] = Step(f, free)
    BY <2>4
  <2>6. \A free \in D(m) : g[free] = f[free]
    BY <2>3
  <2>7. ASSUME NEW free \in D(m + 1) PROVE Step(f, free) = Step(g, free)
    <3>1. free \in SUBSET K /\ Cardinality(free) <= m + 1 /\ Cardinality(free) \in Nat
      BY <1>1
    <3>2. \A less \in SUBSET K : Cardinality(less) < Cardinality(free) => less \in D(m)
      BY <1>1, <2>2, <3>1
    <3> HIDE DEF g, D
    <3>3. \A less \in SUBSET K : Cardinality(less) < Cardinality(free) => f[less] = g[less]
      BY <2>6, <3>2
    <3> QED BY <1>3, <2>2, <3>1, <3>3
  <2>8. g = [free \in D(m + 1) |-> g[free]]
    OBVIOUS
  <2> HIDE DEF g, D
  <2>9. Is(g, m + 1)
    BY <2>5, <2>7, <2>8
  <2> HIDE DEF Is
  <2> QED BY <2>2, <2>9
<1>6. \E f : Is(f, n)
  <2> HIDE DEF Is
  <2>1. n \in 0..n
    BY <1>1
  <2>2. 0..n \subseteq T
    <3> HIDE DEF T
    <3> QED BY <1>1, <1>4, <1>5, SetInduction
  <2> QED BY <2>1, <2>2
<1>7. D(n) = SUBSET K
  <2>1. \A free \in SUBSET K : Cardinality(free) <= n
    BY <1>1
  <2> QED BY <2>1
<1> DEFINE E == Expansion(env)
<1>8. E = [free \in SUBSET K |-> Step(E, free)]
  <2> DEFINE Js(f) == f = [free \in SUBSET K |-> Step(f, free)]
  <2>1. \E f : Js(f)
    <3> HIDE DEF D
    <3> QED BY <1>6, <1>7
  <2>2. E = CHOOSE f : Js(f)
    BY DEF Expansion, ExpansionFrom, Step
  <2> HIDE DEF Js, E
  <2>3. Js(E)
    BY <2>1, <2>2
  <2> QED BY <2>3 DEF Js
<1> HIDE DEF E
<1>9. \A free \in SUBSET K : E[free] = Step(E, free)
  BY <1>8
<1> QED BY <1>9 DEF E, Step

\* The scope outside all loops.
LEMMA NoScope == <<>> \in Scopes /\ DOMAIN <<>> = {}
<1>1. <<>> \in [{} -> JsonValues] /\ {} \in SUBSET LocalNames /\ DOMAIN <<>> = {}
  OBVIOUS
<1> QED BY <1>1 DEF Scopes

\* The meanings of the templates are texts.
LEMMA ExpansionFits ==
  ASSUME NEW env, Readable(env)
  PROVE  \A free \in SUBSET env.known :
           /\ DOMAIN Expansion(env)[free] = free
           /\ \A name \in free : IsSeq(Expansion(env)[free][name])
<1> DEFINE K == env.known
           n == Cardinality(K)
           E == Expansion(env)
           One(free, name) == Meaning(env, env.files[name], E[free \ {name}])[1][<<>>]
           Fit(free) == \A name \in free : IsSeq(E[free][name])
           T == {m \in 0..n : \A free \in SUBSET K : Cardinality(free) <= m => Fit(free)}
<1>1. n \in Nat /\ \A free \in SUBSET K : /\ IsFiniteSet(free)
                                          /\ Cardinality(free) \in Nat
                                          /\ Cardinality(free) <= n
  BY FS_CardinalityType, FS_Subset DEF Readable
<1>2. ASSUME NEW free \in SUBSET K
      PROVE  /\ DOMAIN E[free] = free
             /\ \A name \in free : E[free][name] = One(free, name)
  <2>1. E[free] = ExpansionFrom(env, free, E)
    BY ExpansionSteps DEF Readable
  <2> DEFINE e == E[free]
  <2>2. e = [name \in free |-> One(free, name)]
    BY <2>1 DEF ExpansionFrom
  <2> HIDE DEF e, One
  <2>3. DOMAIN e = free /\ \A name \in free : e[name] = One(free, name)
    BY <2>2
  <2> QED BY <2>3 DEF e
<1> HIDE DEF E, n, One
<1>3. \A free \in SUBSET K : DOMAIN E[free] = free
  BY <1>2
<1>4. ASSUME NEW free \in SUBSET K, NEW name \in free, Fit(free \ {name})
      PROVE  IsSeq(E[free][name])
  <2> DEFINE s == env.files[name]
             sub == E[free \ {name}]
  <2>1. E[free][name] = Meaning(env, s, sub)[1][<<>>]
    BY <1>2 DEF One
  <2>2. EnvFits(env) /\ Ended(s) /\ LoopsFit(s)
    BY DEF Readable
  <2>3. \A x \in DOMAIN sub : IsSeq(sub[x])
    <3>1. free \ {name} \in SUBSET K
      OBVIOUS
    <3> QED BY <1>3, <1>4, <3>1
  <2> HIDE DEF s, sub
  <2>4. IsMeaning(env, s, sub, Meaning(env, s, sub))
    BY <2>2, <2>3, MeaningFits
  <2>5. 1 \in 1..Len(s)+1
    BY <2>2 DEF Ended
  <2> QED BY <2>1, <2>4, <2>5, NoScope DEF IsMeaning
<1> HIDE DEF Fit
<1>5. 0 \in T
  <2> SUFFICES ASSUME NEW free \in SUBSET K, Cardinality(free) <= 0 PROVE Fit(free)
    BY <1>1
  <2>1. free = {}
    BY <1>1, FS_EmptySet
  <2> QED BY <2>1 DEF Fit
<1>6. ASSUME NEW m \in 0..n-1, m \in T PROVE m + 1 \in T
  <2> SUFFICES ASSUME NEW free \in SUBSET K, Cardinality(free) <= m + 1 PROVE Fit(free)
    BY <1>1
  <2> SUFFICES ASSUME NEW name \in free PROVE IsSeq(E[free][name])
    BY DEF Fit
  <2>1. free \ {name} \in SUBSET K /\ Cardinality(free \ {name}) = Cardinality(free) - 1
    BY <1>1, FS_RemoveElement
  <2>2. Cardinality(free \ {name}) <= m
    BY <1>1, <2>1
  <2>3. Fit(free \ {name})
    BY <1>6, <2>1, <2>2
  <2> QED BY <1>4, <2>3
<1>7. n \in T
  <2>1. n \in 0..n
    BY <1>1
  <2>2. 0..n \subseteq T
    <3> HIDE DEF T
    <3> QED BY <1>1, <1>5, <1>6, SetInduction
  <2> QED BY <2>1, <2>2
<1>8. \A free \in SUBSET K : Fit(free)
  BY <1>1, <1>7
<1> QED BY <1>3, <1>8 DEF E, Fit

-----------------------------------------------------------------------------
(***************************************************************************)
(* The meaning of a text, item by item: what getSyntaxSubtree() has to      *)
(* produce from each item on.                                               *)
(***************************************************************************)

\* Hidden newlines mean nothing.
LEMMA LeadsSame ==
  ASSUME NEW env, NEW s, NEW sub, NEW m, IsMeaning(env, s, sub, m), NEW x, NEW y,
         Leads(s, x, y), NEW scope \in Scopes
  PROVE  m[x][scope] = m[y][scope]
<1>1. CASE y = x
  BY <1>1
<1>2. CASE y = x + 1 /\ x \in 1..Len(s) /\ Hidden(s, x)
  <2>1. Len(s) \in Nat
    BY DEF IsMeaning, Ended
  <2>2. x \in 1..Len(s)+1 /\ y \in 1..Len(s)+1 /\ ~(x > Len(s))
    BY <1>2, <2>1
  <2>3. s[x].k = "nl"
    BY <1>2 DEF Hidden
  <2>4. s[x].k \notin DOMAIN Begin /\ s[x].k \notin Opener
    BY <2>3 DEF Begin, Opener
  <2>5. EndOf(s, x) = x
    BY <2>4 DEF EndOf
  <2>6. Piece(env, s, sub, x, scope, m[x + 1]) = <<>>
    BY <1>2, <2>3 DEF Piece
  <2>7. m[x][scope] = <<>> \o m[x + 1][scope]
    BY <2>2, <2>4, <2>5, <2>6 DEF IsMeaning, MeaningFrom
  <2>8. IsSeq(m[x + 1][scope])
    BY <1>2, <2>2 DEF IsMeaning
  <2> QED BY <1>2, <2>7, <2>8, ShortSeqs
<1> QED BY <1>1, <1>2 DEF Leads

\* At the end of a block there is nothing to come.
LEMMA StopsNothing ==
  ASSUME NEW env, NEW s, NEW sub, NEW m, IsMeaning(env, s, sub, m), NEW x,
         StopsAt(s, x), NEW scope \in Scopes
  PROVE  m[x][scope] = <<>>
<1>1. PICK y : Leads(s, x, y) /\ Stops(s, y)
  BY DEF StopsAt
<1>2. Len(s) \in Nat
  BY DEF IsMeaning, Ended
<1>3. m[x][scope] = m[y][scope]
  BY <1>1, LeadsSame
<1>4. y \in 1..Len(s)+1 /\ (y > Len(s) \/ s[y].k \in DOMAIN Begin)
  BY <1>1, <1>2 DEF Stops, Begin
<1>5. m[y][scope] = <<>>
  BY <1>4 DEF IsMeaning, MeaningFrom
<1> QED BY <1>3, <1>5

\* The item is the static text at piece x of s.
StaticAt(s, item, x) == item.t = "Static" /\ x \in 1..Len(s) /\ ItemAt(s, item, x)

\* From x on the text is what the item means, and then that from y on.
Splits(m, x, text, y, scope) == m[x][scope] = text \o m[y][scope]

\* The static text of an item means itself.
LEMMA StaticMeans ==
  ASSUME NEW env, NEW s, NEW sub, NEW m, IsMeaning(env, s, sub, m), NEW item, NEW x,
         StaticAt(s, item, x), IsSeq(s), NoEmptyToken(s),
         NEW scope \in Scopes
  PROVE  /\ Splits(m, x, item.text, Behind(s, item, x), scope)
         /\ IsSeq(item.text)
<1> DEFINE text == item.text
           n == Len(text)
           Part(l) == SubSeq(text, 1, l)
           T == {l \in 0..n : m[x][scope] = Part(l) \o m[x + l][scope]}
<1>1. /\ Len(s) \in Nat /\ item.t = "Static"
      /\ x \in 1..Len(s) /\ ItemAt(s, item, x)
  BY DEF IsMeaning, Ended, StaticAt
<1>2. /\ text \in Seq(Pieces(s)) /\ n \in Nat /\ x + n <= Len(s) + 1
      /\ \A i \in 1..n : /\ text[i] = s[x + i - 1] /\ ~Hidden(s, x + i - 1)
                         /\ s[x + i - 1].k \in Plain \cup {"empty"}
  BY <1>1, LenProperties DEF ItemAt
<1>3. IsSeq(text)
  BY <1>2, SeqIsSeq
<1> HIDE DEF text, n
<1>4. \A l \in 0..n : x + l \in 1..Len(s)+1
  BY <1>1, <1>2
<1>5. 0 \in T
  <2> DEFINE a == m[x][scope]
  <2>1. Part(0) = <<>>
    <3>1. 1 \in Int /\ 0 \in Int /\ 0 < 1
      OBVIOUS
    <3> QED BY <3>1, SubSeqEmpty
  <2>2. x + 0 = x
    BY <1>1
  <2>3. IsSeq(a)
    BY <1>1 DEF IsMeaning
  <2> HIDE DEF a
  <2>4. a = <<>> \o a
    BY <2>3, ShortSeqs
  <2>5. 0 \in 0..n
    BY <1>2
  <2> QED BY <2>1, <2>2, <2>4, <2>5 DEF a
<1>6. ASSUME NEW l \in 0..n-1, l \in T PROVE l + 1 \in T
  <2> DEFINE i == x + l
             e == text[l + 1]
             rest == m[i + 1][scope]
             part == Part(l)
  <2>1. /\ l \in 0..n /\ l + 1 \in 1..n /\ l + 1 \in 0..n /\ x + (l + 1) - 1 = i
        /\ x + (l + 1) = i + 1 /\ (l + 1) - 1 = l
    <3>1. n \in Nat /\ x \in Nat
      BY <1>1, <1>2
    <3> QED BY <3>1
  <2>2. i \in 1..Len(s)+1 /\ i + 1 \in 1..Len(s)+1 /\ ~(i > Len(s))
    BY <1>1, <1>4, <2>1
  <2>3. e = s[i] /\ ~Hidden(s, i) /\ s[i].k \in {"char", "nl"}
    <3>1. i \in 1..Len(s) /\ Len(s) \in Nat
      BY <1>1, <2>2
    <3>2. s[i].k # "empty"
      BY <3>1 DEF NoEmptyToken, IsSeq
    <3> QED BY <1>2, <2>1, <3>2 DEF Plain
  <2>4. Piece(env, s, sub, i, scope, m[i + 1]) = <<e>>
    BY Zenon, <2>3 DEF Piece
  <2>5. s[i].k \notin DOMAIN Begin /\ EndOf(s, i) = i
    BY <2>3 DEF Begin, EndOf, Opener
  <2>6. m[i][scope] = <<e>> \o rest /\ IsSeq(rest)
    BY <2>2, <2>4, <2>5 DEF IsMeaning, MeaningFrom
  <2>7. Part(l + 1) = part \o <<e>> /\ IsSeq(part)
    <3>1. 1 \in 1..n /\ l + 1 \in 1..n
      BY <1>2, <2>1
    <3>2. SubSeq(text, 1, l + 1) = SubSeq(text, 1, (l + 1) - 1) \o <<e>>
      BY <1>2, <3>1, SubSeqRecursiveSecond DEF n
    <3>3. 1 \in Int /\ l \in Int /\ \A j \in 1..l : j \in 1..n
      BY <1>2, <2>1
    <3>4. \A j \in 1..l : text[j] \in Pieces(s)
      BY <1>2, <3>3, ElementOfSeq DEF n
    <3>5. SubSeq(text, 1, l) \in Seq(Pieces(s))
      BY <3>3, <3>4, SubSeqProperties
    <3> QED BY <2>1, <3>2, <3>5, SeqIsSeq
  <2>8. m[x][scope] = part \o m[i][scope]
    BY <1>6
  <2> HIDE DEF part, rest, e
  <2>9. part \o (<<e>> \o rest) = (part \o <<e>>) \o rest
    <3> DEFINE one == <<e>>
    <3>1. IsSeq(part) /\ IsSeq(one) /\ IsSeq(rest)
      BY <2>6, <2>7, ShortSeqs
    <3> HIDE DEF one
    <3>2. (part \o one) \o rest = part \o (one \o rest)
      BY <3>1, ConcatThree
    <3> QED BY <3>2 DEF one
  <2>10. m[x][scope] = Part(l + 1) \o rest
    BY <2>6, <2>7, <2>8, <2>9
  <2> HIDE DEF Part
  <2> QED BY <2>1, <2>10 DEF rest
<1>7. n \in T
  <2>1. n \in 0..n
    BY <1>2
  <2>2. 0..n \subseteq T
    <3> HIDE DEF T
    <3> QED BY <1>2, <1>5, <1>6, SetInduction
  <2> QED BY <2>1, <2>2
<1>8. Part(n) = text
  BY <1>2, SubSeqFull DEF n
<1>9. Behind(s, item, x) = x + n
  BY <1>1 DEF Behind, n, text
<1>10. m[x][scope] = text \o m[x + n][scope]
  <2>1. m[x][scope] = Part(n) \o m[x + n][scope]
    BY <1>7
  <2> QED BY <1>8, <2>1
<1>11. x + n \in 1..Len(s)+1
  <2>1. n \in 0..n
    BY <1>2
  <2> QED BY <1>4, <2>1
<1> QED BY <1>3, <1>9, <1>10, <1>11 DEF text, Splits

\* A template that is read: the tree parse() made of its text s, the places of its
\* items in it, and the meanings of its pieces.
IsReading(r) ==
    /\ EnvFits(r.env) /\ IsMeaning(r.env, r.s, r.sub, r.m)
    /\ \A name \in DOMAIN r.sub : IsSeq(r.sub[name])
    /\ IsSeq(r.s) /\ LoopsFit(r.s) /\ NoShadowing(r.s) /\ NoEmptyToken(r.s)
    /\ \A i \in 1..Len(r.s) : ~IsException(r.s[i])
    /\ Len(r.tree) \in Nat /\ TreeFits(r.tree) /\ Laid(r.s, r.tree, r.at)

\* The text from item j to the end of its block.
From(r, j, scope) == IF j = 0 THEN <<>> ELSE r.m[r.at[j]][scope]

\* The text of item j alone.
OfItem(r, j, scope) ==
    IF r.tree[j].t = "Static" THEN r.tree[j].text
    ELSE Piece(r.env, r.s, r.sub, r.at[j], scope, r.m[r.at[j] + 1])

\* From each item on there is a text.
LEMMA FromFits ==
  ASSUME NEW r, IsReading(r), NEW j \in 0..Len(r.tree), NEW scope \in Scopes
  PROVE  IsSeq(From(r, j, scope))
<1>1. CASE j = 0
  BY <1>1, ShortSeqs DEF From
<1>2. CASE j # 0
  <2>1. Len(r.tree) \in Nat /\ Len(r.s) \in Nat
    BY DEF IsReading, IsMeaning, Ended
  <2>2. j \in 1..Len(r.tree)
    BY <1>2, <2>1
  <2>3. r.at[j] \in 1..Len(r.s)
    BY <2>2 DEF IsReading, Laid, LaidItem
  <2>4. r.at[j] \in 1..Len(r.s)+1
    BY <2>1, <2>3
  <2> QED BY <1>2, <2>4 DEF From, IsReading, IsMeaning
<1> QED BY <1>1, <1>2

\* The text from an item on is its own and that from its next sibling on.
LEMMA ItemMeans ==
  ASSUME NEW r, IsReading(r), NEW j \in 1..Len(r.tree), NEW scope \in Scopes,
         NEW next, next = r.tree[j].idxNextSibling
  PROVE  /\ From(r, j, scope) = OfItem(r, j, scope) \o From(r, next, scope)
         /\ IsSeq(OfItem(r, j, scope)) /\ IsSeq(From(r, next, scope))
         /\ next \in 0..Len(r.tree)
<1> DEFINE s == r.s
           x == r.at[j]
           item == r.tree[j]
           m == r.m
           y == Behind(s, item, x)
<1>1. /\ Len(s) \in Nat /\ Len(r.tree) \in Nat /\ IsMeaning(r.env, s, r.sub, m)
      /\ EnvFits(r.env) /\ LoopsFit(s) /\ IsSeq(s) /\ NoEmptyToken(s)
  BY DEF IsReading, IsMeaning, Ended
<1>2. LaidItem(s, r.tree, r.at, j)
  BY DEF IsReading, Laid
<1>3. /\ x \in 1..Len(s) /\ ItemAt(s, item, x) /\ Closed(s, r.tree, r.at, j)
      /\ IF next # 0 THEN next \in 1..Len(r.tree) /\ Leads(s, y, r.at[next])
         ELSE StopsAt(s, y)
  BY <1>2 DEF LaidItem
<1>4. next \in 0..Len(r.tree)
  BY <1>1, <1>3
<1>5. j # 0
  OBVIOUS
<1>6. m[y][scope] = From(r, next, scope)
  <2>1. CASE next # 0
    <3>1. m[y][scope] = m[r.at[next]][scope]
      BY <1>1, <1>3, <2>1, LeadsSame
    <3> QED BY <2>1, <3>1 DEF From
  <2>2. CASE next = 0
    <3>1. StopsAt(s, y)
      BY <1>3, <2>2
    <3>2. m[y][scope] = <<>>
      BY <1>1, <3>1, StopsNothing
    <3> QED BY <2>2, <3>2 DEF From
  <2> QED BY <2>1, <2>2
<1>7. IsSeq(From(r, next, scope))
  BY <1>4, FromFits
<1> HIDE DEF s, m, y, x, item
<1>8. /\ From(r, j, scope) = m[x][scope]
      /\ OfItem(r, j, scope) = IF item.t = "Static" THEN item.text
                               ELSE Piece(r.env, s, r.sub, x, scope, m[x + 1])
  BY <1>5 DEF From, OfItem, s, m, x, item
<1>9. CASE item.t = "Static"
  <2>1. m[x][scope] = item.text \o m[y][scope] /\ IsSeq(item.text)
    <3> DEFINE env == r.env
               sub == r.sub
    <3>1. IsMeaning(env, s, sub, m) /\ StaticAt(s, item, x)
          /\ IsSeq(s) /\ NoEmptyToken(s)
      BY <1>1, <1>3, <1>9 DEF StaticAt
    <3> HIDE DEF env, sub
    <3>2. Splits(m, x, item.text, Behind(s, item, x), scope) /\ IsSeq(item.text)
      BY <3>1, StaticMeans
    <3> QED BY <3>2 DEF y, Splits
  <2> QED BY <1>4, <1>6, <1>7, <1>8, <1>9, <2>1
<1>10. CASE item.t # "Static"
  <2>1. /\ item.t = TypeOf(s[x])
        /\ s[x].k \in {"if", "for", "var", "str", "include"}
    <3>1. ItemAt(s, item, x)
      BY <1>3
    <3> QED BY <1>10, <3>1 DEF ItemAt, Opener
  <2>2. item.t \in Blocks <=> s[x].k \in Opener
    BY <2>1 DEF TypeOf, Opener, Blocks
  <2>3. y = EndOf(s, x) + 1
    BY <1>10, <2>2 DEF y, Behind, EndOf
  <2>4. x \in 1..Len(s)+1 /\ ~(x > Len(s)) /\ s[x].k \notin DOMAIN Begin
    BY <1>1, <1>3, <2>1 DEF Begin
  <2>5. m[x][scope] = Piece(r.env, s, r.sub, x, scope, m[x + 1]) \o m[y][scope]
    BY <1>1, <2>3, <2>4 DEF IsMeaning, MeaningFrom
  <2>6. IsSeq(Piece(r.env, s, r.sub, x, scope, m[x + 1]))
    <3> DEFINE within == m[x + 1]
               sub == r.sub
               env == r.env
    <3>1. x + 1 \in 1..Len(s)+1
      BY <1>1, <1>3
    <3>2. \A c \in Scopes : IsSeq(within[c])
      BY <1>1, <3>1 DEF IsMeaning
    <3>3. \A name \in DOMAIN sub : IsSeq(sub[name])
      BY DEF IsReading
    <3>4. EnvFits(env) /\ LoopsFit(s) /\ x \in 1..Len(s)
      BY <1>1, <1>3
    <3> HIDE DEF within, sub, env
    <3>5. IsSeq(Piece(env, s, sub, x, scope, within))
      BY <3>2, <3>3, <3>4, PieceFits
    <3> QED BY <3>5 DEF within, sub, env
  <2> QED BY <1>4, <1>6, <1>7, <1>8, <1>10, <2>5, <2>6
<1> QED BY <1>9, <1>10 DEF y

\* Something to write, or to be done, between piece x and its end.
Content(s, x) == \E l \in (x + 1)..(Closer(s, x) - 1) : ~Hidden(s, l)

\* The children of a block are what lies between its token and its end.
LEMMA ChildMeans ==
  ASSUME NEW r, IsReading(r), NEW j \in 1..Len(r.tree), r.tree[j].t \in Blocks,
         NEW child, child = r.tree[j].idxFirstChild
  PROVE  /\ \A scope \in Scopes : r.m[r.at[j] + 1][scope] = From(r, child, scope)
         /\ child \in 0..Len(r.tree)
         /\ Content(r.s, r.at[j]) <=> child # 0
<1> DEFINE s == r.s
           x == r.at[j]
           item == r.tree[j]
           m == r.m
           e == Closer(s, x)
<1>1. /\ Len(s) \in Nat /\ Len(r.tree) \in Nat /\ IsMeaning(r.env, s, r.sub, m)
  BY DEF IsReading, IsMeaning, Ended
<1>2. LaidItem(s, r.tree, r.at, j)
  BY DEF IsReading, Laid
<1>3. /\ x \in 1..Len(s) /\ ItemAt(s, item, x) /\ Closed(s, r.tree, r.at, j)
      /\ child # 0 => child \in 1..Len(r.tree) /\ Leads(s, x + 1, r.at[child])
  BY <1>2 DEF LaidItem
<1>4. /\ e \in x+1..Len(s) /\ s[e].k \in {"endif", "endfor"}
      /\ IF child = 0 THEN Leads(s, x + 1, e) ELSE r.at[child] < e
  BY <1>3 DEF Closed
<1> HIDE DEF s, x, item, m, e
<1>5. CASE child = 0
  <2>1. Leads(s, x + 1, e)
    BY <1>4, <1>5
  <2>2. Stops(s, e)
    <3>1. e \in 1..Len(s)
      BY <1>1, <1>3, <1>4
    <3> QED BY <1>4, <3>1 DEF Stops
  <2>3. StopsAt(s, x + 1)
    BY <2>1, <2>2 DEF StopsAt
  <2>4. ASSUME NEW scope \in Scopes PROVE m[x + 1][scope] = <<>>
    <3> DEFINE env == r.env
               sub == r.sub
               y == x + 1
    <3>1. IsMeaning(env, s, sub, m) /\ StopsAt(s, y)
      BY <1>1, <2>3
    <3> HIDE DEF env, sub, y
    <3>2. m[y][scope] = <<>>
      BY <3>1, StopsNothing
    <3> QED BY <3>2 DEF y
  <2>5. ~\E l \in (x + 1)..(e - 1) : ~Hidden(s, l)
    <3> SUFFICES ASSUME NEW l \in (x + 1)..(e - 1) PROVE Hidden(s, l)
      OBVIOUS
    <3>1. e # x + 1 /\ (e = (x + 1) + 1 => l = x + 1)
      BY <1>1, <1>3, <1>4
    <3> QED BY <2>1, <3>1 DEF Leads
  <2>6. ~Content(s, x)
    BY <2>5 DEF Content, e
  <2> QED BY <1>1, <1>5, <2>4, <2>6 DEF From, s, x, m
<1>6. CASE child # 0
  <2> DEFINE y == r.at[child]
             own == r.tree[child]
  <2>1. child \in 1..Len(r.tree) /\ Leads(s, x + 1, y) /\ y < e
    BY <1>3, <1>4, <1>6
  <2>2. LaidItem(s, r.tree, r.at, child)
    BY <2>1 DEF IsReading, Laid, s
  <2>3. y \in 1..Len(s) /\ ItemAt(s, own, y)
    BY Zenon, <2>2 DEF LaidItem
  <2> HIDE DEF y, own
  <2>4. ASSUME NEW scope \in Scopes PROVE m[x + 1][scope] = From(r, child, scope)
    <3> DEFINE env == r.env
               sub == r.sub
               z == x + 1
    <3>1. IsMeaning(env, s, sub, m) /\ Leads(s, z, y)
      BY <1>1, <2>1
    <3> HIDE DEF env, sub, z
    <3>2. m[z][scope] = m[y][scope]
      BY <3>1, LeadsSame
    <3> QED BY <1>6, <3>2 DEF From, y, z, m
  <2>5. ~Hidden(s, y)
    <3>1. CASE own.t = "Static"
      <4>1. /\ own.text \in Seq(Pieces(s)) /\ Len(own.text) # 0
            /\ \A i \in 1..Len(own.text) : ~Hidden(s, y + i - 1)
        BY <2>3, <3>1 DEF ItemAt
      <4>2. 1 \in 1..Len(own.text)
        BY <4>1, LenProperties
      <4>3. y + 1 - 1 = y
        BY <1>1, <2>3
      <4>4. ~Hidden(s, y + 1 - 1)
        BY <4>1, <4>2
      <4> QED BY <4>3, <4>4
    <3>2. CASE own.t # "Static"
      <4>1. s[y].k \in Opener \cup {"var", "str", "include"}
        BY <2>3, <3>2 DEF ItemAt
      <4> QED BY <4>1 DEF Hidden, Opener
    <3> QED BY <3>1, <3>2
  <2>6. y \in (x + 1)..(e - 1)
    <3>1. y = x + 1 \/ y = (x + 1) + 1
      BY <2>1 DEF Leads
    <3> QED BY <1>1, <1>3, <1>4, <2>1, <2>3, <3>1
  <2>7. Content(s, x)
    BY <2>5, <2>6 DEF Content, e
  <2>8. child \in 0..Len(r.tree)
    BY <1>1, <2>1
  <2> QED BY <1>6, <2>4, <2>7, <2>8 DEF s, x, m
<1> QED BY <1>5, <1>6

\* The rounds of loop j over the values in todo.
Rounds(r, j, scope, todo) ==
    Joined([i \in DOMAIN todo |-> From(r, r.tree[j].idxFirstChild,
                                       Bound(scope, r.tree[j].text.var, todo[i]))])[1]

\* A loop over nothing means nothing.
LEMMA RoundsNone ==
  ASSUME NEW r, NEW j, NEW scope
  PROVE  Rounds(r, j, scope, <<>>) = <<>>
<1> DEFINE round(val) == From(r, r.tree[j].idxFirstChild,
                              Bound(scope, r.tree[j].text.var, val))
           none == [i \in DOMAIN <<>> |-> round(<<>>[i])]
<1>1. DOMAIN <<>> = 1..0
  OBVIOUS
<1>2. none = [i \in 1..0 |-> round(<<>>[i])]
  BY <1>1
<1> HIDE DEF round, none
<1>3. Len(none) = 0
  BY <1>2
<1>4. Len(none) \in Nat
  BY <1>3
<1>5. Joined(none)[1] = <<>>
  <2>1. Joined(none)[Len(none) + 1] = <<>>
    BY <1>4, JoinedSteps
  <2>2. Len(none) + 1 = 1
    BY <1>3
  <2> QED BY <2>1, <2>2
<1> QED BY <1>5 DEF Rounds, none, round

\* A loop over some values: its first round, and then the others.
LEMMA RoundsNext ==
  ASSUME NEW r, IsReading(r), NEW j \in 1..Len(r.tree), NEW scope \in Scopes,
         NEW todo \in Seq(JsonValues), r.tree[j].text.var \in LocalNames,
         r.tree[j].idxFirstChild \in 0..Len(r.tree)
  PROVE  /\ IsSeq(Rounds(r, j, scope, todo))
         /\ todo # <<>> =>
              Rounds(r, j, scope, todo)
                = From(r, r.tree[j].idxFirstChild,
                       Bound(scope, r.tree[j].text.var, todo[1]))
                    \o Rounds(r, j, scope, Tail(todo))
<1> DEFINE round(val) == From(r, r.tree[j].idxFirstChild,
                              Bound(scope, r.tree[j].text.var, val))
           texts(vals) == [i \in DOMAIN vals |-> round(vals[i])]
           n == Len(todo)
           all == texts(todo)
           var == r.tree[j].text.var
           child == r.tree[j].idxFirstChild
<1>1. n \in Nat /\ DOMAIN todo = 1..n /\ \A i \in 1..n : todo[i] \in JsonValues
  BY LenProperties
<1>2. \A val \in JsonValues : IsSeq(round(val))
  <2> SUFFICES ASSUME NEW val \in JsonValues PROVE IsSeq(round(val))
    OBVIOUS
  <2>1. Bound(scope, var, val) \in Scopes
    BY BoundFits
  <2> QED BY <2>1, FromFits
<1> HIDE DEF round, n
<1>3. all = [i \in 1..n |-> round(todo[i])]
  BY <1>1
<1> HIDE DEF all
<1>4. Len(all) = n /\ \A i \in 1..n : all[i] = round(todo[i])
  BY <1>1, <1>3
<1>5. \A i \in 1..Len(all) : IsSeq(all[i])
  BY <1>1, <1>2, <1>4
<1>6. IsSeq(Joined(all)[1])
  <2>1. Len(all) \in Nat /\ 1 \in 1..Len(all)+1
    BY <1>1, <1>4
  <2> QED BY <1>5, <2>1, JoinedFits
<1>7. Rounds(r, j, scope, todo) = Joined(all)[1]
  BY DEF Rounds, all, round
<1>8. ASSUME todo # <<>>
      PROVE  Joined(all)[1] = round(todo[1]) \o Rounds(r, j, scope, Tail(todo))
  <2> DEFINE tail == Tail(todo)
             less == texts(tail)
  <2>1. /\ tail \in Seq(JsonValues) /\ Len(tail) = n - 1
        /\ \A i \in 1..Len(tail) : tail[i] = todo[i + 1]
    BY <1>8, HeadTailProperties DEF n
  <2>2. n \in Nat \ {0} /\ DOMAIN tail = 1..n-1
    BY <1>1, <1>8, <2>1, EmptySeq, LenProperties DEF n
  <2>3. Rounds(r, j, scope, tail) = Joined(less)[1]
    BY DEF Rounds, round
  <2> HIDE DEF tail
  <2>4. less = [i \in 1..n-1 |-> round(tail[i])]
    BY <2>2
  <2> HIDE DEF less
  <2>5. Len(less) = n - 1 /\ \A i \in 1..n-1 : less[i] = round(tail[i])
    BY <2>2, <2>4
  <2>6. \A i \in 1..n-1 : less[i] = all[i + 1]
    <3>1. \A i \in 1..n-1 : i + 1 \in 1..n
      BY <2>2
    <3> QED BY <1>4, <2>1, <2>5, <3>1
  <2>7. Len(all) \in Nat \ {0} /\ Len(less) = Len(all) - 1
        /\ \A i \in 1..Len(less) : less[i] = all[i + 1]
    BY <1>4, <2>2, <2>5, <2>6
  <2>8. Joined(all)[1] = all[1] \o Joined(less)[1]
    BY <2>7, JoinedTail
  <2>9. all[1] = round(todo[1])
    BY <1>4, <2>2
  <2> QED BY <2>3, <2>8, <2>9 DEF tail
<1> QED BY <1>6, <1>7, <1>8 DEF round

\* A text without exceptions.
Clean(text) == IsSeq(text) /\ \A i \in 1..Len(text) : ~IsException(text[i])

\* A token is what the item says.
LEMMA TokenAt ==
  ASSUME NEW r, IsReading(r), NEW j \in 1..Len(r.tree), r.tree[j].t # "Static"
  PROVE  /\ r.tree[j].text = r.s[r.at[j]] /\ r.at[j] \in 1..Len(r.s)
         /\ r.tree[j].t = TypeOf(r.s[r.at[j]])
         /\ r.s[r.at[j]].k \in {"if", "for", "var", "str", "include"}
<1>1. LaidItem(r.s, r.tree, r.at, j)
  BY DEF IsReading, Laid
<1>2. ItemAt(r.s, r.tree[j], r.at[j]) /\ r.at[j] \in 1..Len(r.s)
  BY <1>1 DEF LaidItem
<1> QED BY <1>2 DEF ItemAt, Opener

\* Static text is clean.
LEMMA StaticIsClean ==
  ASSUME NEW r, IsReading(r), NEW j \in 1..Len(r.tree), r.tree[j].t = "Static"
  PROVE  Clean(r.tree[j].text)
<1> DEFINE s == r.s
           text == r.tree[j].text
           x == r.at[j]
<1>1. LaidItem(s, r.tree, r.at, j) /\ Len(s) \in Nat /\ \A i \in 1..Len(s) : ~IsException(s[i])
  BY DEF IsReading, Laid, IsMeaning, Ended
<1>2. ItemAt(s, r.tree[j], x) /\ x \in 1..Len(s)
  BY <1>1 DEF LaidItem
<1>3. /\ text \in Seq(Pieces(s)) /\ x + Len(text) <= Len(s) + 1
      /\ \A i \in 1..Len(text) : text[i] = s[x + i - 1]
  BY <1>2 DEF ItemAt
<1>4. IsSeq(text) /\ Len(text) \in Nat
  BY <1>3, SeqIsSeq
<1> HIDE DEF s, text, x
<1>5. \A i \in 1..Len(text) : x + i - 1 \in 1..Len(s)
  BY <1>1, <1>2, <1>3, <1>4
<1>6. \A i \in 1..Len(text) : ~IsException(text[i])
  BY <1>1, <1>3, <1>5
<1> QED BY <1>4, <1>6 DEF Clean, text

\* Nothing, or one piece, is clean.
LEMMA ShortIsClean ==
  /\ Clean(<<>>)
  /\ \A x : x.t # "exception" => Clean(<<x>>)
<1>1. Clean(<<>>)
  BY ShortSeqs DEF Clean
<1>2. ASSUME NEW x, x.t # "exception" PROVE Clean(<<x>>)
  <2> DEFINE text == <<x>>
  <2>1. IsSeq(text) /\ Len(text) = 1 /\ text[1] = x
    BY ShortSeqs
  <2> HIDE DEF text
  <2>2. \A i \in 1..Len(text) : text[i] = x
    BY <2>1
  <2>3. ~IsException(x)
    BY <1>2 DEF IsException
  <2> QED BY <2>1, <2>2, <2>3 DEF Clean, text
<1> QED BY <1>1, <1>2

\* A text that a variable may leave.
Short(text) == \/ text = <<>>
               \/ \E x : text = <<x>> /\ x.t # "exception"
               \/ \E e : text = <<Raised(e)>>

\* What the handler of a variable looks up.
LookedUp(env, token, found) ==
    IF token.k = "str"
    THEN IF token.name = "" THEN <<>> ELSE GetString(env.strList, env.langCode, token.name)
    ELSE IF found = <<>> THEN <<>> ELSE Json2String(found[1])

\* What a variable means, as its handler looks it up.
LEMMA VariableMeans ==
  ASSUME NEW r, IsReading(r), NEW j \in 1..Len(r.tree), r.tree[j].t = "Variable",
         NEW scope \in Scopes, NEW token, token = r.tree[j].text,
         NEW found, found = Resolve(token.var, r.env.dic, scope)
  PROVE  OfItem(r, j, scope) = LookedUp(r.env, token, found) /\ Short(OfItem(r, j, scope))
<1> USE DEF LookedUp, Short
<1> DEFINE x == r.at[j]
           text == OfItem(r, j, scope)
           env == r.env
<1>1. /\ token = r.s[x] /\ token.k \in {"var", "str"}
  <2>1. /\ token = r.s[x] /\ TypeOf(token) = "Variable"
        /\ token.k \in {"if", "for", "var", "str", "include"}
    BY TokenAt
  <2> QED BY <2>1 DEF TypeOf
<1>2. text = Piece(env, r.s, r.sub, x, scope, r.m[x + 1])
  BY DEF OfItem
<1>3. EnvFits(env)
  BY DEF IsReading
<1>4. CASE token.k = "str"
  <2>1. text = IF token.name # "" THEN GetString(env.strList, env.langCode, token.name)
               ELSE <<>>
    BY Zenon, <1>1, <1>2, <1>4 DEF Piece
  <2> DEFINE got == GetString(env.strList, env.langCode, token.name)
  <2>2. \E y : got = <<y>> /\ y.t = "str"
    <3>1. \A key \in DOMAIN env.strList : env.strList[key].t = "str"
      BY <1>3 DEF EnvFits
    <3>2. Text("???").t = "str"
      BY DEF Text
    <3> QED BY Zenon, <3>1, <3>2 DEF GetString
  <2> HIDE DEF got, text
  <2>3. text = IF token.name = "" THEN <<>> ELSE got
    BY Zenon, <2>1 DEF got
  <2>4. text = <<>> \/ \E y : text = <<y>> /\ y.t # "exception"
    BY Zenon, <2>2, <2>3
  <2> QED BY Zenon, <1>4, <2>3, <2>4 DEF text, got, env
<1>5. CASE token.k = "var"
  <2>1. text = IF found # <<>> THEN Json2String(found[1]) ELSE <<>>
    BY <1>1, <1>2, <1>5 DEF Piece
  <2>2. ASSUME found # <<>>
        PROVE  \/ Json2String(found[1]) = <<>>
               \/ \E y : Json2String(found[1]) = <<y>> /\ y.t # "exception"
               \/ \E e : Json2String(found[1]) = <<Raised(e)>>
    <3> DEFINE v == found[1]
    <3>1. v \in JsonValues \/ v = Raised("InvalidName")
      <4> DEFINE dictionary == env.dic
                 var == token.var
      <4>1. \A y \in DOMAIN dictionary : dictionary[y] \in JsonValues
        BY <1>3 DEF EnvFits
      <4> HIDE DEF dictionary, var
      <4>2. \/ Resolve(var, dictionary, scope) = <<>>
            \/ Resolve(var, dictionary, scope) = <<Raised("InvalidName")>>
            \/ \E y \in JsonValues : Resolve(var, dictionary, scope) = <<y>>
        BY <4>1, ResolveFits
      <4>3. found = Resolve(var, dictionary, scope)
        BY DEF dictionary, var
      <4> QED BY <2>2, <4>2, <4>3
    <3> HIDE DEF v
    <3>2. \/ Json2String(v) = <<>>
          \/ \E y : Json2String(v) = <<y>> /\ y.t # "exception"
          \/ \E e : Json2String(v) = <<Raised(e)>>
      BY <3>1, StringFits
    <3> QED BY Zenon, <3>2 DEF v
  <2> HIDE DEF text
  <2>3. text = IF found = <<>> THEN <<>> ELSE Json2String(found[1])
    BY <2>1
  <2>4. token.k # "str"
    BY <1>5
  <2>5. \/ text = <<>>
        \/ \E y : text = <<y>> /\ y.t # "exception"
        \/ \E e : text = <<Raised(e)>>
    BY <2>2, <2>3
  <2> QED BY Zenon, <2>3, <2>4, <2>5 DEF text
<1> QED BY Zenon, <1>1, <1>4, <1>5

\* What an include command means: what the template means that is found for its path.
LEMMA IncludeMeans ==
  ASSUME NEW r, IsReading(r), NEW j \in 1..Len(r.tree), r.tree[j].t = "IncludeCmd",
         NEW scope \in Scopes,
         NEW name, name = LocalizedFor(r.env.langCode, r.env.known, r.tree[j].text.path)
  PROVE  OfItem(r, j, scope) = IF name = <<>> THEN <<Raised("NoSuchTemplate")>>
                               ELSE IF name \notin DOMAIN r.sub THEN <<Raised("Circular")>>
                               ELSE r.sub[name]
<1> DEFINE p == r.s[r.at[j]]
<1>1. r.tree[j].text = p /\ p.k = "include"
  <2>1. /\ r.tree[j].text = p /\ TypeOf(p) = "IncludeCmd"
        /\ p.k \in {"if", "for", "var", "str", "include"}
    BY TokenAt
  <2> QED BY <2>1 DEF TypeOf
<1> QED BY <1>1 DEF OfItem, Piece

\* What a condition means: the text of its block, nothing, or an exception.
LEMMA ConditionMeans ==
  ASSUME NEW r, IsReading(r), NEW j \in 1..Len(r.tree), r.tree[j].t = "Condition",
         NEW scope \in Scopes, NEW token, token = r.tree[j].text,
         NEW found, found = Resolve(token.var, r.env.dic, scope),
         NEW val, val = CondValue(IF found = <<>> THEN Null ELSE found[1]),
         NEW child, child = r.tree[j].idxFirstChild
  PROVE  /\ val.t = "exception" => /\ val = Raised(val.v)
                                   /\ OfItem(r, j, scope) = <<Raised(val.v)>>
         /\ val.t # "exception" => OfItem(r, j, scope) = IF val.v # token.inv
                                                          THEN From(r, child, scope) ELSE <<>>
<1> DEFINE p == r.s[r.at[j]]
           within == r.m[r.at[j] + 1]
<1>1. token = p /\ p.k = "if"
  <2>1. /\ token = p /\ TypeOf(p) = "Condition"
        /\ p.k \in {"if", "for", "var", "str", "include"}
    BY TokenAt
  <2> QED BY <2>1 DEF TypeOf
<1>2. OfItem(r, j, scope) = IF val.t = "exception" THEN <<val>>
                            ELSE IF val.v # token.inv THEN within[scope] ELSE <<>>
  BY <1>1 DEF OfItem, Piece
<1>3. within[scope] = From(r, child, scope)
  <2>1. r.tree[j].t \in Blocks
    BY DEF Blocks
  <2> QED BY <2>1, ChildMeans
<1>4. val.t = "exception" => val = Raised(val.v)
  <2> DEFINE v == IF found = <<>> THEN Null ELSE found[1]
  <2>1. v \in JsonValues \/ v = Null \/ v = Raised("InvalidName")
    <3> DEFINE dictionary == r.env.dic
               var == token.var
    <3>1. \A y \in DOMAIN dictionary : dictionary[y] \in JsonValues
      BY DEF EnvFits, IsReading
    <3> HIDE DEF dictionary, var
    <3>2. \/ Resolve(var, dictionary, scope) = <<>>
          \/ Resolve(var, dictionary, scope) = <<Raised("InvalidName")>>
          \/ \E y \in JsonValues : Resolve(var, dictionary, scope) = <<y>>
      BY <3>1, ResolveFits
    <3>3. found = Resolve(var, dictionary, scope)
      BY DEF dictionary, var
    <3> QED BY <3>2, <3>3
  <2> HIDE DEF v
  <2>2. \/ \E b \in BOOLEAN : CondValue(v) = Bool(b)
        \/ \E e : CondValue(v) = Raised(e)
        \/ CondValue(v) = v /\ v.t = "bool"
    BY <2>1, CondFits
  <2>3. val = CondValue(v)
    BY DEF v
  <2> QED BY <2>2, <2>3 DEF Bool, Raised
<1> QED BY Zenon, <1>2, <1>3, <1>4

\* What a loop means: its rounds, or an exception.
LEMMA LoopMeans ==
  ASSUME NEW r, IsReading(r), NEW j \in 1..Len(r.tree), r.tree[j].t = "ForLoop",
         NEW scope \in Scopes, NEW token, token = r.tree[j].text,
         NEW found, found = Resolve(token.list, r.env.dic, scope),
         NEW child, child = r.tree[j].idxFirstChild,
         NEW todo, todo = IF child # 0 /\ found # <<>> /\ found[1].t = "array"
                          THEN found[1].v ELSE <<>>
  PROVE  /\ token.var \in LocalNames
         /\ child # 0 /\ found # <<>> /\ found[1].t = "exception" =>
              found[1] = Raised(found[1].v) /\ OfItem(r, j, scope) = <<Raised(found[1].v)>>
         /\ ~(child # 0 /\ found # <<>> /\ found[1].t = "exception") =>
              todo \in Seq(JsonValues) /\ OfItem(r, j, scope) = Rounds(r, j, scope, todo)
<1> DEFINE p == r.s[r.at[j]]
           within == r.m[r.at[j] + 1]
           text == OfItem(r, j, scope)
           texts == [i \in DOMAIN found[1].v |-> within[Bound(scope, token.var, found[1].v[i])]]
<1>1. token = p /\ p.k = "for" /\ r.at[j] \in 1..Len(r.s)
  <2>1. /\ token = p /\ TypeOf(p) = "ForLoop" /\ r.at[j] \in 1..Len(r.s)
        /\ p.k \in {"if", "for", "var", "str", "include"}
    BY TokenAt
  <2> QED BY <2>1 DEF TypeOf
<1>2. token.var \in LocalNames
  BY <1>1 DEF IsReading, LoopsFit
<1>3. /\ \A c \in Scopes : within[c] = From(r, child, c)
      /\ Content(r.s, r.at[j]) <=> child # 0
  <2>1. r.tree[j].t \in Blocks
    BY DEF Blocks
  <2> QED BY <2>1, ChildMeans
<1>4. text = IF found # <<>> /\ Content(r.s, r.at[j])
             THEN IF found[1].t = "exception" THEN found
                  ELSE IF found[1].t # "array" THEN <<>>
                  ELSE Joined(texts)[1]
             ELSE <<>>
  BY Zenon, <1>1 DEF OfItem, Piece, Content
<1>5. \/ found = <<>>
      \/ found = <<Raised("InvalidName")>>
      \/ \E y \in JsonValues : found = <<y>>
  <2> DEFINE dictionary == r.env.dic
             list == token.list
  <2>1. \A y \in DOMAIN dictionary : dictionary[y] \in JsonValues
    BY DEF EnvFits, IsReading
  <2> HIDE DEF dictionary, list
  <2>2. \/ Resolve(list, dictionary, scope) = <<>>
        \/ Resolve(list, dictionary, scope) = <<Raised("InvalidName")>>
        \/ \E y \in JsonValues : Resolve(list, dictionary, scope) = <<y>>
    BY <2>1, ResolveFits
  <2>3. found = Resolve(list, dictionary, scope)
    BY DEF dictionary, list
  <2> QED BY <2>2, <2>3
<1> HIDE DEF text, texts, within, p
<1>6. ASSUME child # 0, found # <<>>, found[1].t = "exception"
      PROVE  found[1] = Raised(found[1].v) /\ text = <<Raised(found[1].v)>>
  <2>1. found = <<Raised("InvalidName")>>
    BY <1>5, <1>6, MeaningAssumption
  <2>2. text = found
    BY <1>3, <1>4, <1>6
  <2>3. found[1] = Raised("InvalidName") /\ Raised("InvalidName").v = "InvalidName"
    BY <2>1 DEF Raised
  <2> QED BY <2>1, <2>2, <2>3
<1>7. CASE child # 0 /\ found # <<>> /\ found[1].t = "array"
  <2>1. found[1] \in JsonValues /\ found[1].t # "exception"
    BY <1>5, <1>7 DEF Raised
  <2>2. todo = found[1].v /\ todo \in Seq(JsonValues)
    BY <1>7, <2>1, MeaningAssumption
  <2>3. text = Joined(texts)[1]
    BY <1>3, <1>4, <1>7
  <2>4. texts = [i \in DOMAIN todo |-> From(r, child, Bound(scope, token.var, todo[i]))]
    <3>1. \A i \in DOMAIN todo : todo[i] \in JsonValues
      BY <2>2
    <3>2. \A i \in DOMAIN todo : Bound(scope, token.var, todo[i]) \in Scopes
      BY <1>2, <3>1, BoundFits
    <3>3. \A i \in DOMAIN todo : within[Bound(scope, token.var, todo[i])]
                                   = From(r, child, Bound(scope, token.var, todo[i]))
      BY Zenon, <1>3, <3>2
    <3>4. texts = [i \in DOMAIN todo |-> within[Bound(scope, token.var, todo[i])]]
      BY Zenon, <2>2 DEF texts
    <3> QED BY Zenon, <3>3, <3>4
  <2>5. Rounds(r, j, scope, todo) = Joined(texts)[1]
    BY Zenon, <2>4 DEF Rounds
  <2> QED BY <1>2, <2>1, <2>2, <2>3, <2>5 DEF text
<1>8. CASE ~(child # 0 /\ found # <<>> /\ found[1].t \in {"array", "exception"})
  <2>1. todo = <<>> /\ text = <<>>
    BY <1>3, <1>4, <1>8
  <2>2. Rounds(r, j, scope, todo) = <<>> /\ todo \in Seq(JsonValues)
    <3>1. Rounds(r, j, scope, <<>>) = <<>>
      BY RoundsNone
    <3>2. <<>> \in Seq(JsonValues)
      BY EmptySeq
    <3> QED BY <2>1, <3>1, <3>2
  <2>3. ~(child # 0 /\ found # <<>> /\ found[1].t = "exception")
    BY <1>8
  <2> QED BY <1>2, <2>1, <2>2, <2>3 DEF text
<1>9. CASE child # 0 /\ found # <<>> /\ found[1].t = "exception"
  BY <1>2, <1>6, <1>9 DEF text
<1> QED BY Zenon, <1>7, <1>8, <1>9

-----------------------------------------------------------------------------
(***************************************************************************)
(* What an activation of getTemplate_Recursive() still has to produce: the  *)
(* text from its innermost block on, and behind every block the rounds that  *)
(* are left of its loop and the text behind the item that opened it.         *)
(***************************************************************************)

\* No loop of the block of item j has a variable of the scope.
Fresh(r, j, scope) ==
    \A i \in r.at[j]+1..Closer(r.s, r.at[j]) : r.s[i].k = "for" => r.s[i].var \notin DOMAIN scope

\* A block, with its scope and the text behind it, that item j has opened.
Inside(r, j, scope, after, block2, scope2, after2) ==
    /\ j \in 1..Len(r.tree) /\ r.tree[j].t \in Blocks
    /\ block2.idx # 0 => r.tree[block2.idx].idxParent = j
    /\ Fresh(r, j, scope2) /\ scope2 \in Scopes /\ IsSeq(after2)
    /\ IF r.tree[j].t = "ForLoop"
       THEN /\ block2.todo \in Seq(JsonValues)
            /\ r.tree[j].text.var \notin DOMAIN scope
            /\ \E val \in JsonValues : scope2 = Bound(scope, r.tree[j].text.var, val)
            /\ after2 = Rounds(r, j, scope, block2.todo)
                          \o (From(r, r.tree[j].idxNextSibling, scope) \o after)
       ELSE scope2 = scope /\ after2 = From(r, r.tree[j].idxNextSibling, scope) \o after

\* The blocks of an activation with below behind it: the scope of the innermost one,
\* and the text that follows it.
Opens(r, blocks, scope, below, after, scopes, tails) ==
    /\ scopes[1] = <<>> /\ tails[1] = below
    /\ scopes[Len(blocks)] = scope /\ tails[Len(blocks)] = after
    /\ \A b \in 1..Len(blocks) : scopes[b] \in Scopes /\ IsSeq(tails[b])
    /\ \A b \in 1..Len(blocks)-1 : Inside(r, blocks[b].idx, scopes[b], tails[b],
                                          blocks[b + 1], scopes[b + 1], tails[b + 1])

Open(r, blocks, scope, below, after) ==
    \E scopes, tails : Opens(r, blocks, scope, below, after, scopes, tails)

\* A list of blocks, or of activations.
IsList(blocks) == IsSeq(blocks) /\ blocks # <<>>

\* The only block of a template.
LEMMA OpenAlone ==
  ASSUME NEW r, NEW blocks, Len(blocks) = 1, NEW below, IsSeq(below)
  PROVE  Open(r, blocks, <<>>, below, below)
<1> DEFINE scopes == [b \in {1} |-> <<>>]
           tails == [b \in {1} |-> below]
<1>1. scopes[1] = <<>> /\ tails[1] = below
  OBVIOUS
<1>2. \A b \in 1..1 : b = 1
  OBVIOUS
<1>3. \A b \in 1..1-1 : FALSE
  OBVIOUS
<1> HIDE DEF scopes, tails
<1>4. \A b \in 1..Len(blocks) : scopes[b] \in Scopes /\ IsSeq(tails[b])
  BY <1>1, <1>2, NoScope
<1>5. Opens(r, blocks, <<>>, below, below, scopes, tails)
  BY <1>1, <1>3, <1>4 DEF Opens
<1> QED BY <1>5 DEF Open

\* The innermost block has a scope, and a text behind it.
LEMMA OpenFacts ==
  ASSUME NEW r, NEW blocks, IsList(blocks), NEW scope, NEW below, NEW after,
         Open(r, blocks, scope, below, after)
  PROVE  /\ scope \in Scopes /\ IsSeq(after)
         /\ Len(blocks) = 1 => scope = <<>> /\ after = below
<1>1. PICK scopes, tails : Opens(r, blocks, scope, below, after, scopes, tails)
  BY DEF Open
<1>2. Len(blocks) \in 1..Len(blocks)
  BY FrontSeq DEF IsList
<1> QED BY <1>1, <1>2 DEF Opens

\* The innermost block moves to another item of it, or to its end.
LEMMA OpenMoved ==
  ASSUME NEW r, NEW blocks, IsList(blocks), NEW scope, NEW below, NEW after,
         Open(r, blocks, scope, below, after), NEW m, m = Len(blocks), NEW next,
         blocks[m] = [idx |-> blocks[m].idx, todo |-> blocks[m].todo], blocks[m].idx # 0,
         next # 0 => r.tree[next].idxParent = r.tree[blocks[m].idx].idxParent
  PROVE  Open(r, [blocks EXCEPT ![m] = [idx |-> next, todo |-> blocks[m].todo]],
              scope, below, after)
<1> DEFINE e == [idx |-> next, todo |-> blocks[m].todo]
           new == [blocks EXCEPT ![m] = e]
<1>1. PICK scopes, tails : Opens(r, blocks, scope, below, after, scopes, tails)
  BY DEF Open
<1>2. IsSeq(blocks) /\ m \in Nat \ {0} /\ m \in 1..Len(blocks)
  BY FrontSeq DEF IsList
<1>3. e.idx = next /\ e.todo = blocks[m].todo
  OBVIOUS
<1> HIDE DEF e
<1>4. Changed(blocks, m, e, new)
  BY <1>2, ChangedSeq
<1> HIDE DEF new
<1>5. Len(new) = m /\ new[m] = e /\ \A b \in 1..m : b # m => new[b] = blocks[b]
  BY <1>2, <1>4 DEF Changed
<1>6. ASSUME NEW b \in 1..m-1
      PROVE  Inside(r, new[b].idx, scopes[b], tails[b], new[b + 1], scopes[b + 1], tails[b + 1])
  <2>1. b \in 1..m /\ b # m /\ b + 1 \in 1..m
    BY <1>2
  <2>2. Inside(r, blocks[b].idx, scopes[b], tails[b], blocks[b + 1], scopes[b + 1], tails[b + 1])
    BY <1>1 DEF Opens
  <2>3. new[b] = blocks[b]
    BY <1>5, <2>1
  <2>4. CASE b + 1 # m
    BY <1>5, <2>1, <2>2, <2>3, <2>4
  <2>5. CASE b + 1 = m
    <3>1. new[b + 1] = e
      BY <1>5, <2>5
    <3> DEFINE j == blocks[b].idx
               old == blocks[b + 1]
    <3>2. old.idx # 0 /\ e.todo = old.todo
      BY <1>3, <2>5
    <3>3. e.idx # 0 => r.tree[e.idx].idxParent = r.tree[old.idx].idxParent
      BY <1>3, <2>5
    <3>4. Inside(r, j, scopes[b], tails[b], e, scopes[b + 1], tails[b + 1])
      <4> HIDE DEF j, old
      <4>1. Inside(r, j, scopes[b], tails[b], old, scopes[b + 1], tails[b + 1])
        BY <2>2 DEF j, old
      <4> QED BY <3>2, <3>3, <4>1 DEF Inside
    <3> QED BY <2>3, <3>1, <3>4
  <2> QED BY <2>4, <2>5
<1>7. Opens(r, new, scope, below, after, scopes, tails)
  BY <1>1, <1>5, <1>6 DEF Opens
<1> QED BY <1>7 DEF Open, new, e

\* A new innermost block.
LEMMA OpenMore ==
  ASSUME NEW r, NEW blocks, IsList(blocks), NEW scope, NEW below, NEW after,
         Open(r, blocks, scope, below, after), NEW block2, NEW scope2, NEW after2,
         Inside(r, Last(blocks).idx, scope, after, block2, scope2, after2)
  PROVE  Open(r, Append(blocks, block2), scope2, below, after2)
<1> DEFINE m == Len(blocks)
           new == Append(blocks, block2)
<1>1. PICK scopes, tails : Opens(r, blocks, scope, below, after, scopes, tails)
  BY DEF Open
<1>2. IsSeq(blocks) /\ m \in Nat \ {0} /\ Last(blocks) = blocks[m]
  BY FrontSeq DEF IsList
<1> HIDE DEF m
<1>3. Len(new) = m + 1 /\ new[m + 1] = block2 /\ \A b \in 1..m : new[b] = blocks[b]
  BY <1>2, AppendSeq DEF m
<1> HIDE DEF new
<1> DEFINE scopes2 == [b \in 1..m+1 |-> IF b = m + 1 THEN scope2 ELSE scopes[b]]
           tails2 == [b \in 1..m+1 |-> IF b = m + 1 THEN after2 ELSE tails[b]]
<1>4. /\ scopes2[m + 1] = scope2 /\ tails2[m + 1] = after2
      /\ \A b \in 1..m : scopes2[b] = scopes[b] /\ tails2[b] = tails[b]
  <2>1. m + 1 \in 1..m+1 /\ \A b \in 1..m : b \in 1..m+1 /\ b # m + 1
    BY <1>2
  <2> QED BY <2>1
<1> HIDE DEF scopes2, tails2
<1>5. 1 \in 1..m /\ m \in 1..m
  BY <1>2
<1>6. scope2 \in Scopes /\ IsSeq(after2)
  BY DEF Inside
<1>7. \A b \in 1..m+1 : b \in 1..m \/ b = m + 1
  BY <1>2
<1>8. \A b \in 1..m+1 : scopes2[b] \in Scopes /\ IsSeq(tails2[b])
  BY <1>1, <1>4, <1>6, <1>7 DEF Opens, m
<1>9. ASSUME NEW b \in 1..(m+1)-1
      PROVE  Inside(r, new[b].idx, scopes2[b], tails2[b], new[b + 1], scopes2[b + 1],
                    tails2[b + 1])
  <2>1. b \in 1..m /\ (b = m \/ (b \in 1..m-1 /\ b + 1 \in 1..m))
    BY <1>2
  <2>2. new[b] = blocks[b] /\ scopes2[b] = scopes[b] /\ tails2[b] = tails[b]
    BY <1>3, <1>4, <2>1
  <2>3. CASE b = m
    <3>1. scopes[m] = scope /\ tails[m] = after
      BY <1>1 DEF Opens, m
    <3>2. new[b + 1] = block2 /\ scopes2[b + 1] = scope2 /\ tails2[b + 1] = after2
      BY <1>3, <1>4, <2>3
    <3> QED BY <1>2, <2>2, <2>3, <3>1, <3>2
  <2>4. CASE b \in 1..m-1 /\ b + 1 \in 1..m
    <3>1. Inside(r, blocks[b].idx, scopes[b], tails[b], blocks[b + 1], scopes[b + 1],
                 tails[b + 1])
      BY <1>1, <2>4 DEF Opens, m
    <3>2. new[b + 1] = blocks[b + 1] /\ scopes2[b + 1] = scopes[b + 1]
          /\ tails2[b + 1] = tails[b + 1]
      BY <1>3, <1>4, <2>4
    <3> QED BY <2>2, <3>1, <3>2
  <2> QED BY <2>1, <2>3, <2>4
<1>10. scopes2[1] = <<>> /\ tails2[1] = below
  BY <1>1, <1>4, <1>5 DEF Opens
<1>11. Opens(r, new, scope2, below, after2, scopes2, tails2)
  BY <1>3, <1>4, <1>8, <1>9, <1>10 DEF Opens
<1> QED BY <1>11 DEF Open, new

\* The innermost block ends: the one around it is as it was.
LEMMA OpenLess ==
  ASSUME NEW r, NEW blocks, IsList(blocks), NEW scope, NEW below, NEW after,
         Open(r, blocks, scope, below, after), NEW less, less = Front(blocks), less # <<>>
  PROVE  \E scope1, after1 : /\ Open(r, less, scope1, below, after1)
                             /\ Inside(r, Last(less).idx, scope1, after1, Last(blocks),
                                       scope, after)
<1> DEFINE m == Len(blocks)
<1>1. PICK scopes, tails : Opens(r, blocks, scope, below, after, scopes, tails)
  BY DEF Open
<1>2. /\ IsSeq(less) /\ Len(less) = m - 1 /\ m \in Nat \ {0} /\ Last(blocks) = blocks[m]
      /\ \A b \in 1..m-1 : less[b] = blocks[b]
      /\ m # 1
  BY FrontSeq DEF IsList
<1> HIDE DEF m
<1> DEFINE n == m - 1
<1>3. n \in Nat \ {0} /\ n \in 1..n /\ n + 1 = m /\ n \in 1..m /\ n \in 1..m-1
  BY <1>2
<1>4. Last(less) = less[n] /\ Len(less) = n
  BY <1>2 DEF Last
<1>5. \A b \in 1..n : b \in 1..m /\ less[b] = blocks[b]
  BY <1>2, <1>3
<1>6. \A b \in 1..n-1 : b \in 1..m-1 /\ b \in 1..n /\ b + 1 \in 1..n
  BY <1>3
<1> HIDE DEF n
<1>7. Opens(r, less, scopes[n], below, tails[n], scopes, tails)
  <2>1. \A b \in 1..n : scopes[b] \in Scopes /\ IsSeq(tails[b])
    BY <1>1, <1>5 DEF Opens, m
  <2>2. ASSUME NEW b \in 1..n-1
        PROVE  Inside(r, less[b].idx, scopes[b], tails[b], less[b + 1], scopes[b + 1],
                      tails[b + 1])
    <3>1. Inside(r, blocks[b].idx, scopes[b], tails[b], blocks[b + 1], scopes[b + 1],
                 tails[b + 1])
      BY <1>1, <1>6 DEF Opens, m
    <3>2. less[b] = blocks[b] /\ less[b + 1] = blocks[b + 1]
      BY <1>5, <1>6
    <3> QED BY <3>1, <3>2
  <2>3. scopes[1] = <<>> /\ tails[1] = below
    BY <1>1 DEF Opens
  <2> QED BY <1>4, <2>1, <2>2, <2>3 DEF Opens
<1>8. Inside(r, Last(less).idx, scopes[n], tails[n], Last(blocks), scope, after)
  <2>1. Inside(r, blocks[n].idx, scopes[n], tails[n], blocks[n + 1], scopes[n + 1],
               tails[n + 1])
    BY <1>1, <1>3 DEF Opens, m
  <2>2. scopes[m] = scope /\ tails[m] = after
    BY <1>1 DEF Opens, m
  <2>3. Last(less) = blocks[n] /\ n + 1 = m
    BY <1>3, <1>4, <1>5
  <2> QED BY <1>2, <2>1, <2>2, <2>3
<1> QED BY <1>7, <1>8 DEF Open

\* A loop enters its variable into a scope that has none of that name, and takes it
\* out again.
LEMMA ScopeRestored ==
  ASSUME NEW scope \in Scopes, NEW var, var \notin DOMAIN scope, NEW val
  PROVE  /\ Emplace(scope, var, val) = Bound(scope, var, val)
         /\ Erase(Bound(scope, var, val), var) = scope
<1>1. scope = [x \in DOMAIN scope |-> scope[x]]
  BY DEF Scopes
<1>2. Emplace(scope, var, val) = Bound(scope, var, val)
  <2>1. \A x \in DOMAIN scope \cup {var} : (x \in DOMAIN scope) <=> ~(x = var)
    OBVIOUS
  <2>2. \A x \in DOMAIN scope \cup {var} :
          (IF x \in DOMAIN scope THEN scope[x] ELSE val) = (IF x = var THEN val ELSE scope[x])
    BY <2>1
  <2> QED BY <2>2 DEF Emplace, Bound
<1>3. Erase(Bound(scope, var, val), var) = scope
  <2> DEFINE b == Bound(scope, var, val)
  <2>1. DOMAIN b = DOMAIN scope \cup {var} /\ \A x \in DOMAIN scope : b[x] = scope[x]
    BY DEF Bound
  <2> HIDE DEF b
  <2>2. DOMAIN b \ {var} = DOMAIN scope
    BY <2>1
  <2>3. Erase(b, var) = [x \in DOMAIN scope |-> b[x]]
    BY <2>2 DEF Erase
  <2>4. [x \in DOMAIN scope |-> b[x]] = [x \in DOMAIN scope |-> scope[x]]
    BY <2>1
  <2> QED BY <1>1, <2>3, <2>4 DEF b
<1> QED BY <1>2, <1>3

\* Where the loops of the text are not nested with the same variable, the variable of
\* a loop is new to the scope, and those of the loops in it as well.
LEMMA FreshHere ==
  ASSUME NEW r, IsReading(r), NEW blocks, IsList(blocks), NEW scope, NEW below, NEW after,
         Open(r, blocks, scope, below, after), NEW j \in 1..Len(r.tree),
         j = Last(blocks).idx, r.tree[j].t \in Blocks
  PROVE  /\ Fresh(r, j, scope)
         /\ r.tree[j].t = "ForLoop" => r.tree[j].text.var \notin DOMAIN scope
<1> DEFINE s == r.s
           at == r.at
           e == Closer(s, at[j])
           p == r.tree[j].idxParent
<1>1. /\ LaidItem(s, r.tree, at, j) /\ Len(s) \in Nat
      /\ p # 0 => LaidItem(s, r.tree, at, p)
  BY Zenon DEF IsReading, Laid, LaidItem, IsMeaning, Ended
<1>2. /\ at[j] \in 1..Len(s) /\ e \in at[j]+1..Len(s)
      /\ p # 0 => at[p] < at[j] /\ Behind(s, r.tree[j], at[j]) <= Closer(s, at[p])
  BY Zenon, <1>1 DEF LaidItem, Closed
<1>3. Behind(s, r.tree[j], at[j]) = e + 1
  BY DEF Behind, Blocks
<1>4. r.tree[j].t = "ForLoop" => r.tree[j].text = s[at[j]] /\ s[at[j]].k = "for"
  <2>1. /\ r.tree[j].text = s[at[j]] /\ r.tree[j].t = TypeOf(s[at[j]])
        /\ s[at[j]].k \in {"if", "for", "var", "str", "include"}
    BY TokenAt DEF Blocks
  <2> QED BY <2>1 DEF TypeOf
<1>5. CASE Len(blocks) = 1
  <2>1. scope = <<>>
    BY <1>5, OpenFacts
  <2>2. \A v : v \notin DOMAIN scope
    BY <2>1, NoScope
  <2> QED BY <2>2 DEF Fresh
<1>6. CASE Len(blocks) # 1
  <2> DEFINE less == Front(blocks)
  <2>1. less # <<>>
    BY <1>6, FrontSeq DEF IsList
  <2>2. PICK scope1, after1 : Inside(r, Last(less).idx, scope1, after1, Last(blocks),
                                     scope, after)
    BY <2>1, OpenLess
  <2>3. /\ p = Last(less).idx /\ p \in 1..Len(r.tree) /\ Fresh(r, p, scope)
        /\ r.tree[p].t \in Blocks /\ p # 0
    BY <2>2 DEF Inside
  <2>4. Closer(s, at[p]) \in Int /\ at[p] \in Int
    <3>1. LaidItem(s, r.tree, at, p)
      BY <1>1, <2>3
    <3>2. at[p] \in 1..Len(s) /\ Closer(s, at[p]) \in at[p]+1..Len(s)
      BY <2>3, <3>1 DEF LaidItem, Closed
    <3> QED BY <1>1, <3>2
  <2>5. \A i \in at[p]+1..Closer(s, at[p]) : s[i].k = "for" => s[i].var \notin DOMAIN scope
    BY <2>3 DEF Fresh
  <2> DEFINE lo == at[p]
             hi == Closer(s, at[p])
             x == at[j]
  <2>6. lo < x /\ e + 1 <= hi /\ lo \in Int /\ hi \in Int /\ x \in Int /\ e \in Int /\ x < e
    BY <1>1, <1>2, <1>3, <2>3, <2>4
  <2> HIDE DEF lo, hi, x, e
  <2>7. x \in lo+1..hi /\ \A i \in x+1..e : i \in lo+1..hi
    BY <2>6
  <2>8. /\ s[x].k = "for" => s[x].var \notin DOMAIN scope
        /\ \A i \in x+1..e : s[i].k = "for" => s[i].var \notin DOMAIN scope
    BY <2>5, <2>7 DEF lo, hi
  <2> QED BY <1>4, <2>8 DEF Fresh, x, e
<1> QED BY <1>5, <1>6

\* What is left to do for an activation with these blocks and this scope.
Remains(r, blocks, scope, below, total) ==
    \E after : /\ Open(r, blocks, scope, below, after)
               /\ total = From(r, Last(blocks).idx, scope) \o after

\* It is a text.
LEMMA RemainsFits ==
  ASSUME NEW r, IsReading(r), NEW blocks, IsList(blocks), Last(blocks).idx \in 0..Len(r.tree),
         NEW scope, NEW below, NEW total, Remains(r, blocks, scope, below, total)
  PROVE  IsSeq(total)
<1>1. PICK after : /\ Open(r, blocks, scope, below, after)
                   /\ total = From(r, Last(blocks).idx, scope) \o after
  BY DEF Remains
<1>2. scope \in Scopes /\ IsSeq(after)
  BY <1>1, OpenFacts
<1>3. IsSeq(From(r, Last(blocks).idx, scope))
  BY <1>2, FromFits
<1> QED BY <1>1, <1>2, <1>3, ConcatSeq

\* When an item is done, its next siblings remain.
LEMMA NextRemains ==
  ASSUME NEW r, IsReading(r), NEW blocks, IsList(blocks), NEW m, m = Len(blocks),
         blocks[m] = [idx |-> blocks[m].idx, todo |-> blocks[m].todo],
         NEW j \in 1..Len(r.tree), j = blocks[m].idx, NEW next, next = r.tree[j].idxNextSibling,
         NEW scope, NEW below, NEW after, Open(r, blocks, scope, below, after)
  PROVE  Remains(r, [blocks EXCEPT ![m] = [idx |-> next, todo |-> blocks[m].todo]], scope, below,
                 From(r, next, scope) \o after)
<1> DEFINE e == [idx |-> next, todo |-> blocks[m].todo]
           new == [blocks EXCEPT ![m] = e]
<1>1. IsSeq(blocks) /\ m \in Nat \ {0} /\ m \in 1..Len(blocks)
  BY FrontSeq DEF IsList
<1>2. e.idx = next
  OBVIOUS
<1> HIDE DEF e
<1>3. Changed(blocks, m, e, new)
  BY <1>1, ChangedSeq
<1>4. next # 0 => r.tree[next].idxParent = r.tree[j].idxParent
  BY DEF IsReading, TreeFits, SiblingsFit
<1>5. Open(r, [blocks EXCEPT ![m] = [idx |-> next, todo |-> blocks[m].todo]], scope, below, after)
  <2>1. blocks[m].idx # 0
    OBVIOUS
  <2>2. next # 0 => r.tree[next].idxParent = r.tree[blocks[m].idx].idxParent
    BY <1>4
  <2> QED BY <2>1, <2>2, OpenMoved
<1>6. Last(new) = e
  <2> HIDE DEF new
  <2>1. Len(new) = m /\ new[m] = e
    BY <1>3 DEF Changed
  <2> QED BY <2>1 DEF Last
<1>7. Remains(r, new, scope, below, From(r, next, scope) \o after)
  <2>1. Open(r, new, scope, below, after)
    BY <1>5 DEF new, e
  <2> HIDE DEF new
  <2> QED BY Zenon, <1>2, <1>6, <2>1 DEF Remains
<1> QED BY <1>7 DEF new, e

\* A text put before two others.
Joins(a, b, c) == a \o (b \o c) = (a \o b) \o c /\ IsSeq(b \o c) /\ IsSeq(a \o (b \o c))

\* A text put before two others is again one.
LEMMA BeforeTwo ==
  ASSUME NEW a, IsSeq(a), NEW b, IsSeq(b), NEW c, IsSeq(c)
  PROVE  Joins(a, b, c)
<1>1. IsSeq(b \o c)
  BY ConcatSeq
<1>2. IsSeq(a \o (b \o c))
  BY <1>1, ConcatSeq
<1>3. (a \o b) \o c = a \o (b \o c)
  BY ConcatThree
<1> QED BY <1>1, <1>2, <1>3 DEF Joins

\* A loop begins a round: its block, the other rounds and what is behind it remain.
LEMMA RoundRemains ==
  ASSUME NEW r, IsReading(r), NEW blocks, IsList(blocks), NEW scope, NEW below, NEW after,
         Open(r, blocks, scope, below, after), NEW j \in 1..Len(r.tree),
         j = Last(blocks).idx, r.tree[j].t = "ForLoop",
         NEW todo \in Seq(JsonValues), todo # <<>>, NEW child, child = r.tree[j].idxFirstChild,
         NEW next, next = r.tree[j].idxNextSibling, NEW var, var = r.tree[j].text.var
  PROVE  Remains(r, Append(blocks, [idx |-> child, todo |-> Tail(todo)]),
                 Emplace(scope, var, todo[1]), below,
                 Rounds(r, j, scope, todo) \o (From(r, next, scope) \o after))
<1> DEFINE tail == Tail(todo)
           block2 == [idx |-> child, todo |-> tail]
           scope2 == Bound(scope, var, todo[1])
           rest == From(r, next, scope) \o after
           others == Rounds(r, j, scope, tail)
           after2 == others \o rest
           first == From(r, child, scope2)
<1>1. scope \in Scopes /\ IsSeq(after)
  BY OpenFacts
<1>2. Fresh(r, j, scope) /\ var \notin DOMAIN scope
  <2>1. r.tree[j].t \in Blocks
    BY DEF Blocks
  <2> QED BY <2>1, FreshHere
<1>3. var = r.s[r.at[j]].var /\ r.s[r.at[j]].k = "for" /\ r.at[j] \in 1..Len(r.s)
  <2>1. /\ r.tree[j].text = r.s[r.at[j]] /\ r.tree[j].t = TypeOf(r.s[r.at[j]])
        /\ r.s[r.at[j]].k \in {"if", "for", "var", "str", "include"}
        /\ r.at[j] \in 1..Len(r.s)
    BY TokenAt
  <2> QED BY <2>1 DEF TypeOf
<1>4. var \in LocalNames
  BY <1>3 DEF IsReading, LoopsFit
<1>5. todo[1] \in JsonValues /\ tail \in Seq(JsonValues)
  <2>1. Len(todo) \in Nat \ {0} /\ \A i \in 1..Len(todo) : todo[i] \in JsonValues
    BY EmptySeq, LenProperties
  <2>2. 1 \in 1..Len(todo)
    BY <2>1
  <2> QED BY <2>1, <2>2, HeadTailProperties
<1>6. scope2 \in Scopes
  BY <1>1, <1>4, <1>5, BoundFits
<1>7. child \in 0..Len(r.tree) /\ (child # 0 => r.tree[child].idxParent = j)
  <2>1. r.tree[j].t \in Blocks
    BY DEF Blocks
  <2>2. child \in 0..Len(r.tree)
    BY <2>1, ChildMeans
  <2>3. child \in {0, j + 1} /\ (child = j + 1 => r.tree[j + 1].idxParent = j)
    BY DEF IsReading, TreeFits, ChildrenFit
  <2> QED BY <2>2, <2>3
<1>8. IsSeq(From(r, next, scope)) /\ IsSeq(rest)
  <2>1. IsSeq(From(r, next, scope))
    BY <1>1, ItemMeans
  <2> QED BY <1>1, <2>1, ConcatSeq
<1> HIDE DEF tail, rest
<1>9. IsSeq(others) /\ IsSeq(first)
  <2>1. r.tree[j].text.var \in LocalNames /\ r.tree[j].idxFirstChild \in 0..Len(r.tree)
    BY <1>4, <1>7
  <2> QED BY <1>1, <1>5, <1>6, <1>7, <2>1, RoundsNext, FromFits
<1>10. Rounds(r, j, scope, todo) = first \o others
  <2>1. r.tree[j].text.var \in LocalNames /\ r.tree[j].idxFirstChild \in 0..Len(r.tree)
    BY <1>4, <1>7
  <2> QED BY <1>1, <2>1, RoundsNext DEF tail
<1> HIDE DEF others, first
<1>11. Rounds(r, j, scope, todo) \o rest = first \o after2 /\ IsSeq(after2)
  <2>1. Joins(first, others, rest)
    BY <1>8, <1>9, BeforeTwo
  <2>2. Rounds(r, j, scope, todo) \o rest = (first \o others) \o rest
    BY <1>10
  <2> QED BY <2>1, <2>2 DEF Joins
<1>12. Fresh(r, j, scope2)
  <2>1. DOMAIN scope2 = DOMAIN scope \cup {var}
    BY DEF Bound
  <2>2. r.at[j] \in DOMAIN r.s
    BY <1>3, SeqIsSeq DEF IsReading, IsSeq
  <2>3. \A i \in r.at[j]+1..Closer(r.s, r.at[j]) : r.s[i].k = "for" => r.s[i].var # var
    BY <1>3, <2>2 DEF IsReading, NoShadowing
  <2> QED BY <1>2, <2>1, <2>3 DEF Fresh
<1>13. block2.idx = child /\ block2.todo = tail
  OBVIOUS
<1> HIDE DEF block2, scope2, after2
<1>14. Inside(r, Last(blocks).idx, scope, after, block2, scope2, after2)
  <2>1. r.tree[j].t \in Blocks
    BY DEF Blocks
  <2>2. after2 = Rounds(r, j, scope, block2.todo)
                          \o (From(r, r.tree[j].idxNextSibling, scope) \o after)
    BY <1>13 DEF after2, others, rest
  <2>3. \E val \in JsonValues : scope2 = Bound(scope, r.tree[j].text.var, val)
    BY <1>5 DEF scope2
  <2> QED BY Zenon, <1>2, <1>5, <1>6, <1>7, <1>11, <1>12, <1>13, <2>1, <2>2, <2>3 DEF Inside
<1>15. Open(r, Append(blocks, block2), scope2, below, after2)
  BY <1>14, OpenMore
<1>16. Last(Append(blocks, block2)) = block2
  BY AppendSeq DEF IsList
<1>17. Emplace(scope, var, todo[1]) = scope2
  BY <1>1, <1>2, ScopeRestored DEF scope2
<1>18. first \o after2 = From(r, Last(Append(blocks, block2)).idx, scope2) \o after2
  BY <1>13, <1>16 DEF first
<1>19. Remains(r, Append(blocks, block2), scope2, below, first \o after2)
  BY <1>15, <1>18 DEF Remains
<1> QED BY Zenon, <1>11, <1>17, <1>19 DEF block2, tail, rest

\* A condition that is met: its block and what is behind it remain.
LEMMA BlockRemains ==
  ASSUME NEW r, IsReading(r), NEW blocks, IsList(blocks), NEW scope, NEW below, NEW after,
         Open(r, blocks, scope, below, after), NEW j \in 1..Len(r.tree),
         j = Last(blocks).idx, r.tree[j].t = "Condition",
         NEW child, child = r.tree[j].idxFirstChild,
         NEW next, next = r.tree[j].idxNextSibling, NEW none
  PROVE  Remains(r, Append(blocks, [idx |-> child, todo |-> none]), scope, below,
                 From(r, child, scope) \o (From(r, next, scope) \o after))
<1> DEFINE block2 == [idx |-> child, todo |-> none]
           after2 == From(r, next, scope) \o after
<1>1. scope \in Scopes /\ IsSeq(after)
  BY OpenFacts
<1>2. r.tree[j].t \in Blocks /\ r.tree[j].t # "ForLoop"
  BY DEF Blocks
<1>3. Fresh(r, j, scope)
  BY <1>2, FreshHere
<1>4. child # 0 => r.tree[child].idxParent = j
  BY DEF IsReading, TreeFits, ChildrenFit
<1>5. IsSeq(after2)
  <2>1. IsSeq(From(r, next, scope))
    BY <1>1, ItemMeans
  <2> QED BY <1>1, <2>1, ConcatSeq
<1>6. block2.idx = child
  OBVIOUS
<1> HIDE DEF block2, after2
<1>7. Inside(r, Last(blocks).idx, scope, after, block2, scope, after2)
  BY <1>1, <1>2, <1>3, <1>4, <1>5, <1>6 DEF Inside, after2
<1>8. Open(r, Append(blocks, block2), scope, below, after2)
  BY <1>7, OpenMore
<1>9. Last(Append(blocks, block2)) = block2
  BY AppendSeq DEF IsList
<1>10. Remains(r, Append(blocks, block2), scope, below, From(r, child, scope) \o after2)
  BY <1>6, <1>8, <1>9 DEF Remains
<1> QED BY <1>10 DEF block2, after2

\* What a block that has ended is followed by: the further rounds of its loop, if it is
\* the body of one, and what comes behind item j, which opened it.
Resumed(r, blocks, scope, below, total, less, j, item, scope1, after1) ==
    /\ Open(r, less, scope1, below, after1) /\ j \in 1..Len(r.tree) /\ item.t \in Blocks
    /\ IF item.t = "ForLoop"
       THEN /\ Last(blocks).todo \in Seq(JsonValues)
            /\ Erase(scope, item.text.var) = scope1
            /\ total = Rounds(r, j, scope1, Last(blocks).todo)
                         \o (From(r, item.idxNextSibling, scope1) \o after1)
       ELSE scope1 = scope /\ total = From(r, item.idxNextSibling, scope1) \o after1

\* The end of a block: what remains is the rest of the loop, if it is one, and what is
\* behind the item that opened it.
LEMMA EndRemains ==
  ASSUME NEW r, IsReading(r), NEW blocks, IsList(blocks), Last(blocks).idx = 0,
         NEW scope, NEW below, NEW total, Remains(r, blocks, scope, below, total),
         NEW less, less = Front(blocks), less # <<>>, NEW j, j = Last(less).idx,
         NEW item, item = r.tree[j]
  PROVE  \E scope1, after1 : Resumed(r, blocks, scope, below, total, less, j, item, scope1, after1)
<1> USE DEF Resumed
<1>1. PICK after : /\ Open(r, blocks, scope, below, after)
                   /\ total = From(r, Last(blocks).idx, scope) \o after
  BY DEF Remains
<1>2. total = after
  <2>1. IsSeq(after)
    BY <1>1, OpenFacts
  <2>2. From(r, Last(blocks).idx, scope) = <<>>
    BY DEF From
  <2> QED BY <1>1, <2>1, <2>2, ShortSeqs
<1>3. PICK scope1, after1 : /\ Open(r, less, scope1, below, after1)
                            /\ Inside(r, Last(less).idx, scope1, after1, Last(blocks), scope, after)
  BY <1>1, OpenLess
<1>4. j \in 1..Len(r.tree) /\ item.t \in Blocks
  BY <1>3 DEF Inside
<1>5. scope1 \in Scopes
  <2>1. IsList(less)
    BY FrontSeq DEF IsList
  <2> QED BY <1>3, <2>1, OpenFacts
<1>6. CASE item.t = "ForLoop"
  <2>1. PICK val \in JsonValues : scope = Bound(scope1, item.text.var, val)
    BY <1>3, <1>6 DEF Inside
  <2>2. Erase(scope, item.text.var) = scope1
    <3>1. item.text.var \notin DOMAIN scope1
      BY <1>3, <1>6 DEF Inside
    <3> QED BY <1>5, <2>1, <3>1, ScopeRestored
  <2>3. /\ Last(blocks).todo \in Seq(JsonValues)
        /\ after = Rounds(r, j, scope1, Last(blocks).todo)
                     \o (From(r, item.idxNextSibling, scope1) \o after1)
    BY Zenon, <1>3, <1>6 DEF Inside
  <2> QED BY Zenon, <1>2, <1>3, <1>4, <1>6, <2>2, <2>3
<1>7. CASE item.t # "ForLoop"
  <2>1. scope = scope1 /\ after = From(r, item.idxNextSibling, scope1) \o after1
    BY <1>3, <1>7 DEF Inside
  <2> QED BY Zenon, <1>2, <1>3, <1>4, <1>7, <2>1
<1> QED BY <1>6, <1>7

\* The end of the only block: what is behind the activation remains.
LEMMA NothingRemains ==
  ASSUME NEW r, NEW blocks, IsList(blocks), Last(blocks).idx = 0, Len(blocks) = 1,
         NEW scope, NEW below, NEW total, Remains(r, blocks, scope, below, total)
  PROVE  total = below
<1>1. PICK after : /\ Open(r, blocks, scope, below, after)
                   /\ total = From(r, Last(blocks).idx, scope) \o after
  BY DEF Remains
<1>2. IsSeq(after) /\ after = below
  BY <1>1, OpenFacts
<1>3. From(r, Last(blocks).idx, scope) = <<>>
  BY DEF From
<1> QED BY <1>1, <1>2, <1>3, ShortSeqs

-----------------------------------------------------------------------------
(***************************************************************************)
(* All activations of a call, and what the call still has to produce.       *)
(***************************************************************************)

Places(s) == CHOOSE at : Laid(s, Parse(s).tree, at)

\* Template name, read where only the templates in free may be active: itself is one,
\* and within it the others may be included.
Reading(env, d, name, free) ==
    LET sub == Expansion(env)[free \ {name}]
    IN  [env |-> env, s |-> env.files[name], sub |-> sub,
         m |-> Meaning(env, env.files[name], sub), tree |-> d[name],
         at |-> Places(env.files[name])]

\* A store whose templates can be read: parsed texts, without a loop that reuses the
\* variable of a loop around it and without empty tokens.
Stored(env, d) ==
    /\ Readable(env) /\ env.known = DOMAIN d
    /\ \A name \in DOMAIN d : LET s == env.files[name]
                              IN  /\ IsText(s) /\ ~Parse(s).err /\ d[name] = Parse(s).tree
                                  /\ NoShadowing(s) /\ NoEmptyToken(s)
                                  /\ \A i \in 1..Len(s) : ~IsException(s[i])

\* What there is to know about such a reading: the meaning of the template is what its
\* tree has from the first item on.
Known(env, d, name, free, r) ==
    /\ IsReading(r) /\ r.env = env /\ r.tree = d[name]
    /\ DOMAIN r.sub = free \ {name} /\ r.sub = Expansion(env)[free \ {name}]
    /\ Expansion(env)[free][name] = IF d[name] = <<>> THEN <<>> ELSE From(r, 1, <<>>)
    /\ d[name] # <<>> => 1 \in 1..Len(r.tree)

\* A template of the store is read with what it may include.
LEMMA ReadingIs ==
  ASSUME NEW env, NEW d, Stored(env, d), NEW free \in SUBSET DOMAIN d, NEW name \in free
  PROVE  Known(env, d, name, free, Reading(env, d, name, free))
<1> DEFINE s == env.files[name]
           E == Expansion(env)
           less == free \ {name}
           sub == E[less]
           m == Meaning(env, s, sub)
           tree == d[name]
           at == Places(s)
           r == Reading(env, d, name, free)
<1>1. /\ Readable(env) /\ env.known = DOMAIN d /\ name \in DOMAIN d
      /\ IsText(s) /\ ~Parse(s).err /\ tree = Parse(s).tree
      /\ NoShadowing(s) /\ NoEmptyToken(s)
      /\ \A i \in 1..Len(s) : ~IsException(s[i])
  BY DEF Stored
<1>2. EnvFits(env) /\ Ended(s) /\ LoopsFit(s) /\ IsFiniteSet(env.known)
  BY <1>1 DEF Readable
<1>3. less \in SUBSET env.known /\ free \in SUBSET env.known
  BY <1>1
<1>4. DOMAIN sub = less /\ \A x \in DOMAIN sub : IsSeq(sub[x])
  BY <1>1, <1>3, ExpansionFits
<1>5. E[free][name] = m[1][<<>>]
  <2>1. E[free] = ExpansionFrom(env, free, E)
    BY <1>2, <1>3, ExpansionSteps
  <2> DEFINE e == E[free]
  <2>2. e = [x \in free |-> Meaning(env, env.files[x], E[free \ {x}])[1][<<>>]]
    BY <2>1 DEF ExpansionFrom
  <2> HIDE DEF e
  <2> QED BY <2>2 DEF e
<1>6. Laid(s, tree, at)
  <2>1. \E a : Laid(s, Parse(s).tree, a)
    BY <1>1, ParseLays
  <2> QED BY <1>1, <2>1 DEF Places
<1>7. Len(tree) \in Nat /\ TreeFits(tree) /\ (tree = <<>> <=> Len(tree) = 0)
  <2>1. Parse(s).tree \in Seq(Items(s)) /\ TreeFits(Parse(s).tree)
    BY <1>1, ParseFits
  <2> QED BY <1>1, <2>1, SeqIsSeq
<1>8. IsSeq(s)
  BY <1>1 DEF IsText, IsSeq
<1>9. r.env = env /\ r.s = s /\ r.sub = sub /\ r.m = m /\ r.tree = tree /\ r.at = at
  BY DEF Reading
<1> HIDE DEF r, at, tree, sub, E
<1>10. IsMeaning(env, s, sub, m)
  BY <1>2, <1>4, MeaningFits
<1> HIDE DEF m, s
<1>11. IsReading(r)
  BY <1>1, <1>2, <1>4, <1>6, <1>7, <1>8, <1>9, <1>10 DEF IsReading
<1>12. m[1][<<>>] = IF tree = <<>> THEN <<>> ELSE From(r, 1, <<>>)
  <2> DEFINE scope == <<>>
             one == 1
  <2>1. scope \in Scopes
    BY NoScope
  <2>2. CASE tree = <<>>
    <3>1. StopsAt(s, one)
      BY <1>6, <1>7, <2>2 DEF Laid
    <3> HIDE DEF scope, one
    <3>2. m[one][scope] = <<>>
      BY <1>10, <2>1, <3>1, StopsNothing
    <3> QED BY <2>2, <3>2 DEF one, scope
  <2>3. CASE tree # <<>>
    <3> DEFINE y == at[1]
    <3>1. Leads(s, one, y)
      BY <1>6, <1>7, <2>3 DEF Laid
    <3> HIDE DEF scope, one, y
    <3>2. m[one][scope] = m[y][scope]
      BY <1>10, <2>1, <3>1, LeadsSame
    <3>3. From(r, 1, scope) = m[y][scope]
      BY <1>9 DEF From, y
    <3> QED BY <2>3, <3>2, <3>3 DEF one, scope
  <2> QED BY <2>2, <2>3
<1>13. tree # <<>> => 1 \in 1..Len(r.tree)
  BY <1>7, <1>9
<1>14. Known(env, d, name, free, r)
  BY <1>4, <1>5, <1>9, <1>11, <1>12, <1>13 DEF Known, tree, sub, E
<1> QED BY <1>14 DEF r

\* The templates that may be active as the activation k of st, and its reading.
Free(d, st, k) == DOMAIN d \ {st[i].doc : i \in 1..k-1}

ReadingOf(env, d, st, k) == Reading(env, d, st[k].doc, Free(d, st, k))

\* The text behind the first n activations of st, which wait for what they include.
Waiting(env, d, st, n, below, tails) ==
    /\ tails[0] = <<>> /\ tails[n] = below
    /\ \A k \in 0..n : IsSeq(tails[k])
    /\ \A k \in 1..n : Remains(ReadingOf(env, d, st, k),
                               MovedBlocks(d[st[k].doc], st[k].blocks), st[k].scope,
                               tails[k - 1], tails[k])

Below(env, d, st, n, below) == \E tails : Waiting(env, d, st, n, below, tails)

\* Nothing is behind no activation.
LEMMA BelowNone ==
  ASSUME NEW env, NEW d, NEW st
  PROVE  /\ Below(env, d, st, 0, <<>>)
         /\ \A below : Below(env, d, st, 0, below) => below = <<>>
<1> DEFINE tails == [k \in {0} |-> <<>>]
<1>1. tails[0] = <<>> /\ \A k \in 0..0 : k = 0
  OBVIOUS
<1>2. \A k \in 1..0 : FALSE
  OBVIOUS
<1> HIDE DEF tails
<1>3. \A k \in 0..0 : IsSeq(tails[k])
  BY <1>1, ShortSeqs
<1>4. Waiting(env, d, st, 0, <<>>, tails)
  BY <1>1, <1>2, <1>3 DEF Waiting
<1>5. \A below : Below(env, d, st, 0, below) => below = <<>>
  BY DEF Below, Waiting
<1> QED BY <1>4, <1>5 DEF Below

\* What is behind the first activations is a text, and the others do not matter.
LEMMA BelowFacts ==
  ASSUME NEW env, NEW d, NEW st, NEW n \in Nat, NEW below, Below(env, d, st, n, below)
  PROVE  /\ IsSeq(below)
         /\ \A other : (\A i \in 1..n : other[i] = st[i]) => Below(env, d, other, n, below)
<1>1. PICK tails : Waiting(env, d, st, n, below, tails)
  BY DEF Below
<1>2. IsSeq(below)
  <2>1. n \in 0..n
    OBVIOUS
  <2> QED BY <1>1, <2>1 DEF Waiting
<1>3. ASSUME NEW other, \A i \in 1..n : other[i] = st[i] PROVE Below(env, d, other, n, below)
  <2>1. ASSUME NEW k \in 1..n
        PROVE  Remains(ReadingOf(env, d, other, k),
                       MovedBlocks(d[other[k].doc], other[k].blocks), other[k].scope,
                       tails[k - 1], tails[k])
    <3>1. Remains(ReadingOf(env, d, st, k), MovedBlocks(d[st[k].doc], st[k].blocks),
                  st[k].scope, tails[k - 1], tails[k])
      BY <1>1 DEF Waiting
    <3>2. other[k] = st[k]
      BY <1>3
    <3>3. Free(d, other, k) = Free(d, st, k)
      <4>1. \A i \in 1..k-1 : i \in 1..n
        OBVIOUS
      <4>2. \A i \in 1..k-1 : other[i] = st[i]
        BY <1>3, <4>1
      <4>3. {other[i].doc : i \in 1..k-1} = {st[i].doc : i \in 1..k-1}
        BY <4>2
      <4> QED BY <4>3 DEF Free
    <3> QED BY <3>1, <3>2, <3>3 DEF ReadingOf
  <2>2. Waiting(env, d, other, n, below, tails)
    BY <1>1, <2>1 DEF Waiting
  <2> QED BY <2>2 DEF Below
<1> QED BY <1>2, <1>3

\* One more activation waits.
LEMMA BelowMore ==
  ASSUME NEW env, NEW d, NEW st, NEW n \in Nat, NEW below, Below(env, d, st, n, below),
         NEW more, IsSeq(more), NEW k, k = n + 1,
         Remains(ReadingOf(env, d, st, k), MovedBlocks(d[st[k].doc], st[k].blocks),
                 st[k].scope, below, more)
  PROVE  Below(env, d, st, k, more)
<1>1. PICK tails : Waiting(env, d, st, n, below, tails)
  BY DEF Below
<1> DEFINE new == [i \in 0..k |-> IF i = k THEN more ELSE tails[i]]
<1>2. k \in 0..k /\ \A i \in 0..n : i \in 0..k /\ i # k
  OBVIOUS
<1>3. new[k] = more /\ \A i \in 0..n : new[i] = tails[i]
  BY <1>2
<1> HIDE DEF new
<1>4. 0 \in 0..n /\ n \in 0..n /\ k - 1 = n
  OBVIOUS
<1>5. ASSUME NEW i \in 0..k PROVE IsSeq(new[i])
  <2>1. i = k \/ i \in 0..n
    OBVIOUS
  <2> QED BY <1>1, <1>3, <2>1 DEF Waiting
<1>6. ASSUME NEW i \in 1..k
      PROVE  Remains(ReadingOf(env, d, st, i), MovedBlocks(d[st[i].doc], st[i].blocks),
                     st[i].scope, new[i - 1], new[i])
  <2>1. CASE i = k
    <3>1. new[i - 1] = below /\ new[i] = more
      BY <1>1, <1>3, <1>4, <2>1 DEF Waiting
    <3> QED BY <2>1, <3>1
  <2>2. CASE i # k
    <3>1. i \in 1..n /\ i \in 0..n /\ i - 1 \in 0..n
      BY <2>2
    <3>2. Remains(ReadingOf(env, d, st, i), MovedBlocks(d[st[i].doc], st[i].blocks),
                  st[i].scope, tails[i - 1], tails[i])
      BY <1>1, <3>1 DEF Waiting
    <3>3. new[i - 1] = tails[i - 1] /\ new[i] = tails[i]
      BY <1>3, <3>1
    <3> QED BY <3>2, <3>3
  <2> QED BY <2>1, <2>2
<1>7. new[0] = <<>>
  BY <1>1, <1>3, <1>4 DEF Waiting
<1>8. Waiting(env, d, st, k, more, new)
  BY <1>3, <1>5, <1>6, <1>7 DEF Waiting
<1> QED BY <1>8 DEF Below

\* The last one that waits goes on.
LEMMA BelowLess ==
  ASSUME NEW env, NEW d, NEW st, NEW k \in Nat \ {0}, NEW below, Below(env, d, st, k, below),
         NEW n, n = k - 1
  PROVE  \E less : /\ Below(env, d, st, n, less)
                   /\ Remains(ReadingOf(env, d, st, k),
                              MovedBlocks(d[st[k].doc], st[k].blocks), st[k].scope, less, below)
<1>1. PICK tails : Waiting(env, d, st, k, below, tails)
  BY DEF Below
<1>2. k \in 1..k /\ \A i \in 0..n : i \in 0..k
  OBVIOUS
<1>3. \A i \in 1..n : i \in 1..k
  OBVIOUS
<1>4. Remains(ReadingOf(env, d, st, k), MovedBlocks(d[st[k].doc], st[k].blocks),
              st[k].scope, tails[n], below)
  <2>1. Remains(ReadingOf(env, d, st, k), MovedBlocks(d[st[k].doc], st[k].blocks),
                st[k].scope, tails[k - 1], tails[k])
    BY <1>1, <1>2 DEF Waiting
  <2>2. tails[k] = below
    BY <1>1 DEF Waiting
  <2> QED BY <2>1, <2>2
<1>5. Waiting(env, d, st, n, tails[n], tails)
  BY <1>1, <1>2, <1>3 DEF Waiting
<1> QED BY <1>4, <1>5 DEF Below

\* A call that has produced text, and is to produce whole.
Call(env, d, st, text, whole) ==
    \E below, total :
      /\ Below(env, d, st, Len(st) - 1, below)
      /\ Remains(ReadingOf(env, d, st, Len(st)), st[Len(st)].blocks, st[Len(st)].scope,
                 below, total)
      /\ Clean(text) /\ whole = text \o total

\* Clean texts make a clean one.
LEMMA CleanConcat ==
  ASSUME NEW a, Clean(a), NEW b, Clean(b)
  PROVE  Clean(a \o b)
<1>1. IsSeq(a) /\ IsSeq(b)
  BY DEF Clean
<1>2. /\ IsSeq(a \o b) /\ Len(a \o b) = Len(a) + Len(b) /\ Len(a) \in Nat /\ Len(b) \in Nat
      /\ \A i \in 1..Len(a) : (a \o b)[i] = a[i]
      /\ \A i \in 1..Len(b) : (a \o b)[Len(a) + i] = b[i]
  BY <1>1, ConcatSeq
<1> DEFINE c == a \o b
           m == Len(a)
           n == Len(b)
<1>3. ASSUME NEW i \in 1..Len(c) PROVE ~IsException(c[i])
  <2>1. m \in Nat /\ n \in Nat /\ Len(c) = m + n
    BY <1>2
  <2> HIDE DEF c, m, n
  <2>2. i \in 1..m \/ (i - m \in 1..n /\ m + (i - m) = i)
    BY <2>1
  <2>3. CASE i \in 1..m
    BY <1>2, <2>3 DEF Clean, c, m
  <2>4. CASE i - m \in 1..n /\ m + (i - m) = i
    <3>1. c[m + (i - m)] = b[i - m]
      BY <1>2, <2>4 DEF c, m, n
    <3> QED BY <2>4, <3>1 DEF Clean, n
  <2> QED BY <2>2, <2>3, <2>4
<1> QED BY <1>2, <1>3 DEF Clean

\* A clean text is an outcome, and an exception behind it is one.
LEMMA OutcomeIs ==
  ASSUME NEW text, Clean(text)
  PROVE  /\ Outcome(text) = text
         /\ \A e, rest : IsSeq(rest) => Outcome(text \o (<<Raised(e)>> \o rest)) = <<Raised(e)>>
<1>1. IsSeq(text) /\ Len(text) \in Nat /\ DOMAIN text = 1..Len(text)
  BY SeqIsSeq DEF Clean, IsSeq
<1>2. Outcome(text) = text
  BY <1>1 DEF Outcome, Clean
<1>3. ASSUME NEW e, NEW rest, IsSeq(rest)
      PROVE  Outcome(text \o (<<Raised(e)>> \o rest)) = <<Raised(e)>>
  <2> DEFINE x == Raised(e)
             one == <<x>>
             more == one \o rest
             all == text \o more
             n == Len(text)
  <2>1. IsSeq(one) /\ Len(one) = 1 /\ one[1] = x
    BY ShortSeqs
  <2> HIDE DEF one
  <2>2. IsSeq(more) /\ Len(more) = 1 + Len(rest) /\ Len(rest) \in Nat /\ more[1] = x
    <3>1. /\ IsSeq(more) /\ Len(more) = Len(one) + Len(rest) /\ Len(rest) \in Nat
          /\ \A i \in 1..Len(one) : more[i] = one[i]
      BY <1>3, <2>1, ConcatSeq
    <3> QED BY <2>1, <3>1
  <2> HIDE DEF more
  <2>3. /\ IsSeq(all) /\ Len(all) = n + Len(more)
        /\ \A i \in 1..n : all[i] = text[i]
        /\ \A i \in 1..Len(more) : all[n + i] = more[i]
    <3> DEFINE a == text
               b == more
    <3>1. IsSeq(a) /\ IsSeq(b)
      BY <1>1, <2>2
    <3> HIDE DEF a, b
    <3>2. /\ IsSeq(a \o b) /\ Len(a \o b) = Len(a) + Len(b)
          /\ \A i \in 1..Len(a) : (a \o b)[i] = a[i]
          /\ \A i \in 1..Len(b) : (a \o b)[Len(a) + i] = b[i]
      BY <3>1, ConcatSeq
    <3> QED BY <3>2 DEF a, b
  <2> DEFINE k == n + 1
  <2>4. 1 \in 1..Len(more) /\ k \in 1..Len(all) /\ \A i \in 1..k-1 : i \in 1..n
    BY <1>1, <2>2, <2>3
  <2>5. all[k] = x
    BY <2>2, <2>3, <2>4
  <2>6. DOMAIN all = 1..Len(all)
    BY <2>3, SeqIsSeq DEF IsSeq
  <2>7. IsException(x)
    BY DEF IsException, Raised
  <2>8. \A i \in 1..n : ~IsException(all[i])
    BY <2>3 DEF Clean
  <2>9. k \in Nat /\ n \in Nat /\ k = n + 1
    BY <1>1
  <2> HIDE DEF all, x, k, n
  <2>10. \A i \in DOMAIN all : IsException(all[i]) /\ (\A j \in 1..i-1 : ~IsException(all[j]))
                                => i = k
    <3> SUFFICES ASSUME NEW i \in DOMAIN all, IsException(all[i]),
                        \A j \in 1..i-1 : ~IsException(all[j])
                 PROVE  i = k
      OBVIOUS
    <3>1. i \in Nat /\ i \notin 1..n /\ i \in 1..Len(all)
      BY <2>6, <2>8
    <3>2. k \notin 1..i-1
      BY <2>5, <2>7
    <3> QED BY <2>9, <3>1, <3>2
  <2>11. /\ k \in DOMAIN all /\ IsException(all[k])
         /\ \A j \in 1..k-1 : ~IsException(all[j])
    BY <2>4, <2>5, <2>6, <2>7, <2>8
  <2>12. FirstException(all) = k
    BY <2>10, <2>11 DEF FirstException
  <2>13. Outcome(all) = <<all[k]>>
    BY <2>11, <2>12 DEF Outcome
  <2> QED BY <2>5, <2>13 DEF all, more, one, x
<1> QED BY <1>2, <1>3

\* A call, taken apart at its innermost activation.
Here(env, d, st, text, whole, below, after) ==
    LET k == Len(st)
        r == ReadingOf(env, d, st, k)
    IN  /\ Below(env, d, st, k - 1, below)
        /\ Open(r, st[k].blocks, st[k].scope, below, after)
        /\ Clean(text) /\ whole = text \o (From(r, Last(st[k].blocks).idx, st[k].scope) \o after)

\* In a call, the text so far and the item that comes next.
LEMMA CallHere ==
  ASSUME NEW env, NEW d, NEW st, NEW text, NEW whole, Call(env, d, st, text, whole)
  PROVE  \E below, after : Here(env, d, st, text, whole, below, after)
BY DEF Call, Remains, Here

\* The readings of the activations.
LEMMA TopReading ==
  ASSUME NEW env, NEW d, Stored(env, d), NEW st, StackFits(d, st),
         \A i, j \in 1..Len(st) : st[i].doc = st[j].doc => i = j, NEW k \in 1..Len(st)
  PROVE  /\ Known(env, d, st[k].doc, Free(d, st, k), ReadingOf(env, d, st, k))
         /\ st[k].doc \in Free(d, st, k) /\ Free(d, st, k) \in SUBSET DOMAIN d
<1> DEFINE free == Free(d, st, k)
           name == st[k].doc
<1>1. free \in SUBSET DOMAIN d
  BY DEF Free
<1>2. name \in free
  <2>1. Len(st) \in Nat
    BY SeqIsSeq DEF StackFits, IsSeq
  <2>2. \A i \in 1..k-1 : i \in 1..Len(st) /\ i # k
    BY <2>1
  <2>3. name \in DOMAIN d
    BY DEF StackFits, Fits
  <2>4. \A i \in 1..k-1 : st[i].doc # name
    BY <2>2
  <2> QED BY <2>3, <2>4 DEF Free
<1> HIDE DEF free, name
<1>3. Known(env, d, name, free, Reading(env, d, name, free))
  BY <1>1, <1>2, ReadingIs
<1> QED BY <1>1, <1>2, <1>3 DEF ReadingOf, free, name

\* A call with another innermost activation of the same template.
LEMMA CallWith ==
  ASSUME NEW env, NEW d, NEW st, IsSeq(st), st # <<>>, NEW k, k = Len(st),
         NEW a, a.doc = st[k].doc, NEW below, Below(env, d, st, k - 1, below), NEW total,
         Remains(ReadingOf(env, d, st, k), a.blocks, a.scope, below, total),
         NEW text, Clean(text), NEW whole, whole = text \o total
  PROVE  Call(env, d, [st EXCEPT ![k] = a], text, whole)
<1> DEFINE new == [st EXCEPT ![k] = a]
<1>1. k \in Nat \ {0} /\ k \in 1..Len(st)
  BY FrontSeq
<1>2. Changed(st, k, a, new)
  BY <1>1, ChangedSeq
<1> HIDE DEF new
<1>3. Len(new) = k /\ new[k] = a /\ \A i \in 1..k : i # k => new[i] = st[i]
  BY <1>2 DEF Changed
<1>4. \A i \in 1..k-1 : i \in 1..k /\ i # k
  BY <1>1
<1>5. \A i \in 1..k-1 : new[i] = st[i]
  BY <1>3, <1>4
<1>6. Below(env, d, new, k - 1, below)
  <2> DEFINE n == k - 1
  <2>1. n \in Nat /\ \A i \in 1..n : new[i] = st[i]
    BY <1>1, <1>5
  <2>2. Below(env, d, st, n, below)
    OBVIOUS
  <2> HIDE DEF n
  <2>3. Below(env, d, new, n, below)
    BY <2>1, <2>2, BelowFacts
  <2> QED BY <2>3 DEF n
<1>7. ReadingOf(env, d, new, k) = ReadingOf(env, d, st, k)
  <2>1. {new[i].doc : i \in 1..k-1} = {st[i].doc : i \in 1..k-1}
    BY <1>5
  <2> QED BY <1>3, <2>1 DEF ReadingOf, Free
<1>8. Call(env, d, new, text, whole)
  BY <1>3, <1>6, <1>7 DEF Call
<1> QED BY <1>8 DEF new

\* The innermost activation has done its item, and moves on.
LEMMA ItemDone ==
  ASSUME NEW env, NEW st, StackFits(docs, st), st # <<>>, DocsFit(docs), NEW text, NEW whole,
         NEW below, NEW after, Here(env, docs, st, text, whole, below, after),
         NEW k, k = Len(st), NEW r, r = ReadingOf(env, docs, st, k),
         IsReading(r), r.tree = docs[st[k].doc],
         NEW j, j = Last(st[k].blocks).idx, j # 0,
         NEW out, out = OfItem(r, j, st[k].scope), Clean(out)
  PROVE  Call(env, docs, [st EXCEPT ![k] = NextSibling(st[k])], text \o out, whole)
<1> DEFINE a == st[k]
           blocks == a.blocks
           m == Len(blocks)
           scope == a.scope
           next == r.tree[j].idxNextSibling
           new == NextSibling(a)
           total == From(r, next, scope) \o after
<1>1. IsSeq(st) /\ k \in 1..k /\ Fits(docs, a)
  BY FrontSeq DEF StackFits
<1>2. IsList(blocks) /\ m \in 1..m /\ Last(blocks) = blocks[m] /\ j \in 1..Len(r.tree)
  <2>1. IsSeq(blocks) /\ blocks # <<>> /\ m \in 1..m /\ Last(blocks) = blocks[m]
        /\ Last(blocks).idx \in 0..Len(docs[a.doc]) /\ Len(docs[a.doc]) \in Nat
    <3> HIDE DEF a
    <3> QED BY Zenon, <1>1, BlocksFacts
  <2> QED BY <2>1 DEF IsList
<1>3. blocks[m] = [idx |-> blocks[m].idx, todo |-> blocks[m].todo]
  BY Zenon, <1>1, <1>2 DEF Fits
<1>4. /\ Below(env, docs, st, k - 1, below) /\ Open(r, blocks, scope, below, after)
      /\ Clean(text) /\ whole = text \o (From(r, j, scope) \o after)
  BY DEF Here
<1>5. scope \in Scopes /\ IsSeq(after)
  BY Zenon, <1>2, <1>4, OpenFacts
<1>6. /\ From(r, j, scope) = out \o From(r, next, scope)
      /\ IsSeq(out) /\ IsSeq(From(r, next, scope))
  BY Zenon, <1>2, <1>5, ItemMeans
<1>7. /\ new.doc = a.doc /\ new.scope = scope
      /\ new.blocks = MovedBlocks(docs[a.doc], blocks)
  BY <1>1, NextSiblingIs
<1>8. Remains(r, new.blocks, scope, below, total)
  <2>1. j = blocks[m].idx
    BY <1>2
  <2> DEFINE moved == [blocks EXCEPT ![m] = [idx |-> next, todo |-> blocks[m].todo]]
             bs == blocks
  <2>2. new.blocks = moved
    BY <1>7, <2>1 DEF MovedBlocks
  <2> HIDE DEF new, a
  <2>3. Remains(r, moved, scope, below, total)
    BY Zenon, <1>2, <1>3, <1>4, <2>1, NextRemains
  <2> QED BY Zenon, <2>2, <2>3
<1> HIDE DEF new, next, blocks, m
<1>9. whole = (text \o out) \o total
  <2> DEFINE tail == From(r, next, scope)
  <2>1. IsSeq(text) /\ IsSeq(out) /\ IsSeq(tail) /\ IsSeq(after)
    BY Zenon, <1>4, <1>5, <1>6 DEF Clean
  <2>2. whole = text \o ((out \o tail) \o after)
    BY Zenon, <1>4, <1>6
  <2> HIDE DEF tail, scope
  <2>3. Joins(out, tail, after)
    BY <2>1, BeforeTwo
  <2> DEFINE more == tail \o after
  <2>4. IsSeq(more) /\ (out \o tail) \o after = out \o more
    BY Zenon, <2>3 DEF Joins
  <2> HIDE DEF more
  <2>5. Joins(text, out, more)
    BY <2>1, <2>4, BeforeTwo
  <2>6. whole = text \o (out \o more)
    BY Zenon, <2>2, <2>4
  <2> QED BY Zenon, <2>5, <2>6 DEF Joins, more, tail
<1>10. Clean(text \o out)
  BY <1>4, CleanConcat
<1> DEFINE sofar == text \o out
<1> HIDE DEF total, sofar, a, scope
<1>11. Call(env, docs, [st EXCEPT ![k] = new], sofar, whole)
  <2>1. whole = sofar \o total /\ Clean(sofar)
    BY <1>9, <1>10 DEF sofar
  <2>2. Remains(ReadingOf(env, docs, st, k), new.blocks, new.scope, below, total)
    BY <1>7, <1>8
  <2>3. new.doc = st[k].doc /\ Below(env, docs, st, k - 1, below)
    BY <1>4, <1>7 DEF a
  <2> QED BY <1>1, <2>1, <2>2, <2>3, CallWith
<1> QED BY <1>11 DEF new, sofar, a

\* An item that stands for an exception: this is what the call returns.
LEMMA ItemThrows ==
  ASSUME NEW env, NEW st, StackFits(docs, st), st # <<>>, DocsFit(docs), NEW text, NEW whole,
         NEW below, NEW after, Here(env, docs, st, text, whole, below, after),
         NEW k, k = Len(st), NEW r, r = ReadingOf(env, docs, st, k),
         IsReading(r), r.tree = docs[st[k].doc],
         NEW j, j = Last(st[k].blocks).idx, j # 0,
         NEW e, OfItem(r, j, st[k].scope) = <<Raised(e)>>
  PROVE  Outcome(whole) = <<Raised(e)>>
<1> DEFINE a == st[k]
           scope == a.scope
           next == r.tree[j].idxNextSibling
           one == <<Raised(e)>>
<1>1. IsSeq(st) /\ k \in 1..k /\ Fits(docs, a)
  BY FrontSeq DEF StackFits
<1>2. IsList(a.blocks) /\ j \in 1..Len(r.tree)
  <2>1. IsSeq(a.blocks) /\ a.blocks # <<>>
        /\ Last(a.blocks).idx \in 0..Len(docs[a.doc]) /\ Len(docs[a.doc]) \in Nat
    <3> HIDE DEF a
    <3> QED BY <1>1, BlocksFacts
  <2> QED BY <2>1 DEF IsList
<1>3. /\ Open(r, a.blocks, scope, below, after)
      /\ Clean(text) /\ whole = text \o (From(r, j, scope) \o after)
  BY DEF Here
<1>4. scope \in Scopes /\ IsSeq(after)
  BY <1>2, <1>3, OpenFacts
<1>5. /\ From(r, j, scope) = one \o From(r, next, scope)
      /\ IsSeq(one) /\ IsSeq(From(r, next, scope))
  <2>1. /\ From(r, j, scope) = OfItem(r, j, scope) \o From(r, next, scope)
        /\ IsSeq(From(r, next, scope))
    BY Zenon, <1>2, <1>4, ItemMeans
  <2>2. OfItem(r, j, scope) = one /\ IsSeq(one)
    BY ShortSeqs
  <2> QED BY Zenon, <2>1, <2>2
<1> DEFINE tail == From(r, next, scope)
           more == tail \o after
<1> HIDE DEF tail, one, a, scope
<1>6. Joins(one, tail, after)
  <2>1. IsSeq(one) /\ IsSeq(tail) /\ IsSeq(after)
    BY Zenon, <1>4, <1>5 DEF tail
  <2> QED BY <2>1, BeforeTwo
<1>7. IsSeq(more) /\ (one \o tail) \o after = one \o more
  BY <1>6 DEF Joins
<1> HIDE DEF more
<1>8. whole = text \o (one \o more)
  BY Zenon, <1>3, <1>5, <1>7 DEF tail
<1>9. Outcome(text \o (<<Raised(e)>> \o more)) = <<Raised(e)>>
  BY <1>3, <1>7, OutcomeIs
<1> QED BY <1>8, <1>9 DEF one

\* The next round of a loop, or the end of a block.
LEMMA RoundCall ==
  ASSUME NEW env, StackFits(docs, stack), stack # <<>>, DocsFit(docs),
         NEW k, k = Len(stack), NEW r, r = ReadingOf(env, docs, stack, k),
         IsReading(r), r.tree = Tree, NEW blocks, NEW scope,
         Fits(docs, [doc |-> Top.doc, scope |-> scope, blocks |-> blocks]),
         NEW below, Below(env, docs, stack, k - 1, below),
         NEW after, Open(r, blocks, scope, below, after),
         NEW j \in 1..Len(r.tree), j = Last(blocks).idx,
         NEW todo \in Seq(JsonValues), todo # <<>> => r.tree[j].t = "ForLoop",
         NEW text, Clean(text), NEW whole,
         whole = text \o (Rounds(r, j, scope, todo)
                            \o (From(r, r.tree[j].idxNextSibling, scope) \o after))
  PROVE  Call(env, docs, LoopRound(blocks, scope, todo), text, whole)
<1> DEFINE doc == Top.doc
           there == [doc |-> doc, scope |-> scope, blocks |-> blocks]
           next == r.tree[j].idxNextSibling
           child == r.tree[j].idxFirstChild
           var == r.tree[j].text.var
           m == Len(blocks)
<1>1. IsSeq(stack) /\ k \in 1..k /\ Top = stack[k] /\ Top = Last(stack)
  BY FrontSeq DEF StackFits, Top
<1>2. there.blocks = blocks /\ there.doc = doc /\ there.scope = scope /\ Tree = docs[doc]
  BY Zenon DEF Tree
<1>3. IsList(blocks) /\ m \in 1..m /\ Last(blocks) = blocks[m]
      /\ blocks[m] = [idx |-> blocks[m].idx, todo |-> blocks[m].todo]
  <2>1. IsSeq(there.blocks) /\ there.blocks # <<>>
        /\ \A b \in 1..Len(there.blocks) :
             there.blocks[b] = [idx |-> there.blocks[b].idx, todo |-> there.blocks[b].todo]
    <3> HIDE DEF there
    <3> QED BY DEF Fits, there
  <2> HIDE DEF there
  <2>2. IsSeq(blocks) /\ blocks # <<>>
    BY <1>2, <2>1
  <2>3. m \in 1..m /\ Last(blocks) = blocks[m]
    BY <2>2, FrontSeq
  <2> QED BY Zenon, <1>2, <2>1, <2>2, <2>3 DEF IsList
<1>4. scope \in Scopes /\ IsSeq(after)
  BY <1>3, OpenFacts
<1>5. CASE todo = <<>>
  <2> DEFINE new == NextSibling(there)
             total == From(r, next, scope) \o after
  <2>1. LoopRound(blocks, scope, todo) = [stack EXCEPT ![k] = new]
    <3>1. LoopRound(blocks, scope, todo) =
            [stack EXCEPT ![k] = NextSibling([Top EXCEPT !.blocks = blocks, !.scope = scope])]
      BY <1>5 DEF LoopRound
    <3>2. [Top EXCEPT !.blocks = blocks, !.scope = scope] = there
      <4>1. Fits(docs, Top)
        BY <1>1 DEF StackFits
      <4>2. Top = [doc |-> Top.doc, scope |-> Top.scope, blocks |-> Top.blocks]
        BY <4>1 DEF Fits
      <4> HIDE DEF there
      <4>3. [Top EXCEPT !.blocks = blocks, !.scope = scope]
              = [doc |-> Top.doc, scope |-> scope, blocks |-> blocks]
        BY Zenon, <4>2, TwoUpdates
      <4> QED BY <4>3 DEF there
    <3> HIDE DEF there
    <3> QED BY <3>1, <3>2
  <2>2. /\ new.doc = doc /\ new.scope = scope /\ new.blocks = MovedBlocks(docs[doc], blocks)
    <3>1. new = [doc |-> there.doc, scope |-> there.scope,
                 blocks |-> MovedBlocks(docs[there.doc], there.blocks)]
      <4> HIDE DEF there
      <4> QED BY NextSiblingIs DEF there
    <3> HIDE DEF new, there
    <3> QED BY <1>2, <3>1
  <2>3. Remains(r, new.blocks, scope, below, total)
    <3> DEFINE moved == [blocks EXCEPT ![m] = [idx |-> next, todo |-> blocks[m].todo]]
    <3>1. j = blocks[m].idx
      BY <1>3
    <3>2. new.blocks = moved
      BY Zenon, <1>2, <2>2, <3>1 DEF MovedBlocks
    <3> HIDE DEF new
    <3>3. Remains(r, moved, scope, below, total)
      BY <1>3, <3>1, NextRemains
    <3> QED BY <3>2, <3>3
  <2> HIDE DEF new
  <2>4. whole = text \o total
    <3>1. Rounds(r, j, scope, todo) = <<>>
      BY <1>5, RoundsNone
    <3>2. IsSeq(total)
      <4>1. IsSeq(From(r, next, scope))
        BY <1>4, ItemMeans
      <4> QED BY <1>4, <4>1, ConcatSeq
    <3> HIDE DEF total
    <3>3. <<>> \o total = total
      BY <3>2, ShortSeqs
    <3> QED BY <3>1, <3>3 DEF total
  <2> HIDE DEF total
  <2>5. Call(env, docs, [stack EXCEPT ![k] = new], text, whole)
    <3>1. new.doc = stack[k].doc
      BY <1>1, <2>2
    <3>2. Remains(ReadingOf(env, docs, stack, k), new.blocks, new.scope, below, total)
      BY <2>2, <2>3
    <3> QED BY <1>1, <2>4, <3>1, <3>2, CallWith
  <2> QED BY <2>1, <2>5
<1>6. CASE todo # <<>>
  <2> DEFINE more == Append(blocks, [idx |-> child, todo |-> Tail(todo)])
             scope2 == Emplace(scope, var, todo[1])
             new == [doc |-> doc, scope |-> scope2, blocks |-> more]
             total == Rounds(r, j, scope, todo) \o (From(r, next, scope) \o after)
  <2>1. LoopRound(blocks, scope, todo) = WithTop(more, scope2)
    BY <1>6 DEF LoopRound
  <2>2. Remains(r, more, scope2, below, total)
    BY <1>3, <1>6, RoundRemains
  <2>3. new.doc = doc /\ new.scope = scope2 /\ new.blocks = more
    OBVIOUS
  <2> HIDE DEF more, scope2
  <2>4. WithTop(more, scope2) = [stack EXCEPT ![k] = new]
    BY WithTopIs
  <2> HIDE DEF new, total
  <2>5. Call(env, docs, [stack EXCEPT ![k] = new], text, whole)
    <3>1. new.doc = stack[k].doc /\ whole = text \o total
      BY <1>1, <2>3 DEF total
    <3>2. Remains(ReadingOf(env, docs, stack, k), new.blocks, new.scope, below, total)
      BY <2>2, <2>3
    <3> QED BY <1>1, <3>1, <3>2, CallWith
  <2> QED BY <2>1, <2>4, <2>5
<1> QED BY <1>5, <1>6

\* A template is entered: the activations below wait for it.
LEMMA Entered ==
  ASSUME NEW env, NEW d, Stored(env, d), NEW st, IsSeq(st), NEW n, n = Len(st),
         NEW below, Below(env, d, st, n, below), NEW free, free = Free(d, st, n + 1),
         NEW name \in free, d[name] # <<>>,
         NEW new, new = [doc |-> name, scope |-> <<>>, blocks |-> <<[idx |-> 1, todo |-> <<>>]>>],
         NEW text, Clean(text), NEW whole, whole = text \o (Expansion(env)[free][name] \o below)
  PROVE  Call(env, d, Append(st, new), text, whole)
<1> DEFINE st2 == Append(st, new)
           k == n + 1
           r == Reading(env, d, name, free)
           block == [idx |-> 1, todo |-> <<>>]
           blocks == <<block>>
<1>1. /\ Len(st2) = k /\ \A i \in 1..n : st2[i] = st[i]
      /\ st2[k] = new /\ n \in Nat
  BY AppendSeq
<1> HIDE DEF st2
<1>2. Known(env, d, name, free, r)
  <2>1. free \in SUBSET DOMAIN d
    BY DEF Free
  <2> QED BY <2>1, ReadingIs
<1>3. new.doc = name /\ new.scope = <<>> /\ new.blocks = blocks
  OBVIOUS
<1>4. ReadingOf(env, d, st2, k) = r
  <2>1. k - 1 = n
    BY <1>1
  <2>2. {st2[i].doc : i \in 1..n} = {st[i].doc : i \in 1..n}
    BY <1>1
  <2>3. Free(d, st2, k) = free
    BY <2>1, <2>2 DEF Free
  <2> HIDE DEF k, r
  <2> QED BY <1>1, <1>3, <2>3 DEF ReadingOf, r
<1>5. Len(blocks) = 1 /\ Last(blocks) = block /\ block.idx = 1
  BY DEF Last
<1> HIDE DEF blocks, block
<1>6. IsSeq(below) /\ Below(env, d, st2, n, below)
  BY <1>1, BelowFacts
<1>7. Open(r, blocks, <<>>, below, below)
  BY <1>5, <1>6, OpenAlone
<1>8. Remains(r, blocks, <<>>, below, From(r, 1, <<>>) \o below)
  <2>1. Last(blocks).idx = 1
    BY <1>5
  <2> QED BY <1>7, <2>1 DEF Remains
<1>9. whole = text \o (From(r, 1, <<>>) \o below)
  BY <1>2 DEF Known
<1>10. Below(env, d, st2, k - 1, below)
  <2>1. k - 1 = n
    BY <1>1
  <2> QED BY <1>6, <2>1
<1> HIDE DEF k, r
<1>11. Call(env, d, st2, text, whole)
  <2>1. Remains(ReadingOf(env, d, st2, Len(st2)), st2[Len(st2)].blocks, st2[Len(st2)].scope,
                below, From(r, 1, <<>>) \o below)
    BY <1>1, <1>3, <1>4, <1>8
  <2>2. Below(env, d, st2, Len(st2) - 1, below)
    BY <1>1, <1>10
  <2> QED BY <1>9, <2>1, <2>2 DEF Call
<1> QED BY <1>11 DEF st2

\* A template has returned: the activation below goes on.
LEMMA Returned ==
  ASSUME NEW env, NEW st, StackFits(docs, st), st # <<>>, NEW k, k = Len(st),
         NEW below, Below(env, docs, st, k, below),
         NEW text, Clean(text), NEW whole, whole = text \o below
  PROVE  Call(env, docs, [st EXCEPT ![k] = NextSibling(Last(st))], text, whole)
<1> DEFINE a == Last(st)
           new == NextSibling(a)
           n == k - 1
<1>1. IsSeq(st) /\ k \in Nat \ {0} /\ a = st[k] /\ k \in 1..k
  BY FrontSeq DEF StackFits
<1>2. Fits(docs, a)
  BY <1>1 DEF StackFits
<1> HIDE DEF a
<1>3. new.doc = a.doc /\ new.scope = a.scope /\ new.blocks = MovedBlocks(docs[a.doc], a.blocks)
  BY <1>2, NextSiblingIs
<1> HIDE DEF new
<1>4. PICK less : /\ Below(env, docs, st, n, less)
                  /\ Remains(ReadingOf(env, docs, st, k),
                             MovedBlocks(docs[st[k].doc], st[k].blocks), st[k].scope, less, below)
  BY <1>1, BelowLess
<1>5. Remains(ReadingOf(env, docs, st, k), new.blocks, new.scope, less, below)
  BY <1>1, <1>3, <1>4
<1>6. Call(env, docs, [st EXCEPT ![k] = new], text, whole)
  <2>1. new.doc = st[k].doc
    BY <1>1, <1>3
  <2> QED BY <1>1, <1>4, <1>5, <2>1, CallWith
<1> QED BY <1>6 DEF new, a

-----------------------------------------------------------------------------
(***************************************************************************)
(* The invariant behind the answers, and the steps of a call.               *)
(***************************************************************************)

\* A template has a loop within a loop over the same variable, or an empty token.
Odd == \E path \in DOMAIN docs : ~NoShadowing(files[path]) \/ ~NoEmptyToken(files[path])

\* What is to become of a call for this path.
Whole(env, path) == Expansion(env)[env.known][LocalizedFor(env.langCode, env.known, path)]

\* visitedTemplates has the templates of the activations and no others.
VisitedIs(st, vis) == Len(vis) = Len(st) /\ \A i \in 1..Len(st) : vis[i] = st[i].doc

\* The inductive invariant: at any time the text that a call has produced, followed by
\* what its activations still have to produce, is what the template means. If no
\* template is empty, visitedTemplates has no name too many, so that the exception
\* about circular includes is raised only where there is a circle.
MeaningInv ==
    /\ StoreIInv
    /\ dic \in Dics \cup {<<>>} /\ strList \in StrLists \cup {<<>>}
    /\ status = "new" => asked = <<>>
    /\ OutputIsMeaning
    /\ Running => Localized(asked) # <<>>
    /\ Running /\ ~Odd => Call(Environment, docs, stack, result, Whole(Environment, asked))
    /\ Running /\ NoEmptyTemplate => VisitedIs(stack, visited)

\* The parts of the environment.
LEMMA EnvironmentIs ==
  /\ Environment.files = files /\ Environment.known = DOMAIN docs /\ Environment.dic = dic
  /\ Environment.strList = strList /\ Environment.langCode = langCode
BY DEF Environment

\* The templates of the store can be read.
LEMMA StoreStored ==
  ASSUME StoreIInv, ~Odd, NEW env, env.files = files, env.known = DOMAIN docs,
         env.dic \in Dics \cup {<<>>}, env.strList \in StrLists \cup {<<>>}
  PROVE  Stored(env, docs)
<1>1. env.files = files /\ env.known = DOMAIN docs
  OBVIOUS
<1>2. EnvFits(env)
  <2>1. \A x : x \notin DOMAIN <<>>
    OBVIOUS
  <2>2. \A x \in DOMAIN env.dic : env.dic[x] \in JsonValues
    BY <2>1, MeaningAssumption
  <2>3. \A key \in DOMAIN env.strList : env.strList[key].t = "str"
    BY <2>1, MeaningAssumption
  <2> QED BY <2>2, <2>3 DEF EnvFits
<1>3. IsFiniteSet(DOMAIN docs)
  <2>1. files \in Files /\ DOMAIN docs \subseteq DOMAIN files
    BY Zenon DEF StoreIInv, DocsParsed
  <2>2. IsFiniteSet(DOMAIN files)
    BY <2>1, MeaningAssumption
  <2> QED BY <2>1, <2>2, FS_Subset
<1>4. ASSUME NEW name \in DOMAIN docs, NEW s, s = files[name]
      PROVE  /\ IsText(s) /\ ~Parse(s).err /\ docs[name] = Parse(s).tree
             /\ Ended(s) /\ LoopsFit(s) /\ NoShadowing(s) /\ NoEmptyToken(s)
             /\ \A i \in 1..Len(s) : ~IsException(s[i])
  <2>1. name \in DOMAIN files /\ files \in Files /\ ~Parse(s).err /\ docs[name] = Parse(s).tree
    BY Zenon, <1>4 DEF StoreIInv, DocsParsed
  <2>2. IsText(s)
    BY <1>4, <2>1, StoreAssumption
  <2>3. Len(s) \in Nat /\ DOMAIN s = 1..Len(s)
    BY <2>2, LenProperties DEF IsText
  <2>4. Nested(s)
    <3>1. WellFormed(s)
      BY <2>1, <2>2, ParseIsRight
    <3> QED BY <3>1 DEF WellFormed
  <2>5. Ended(s)
    BY <2>2, <2>3, <2>4, CloserExists DEF Ended
  <2>6. \A i \in 1..Len(s) : ~IsException(s[i]) /\ (s[i].k = "for" => s[i].var \in LocalNames)
    BY <1>4, <2>1, <2>3, MeaningAssumption
  <2>7. LoopsFit(s)
    BY <2>6 DEF LoopsFit
  <2>8. NoShadowing(s) /\ NoEmptyToken(s)
    BY <1>4 DEF Odd
  <2> QED BY <2>1, <2>2, <2>5, <2>6, <2>7, <2>8
<1>5. Readable(env)
  BY <1>1, <1>2, <1>3, <1>4 DEF Readable
<1> QED BY <1>1, <1>4, <1>5 DEF Stored

\* Where the call stands.
LEMMA CallStands ==
  ASSUME MeaningInv, Running, ~Odd, NEW env, env = Environment, NEW k, k = Len(stack),
         NEW r, r = ReadingOf(env, docs, stack, k)
  PROVE  /\ \E below, after : Here(env, docs, stack, result, Whole(env, asked), below, after)
         /\ Known(env, docs, Top.doc, Free(docs, stack, k), r)
         /\ IsReading(r) /\ r.tree = Tree /\ r.tree = docs[stack[k].doc] /\ r.env = env
         /\ Stored(env, docs) /\ Top = stack[k] /\ k \in Nat \ {0} /\ k \in 1..k
         /\ IsSeq(stack) /\ IsList(Top.blocks)
         /\ Block = Last(stack[k].blocks)
         /\ Block.idx # 0 => Block.idx \in 1..Len(r.tree)
<1>1. /\ stack # <<>> /\ StackFits(docs, stack) /\ Fits(docs, Top) /\ Top = Last(stack)
      /\ Tree = docs[Top.doc] /\ Block = Last(Top.blocks)
      /\ Block.idx \in 0..Len(Tree) /\ Len(Tree) \in Nat
  BY TopFacts DEF MeaningInv
<1>2. IsSeq(stack) /\ k \in Nat \ {0} /\ k \in 1..k /\ Top = stack[k]
  BY <1>1, FrontSeq DEF StackFits
<1>3. Stored(env, docs)
  BY EnvironmentIs, StoreStored DEF MeaningInv
<1>4. \A i, j \in 1..Len(stack) : stack[i].doc = stack[j].doc => i = j
  <2>1. NeverActiveTwice
    BY NeverTwiceFromInv DEF MeaningInv
  <2>2. DOMAIN stack = 1..Len(stack)
    BY <1>2, SeqIsSeq DEF IsSeq
  <2> QED BY <2>1, <2>2 DEF NeverActiveTwice
<1>5. Known(env, docs, stack[k].doc, Free(docs, stack, k), r)
  BY <1>1, <1>2, <1>3, <1>4, TopReading
<1>6. \E below, after : Here(env, docs, stack, result, Whole(env, asked), below, after)
  <2> DEFINE whole == Whole(env, asked)
             text == result
             st == stack
             d == docs
  <2>1. Call(env, d, st, text, whole)
    BY DEF MeaningInv
  <2> HIDE DEF whole, text, st, d
  <2>2. \E below, after : Here(env, d, st, text, whole, below, after)
    BY <2>1, CallHere
  <2> QED BY <2>2 DEF whole, text, st, d
<1>7. IsReading(r) /\ r.env = env /\ r.tree = Tree
  BY <1>1, <1>2, <1>5 DEF Known
<1>8. IsList(Top.blocks)
  <2> DEFINE a == Top
  <2>1. Fits(docs, a)
    BY <1>1
  <2> HIDE DEF a
  <2>2. IsList(a.blocks)
    BY <2>1 DEF Fits, IsList
  <2> QED BY <2>2 DEF a
<1>9. Known(env, docs, Top.doc, Free(docs, stack, k), r) /\ r.tree = docs[stack[k].doc]
  BY <1>1, <1>2, <1>5, <1>7
<1>10. Block = Last(stack[k].blocks)
  BY <1>1, <1>2
<1>11. Block.idx # 0 => Block.idx \in 1..Len(r.tree)
  <2> DEFINE j == Block.idx
             n == Len(Tree)
  <2>1. j \in 0..n /\ n \in Nat /\ n = Len(r.tree)
    BY <1>1, <1>7
  <2> HIDE DEF j, n
  <2>2. j # 0 => j \in 1..n
    BY <2>1
  <2> QED BY <2>1, <2>2 DEF j
<1> QED BY <1>2, <1>3, <1>6, <1>7, <1>8, <1>9, <1>10, <1>11

\* What a step of a call leaves behind: a call that still is to produce the same, or
\* an answer.
Onward(env, whole) ==
    \/ status' = "expanding" /\ Call(env, docs, stack', result', whole)
    \/ /\ status' = "ready"
       /\ \/ result' = Outcome(whole)
          \/ ~NoEmptyTemplate /\ result' = <<Raised("Circular")>>

\* A handler that writes what its item means, or raises the exception that it means.
LEMMA EmitOnward ==
  ASSUME MeaningInv, Running, ~Odd, NEW env, env = Environment, NEW k, k = Len(stack),
         NEW r, r = ReadingOf(env, docs, stack, k), Block.idx # 0,
         NEW out, out = OfItem(r, Block.idx, Top.scope)
  PROVE  /\ Clean(out) /\ stack' = Advance /\ status' = "expanding" /\ result' = result \o out
              => Onward(env, Whole(env, asked))
         /\ \A e : out = <<Raised(e)>> /\ Throw(e) => Onward(env, Whole(env, asked))
<1> DEFINE whole == Whole(env, asked)
           j == Block.idx
<1>1. /\ IsReading(r) /\ r.tree = docs[stack[k].doc] /\ Top = stack[k]
      /\ j = Last(stack[k].blocks).idx
      /\ \E below, after : Here(env, docs, stack, result, whole, below, after)
  BY CallStands
<1>2. stack # <<>> /\ StackFits(docs, stack) /\ DocsFit(docs)
  BY TopFacts DEF MeaningInv
<1> HIDE DEF whole, j
<1>3. PICK below, after : Here(env, docs, stack, result, whole, below, after)
  BY <1>1
<1>4. out = OfItem(r, j, stack[k].scope) /\ j # 0
  BY <1>1 DEF j
<1>5. ASSUME Clean(out), stack' = Advance, status' = "expanding", result' = result \o out
      PROVE  Onward(env, whole)
  <2> DEFINE text == result
  <2>1. Here(env, docs, stack, text, whole, below, after)
    BY <1>3
  <2> HIDE DEF text
  <2>2. Call(env, docs, [stack EXCEPT ![k] = NextSibling(stack[k])], text \o out, whole)
    BY <1>1, <1>2, <1>4, <1>5, <2>1, ItemDone
  <2>3. stack' = [stack EXCEPT ![k] = NextSibling(stack[k])]
    BY <1>1, <1>5 DEF Advance
  <2>4. result' = text \o out
    BY <1>5 DEF text
  <2> QED BY <1>5, <2>2, <2>3, <2>4 DEF Onward
<1>6. ASSUME NEW e, out = <<Raised(e)>>, Throw(e) PROVE Onward(env, whole)
  <2> DEFINE text == result
  <2>1. Here(env, docs, stack, text, whole, below, after)
    BY <1>3
  <2> HIDE DEF text
  <2>2. OfItem(r, j, stack[k].scope) = <<Raised(e)>>
    BY <1>4, <1>6
  <2>3. Outcome(whole) = <<Raised(e)>>
    BY <1>1, <1>2, <1>4, <2>1, <2>2, ItemThrows
  <2> QED BY <1>6, <2>3 DEF Throw, Onward
<1> QED BY <1>5, <1>6 DEF whole

\* The item that a handler is given.
LEMMA ItemHere ==
  ASSUME MeaningInv, ~Odd, NEW env, env = Environment, NEW k, k = Len(stack),
         NEW r, r = ReadingOf(env, docs, stack, k), NEW type, AtItem(type),
         NEW j, j = Block.idx, NEW scope, scope = Top.scope
  PROVE  /\ Running /\ j # 0 /\ j \in 1..Len(r.tree) /\ r.tree[j] = Item /\ r.tree[j].t = type
         /\ IsReading(r) /\ r.env = env /\ scope \in Scopes
<1>1. Running /\ j # 0 /\ Item.t = type /\ Item = Tree[j]
  BY DEF AtItem, NoItem, Item
<1>2. /\ IsReading(r) /\ r.tree = Tree /\ r.env = env
      /\ Block.idx # 0 => Block.idx \in 1..Len(r.tree)
      /\ IsList(Top.blocks) /\ Top = stack[k]
  BY <1>1, CallStands
<1>3. \E below, after : Here(env, docs, stack, result, Whole(env, asked), below, after)
  BY <1>1, CallStands
<1>4. scope \in Scopes
  <2> DEFINE whole == Whole(env, asked)
             text == result
             blocks == Top.blocks
  <2>1. PICK below, after : Here(env, docs, stack, text, whole, below, after)
    BY <1>3
  <2> HIDE DEF whole, text
  <2>2. Open(r, stack[k].blocks, stack[k].scope, below, after)
    BY <2>1 DEF Here
  <2>3. Open(r, blocks, scope, below, after) /\ IsList(blocks)
    BY <1>2, <2>2
  <2> HIDE DEF blocks
  <2> QED BY <2>3, OpenFacts
<1> QED BY <1>1, <1>2, <1>4

\* Text as it is.
LEMMA StaticOnward ==
  ASSUME MeaningInv, ~Odd, NEW env, env = Environment, StaticText
  PROVE  Onward(env, Whole(env, asked))
<1> DEFINE k == Len(stack)
           r == ReadingOf(env, docs, stack, k)
           j == Block.idx
           scope == Top.scope
           out == OfItem(r, j, scope)
<1>1. AtItem("Static") /\ Emit(Item.text)
  BY DEF StaticText
<1> HIDE DEF k, r, j, scope
<1>2. /\ Running /\ j # 0 /\ j \in 1..Len(r.tree) /\ r.tree[j] = Item /\ r.tree[j].t = "Static"
      /\ IsReading(r)
  BY <1>1, ItemHere DEF k, r, j, scope
<1>3. out = Item.text /\ Clean(out)
  BY <1>2, StaticIsClean DEF OfItem
<1> HIDE DEF out
<1>4. stack' = Advance /\ status' = "expanding" /\ result' = result \o out
  BY <1>1, <1>2, <1>3 DEF Emit, Running
<1>5. k = Len(stack) /\ r = ReadingOf(env, docs, stack, k) /\ Block.idx # 0
      /\ out = OfItem(r, Block.idx, Top.scope)
  BY <1>2 DEF k, r, j, scope, out
<1> QED BY <1>2, <1>3, <1>4, <1>5, EmitOnward

\* A variable of the dictionary, of a loop, or of the string list.
LEMMA VariableOnward ==
  ASSUME MeaningInv, ~Odd, NEW env, env = Environment, Variable
  PROVE  Onward(env, Whole(env, asked))
<1> DEFINE k == Len(stack)
           r == ReadingOf(env, docs, stack, k)
           j == Block.idx
           scope == Top.scope
           out == OfItem(r, j, scope)
           token == Item.text
           found == Resolve(token.var, dic, Top.scope)
           text == IF token.k = "str"
                   THEN IF token.name = "" THEN <<>> ELSE GetString(strList, langCode, token.name)
                   ELSE IF found = <<>> THEN <<>> ELSE Json2String(found[1])
<1>1. /\ AtItem("Variable")
      /\ IF text # <<>> /\ text[1].t = "exception" THEN Throw(text[1].v) ELSE Emit(text)
  BY Zenon DEF Variable
<1>2. /\ Running /\ j # 0 /\ j \in 1..Len(r.tree) /\ r.tree[j] = Item /\ r.tree[j].t = "Variable"
      /\ IsReading(r) /\ r.env = env /\ scope \in Scopes
  <2> HIDE DEF k, r, j, scope, text
  <2> QED BY <1>1, ItemHere DEF k, r, j, scope
<1>3. env.dic = dic /\ env.strList = strList /\ env.langCode = langCode
  BY EnvironmentIs
<1>4. found = Resolve(token.var, r.env.dic, scope)
  BY <1>2, <1>3
<1>5. /\ out = text
      /\ \/ out = <<>>
         \/ \E x : out = <<x>> /\ x.t # "exception"
         \/ \E e : out = <<Raised(e)>>
  <2>1. token = r.tree[j].text
    BY <1>2
  <2>2. LookedUp(r.env, token, found) = text
    <3> HIDE DEF r, found, token
    <3> QED BY <1>2, <1>3 DEF LookedUp
  <2> HIDE DEF k, r, j, scope, text, found, token
  <2>3. OfItem(r, j, scope) = LookedUp(r.env, token, found) /\ Short(OfItem(r, j, scope))
    BY <1>2, <1>4, <2>1, VariableMeans
  <2> QED BY <2>2, <2>3 DEF Short
<1>6. k = Len(stack) /\ r = ReadingOf(env, docs, stack, k) /\ Block.idx # 0
      /\ out = OfItem(r, Block.idx, Top.scope)
  BY <1>2
<1> HIDE DEF k, r, j, scope, text, found, token, out
<1>7. CASE \E e : out = <<Raised(e)>>
  <2>1. PICK e : out = <<Raised(e)>>
    BY <1>7
  <2>2. text # <<>> /\ text[1].t = "exception" /\ text[1].v = e
    BY <1>5, <2>1 DEF Raised
  <2>3. Throw(e)
    BY <1>1, <2>2
  <2> QED BY <1>2, <1>6, <2>1, <2>3, EmitOnward
<1>8. CASE out = <<>> \/ \E x : out = <<x>> /\ x.t # "exception"
  <2>1. Clean(out) /\ ~(text # <<>> /\ text[1].t = "exception")
    BY <1>5, <1>8, ShortIsClean
  <2>2. stack' = Advance /\ status' = "expanding" /\ result' = result \o out
    BY <1>1, <1>2, <1>5, <2>1 DEF Emit, Running
  <2> QED BY <1>2, <1>6, <2>1, <2>2, EmitOnward
<1> QED BY <1>5, <1>7, <1>8

\* Where a handler stands: what the call still has to produce begins with what the
\* item means.
Before(env, d, st, k, r, blocks, scope, j, text, whole, below, after) ==
    /\ Below(env, d, st, k - 1, below) /\ Open(r, blocks, scope, below, after)
    /\ Clean(text) /\ j = Last(blocks).idx
    /\ whole = text \o (OfItem(r, j, scope)
                          \o (From(r, r.tree[j].idxNextSibling, scope) \o after))

\* What there is from an item on begins with what the item means.
ItemFirst(r, j, scope) ==
    LET next == r.tree[j].idxNextSibling
    IN  /\ From(r, j, scope) = OfItem(r, j, scope) \o From(r, next, scope)
        /\ IsSeq(OfItem(r, j, scope)) /\ IsSeq(From(r, next, scope))

\* It always does.
LEMMA ItemComesFirst ==
  ASSUME NEW r, IsReading(r), NEW j \in 1..Len(r.tree), NEW scope \in Scopes
  PROVE  ItemFirst(r, j, scope)
<1> DEFINE next == r.tree[j].idxNextSibling
<1>1. next = r.tree[j].idxNextSibling
  OBVIOUS
<1> HIDE DEF next
<1>2. /\ From(r, j, scope) = OfItem(r, j, scope) \o From(r, next, scope)
      /\ IsSeq(OfItem(r, j, scope)) /\ IsSeq(From(r, next, scope))
  BY <1>1, ItemMeans
<1> QED BY <1>1, <1>2 DEF ItemFirst

\* This is so for the item at which the innermost activation stands,
LEMMA ItemAhead ==
  ASSUME NEW env, NEW d, NEW st, NEW text, NEW whole, NEW below, NEW after,
         Here(env, d, st, text, whole, below, after),
         NEW k, k = Len(st), NEW r, r = ReadingOf(env, d, st, k), IsReading(r),
         NEW blocks, blocks = st[k].blocks, IsList(blocks),
         NEW j \in 1..Len(r.tree), j = Last(blocks).idx, NEW scope, scope = st[k].scope
  PROVE  Before(env, d, st, k, r, blocks, scope, j, text, whole, below, after)
<1>1. /\ Below(env, d, st, k - 1, below) /\ Open(r, blocks, scope, below, after)
      /\ Clean(text) /\ whole = text \o (From(r, j, scope) \o after)
  BY DEF Here
<1>2. scope \in Scopes /\ IsSeq(after)
  BY <1>1, OpenFacts
<1> DEFINE out == OfItem(r, j, scope)
           next == r.tree[j].idxNextSibling
           tail == From(r, next, scope)
<1>3. From(r, j, scope) = out \o tail /\ IsSeq(out) /\ IsSeq(tail)
  <2> HIDE DEF out, next, tail
  <2>1. ItemFirst(r, j, scope)
    BY <1>2, ItemComesFirst
  <2> QED BY Zenon, <2>1 DEF ItemFirst, out, next, tail
<1> HIDE DEF out, tail
<1>4. Joins(out, tail, after)
  BY <1>2, <1>3, BeforeTwo
<1>5. whole = text \o (out \o (tail \o after))
  BY <1>1, <1>3, <1>4 DEF Joins
<1> QED BY Zenon, <1>1, <1>5 DEF Before, out, tail

\* and for the one that a handler is given.
LEMMA HandlerStands ==
  ASSUME MeaningInv, ~Odd, NEW env, env = Environment, NEW k, k = Len(stack),
         NEW r, r = ReadingOf(env, docs, stack, k), NEW type, AtItem(type),
         NEW j, j = Block.idx, NEW scope, scope = Top.scope, NEW blocks, blocks = Top.blocks,
         NEW text, text = result, NEW whole, whole = Whole(env, asked)
  PROVE  \E below, after : Before(env, docs, stack, k, r, blocks, scope, j, text, whole, below, after)
<1> DEFINE st == stack
           d == docs
<1>1. Running /\ j \in 1..Len(r.tree) /\ IsReading(r)
  BY ItemHere
<1>2. Top = st[k] /\ IsList(blocks) /\ Block = Last(st[k].blocks)
  BY <1>1, CallStands
<1>3. \E below, after : Here(env, docs, stack, result, Whole(env, asked), below, after)
  BY <1>1, CallStands
<1>4. PICK below, after : Here(env, d, st, text, whole, below, after)
  BY <1>3
<1>5. k = Len(st) /\ r = ReadingOf(env, d, st, k)
  OBVIOUS
<1> HIDE DEF st, d
<1>6. j = Last(blocks).idx /\ blocks = st[k].blocks /\ scope = st[k].scope
  BY <1>2
<1>7. Before(env, d, st, k, r, blocks, scope, j, text, whole, below, after)
  BY <1>1, <1>2, <1>4, <1>5, <1>6, ItemAhead
<1> QED BY <1>7 DEF st, d

\* A handler that writes nothing, because its item means nothing.
LEMMA NothingOnward ==
  ASSUME MeaningInv, Running, ~Odd, NEW env, env = Environment, NEW k, k = Len(stack),
         NEW r, r = ReadingOf(env, docs, stack, k), Block.idx # 0,
         OfItem(r, Block.idx, Top.scope) = <<>>,
         stack' = Advance, status' = "expanding", result' = result
  PROVE  Onward(env, Whole(env, asked))
<1> DEFINE out == <<>>
           whole == Whole(env, asked)
           text == result
           st == stack
           d == docs
<1>1. IsSeq(result)
  <2>1. \E below, after : Here(env, docs, stack, result, Whole(env, asked), below, after)
    BY CallStands
  <2>2. PICK below, after : Here(env, d, st, text, whole, below, after)
    BY <2>1
  <2> HIDE DEF whole, text, d, st
  <2>3. IsSeq(text)
    BY <2>2 DEF Here, Clean
  <2> QED BY <2>3 DEF text
<1>2. result' = result \o out /\ Clean(out)
  <2> HIDE DEF text
  <2>1. IsSeq(text)
    BY <1>1 DEF text
  <2>2. text \o <<>> = text
    BY <2>1, ShortSeqs
  <2> QED BY <2>2, ShortIsClean DEF text
<1>3. out = OfItem(r, Block.idx, Top.scope)
  OBVIOUS
<1> HIDE DEF out
<1> QED BY <1>2, <1>3, EmitOnward

\* A condition: its body, or nothing.
LEMMA ConditionOnward ==
  ASSUME MeaningInv, ~Odd, NEW env, env = Environment, Condition
  PROVE  Onward(env, Whole(env, asked))
<1> DEFINE k == Len(stack)
           r == ReadingOf(env, docs, stack, k)
           j == Block.idx
           scope == Top.scope
           blocks == Top.blocks
           token == Item.text
           child == Item.idxFirstChild
           found == Resolve(token.var, dic, Top.scope)
           val == CondValue(IF found = <<>> THEN Null ELSE found[1])
           block == [idx |-> child, todo |-> <<>>]
           text == result
           whole == Whole(env, asked)
           st == stack
           d == docs
<1>1. /\ AtItem("Condition")
      /\ IF val.t = "exception" THEN Throw(val.v)
         ELSE /\ stack' = IF val.v # token.inv /\ child # 0
                          THEN WithTop(Append(Top.blocks, block), Top.scope) ELSE Advance
              /\ UNCHANGED <<visited, result, status>>
  BY DEF Condition, NoItem
<1> HIDE DEF k, r, j, scope, blocks, block, val, text, whole, st, d
<1>2. /\ Running /\ j # 0 /\ j \in 1..Len(r.tree) /\ r.tree[j] = Item /\ r.tree[j].t = "Condition"
      /\ IsReading(r) /\ r.env = env /\ scope \in Scopes
  BY <1>1, ItemHere DEF k, r, j, scope
<1>3. found = Resolve(token.var, r.env.dic, scope) /\ token = r.tree[j].text
      /\ child = r.tree[j].idxFirstChild
  <2>1. env.dic = dic
    BY EnvironmentIs
  <2> QED BY <1>2, <2>1 DEF scope
<1> HIDE DEF token, child, found
<1>4. /\ val.t = "exception" => OfItem(r, j, scope) = <<Raised(val.v)>>
      /\ val.t # "exception" => OfItem(r, j, scope) = IF val.v # token.inv
                                                      THEN From(r, child, scope) ELSE <<>>
  <2>1. val = CondValue(IF found = <<>> THEN Null ELSE found[1])
    BY DEF val
  <2> QED BY <1>2, <1>3, <2>1, ConditionMeans
<1>5. k = Len(stack) /\ r = ReadingOf(env, docs, stack, k) /\ Block.idx = j /\ Top.scope = scope
  BY DEF k, r, j, scope
<1>6. CASE val.t = "exception"
  <2> DEFINE out == OfItem(r, Block.idx, Top.scope)
  <2>1. Throw(val.v) /\ out = <<Raised(val.v)>> /\ Block.idx # 0
    BY <1>1, <1>2, <1>4, <1>5, <1>6
  <2>2. out = OfItem(r, Block.idx, Top.scope)
    OBVIOUS
  <2> HIDE DEF out
  <2> QED BY <1>2, <1>5, <2>1, <2>2, EmitOnward
<1>7. CASE val.t # "exception" /\ ~(val.v # token.inv /\ child # 0)
  <2>1. OfItem(r, j, scope) = <<>>
    BY <1>4, <1>7 DEF From
  <2>2. OfItem(r, Block.idx, Top.scope) = <<>> /\ Block.idx # 0
    BY <1>2, <1>5, <2>1
  <2>3. stack' = Advance /\ status' = "expanding" /\ result' = result
    BY <1>1, <1>2, <1>7 DEF Running
  <2> QED BY <1>2, <1>5, <2>2, <2>3, NothingOnward
<1>8. CASE val.t # "exception" /\ val.v # token.inv /\ child # 0
  <2>1. stack' = WithTop(Append(blocks, block), scope)
        /\ status' = "expanding" /\ result' = result
    BY <1>1, <1>2, <1>8 DEF Running, blocks, scope
  <2>2. \E below, after : Before(env, d, st, k, r, blocks, scope, j, text, whole, below, after)
    BY <1>1, HandlerStands DEF k, r, j, scope, blocks, text, whole, st, d
  <2>3. PICK below, after : Before(env, d, st, k, r, blocks, scope, j, text, whole, below, after)
    BY <2>2
  <2> DEFINE next == r.tree[j].idxNextSibling
             more == Append(blocks, block)
             total == From(r, child, scope) \o (From(r, next, scope) \o after)
             a == [doc |-> Top.doc, scope |-> scope, blocks |-> more]
  <2>4. /\ Below(env, d, st, k - 1, below) /\ Open(r, blocks, scope, below, after)
        /\ Clean(text) /\ j = Last(blocks).idx /\ whole = text \o total
    BY Zenon, <1>4, <1>8, <2>3 DEF Before
  <2>5. IsList(blocks) /\ IsSeq(st) /\ st # <<>> /\ Top = st[k] /\ StackFits(docs, stack)
    <3>1. IsList(blocks) /\ IsSeq(st) /\ Top = st[k]
      BY <1>2, CallStands DEF blocks, st, k
    <3>2. st # <<>> /\ StackFits(docs, stack)
      BY <1>2, TopFacts DEF MeaningInv, st
    <3> QED BY <3>1, <3>2
  <2>6. Remains(r, more, scope, below, total)
    <3> DEFINE none == <<>>
    <3>1. next = r.tree[j].idxNextSibling /\ more = Append(blocks, [idx |-> child, todo |-> none])
      BY DEF block
    <3> HIDE DEF next, none, more
    <3>2. Remains(r, Append(blocks, [idx |-> child, todo |-> none]), scope, below,
                  From(r, child, scope) \o (From(r, next, scope) \o after))
      BY <1>2, <1>3, <2>4, <2>5, <3>1, BlockRemains
    <3> QED BY <3>1, <3>2
  <2>7. a.doc = st[k].doc /\ a.blocks = more /\ a.scope = scope
    BY <2>5
  <2>8. stack' = [st EXCEPT ![k] = a]
    BY <2>1, <2>5, WithTopIs DEF st, k
  <2> HIDE DEF total, a, more
  <2>9. Call(env, d, [st EXCEPT ![k] = a], text, whole)
    <3>1. Remains(ReadingOf(env, d, st, k), a.blocks, a.scope, below, total) /\ k = Len(st)
      BY <1>5, <2>6, <2>7 DEF d, st
    <3> QED BY <2>4, <2>5, <2>7, <3>1, CallWith
  <2> QED BY <2>1, <2>8, <2>9 DEF Onward, text, whole, d
<1> QED BY <1>6, <1>7, <1>8

\* A loop that is about to begin a round, or to end.
RoundAt(env, k, r, blocks, scope, below, after, j, todo, text, whole) ==
    /\ StackFits(docs, stack) /\ stack # <<>> /\ DocsFit(docs)
    /\ k = Len(stack) /\ r = ReadingOf(env, docs, stack, k) /\ IsReading(r) /\ r.tree = Tree
    /\ Fits(docs, [doc |-> Top.doc, scope |-> scope, blocks |-> blocks])
    /\ Below(env, docs, stack, k - 1, below) /\ Open(r, blocks, scope, below, after)
    /\ j \in 1..Len(r.tree) /\ j = Last(blocks).idx /\ todo \in Seq(JsonValues)
    /\ todo # <<>> => r.tree[j].t = "ForLoop"
    /\ Clean(text)
    /\ whole = text \o (Rounds(r, j, scope, todo)
                          \o (From(r, r.tree[j].idxNextSibling, scope) \o after))

\* A call goes on after a round of its loop.
LEMMA RoundCalls ==
  ASSUME NEW env, NEW k, NEW r, NEW blocks, NEW scope, NEW below, NEW after, NEW j, NEW todo,
         NEW text, NEW whole, RoundAt(env, k, r, blocks, scope, below, after, j, todo, text, whole)
  PROVE  Call(env, docs, LoopRound(blocks, scope, todo), text, whole)
BY RoundCall DEF RoundAt

\* A loop: its first round, or nothing.
LEMMA LoopOnward ==
  ASSUME MeaningInv, ~Odd, NEW env, env = Environment, ForLoop
  PROVE  Onward(env, Whole(env, asked))
<1> DEFINE k == Len(stack)
           r == ReadingOf(env, docs, stack, k)
           j == Block.idx
           scope == Top.scope
           blocks == Top.blocks
           token == Item.text
           child == Item.idxFirstChild
           found == Resolve(token.list, dic, Top.scope)
           todo == IF child # 0 /\ found # <<>> /\ found[1].t = "array"
                   THEN found[1].v ELSE <<>>
           raised == child # 0 /\ found # <<>> /\ found[1].t = "exception"
           text == result
           whole == Whole(env, asked)
<1>1. /\ AtItem("ForLoop")
      /\ IF raised THEN Throw(found[1].v)
         ELSE /\ stack' = LoopRound(blocks, scope, todo)
              /\ UNCHANGED <<visited, result, status>>
  BY DEF ForLoop, NoItem
<1> HIDE DEF k, r, j, scope, blocks, todo, raised, text, whole
<1>2. /\ Running /\ j # 0 /\ j \in 1..Len(r.tree) /\ r.tree[j] = Item /\ r.tree[j].t = "ForLoop"
      /\ IsReading(r) /\ r.env = env /\ scope \in Scopes
  BY <1>1, ItemHere DEF k, r, j, scope
<1>3. found = Resolve(token.list, r.env.dic, scope) /\ token = r.tree[j].text
      /\ child = r.tree[j].idxFirstChild
  <2>1. env.dic = dic
    BY EnvironmentIs
  <2> QED BY <1>2, <2>1 DEF scope
<1> HIDE DEF token, child, found
<1>4. /\ raised => OfItem(r, j, scope) = <<Raised(found[1].v)>>
      /\ ~raised => todo \in Seq(JsonValues) /\ OfItem(r, j, scope) = Rounds(r, j, scope, todo)
  <2>1. todo = IF child # 0 /\ found # <<>> /\ found[1].t = "array" THEN found[1].v ELSE <<>>
    BY DEF todo
  <2>2. /\ child # 0 /\ found # <<>> /\ found[1].t = "exception" =>
             OfItem(r, j, scope) = <<Raised(found[1].v)>>
        /\ ~(child # 0 /\ found # <<>> /\ found[1].t = "exception") =>
             todo \in Seq(JsonValues) /\ OfItem(r, j, scope) = Rounds(r, j, scope, todo)
    BY <1>2, <1>3, <2>1, LoopMeans
  <2> QED BY <2>2 DEF raised
<1>5. k = Len(stack) /\ r = ReadingOf(env, docs, stack, k) /\ Block.idx = j /\ Top.scope = scope
  BY DEF k, r, j, scope
<1>6. CASE raised
  <2> DEFINE out == OfItem(r, Block.idx, Top.scope)
             e == found[1].v
  <2>1. Throw(e) /\ out = <<Raised(e)>> /\ Block.idx # 0
    BY <1>1, <1>2, <1>4, <1>5, <1>6
  <2>2. out = OfItem(r, Block.idx, Top.scope)
    OBVIOUS
  <2> HIDE DEF out, e
  <2> QED BY <1>2, <1>5, <2>1, <2>2, EmitOnward
<1>7. CASE ~raised
  <2>1. stack' = LoopRound(blocks, scope, todo) /\ status' = "expanding" /\ result' = result
    BY <1>1, <1>2, <1>7 DEF Running
  <2>2. \E below, after : Before(env, docs, stack, k, r, blocks, scope, j, text, whole, below, after)
    BY <1>1, HandlerStands DEF k, r, j, scope, blocks, text, whole
  <2>3. PICK below, after : Before(env, docs, stack, k, r, blocks, scope, j, text, whole, below, after)
    BY <2>2
  <2>4. /\ Below(env, docs, stack, k - 1, below) /\ Open(r, blocks, scope, below, after)
        /\ Clean(text) /\ j = Last(blocks).idx
        /\ whole = text \o (Rounds(r, j, scope, todo)
                              \o (From(r, r.tree[j].idxNextSibling, scope) \o after))
    BY Zenon, <1>4, <1>7, <2>3 DEF Before
  <2>5. /\ stack # <<>> /\ StackFits(docs, stack) /\ DocsFit(docs)
        /\ Fits(docs, [doc |-> Top.doc, scope |-> scope, blocks |-> blocks])
    BY <1>2, TopFacts DEF MeaningInv, scope, blocks
  <2>6. r.tree = Tree
    BY <1>2, <1>5, CallStands
  <2>7. Call(env, docs, LoopRound(blocks, scope, todo), text, whole)
    BY <1>2, <1>4, <1>5, <1>7, <2>4, <2>5, <2>6, RoundCall
  <2>8. Call(env, docs, stack', result', whole)
    BY <2>1, <2>7 DEF text
  <2> QED BY <2>1, <2>8 DEF Onward, whole
<1> QED BY <1>6, <1>7

\* The end of a block.
LEMMA EndOnward ==
  ASSUME MeaningInv, ~Odd, NEW env, env = Environment, EndBlock
  PROVE  Onward(env, Whole(env, asked))
<1> DEFINE k == Len(stack)
           r == ReadingOf(env, docs, stack, k)
           scope == Top.scope
           blocks == Top.blocks
           less == Front(blocks)
           j == Last(less).idx
           item == r.tree[j]
           text == result
           whole == Whole(env, asked)
           st == stack
           d == docs
<1>1. Running /\ Block.idx = 0 /\ result' = result
  BY DEF EndBlock, NoItem
<1>2. /\ IsReading(r) /\ r.tree = Tree /\ Top = stack[k] /\ IsList(Top.blocks)
      /\ k \in Nat \ {0} /\ IsSeq(stack)
      /\ \E below, after : Here(env, docs, stack, result, Whole(env, asked), below, after)
      /\ Block = Last(Top.blocks)
  BY <1>1, CallStands, TopFacts DEF MeaningInv
<1>3. /\ IF less = <<>> THEN Return(Front(stack))
         ELSE /\ stack' = IF item.t = "ForLoop"
                          THEN LoopRound(less, Erase(scope, item.text.var), Last(blocks).todo)
                          ELSE LoopRound(less, scope, <<>>)
              /\ UNCHANGED status
  BY <1>2 DEF EndBlock, Block
<1>4. /\ stack # <<>> /\ StackFits(docs, stack) /\ DocsFit(docs) /\ Fits(docs, Top)
      /\ Tree = docs[Top.doc]
  BY <1>1, TopFacts DEF MeaningInv
<1>5. Last(blocks).idx = 0 /\ IsList(blocks) /\ blocks = st[k].blocks /\ scope = st[k].scope
  BY <1>1, <1>2
<1>6. k = Len(st) /\ r = ReadingOf(env, d, st, k)
  OBVIOUS
<1> HIDE DEF k, r, scope, blocks, less, j, item, text, whole, st, d
<1>7. \E below, after : Here(env, d, st, text, whole, below, after)
  BY <1>2 DEF d, st, text, whole
<1>8. PICK below, after : Here(env, d, st, text, whole, below, after)
  BY <1>7
<1> DEFINE total == From(r, Last(blocks).idx, scope) \o after
<1>9. /\ Below(env, d, st, k - 1, below) /\ Open(r, blocks, scope, below, after)
      /\ Clean(text) /\ whole = text \o total
  BY <1>5, <1>6, <1>8 DEF Here
<1>10. Remains(r, blocks, scope, below, total)
  BY <1>9 DEF Remains
<1> HIDE DEF total
<1>11. CASE less = <<>>
  <2> DEFINE rest == Front(st)
             n == k - 1
  <2>1. Len(blocks) = 1
    BY <1>5, <1>11, FrontSeq DEF IsList, less
  <2>2. total = below
    BY <1>5, <1>10, <2>1, NothingRemains
  <2>3. Return(rest)
    BY <1>3, <1>11 DEF st
  <2>4. /\ IsSeq(rest) /\ Len(rest) = n /\ (rest = <<>> <=> k = 1) /\ n \in Nat
        /\ \A i \in 1..n : rest[i] = st[i]
    BY <1>2, <1>4, FrontSeq DEF st, k
  <2>5. Below(env, d, rest, n, below)
    <3>1. Below(env, d, st, n, below) /\ n \in Nat /\ \A i \in 1..n : rest[i] = st[i]
      BY <1>9, <2>4
    <3> HIDE DEF n, rest
    <3> QED BY <3>1, BelowFacts
  <2>6. CASE rest = <<>>
    <3>1. n = 0
      BY <2>4, <2>6
    <3>2. Below(env, d, rest, 0, below)
      BY <2>5, <3>1
    <3> HIDE DEF rest, n
    <3>3. below = <<>>
      BY <3>2, BelowNone
    <3>4. whole = text /\ Outcome(text) = text
      <4>1. IsSeq(text) /\ whole = text \o <<>>
        BY <1>9, <2>2, <3>3 DEF Clean
      <4> QED BY <1>9, <4>1, ShortSeqs, OutcomeIs
    <3>5. status' = "ready" /\ result' = Outcome(whole)
      BY <1>1, <2>3, <2>6, <3>4 DEF Return, text
    <3> QED BY <3>5 DEF Onward, whole
  <2>7. CASE rest # <<>>
    <3>1. stack' = [rest EXCEPT ![Len(rest)] = NextSibling(Last(rest))] /\ status' = "expanding"
      BY <2>3, <2>7 DEF Return
    <3>2. StackFits(docs, rest)
      BY <1>1, <1>4, TopFacts, Popping DEF MeaningInv, st
    <3> HIDE DEF rest, n
    <3>3. Below(env, docs, rest, n, below) /\ n = Len(rest) /\ whole = text \o below
      BY <1>9, <2>2, <2>4, <2>5 DEF d
    <3>4. Call(env, docs, [rest EXCEPT ![n] = NextSibling(Last(rest))], text, whole)
      BY <1>9, <2>7, <3>2, <3>3, Returned
    <3>5. Call(env, docs, stack', result', whole)
      BY <1>1, <3>1, <3>3, <3>4 DEF text
    <3> QED BY <3>1, <3>5 DEF Onward, whole
  <2> QED BY <2>6, <2>7
<1>12. CASE less # <<>>
  <2> DEFINE R(scope1, after1) ==
               Resumed(r, blocks, scope, below, total, less, j, item, scope1, after1)
  <2>10. \E scope1, after1 : R(scope1, after1)
    <3>1. less = Front(blocks) /\ j = Last(less).idx /\ item = r.tree[j]
      BY DEF less, j, item
    <3>2. IsReading(r)
      BY <1>2
    <3> QED BY <1>5, <1>10, <1>12, <3>1, <3>2, EndRemains
  <2>11. PICK scope1, after1 : R(scope1, after1)
    BY <2>10
  <2>1. /\ Open(r, less, scope1, below, after1) /\ j \in 1..Len(r.tree) /\ item.t \in Blocks
        /\ IF item.t = "ForLoop"
           THEN /\ Last(blocks).todo \in Seq(JsonValues)
                /\ Erase(scope, item.text.var) = scope1
                /\ total = Rounds(r, j, scope1, Last(blocks).todo)
                             \o (From(r, item.idxNextSibling, scope1) \o after1)
           ELSE scope1 = scope /\ total = From(r, item.idxNextSibling, scope1) \o after1
    BY <2>11 DEF Resumed
  <2> DEFINE todo == IF item.t = "ForLoop" THEN Last(blocks).todo ELSE <<>>
  <2>2. /\ todo \in Seq(JsonValues)
        /\ todo # <<>> => item.t = "ForLoop"
        /\ stack' = LoopRound(less, scope1, todo) /\ status' = "expanding"
    <3>1. stack' = IF item.t = "ForLoop"
                   THEN LoopRound(less, Erase(scope, item.text.var), Last(blocks).todo)
                   ELSE LoopRound(less, scope, <<>>)
      BY <1>3, <1>12
    <3>2. CASE item.t = "ForLoop"
      BY <1>1, <1>3, <1>12, <2>1, <3>1, <3>2 DEF Running
    <3>3. CASE item.t # "ForLoop"
      <4>1. <<>> \in Seq(JsonValues)
        BY EmptySeq
      <4> QED BY <1>1, <1>3, <1>12, <2>1, <3>1, <3>3, <4>1 DEF Running
    <3> QED BY <3>2, <3>3
  <2> HIDE DEF todo
  <2>3. scope1 \in Scopes /\ IsSeq(after1) /\ less # <<>> /\ item = r.tree[j] /\ j = Last(less).idx
    <3>1. IsList(less)
      BY <1>5, <1>12, FrontSeq DEF IsList, less
    <3> QED BY <1>12, <2>1, <3>1, OpenFacts DEF item, j
  <2>4. whole = text \o (Rounds(r, j, scope1, todo)
                           \o (From(r, r.tree[j].idxNextSibling, scope1) \o after1))
    <3> DEFINE next == r.tree[j].idxNextSibling
               tail == From(r, next, scope1)
               more == tail \o after1
    <3>1. item.idxNextSibling = next
      BY <2>3
    <3>2. IsSeq(tail)
      <4>1. ItemFirst(r, j, scope1)
        BY <1>2, <2>1, <2>3, ItemComesFirst
      <4> QED BY <4>1 DEF ItemFirst
    <3>3. IsSeq(more)
      <4> HIDE DEF tail
      <4> QED BY <2>3, <3>2, ConcatSeq
    <3>4. total = Rounds(r, j, scope1, todo) \o more
      <4>1. CASE item.t = "ForLoop"
        BY <2>1, <3>1, <4>1 DEF todo
      <4>2. CASE item.t # "ForLoop"
        <5>1. total = more /\ todo = <<>>
          BY <2>1, <3>1, <4>2 DEF todo
        <5> HIDE DEF more
        <5>2. Rounds(r, j, scope1, todo) = <<>> /\ <<>> \o more = more
          BY <3>3, <5>1, RoundsNone, ShortSeqs
        <5> QED BY <5>1, <5>2
      <4> QED BY <4>1, <4>2
    <3> QED BY <1>9, <3>4
  <2>5. Fits(docs, [doc |-> Top.doc, scope |-> scope1, blocks |-> less])
    <3> DEFINE a == Top
    <3>1. Fits(docs, a) /\ Front(a.blocks) # <<>> /\ Tree = docs[a.doc]
      BY <1>4, <1>12 DEF less, blocks
    <3>2. \A v \in DOMAIN scope1 :
            v \in DOMAIN a.scope /\ (item.t = "ForLoop" => item.text.var # v)
      BY <2>1 DEF Erase, scope
    <3>3. item = docs[a.doc][Last(Front(a.blocks)).idx]
      BY <1>2, <1>4 DEF item, j, less, blocks
    <3> HIDE DEF a
    <3>4. Fits(docs, [doc |-> a.doc, scope |-> scope1, blocks |-> Front(a.blocks)])
      BY <1>4, <3>1, <3>2, <3>3, BlockRemoved
    <3> QED BY <3>4 DEF a, less, blocks
  <2>6. Call(env, docs, LoopRound(less, scope1, todo), text, whole)
    <3>1. /\ Below(env, docs, stack, k - 1, below) /\ k = Len(stack)
          /\ r = ReadingOf(env, docs, stack, k)
      BY <1>6, <1>9 DEF d, st
    <3>2. todo # <<>> => r.tree[j].t = "ForLoop"
      BY <2>2, <2>3
    <3>3. /\ StackFits(docs, stack) /\ stack # <<>> /\ DocsFit(docs) /\ IsReading(r)
          /\ r.tree = Tree /\ Open(r, less, scope1, below, after1) /\ j \in 1..Len(r.tree)
          /\ j = Last(less).idx /\ todo \in Seq(JsonValues) /\ Clean(text)
      BY <1>2, <1>4, <1>9, <2>1, <2>2, <2>3
    <3>4. RoundAt(env, k, r, less, scope1, below, after1, j, todo, text, whole)
      BY <2>4, <2>5, <3>1, <3>2, <3>3 DEF RoundAt
    <3> QED BY <3>4, RoundCalls
  <2>7. Call(env, docs, stack', result', whole)
    BY <1>1, <2>2, <2>6 DEF text
  <2> QED BY <2>2, <2>7 DEF Onward, whole
<1> QED BY <1>11, <1>12

\* What is not 0 follows a number.
LEMMA Predecessor ==
  ASSUME NEW k \in Nat \ {0}
  PROVE  k - 1 \in Nat /\ k = (k - 1) + 1
OBVIOUS

\* An activation that waits for the template it includes.
LEMMA Suspended ==
  ASSUME NEW env, NEW d, NEW st, NEW k \in Nat \ {0}, NEW r, r = ReadingOf(env, d, st, k),
         IsReading(r), r.tree = d[st[k].doc], NEW blocks, blocks = st[k].blocks, IsList(blocks),
         NEW m, m = Len(blocks), blocks[m] = [idx |-> blocks[m].idx, todo |-> blocks[m].todo],
         NEW scope, scope = st[k].scope, NEW j \in 1..Len(r.tree),
         NEW text, NEW whole, NEW below, NEW after,
         Before(env, d, st, k, r, blocks, scope, j, text, whole, below, after),
         NEW more, more = From(r, r.tree[j].idxNextSibling, scope) \o after
  PROVE  Below(env, d, st, k, more)
<1> DEFINE next == r.tree[j].idxNextSibling
           moved == [blocks EXCEPT ![m] = [idx |-> next, todo |-> blocks[m].todo]]
           n == k - 1
<1>1. Below(env, d, st, n, below) /\ Open(r, blocks, scope, below, after) /\ j = Last(blocks).idx
  BY Zenon DEF Before
<1>2. Last(blocks) = blocks[m] /\ next = r.tree[j].idxNextSibling
  BY FrontSeq DEF IsList
<1>3. moved = MovedBlocks(d[st[k].doc], st[k].blocks)
  BY Zenon, <1>1, <1>2 DEF MovedBlocks
<1> HIDE DEF next
<1>4. Remains(r, moved, scope, below, From(r, next, scope) \o after)
  <2>1. j = blocks[m].idx
    BY Zenon, <1>1, <1>2
  <2> QED BY Zenon, <1>1, <1>2, <2>1, NextRemains
<1>5. IsSeq(more)
  <2>1. scope \in Scopes /\ IsSeq(after)
    BY Zenon, <1>1, OpenFacts
  <2>2. ItemFirst(r, j, scope)
    BY Zenon, <2>1, ItemComesFirst
  <2> DEFINE tail == From(r, next, scope)
  <2>3. IsSeq(tail) /\ more = tail \o after
    BY Zenon, <1>2, <2>2 DEF ItemFirst
  <2> HIDE DEF tail
  <2> QED BY <2>1, <2>3, ConcatSeq
<1>6. Remains(ReadingOf(env, d, st, k), MovedBlocks(d[st[k].doc], st[k].blocks), st[k].scope,
              below, more)
  BY Zenon, <1>2, <1>3, <1>4
<1>7. n \in Nat /\ k = n + 1
  BY Zenon, Predecessor
<1> HIDE DEF n, moved
<1> QED BY Zenon, <1>1, <1>5, <1>6, <1>7, BelowMore

\* The templates that may still be included by the innermost activation.
LEMMA FreeAbove ==
  ASSUME NEW d, NEW st, NEW k \in Nat \ {0}
  PROVE  Free(d, st, k + 1) = Free(d, st, k) \ {st[k].doc}
<1>1. (k + 1) - 1 = k /\ k \in 1..k
  OBVIOUS
<1>2. \A i \in 1..k : i \in 1..k-1 \/ i = k
  OBVIOUS
<1>3. \A i \in 1..k-1 : i \in 1..k
  OBVIOUS
<1>4. {st[i].doc : i \in 1..k} = {st[i].doc : i \in 1..k-1} \cup {st[k].doc}
  BY <1>1, <1>2, <1>3
<1> QED BY <1>1, <1>4 DEF Free

\* visitedTemplates names all activations, and no others if no template is empty.
LEMMA VisitedOnStack ==
  ASSUME NEW st, NEW vis, VisitedFits(st, vis), NEW name
  PROVE  /\ ~Contains(vis, name) => \A i \in 1..Len(st) : st[i].doc # name
         /\ VisitedIs(st, vis) /\ Contains(vis, name) => \E i \in 1..Len(st) : st[i].doc = name
<1>1. PICK f \in [1..Len(st) -> 1..Len(vis)] : \A i \in 1..Len(st) : vis[f[i]] = st[i].doc
  BY DEF VisitedFits
<1>2. \A i \in 1..Len(st) : f[i] \in 1..Len(vis)
  BY <1>1
<1> QED BY <1>1, <1>2 DEF Contains, VisitedIs

\* An include command: the exceptions, a template that is empty, and one that is not.
LEMMA IncludeOnward ==
  ASSUME MeaningInv, ~Odd, NEW env, env = Environment, IncludeCmd
  PROVE  Onward(env, Whole(env, asked))
<1> DEFINE k == Len(stack)
           r == ReadingOf(env, docs, stack, k)
           j == Block.idx
           scope == Top.scope
           blocks == Top.blocks
           name == Localized(Item.text.path)
           free == Free(docs, stack, k + 1)
           text == result
           whole == Whole(env, asked)
           new == [doc |-> name, scope |-> <<>>, blocks |-> <<[idx |-> 1, todo |-> <<>>]>>]
           out == OfItem(r, Block.idx, Top.scope)
<1>1. AtItem("IncludeCmd")
  BY DEF IncludeCmd
<1>2. IF name = <<>> THEN Throw("NoSuchTemplate")
      ELSE IF Contains(visited, name) THEN Throw("Circular")
      ELSE /\ visited' = Append(visited, name)
           /\ result' = result
           /\ IF docs[name] = <<>> THEN Return(stack)
              ELSE stack' = Append(stack, new) /\ status' = "expanding"
  BY DEF IncludeCmd, Enter
<1>3. /\ k = Len(stack) /\ r = ReadingOf(env, docs, stack, k)
      /\ j = Block.idx /\ scope = Top.scope /\ out = OfItem(r, Block.idx, Top.scope)
  OBVIOUS
<1> HIDE DEF k, r, j, scope, blocks, name, free, text, whole, new, out
<1>4. /\ Running /\ j # 0 /\ j \in 1..Len(r.tree) /\ r.tree[j] = Item /\ r.tree[j].t = "IncludeCmd"
      /\ IsReading(r) /\ r.env = env /\ scope \in Scopes
  BY <1>1, <1>3, ItemHere
<1>5. /\ Known(env, docs, Top.doc, Free(docs, stack, k), r)
      /\ r.tree = docs[stack[k].doc] /\ Stored(env, docs) /\ Top = stack[k] /\ k \in Nat \ {0}
      /\ IsSeq(stack) /\ IsList(Top.blocks)
  BY <1>3, <1>4, CallStands
<1>6. /\ stack # <<>> /\ StackFits(docs, stack) /\ VisitedFits(stack, visited)
      /\ Fits(docs, Top)
  BY <1>4, TopFacts DEF MeaningInv
<1>7. /\ free = DOMAIN r.sub /\ r.sub = Expansion(env)[free] /\ free \in SUBSET DOMAIN docs
  <2>1. free = Free(docs, stack, k) \ {Top.doc}
    BY <1>5, FreeAbove DEF free
  <2> QED BY <1>5, <2>1 DEF Known, Free
<1>8. out = IF name = <<>> THEN <<Raised("NoSuchTemplate")>>
            ELSE IF name \notin DOMAIN r.sub THEN <<Raised("Circular")>>
            ELSE r.sub[name]
  <2>1. name = LocalizedFor(r.env.langCode, r.env.known, r.tree[j].text.path)
    <3>1. env.langCode = langCode /\ env.known = DOMAIN docs
      BY EnvironmentIs
    <3> QED BY <1>4, <3>1 DEF name, Localized
  <2>2. out = OfItem(r, j, scope)
    BY <1>3
  <2>3. OfItem(r, j, scope) = IF name = <<>> THEN <<Raised("NoSuchTemplate")>>
                              ELSE IF name \notin DOMAIN r.sub THEN <<Raised("Circular")>>
                              ELSE r.sub[name]
    BY <1>4, <2>1, IncludeMeans
  <2> QED BY <2>2, <2>3
<1>9. out = OfItem(r, Block.idx, Top.scope) /\ Block.idx # 0
  BY <1>3, <1>4
<1>10. ASSUME NEW e, out = <<Raised(e)>>, Throw(e) PROVE Onward(env, whole)
  BY <1>3, <1>4, <1>9, <1>10, EmitOnward DEF whole
<1>11. CASE name = <<>>
  BY <1>2, <1>8, <1>10, <1>11 DEF whole
<1>12. \A i \in 1..k : Contains(visited, name) \/ stack[i].doc # name
  BY <1>3, <1>6, VisitedOnStack
<1>13. CASE name # <<>> /\ Contains(visited, name)
  <2>1. Throw("Circular")
    BY <1>2, <1>13
  <2>2. CASE NoEmptyTemplate
    <3>1. \E i \in 1..Len(stack) : stack[i].doc = name
      <4>1. VisitedIs(stack, visited)
        BY <1>4, <2>2 DEF MeaningInv
      <4> QED BY <1>6, <1>13, <4>1, VisitedOnStack
    <3>2. name \notin free
      <4>1. (k + 1) - 1 = Len(stack)
        BY <1>3, <1>5
      <4> QED BY <3>1, <4>1 DEF free, Free
    <3>3. out = <<Raised("Circular")>>
      BY <1>7, <1>8, <1>13, <3>2
    <3> QED BY <1>10, <2>1, <3>3 DEF whole
  <2>3. CASE ~NoEmptyTemplate
    BY <2>1, <2>3 DEF Throw, Onward
  <2> QED BY <2>2, <2>3
<1>14. CASE name # <<>> /\ ~Contains(visited, name)
  <2>1. name \in DOMAIN docs
    BY Zenon, <1>14 DEF name, Localized, LocalizedFor
  <2>2. name \in free
    <3>1. (k + 1) - 1 = k
      BY <1>5
    <3> QED BY <1>12, <1>14, <2>1, <3>1 DEF free, Free
  <2>3. out = Expansion(env)[free][name]
    BY <1>7, <1>8, <1>14, <2>2
  <2>4. /\ result' = result
        /\ IF docs[name] = <<>> THEN Return(stack)
           ELSE stack' = Append(stack, new) /\ status' = "expanding"
    BY <1>2, <1>14
  <2>5. CASE docs[name] = <<>>
    <3>1. out = <<>>
      <4>1. Known(env, docs, name, free, Reading(env, docs, name, free))
        BY <1>5, <1>7, <2>2, ReadingIs
      <4> QED BY <2>3, <2>5, <4>1 DEF Known
    <3>2. stack' = Advance /\ status' = "expanding"
      BY <1>6, <2>4, <2>5 DEF Return, Advance, Top
    <3>3. OfItem(r, Block.idx, Top.scope) = <<>>
      BY <1>9, <3>1
    <3> QED BY <1>3, <1>4, <1>9, <2>4, <3>2, <3>3, NothingOnward DEF whole
  <2>6. CASE docs[name] # <<>>
    <3> DEFINE d == docs
               st == stack
               m == Len(blocks)
    <3>1. k = Len(st) /\ r = ReadingOf(env, d, st, k) /\ r.tree = d[st[k].doc] /\ IsSeq(st)
          /\ IsList(blocks) /\ blocks = st[k].blocks /\ scope = st[k].scope
          /\ free = Free(d, st, k + 1)
      BY <1>3, <1>5 DEF blocks, scope, free
    <3>2. blocks[m] = [idx |-> blocks[m].idx, todo |-> blocks[m].todo]
      <4>1. m \in 1..m
        BY <3>1, FrontSeq DEF IsList
      <4> QED BY <1>6, <4>1 DEF Fits, blocks
    <3>3. m = Len(blocks) /\ new = [doc |-> name, scope |-> <<>>,
                                    blocks |-> <<[idx |-> 1, todo |-> <<>>]>>]
      BY DEF new
    <3> HIDE DEF d, st, m
    <3>4. \E below, after : Before(env, d, st, k, r, blocks, scope, j, text, whole, below, after)
      BY <1>1, HandlerStands DEF k, r, j, scope, blocks, text, whole, d, st
    <3>5. PICK below, after : Before(env, d, st, k, r, blocks, scope, j, text, whole, below, after)
      BY <3>4
    <3> DEFINE more == From(r, r.tree[j].idxNextSibling, scope) \o after
    <3>6. Clean(text) /\ whole = text \o (Expansion(env)[free][name] \o more)
      <4>1. OfItem(r, j, scope) = Expansion(env)[free][name]
        BY <1>3, <2>3
      <4> QED BY <3>5, <4>1 DEF Before
    <3>7. more = From(r, r.tree[j].idxNextSibling, scope) \o after
      OBVIOUS
    <3> HIDE DEF more
    <3>8. Below(env, d, st, k, more)
      BY Zenon, <1>4, <1>5, <3>1, <3>2, <3>3, <3>5, <3>7, Suspended
    <3>9. Stored(env, d) /\ d[name] # <<>>
      BY <1>5, <2>6 DEF d
    <3>10. Call(env, d, Append(st, new), text, whole)
      BY <2>2, <3>1, <3>3, <3>6, <3>8, <3>9, Entered
    <3>11. Call(env, docs, stack', result', whole) /\ status' = "expanding"
      BY <2>4, <2>6, <3>10 DEF d, st, text
    <3> QED BY <3>11 DEF Onward, whole
  <2> QED BY <2>5, <2>6
<1> QED BY <1>11, <1>13, <1>14 DEF whole

\* The steps of a call, one after the other.
LEMMA ExpandOnward ==
  ASSUME MeaningInv, ~Odd, NEW env, env = Environment, Expand
  PROVE  Onward(env, Whole(env, asked))
BY StaticOnward, VariableOnward, IncludeOnward, ConditionOnward, LoopOnward, EndOnward DEF Expand

\* The beginning of a call.
LEMMA GetOnward ==
  ASSUME StoreIInv, ~Odd, NEW env, Stored(env, docs), env.langCode = langCode, NEW path,
         Localized(path) # <<>>, Enter(path, <<>>, <<>>, <<>>)
  PROVE  Onward(env, Whole(env, path))
<1> DEFINE name == Localized(path)
           d == docs
           st == <<>>
           below == <<>>
           text == <<>>
           n == 0
           free == DOMAIN d
           whole == Whole(env, path)
           new == [doc |-> name, scope |-> <<>>, blocks |-> <<[idx |-> 1, todo |-> <<>>]>>]
<1>1. env.known = DOMAIN docs
  BY DEF Stored
<1>2. whole = Expansion(env)[free][name] /\ name \in free /\ name # <<>>
  BY Zenon, <1>1 DEF Whole, Localized, LocalizedFor
<1>3. IsSeq(<<>>) /\ Len(<<>>) = 0 /\ Clean(<<>>)
  BY ShortSeqs, ShortIsClean
<1>4. ~Contains(<<>>, name)
  <2> DEFINE e == <<>>
  <2>1. Len(e) = 0
    BY <1>3
  <2> HIDE DEF e, name
  <2>2. ~Contains(e, name)
    BY <2>1 DEF Contains
  <2> QED BY <2>2 DEF e
<1>5. /\ result' = <<>>
      /\ IF docs[name] = <<>> THEN Return(<<>>)
         ELSE stack' = Append(<<>>, new) /\ status' = "expanding"
  <2> HIDE DEF name
  <2> QED BY <1>2, <1>4 DEF Enter, name
<1>6. Stored(env, d) /\ free \in SUBSET DOMAIN d
  OBVIOUS
<1> DEFINE r == Reading(env, d, name, free)
<1> HIDE DEF name, d, free, whole, new
<1>7. Known(env, d, name, free, r)
  BY <1>2, <1>6, ReadingIs
<1> HIDE DEF r
<1>8. CASE d[name] = <<>>
  <2>1. whole = <<>>
    BY <1>2, <1>7, <1>8 DEF Known
  <2>2. Outcome(<<>>) = <<>>
    BY <1>3, OutcomeIs
  <2>3. status' = "ready" /\ result' = <<>>
    BY <1>5, <1>8 DEF Return, d
  <2>4. result' = Outcome(whole)
    BY <2>1, <2>2, <2>3
  <2> QED BY <2>3, <2>4 DEF Onward, whole
<1>9. CASE d[name] # <<>>
  <2>1. IsSeq(whole)
    <3>1. IsReading(r) /\ 1 \in 0..Len(r.tree) /\ whole = From(r, 1, <<>>)
      <4>1. IsReading(r) /\ 1 \in 1..Len(r.tree) /\ whole = From(r, 1, <<>>)
        BY <1>2, <1>7, <1>9 DEF Known
      <4> QED BY <4>1 DEF IsReading
    <3> DEFINE none == <<>>
    <3>2. none \in Scopes /\ whole = From(r, 1, none)
      BY <3>1, NoScope
    <3> HIDE DEF none
    <3> QED BY <3>1, <3>2, FromFits
  <2>2. whole = <<>> \o (whole \o <<>>)
    BY <2>1, ShortSeqs
  <2>3. Below(env, d, <<>>, 0, <<>>)
    BY BelowNone
  <2>4. free = Free(d, <<>>, 0 + 1)
    <3>1. {<<>>[i].doc : i \in 1..(0 + 1) - 1} = {}
      OBVIOUS
    <3> QED BY <3>1 DEF Free, free
  <2>5. /\ IsSeq(st) /\ n = Len(st) /\ Below(env, d, st, n, below) /\ free = Free(d, st, n + 1)
        /\ Clean(text) /\ whole = text \o (Expansion(env)[free][name] \o below)
    BY <1>2, <1>3, <2>2, <2>3, <2>4
  <2>6. new = [doc |-> name, scope |-> <<>>, blocks |-> <<[idx |-> 1, todo |-> <<>>]>>]
    BY DEF new
  <2>7. stack' = Append(st, new) /\ status' = "expanding" /\ result' = text
    BY <1>5, <1>9 DEF d
  <2> HIDE DEF st, n, below, text
  <2>8. Call(env, d, Append(st, new), text, whole)
    BY <1>2, <1>6, <1>9, <2>5, <2>6, Entered
  <2>9. Call(env, docs, stack', result', whole)
    BY <2>7, <2>8 DEF d
  <2> QED BY <2>7, <2>9 DEF Onward, whole
<1> QED BY <1>8, <1>9

\* visitedTemplates stays the list of the active templates: the name of a template is
\* put on it when the template is entered, unless it is empty, and taken off it again.
LEMMA VisitedPushed ==
  ASSUME NEW st, NEW vis, IsSeq(st), IsSeq(vis), VisitedIs(st, vis), NEW new, NEW name,
         new.doc = name
  PROVE  VisitedIs(Append(st, new), Append(vis, name))
<1> DEFINE n == Len(st)
           st2 == Append(st, new)
           vis2 == Append(vis, name)
<1>1. /\ Len(st2) = n + 1 /\ st2[n + 1] = new /\ n \in Nat
      /\ \A i \in 1..n : st2[i] = st[i]
  BY AppendSeq
<1>2. Len(vis) = n /\ \A i \in 1..n : vis[i] = st[i].doc
  BY DEF VisitedIs
<1>3. Len(vis2) = n + 1 /\ vis2[n + 1] = name /\ \A i \in 1..n : vis2[i] = vis[i]
  BY <1>2, AppendSeq
<1> HIDE DEF st2, vis2, n
<1>4. \A i \in 1..n+1 : i \in 1..n \/ i = n + 1
  BY <1>1
<1>5. \A i \in 1..n+1 : vis2[i] = st2[i].doc
  BY <1>1, <1>2, <1>3, <1>4
<1>6. VisitedIs(st2, vis2)
  BY <1>1, <1>3, <1>5 DEF VisitedIs
<1> QED BY <1>6 DEF st2, vis2

\* An activation ends, and its name leaves the list.
LEMMA VisitedPopped ==
  ASSUME NEW st, NEW vis, IsSeq(st), st # <<>>, IsSeq(vis), VisitedIs(st, vis)
  PROVE  VisitedIs(Front(st), Front(vis))
<1>1. /\ Len(Front(st)) = Len(st) - 1 /\ Len(st) \in Nat \ {0}
      /\ \A i \in 1..Len(st)-1 : Front(st)[i] = st[i]
  BY FrontSeq
<1>2. Len(vis) = Len(st) /\ \A i \in 1..Len(st) : vis[i] = st[i].doc
  BY DEF VisitedIs
<1>3. vis # <<>>
  BY <1>1, <1>2, ShortSeqs
<1>4. Len(Front(vis)) = Len(vis) - 1 /\ \A i \in 1..Len(vis)-1 : Front(vis)[i] = vis[i]
  BY <1>3, FrontSeq
<1>5. \A i \in 1..Len(st)-1 : i \in 1..Len(st)
  BY <1>1
<1> QED BY <1>1, <1>2, <1>4, <1>5 DEF VisitedIs

\* The activation on top goes on, with the same template.
LEMMA VisitedMoved ==
  ASSUME NEW st, NEW vis, StackFits(docs, st), st # <<>>, VisitedIs(st, vis), NEW new,
         TopBecomes(st, new)
  PROVE  VisitedIs(new, vis)
BY TopChanges DEF VisitedIs

\* No step of a call, up to its end, puts a name on the list that stays there.
LEMMA VisitedStays ==
  ASSUME StoreIInv, NoEmptyTemplate, VisitedIs(stack, visited), Expand, Running'
  PROVE  VisitedIs(stack', visited')
<1>1. Running
  BY Zenon DEF Expand, StaticText, Variable, IncludeCmd, Condition, ForLoop, EndBlock, AtItem
<1>2. /\ stack # <<>> /\ StackFits(docs, stack) /\ VisitedFits(stack, visited) /\ DocsFit(docs)
      /\ IsSeq(stack) /\ IsSeq(visited)
  BY <1>1, TopFacts DEF StackFits, VisitedFits
<1>3. \A e : ~Throw(e)
  BY DEF Throw, Running
<1>4. CASE Moves
  BY <1>2, <1>3, <1>4, VisitedMoved DEF Moves
<1>5. CASE IncludeCmd
  <2> DEFINE name == Localized(Item.text.path)
             new == [doc |-> name, scope |-> <<>>, blocks |-> <<[idx |-> 1, todo |-> <<>>]>>]
  <2>1. /\ name # <<>> /\ visited' = Append(visited, name)
        /\ IF docs[name] = <<>> THEN Return(stack) ELSE stack' = Append(stack, new)
    BY <1>3, <1>5 DEF IncludeCmd, Enter
  <2>2. name \in DOMAIN docs
    BY Zenon, <2>1 DEF Localized, LocalizedFor
  <2>3. new.doc = name
    OBVIOUS
  <2> HIDE DEF name, new
  <2>4. stack' = Append(stack, new)
    BY <2>1, <2>2 DEF NoEmptyTemplate
  <2>5. VisitedIs(Append(stack, new), Append(visited, name))
    BY <1>2, <2>3, VisitedPushed
  <2> QED BY <2>1, <2>4, <2>5
<1>6. CASE EndBlock /\ Front(Top.blocks) = <<>>
  <2> DEFINE rest == Front(stack)
             less == Front(visited)
  <2>1. /\ Return(rest) /\ visited' = less /\ StackFits(docs, rest)
        /\ rest # <<>> => Last(Last(rest).blocks).idx # 0
    BY <1>6, Returning
  <2>2. VisitedIs(rest, less)
    BY <1>2, VisitedPopped
  <2> HIDE DEF rest, less
  <2>3. rest # <<>> /\ stack' = [rest EXCEPT ![Len(rest)] = NextSibling(Last(rest))]
    BY <2>1 DEF Return, Running
  <2>4. TopBecomes(rest, stack')
    BY <1>2, <2>1, <2>3, AdvanceBecomes
  <2>5. VisitedIs(stack', less)
    BY <2>1, <2>2, <2>3, <2>4, VisitedMoved
  <2> QED BY <2>1, <2>5
<1> QED BY <1>4, <1>5, <1>6, ExpandMoves DEF Expand

\* What an answer is.
LEMMA AnswerIs ==
  ASSUME NEW env, NEW path, LocalizedFor(env.langCode, env.known, path) # <<>>
  PROVE  Answer(env, path) = Outcome(Whole(env, path))
BY DEF Answer, Whole

\* The steps of a call keep the invariant,
LEMMA ExpandKeeps ==
  ASSUME MeaningInv, Expand
  PROVE  MeaningInv'
<1>1. UNCHANGED <<files, docs, strList, langCode, dic, asked>> /\ Running
  BY Zenon DEF Expand, StaticText, Variable, IncludeCmd, Condition, ForLoop, EndBlock, AtItem,
         Same, Fixed
<1>2. StoreIInv'
  BY StoreStep DEF StoreNext, MeaningInv
<1>3. Environment' = Environment /\ NoEmptyTemplate' = NoEmptyTemplate /\ Odd' = Odd
  BY <1>1 DEF Environment, NoEmptyTemplate, Odd
<1>4. Localized(asked)' = Localized(asked) /\ Localized(asked) # <<>>
  BY <1>1 DEF Localized, MeaningInv
<1> DEFINE env == Environment
           whole == Whole(env, asked)
<1>5. ~Odd => Onward(env, whole)
  <2>1. env = Environment
    OBVIOUS
  <2> HIDE DEF env
  <2> QED BY <2>1, ExpandOnward
<1>6. Answer(env, asked) = Outcome(whole)
  <2>1. LocalizedFor(env.langCode, env.known, asked) # <<>>
    BY <1>4, EnvironmentIs DEF Localized
  <2> HIDE DEF env
  <2> QED BY <2>1, AnswerIs
<1> HIDE DEF whole, env
<1>7. OutputIsMeaning'
  <2> SUFFICES ASSUME status' = "ready"
               PROVE  \/ result' = Answer(env, asked)
                      \/ ~NoEmptyTemplate /\ result' = <<Raised("Circular")>>
                      \/ Odd
    BY <1>1, <1>3 DEF OutputIsMeaning, Odd, env
  <2> QED BY <1>5, <1>6 DEF Onward
<1>8. Running' /\ ~Odd' => Call(Environment', docs', stack', result', Whole(Environment', asked'))
  <2> SUFFICES ASSUME Running', ~Odd PROVE Call(env, docs, stack', result', whole)
    BY <1>1, <1>3 DEF env, whole
  <2> QED BY <1>5 DEF Onward, Running
<1>9. Running' /\ NoEmptyTemplate' => VisitedIs(stack', visited')
  BY <1>1, <1>3, VisitedStays DEF MeaningInv
<1>10. /\ dic' \in Dics \cup {<<>>} /\ strList' \in StrLists \cup {<<>>}
       /\ status' = "new" => asked' = <<>>
  BY Zenon, <1>1 DEF MeaningInv, Expand, StaticText, Variable, IncludeCmd, Condition, ForLoop, EndBlock,
              Emit, Throw, Enter, Return, Running
<1> QED BY <1>1, <1>2, <1>4, <1>7, <1>8, <1>9, <1>10 DEF MeaningInv

\* and so does the call itself.
LEMMA GetKeeps ==
  ASSUME MeaningInv, Get
  PROVE  MeaningInv'
<1>1. PICK path \in Requests, d \in Dics :
        asked' = path /\ dic' = d /\ Enter(path, <<>>, <<>>, <<>>)
  BY DEF Get
<1>2. UNCHANGED <<files, docs, strList, langCode>>
  BY DEF Get, Fixed
<1>3. StoreIInv'
  BY StoreStep DEF StoreNext, MeaningInv
<1>4. NoEmptyTemplate' = NoEmptyTemplate /\ Odd' = Odd
  BY <1>2 DEF NoEmptyTemplate, Odd
<1>5. Localized(asked)' = Localized(path)
  BY <1>1, <1>2 DEF Localized
<1> DEFINE env == Environment'
           whole == Whole(env, path)
<1>6. /\ env.files = files /\ env.known = DOMAIN docs /\ env.dic = d /\ env.strList = strList
      /\ env.langCode = langCode
  BY <1>1, <1>2 DEF Environment
<1>7. LocalizedFor(env.langCode, env.known, path) = Localized(path)
  BY <1>6 DEF Localized
<1>8. dic' \in Dics \cup {<<>>} /\ strList' \in StrLists \cup {<<>>}
  BY <1>1, <1>2 DEF MeaningInv
<1>9. env = Environment'
  OBVIOUS
<1> HIDE DEF env
<1>10. CASE Localized(path) = <<>>
  <2>1. status' = "ready" /\ result' = <<Raised("NoSuchTemplate")>>
    BY <1>1, <1>10 DEF Enter, Throw
  <2>2. result' = Answer(env, path)
    BY <1>7, <1>10, <2>1 DEF Answer
  <2>3. OutputIsMeaning'
    BY <1>1, <1>9, <2>2 DEF OutputIsMeaning
  <2> QED BY <1>3, <1>8, <2>1, <2>3 DEF MeaningInv, Running
<1>11. CASE Localized(path) # <<>>
  <2>1. ~Odd => Onward(env, whole)
    <3> SUFFICES ASSUME ~Odd PROVE Onward(env, whole)
      OBVIOUS
    <3>1. Stored(env, docs)
      BY <1>6, <1>8, <1>2, StoreStored, <1>1 DEF MeaningInv
    <3> QED BY <1>1, <1>6, <1>11, <3>1, GetOnward DEF MeaningInv
  <2>2. Answer(env, path) = Outcome(whole)
    BY <1>7, <1>11, AnswerIs
  <2> HIDE DEF whole
  <2>3. OutputIsMeaning'
    <3> SUFFICES ASSUME status' = "ready"
                 PROVE  \/ result' = Answer(env, path)
                        \/ ~NoEmptyTemplate /\ result' = <<Raised("Circular")>>
                        \/ Odd
      BY <1>1, <1>2, <1>4, <1>9 DEF OutputIsMeaning, Odd
    <3> QED BY <2>1, <2>2 DEF Onward
  <2>4. Running' /\ ~Odd' =>
          Call(Environment', docs', stack', result', Whole(Environment', asked'))
    <3> SUFFICES ASSUME Running', ~Odd PROVE Call(env, docs, stack', result', whole)
      BY <1>1, <1>2, <1>4, <1>9 DEF whole
    <3> QED BY <2>1 DEF Onward, Running
  <2>5. Running' /\ NoEmptyTemplate' => VisitedIs(stack', visited')
    <3> SUFFICES ASSUME Running', NoEmptyTemplate PROVE VisitedIs(stack', visited')
      BY <1>4
    <3> DEFINE name == Localized(path)
               new == [doc |-> name, scope |-> <<>>, blocks |-> <<[idx |-> 1, todo |-> <<>>]>>]
               none == <<>>
    <3>1. \A e : ~Throw(e)
      BY DEF Throw, Running
    <3>2. /\ name \in DOMAIN docs /\ visited' = Append(none, name)
          /\ IF docs[name] = <<>> THEN Return(none) ELSE stack' = Append(none, new)
      BY Zenon, <1>1, <1>11, <3>1 DEF Enter, Localized, LocalizedFor
    <3>3. stack' = Append(none, new)
      BY <3>2 DEF NoEmptyTemplate
    <3>4. IsSeq(none) /\ VisitedIs(none, none) /\ new.doc = name
      BY ShortSeqs DEF VisitedIs
    <3> HIDE DEF name, new, none
    <3>5. VisitedIs(Append(none, new), Append(none, name))
      BY <3>4, VisitedPushed
    <3> QED BY <3>2, <3>3, <3>5
  <2>6. status' # "new"
    BY <1>1 DEF Enter, Throw, Return
  <2> QED BY <1>3, <1>5, <1>8, <1>11, <2>3, <2>4, <2>5, <2>6 DEF MeaningInv
<1> QED BY <1>10, <1>11

\* The invariant holds in the beginning.
LEMMA MeaningInit == StoreInit => MeaningInv
<1> SUFFICES ASSUME StoreInit PROVE MeaningInv
  OBVIOUS
<1> QED BY Zenon, StoreInitInv DEF StoreInit, MeaningInv, OutputIsMeaning, Running

\* Every step keeps it.
LEMMA MeaningStep == MeaningInv /\ [StoreNext]_storeVars => MeaningInv'
<1> SUFFICES ASSUME MeaningInv, [StoreNext]_storeVars PROVE MeaningInv'
  OBVIOUS
<1>1. StoreIInv'
  BY StoreStep DEF MeaningInv
<1>2. CASE Construct
  <2>1. /\ UNCHANGED <<strList, dic, asked>> /\ asked' = <<>>
        /\ status' \in {"invalid", "ready"}
    BY <1>2 DEF Construct, MeaningInv
  <2> QED BY <1>1, <2>1 DEF MeaningInv, OutputIsMeaning, Running
<1>3. CASE SetLang \/ SetStringlist
  <2>1. /\ asked' = <<>> /\ dic' = dic /\ status' = "ready"
        /\ strList' \in StrLists \cup {<<>>}
    BY <1>3 DEF SetLang, SetStringlist, MeaningInv
  <2> QED BY <1>1, <2>1 DEF MeaningInv, OutputIsMeaning, Running
<1>4. CASE UNCHANGED storeVars
  BY <1>1, <1>4 DEF storeVars, MeaningInv, OutputIsMeaning, Running, Localized, Odd,
                    Environment, NoEmptyTemplate
<1> QED BY <1>2, <1>3, <1>4, GetKeeps, ExpandKeeps DEF StoreNext, Idle

\* Whatever the templates, dictionaries, string lists and languages are: get() returns
\* what the texts mean, every substitution, loop, condition and include in its place and
\* with the right variables, or the first exception on the way; and it never has a
\* template active twice.  Left out are a loop that reuses the variable of a loop around
\* it, and the exception about circular includes where there is an empty template.
THEOREM AnswersAreRight == StoreSpec => []GetIsRight
<1>1. MeaningInv => GetIsRight
  BY NeverTwiceFromInv DEF MeaningInv, GetIsRight
<1> QED BY <1>1, MeaningInit, MeaningStep, PTL DEF StoreSpec
=============================================================================
