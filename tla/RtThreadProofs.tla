-------------------------- MODULE RtThreadProofs --------------------------
(***************************************************************************)
(* Proofs about the kernel under its IPC objects: for any number of        *)
(* threads, priorities and ticks, and whatever is called, timed out and    *)
(* deleted in whatever order, each thread is on the one list its status    *)
(* says, and the scheduler runs the most urgent one that is ready, never   *)
(* one that is gone.                                                       *)
(***************************************************************************)
EXTENDS RtIpc, FiniteSetTheorems, SequenceTheorems, NaturalsInduction, WellFoundedInduction, TLAPS

(***************************************************************************)
(* Induction, from the fact that the natural numbers are well-founded.     *)
(***************************************************************************)
Below == {p \in Nat \X Nat : p[1] < p[2]}
LEMMA BelowWF == IsWellFoundedOn(Below, Nat)
BY NatLessThanWellFounded DEF OpToRel, Below

LEMMA Least ==
  ASSUME NEW S \in SUBSET Nat, S # {}
  PROVE  \E n \in S : \A m \in S : n <= m
<1>1. PICK n \in S : \A m \in S : ~ (<<m, n>> \in Below)
  BY BelowWF, WFMin
<1>2. \A m \in S : ~(m < n)
  BY <1>1 DEF Below
<1> QED BY <1>2

(* A loop over a list of elements of E, each step from S to S: it has a     *)
(* value after each element, and every value is in S.                       *)
Iterates(g, f, x, s) == g[0] = x /\ \A i \in 1 .. Len(s) : g[i] = f[<<g[i - 1], s[i]>>]
LEMMA Folds ==
  ASSUME NEW S, NEW E, NEW f \in [S \X E -> S], NEW x \in S, NEW s \in Seq(E)
  PROVE  \E g \in [0 .. Len(s) -> S] : Iterates(g, f, x, s)
<1> DEFINE Partial(n) == {g \in [0 .. n -> S] :
                           \A i \in 0 .. n : g[i] = IF i = 0 THEN x ELSE f[<<g[i - 1], s[i]>>]}
           Bad == {n \in 0 .. Len(s) : Partial(n) = {}}
<1>0. Len(s) \in Nat /\ \A i \in 1 .. Len(s) : s[i] \in E
  OBVIOUS
<1>1. Bad = {}
  <2> SUFFICES ASSUME Bad # {} PROVE FALSE
    OBVIOUS
  <2>1. PICK n \in Bad : \A m \in Bad : n <= m
    <3>1. Bad \in SUBSET Nat
      BY <1>0
    <3> HIDE DEF Bad
    <3> QED BY <3>1, Least
  <2>2. n \in Nat /\ n <= Len(s) /\ Partial(n) = {}
    BY <1>0, <2>1
  <2>3. CASE n = 0
    <3>1. [i \in 0 .. 0 |-> x] \in Partial(0)
      OBVIOUS
    <3> QED BY <2>2, <2>3, <3>1
  <2>4. CASE n # 0
    <3>0. n - 1 \in 0 .. Len(s) /\ ~(n <= n - 1)
      BY <1>0, <2>2, <2>4
    <3>1. n - 1 \in 0 .. Len(s) /\ n - 1 \notin Bad
      <4> HIDE DEF Bad
      <4> QED BY <2>1, <3>0
    <3>2. PICK g : g \in Partial(n - 1)
      BY <3>1
    <3> DEFINE h == [i \in 0 .. n |-> IF i = n THEN f[<<g[n - 1], s[n]>>] ELSE g[i]]
    <3>3. f[<<g[n - 1], s[n]>>] \in S
      <4>1. g[n - 1] \in S /\ s[n] \in E
        BY <1>0, <2>2, <2>4, <3>2
      <4> QED BY <4>1
    <3>4. h \in [0 .. n -> S]
      BY <2>2, <3>2, <3>3
    <3>5. ASSUME NEW i \in 0 .. n
          PROVE  h[i] = IF i = 0 THEN x ELSE f[<<h[i - 1], s[i]>>]
      <4>1. CASE i = n
        <5>1. h[i] = f[<<g[n - 1], s[n]>>] /\ h[n - 1] = g[n - 1]
          BY <2>2, <2>4, <4>1
        <5> QED BY <2>4, <4>1, <5>1
      <4>2. CASE i # n
        <5>1. i \in 0 .. (n - 1) /\ h[i] = g[i]
          BY <2>2, <4>2
        <5>2. i # 0 => i - 1 \in 0 .. (n - 1) /\ i - 1 # n /\ h[i - 1] = g[i - 1]
          BY <2>2, <4>2
        <5>3. g[i] = IF i = 0 THEN x ELSE f[<<g[i - 1], s[i]>>]
          BY <3>2, <5>1
        <5> QED BY <5>1, <5>2, <5>3
      <4> QED BY <4>1, <4>2
    <3> HIDE DEF h
    <3>6. h \in Partial(n)
      BY <3>4, <3>5
    <3> QED BY <2>2, <3>6
  <2> QED BY <2>3, <2>4
<1>2. PICK g : g \in Partial(Len(s))
  BY <1>0, <1>1
<1>3. 0 \in 0 .. Len(s) /\ \A i \in 1 .. Len(s) : i \in 0 .. Len(s) /\ i # 0
  BY <1>0
<1>4. Iterates(g, f, x, s)
  BY <1>2, <1>3 DEF Iterates
<1> QED BY <1>2, <1>4

(***************************************************************************)
(* Lists without repetition.                                               *)
(***************************************************************************)
LEMMA Positions ==
  ASSUME NEW S, NEW l \in Seq(S)
  PROVE  /\ DOMAIN l = 1 .. Len(l) /\ Len(l) \in Nat
         /\ \A i \in DOMAIN l : l[i] \in S /\ l[i] \in ToSet(l)
         /\ \A e \in ToSet(l) : \E i \in DOMAIN l : l[i] = e
         /\ ToSet(l) \subseteq S /\ (l = <<>> <=> ToSet(l) = {})
         /\ l # <<>> => Head(l) \in ToSet(l) /\ Head(l) = l[1]
BY DEF ToSet

HasInserted(S, l, r, e, m) ==
  /\ m \in Seq(S) /\ Len(m) = Len(l) + 1
  /\ \A i \in 1 .. (Len(l) + 1) :
       m[i] = IF i < r THEN l[i] ELSE IF i = r THEN e ELSE l[i - 1]
LEMMA Inserted ==
  ASSUME NEW S, NEW l \in Seq(S), NEW r \in 1 .. Len(l), NEW e \in S
  PROVE  HasInserted(S, l, r, e, InsertAt(l, r, e))
<1> DEFINE m == InsertAt(l, r, e)
           a == SubSeq(l, 1, r - 1)
           b == SubSeq(l, r, Len(l))
           c == a \o <<e>>
<1>0. Len(l) \in Nat /\ r \in Nat /\ r >= 1 /\ r <= Len(l)
  OBVIOUS
<1>1. a \in Seq(S) /\ b \in Seq(S) /\ <<e>> \in Seq(S)
  OBVIOUS
<1>2. Len(a) = r - 1 /\ Len(b) = Len(l) - r + 1 /\ Len(<<e>>) = 1 /\ <<e>>[1] = e
  OBVIOUS
<1>3. /\ \A i \in 1 .. (r - 1) : a[i] = l[i]
      /\ \A i \in 1 .. (Len(l) - r + 1) : b[i] = l[r + i - 1]
  OBVIOUS
<1>4. m = c \o b
  BY DEF InsertAt
<1> HIDE DEF a, b, c, m
<1>5. /\ c \in Seq(S) /\ Len(c) = r
      /\ \A i \in 1 .. r : c[i] = IF i < r THEN l[i] ELSE e
  <2>1. c \in Seq(S) /\ Len(c) = Len(a) + Len(<<e>>)
    BY <1>1, ConcatProperties, Zenon DEF c
  <2>2. \A i \in 1 .. Len(a) + Len(<<e>>) :
          c[i] = IF i <= Len(a) THEN a[i] ELSE <<e>>[i - Len(a)]
    BY <1>1, ConcatProperties, Zenon DEF c
  <2>3. (r - 1) + 1 = r
    BY <1>0
  <2>4. \A i \in 1 .. r : c[i] = IF i <= r - 1 THEN a[i] ELSE <<e>>[i - (r - 1)]
    BY <1>2, <2>2, <2>3
  <2>5. ASSUME NEW i \in 1 .. r PROVE c[i] = IF i < r THEN l[i] ELSE e
    <3>1. CASE i < r
      <4>1. i <= r - 1 /\ i \in 1 .. (r - 1)
        BY <1>0, <3>1
      <4> QED BY <1>3, <2>4, <3>1, <4>1
    <3>2. CASE i = r
      <4>1. ~(i <= r - 1) /\ i - (r - 1) = 1
        BY <1>0, <3>2
      <4> QED BY <1>2, <2>4, <3>2, <4>1
    <3> QED BY <1>0, <3>1, <3>2
  <2>6. Len(c) = r
    BY <1>2, <2>1, <2>3
  <2> QED BY <2>1, <2>5, <2>6
<1>6. m \in Seq(S) /\ Len(m) = Len(c) + Len(b)
  BY <1>1, <1>4, <1>5, ConcatProperties, Zenon
<1>7. \A i \in 1 .. Len(c) + Len(b) : m[i] = IF i <= Len(c) THEN c[i] ELSE b[i - Len(c)]
  BY <1>1, <1>4, <1>5, ConcatProperties, Zenon
<1>8. Len(m) = Len(l) + 1
  <2>1. r + (Len(l) - r + 1) = Len(l) + 1
    BY <1>0
  <2> QED BY <1>2, <1>5, <1>6, <2>1
<1>9. ASSUME NEW i \in 1 .. (Len(l) + 1)
      PROVE  m[i] = IF i < r THEN l[i] ELSE IF i = r THEN e ELSE l[i - 1]
  <2>1. m[i] = IF i <= r THEN c[i] ELSE b[i - r]
    BY <1>0, <1>2, <1>5, <1>7
  <2>2. CASE i <= r
    BY <1>0, <1>5, <2>1, <2>2
  <2>3. CASE ~(i <= r)
    <3>1. i - r \in 1 .. (Len(l) - r + 1) /\ r + (i - r) - 1 = i - 1
      BY <1>0, <2>3
    <3> QED BY <1>3, <2>1, <2>3, <3>1
  <2> QED BY <2>2, <2>3
<1> QED BY <1>6, <1>8, <1>9 DEF m, HasInserted

LEMMA Removed ==
  ASSUME NEW S, NEW l \in Seq(S), NEW r \in 1 .. Len(l)
  PROVE  LET m == RemoveAt(l, r) IN
         /\ m \in Seq(S) /\ Len(m) = Len(l) - 1
         /\ \A i \in 1 .. (Len(l) - 1) : m[i] = IF i < r THEN l[i] ELSE l[i + 1]
<1> DEFINE m == RemoveAt(l, r)
           before == SubSeq(l, 1, r - 1)
           behind == SubSeq(l, r + 1, Len(l))
<1>0. Len(l) \in Nat
  OBVIOUS
<1>1. before \in Seq(S) /\ behind \in Seq(S)
  OBVIOUS
<1>2. Len(before) = r - 1 /\ Len(behind) = Len(l) - r
  OBVIOUS
<1>3. /\ \A i \in 1 .. (r - 1) : before[i] = l[i]
      /\ \A i \in 1 .. (Len(l) - r) : behind[i] = l[r + i]
  OBVIOUS
<1>4. m = before \o behind
  BY DEF RemoveAt
<1> HIDE DEF before, behind, m
<1>5. m \in Seq(S) /\ Len(m) = Len(before) + Len(behind)
  BY <1>1, <1>4, ConcatProperties, Zenon
<1>6. \A i \in 1 .. Len(before) + Len(behind) :
        m[i] = IF i <= Len(before) THEN before[i] ELSE behind[i - Len(before)]
  BY <1>1, <1>4, ConcatProperties, Zenon
<1>7. \A i \in 1 .. (Len(l) - 1) : m[i] = IF i <= r - 1 THEN before[i] ELSE behind[i - (r - 1)]
  <2>1. (r - 1) + (Len(l) - r) = Len(l) - 1
    BY <1>0
  <2> QED BY <1>2, <1>6, <2>1
<1>8. ASSUME NEW i \in 1 .. (Len(l) - 1) PROVE m[i] = IF i < r THEN l[i] ELSE l[i + 1]
  <2>1. CASE i < r
    <3>1. i \in 1 .. (r - 1) /\ i <= r - 1
      BY <1>0, <2>1
    <3> QED BY <1>3, <1>7, <2>1, <3>1
  <2>2. CASE ~(i < r)
    <3>1. i - (r - 1) \in 1 .. (Len(l) - r) /\ r + (i - (r - 1)) = i + 1 /\ ~(i <= r - 1)
      BY <1>0, <2>2
    <3> QED BY <1>3, <1>7, <2>2, <3>1
  <2> QED BY <2>1, <2>2
<1>9. Len(m) = Len(l) - 1
  BY <1>0, <1>2, <1>5
<1> QED BY <1>5, <1>8, <1>9 DEF m

(* A node enters a list, at the end, in front or anywhere, and leaves it.   *)
LEMMA InsertedOnce ==
  ASSUME NEW S, NEW l \in Seq(S), NEW r \in 1 .. (Len(l) + 1), NEW e \in S, NEW m \in Seq(S),
         IsInjective(l), e \notin ToSet(l), Len(m) = Len(l) + 1,
         \A i \in 1 .. (Len(l) + 1) :
           m[i] = IF i < r THEN l[i] ELSE IF i = r THEN e ELSE l[i - 1]
  PROVE  ToSet(m) = ToSet(l) \cup {e} /\ IsInjective(m)
<1>1. /\ Len(l) \in Nat /\ DOMAIN l = 1 .. Len(l) /\ DOMAIN m = 1 .. (Len(l) + 1)
      /\ r \in Nat /\ r >= 1
  OBVIOUS
<1> DEFINE from(i) == IF i < r THEN i ELSE i - 1
<1>2. \A i \in DOMAIN m : i = r \/ (from(i) \in DOMAIN l /\ m[i] = l[from(i)])
  BY <1>1
<1>3. \A i \in DOMAIN l : \E j \in DOMAIN m : m[j] = l[i]
  <2> SUFFICES ASSUME NEW i \in DOMAIN l PROVE \E j \in DOMAIN m : m[j] = l[i]
    OBVIOUS
  <2>1. CASE i < r
    BY <1>1, <2>1
  <2>2. CASE ~(i < r)
    <3>1. i + 1 \in 1 .. (Len(l) + 1) /\ ~(i + 1 < r) /\ i + 1 # r /\ (i + 1) - 1 = i
      BY <1>1, <2>2
    <3> QED BY <1>1, <3>1
  <2> QED BY <2>1, <2>2
<1>4. m[r] = e /\ r \in DOMAIN m
  BY <1>1
<1>5. ToSet(m) = ToSet(l) \cup {e}
  <2>1. ASSUME NEW y \in ToSet(m) PROVE y \in ToSet(l) \cup {e}
    BY <1>2, <1>4, <2>1 DEF ToSet
  <2>2. ASSUME NEW y \in ToSet(l) \cup {e} PROVE y \in ToSet(m)
    BY <1>3, <1>4, <2>2 DEF ToSet
  <2> QED BY <2>1, <2>2
<1>6. IsInjective(m)
  <2> SUFFICES ASSUME NEW i \in DOMAIN m, NEW j \in DOMAIN m, m[i] = m[j] PROVE i = j
    BY DEF IsInjective
  <2>1. \A y \in DOMAIN l : l[y] # e
    BY DEF ToSet
  <2>2. CASE i = r \/ j = r
    BY <1>2, <1>4, <2>1, <2>2
  <2>3. CASE i # r /\ j # r
    <3>1. from(i) = from(j)
      BY <1>2, <2>3 DEF IsInjective
    <3> QED BY <1>1, <2>3, <3>1
  <2> QED BY <2>2, <2>3
<1> QED BY <1>5, <1>6

LEMMA Joins ==
  ASSUME NEW S, NEW l \in Seq(S), NEW e \in S, IsInjective(l), e \notin ToSet(l)
  PROVE  /\ Append(l, e) \in Seq(S) /\ ToSet(Append(l, e)) = ToSet(l) \cup {e}
         /\ IsInjective(Append(l, e))
<1>1. /\ Append(l, e) \in Seq(S) /\ Len(Append(l, e)) = Len(l) + 1 /\ Len(l) \in Nat
      /\ \A i \in 1 .. (Len(l) + 1) : Append(l, e)[i] = IF i < Len(l) + 1 THEN l[i] ELSE e
  OBVIOUS
<1>2. Len(l) + 1 \in 1 .. (Len(l) + 1)
  BY <1>1
<1>3. \A i \in 1 .. (Len(l) + 1) :
        Append(l, e)[i] = IF i < Len(l) + 1 THEN l[i] ELSE IF i = Len(l) + 1 THEN e ELSE l[i - 1]
  BY <1>1
<1> DEFINE m == Append(l, e)
<1> HIDE DEF m
<1>4. ToSet(m) = ToSet(l) \cup {e} /\ IsInjective(m)
  BY <1>1, <1>2, <1>3, InsertedOnce DEF m
<1> QED BY <1>1, <1>4 DEF m

LEMMA JoinsFront ==
  ASSUME NEW S, NEW l \in Seq(S), NEW e \in S, IsInjective(l), e \notin ToSet(l)
  PROVE  /\ <<e>> \o l \in Seq(S) /\ ToSet(<<e>> \o l) = ToSet(l) \cup {e}
         /\ IsInjective(<<e>> \o l)
<1>1. /\ <<e>> \o l \in Seq(S) /\ Len(<<e>> \o l) = Len(l) + 1 /\ Len(l) \in Nat
      /\ (<<e>> \o l)[1] = e /\ \A i \in 1 .. Len(l) : (<<e>> \o l)[i + 1] = l[i]
  OBVIOUS
<1>2. 1 \in 1 .. (Len(l) + 1)
  BY <1>1
<1>3. ASSUME NEW i \in 1 .. (Len(l) + 1)
      PROVE  (<<e>> \o l)[i] = IF i < 1 THEN l[i] ELSE IF i = 1 THEN e ELSE l[i - 1]
  <2>1. i # 1 => i - 1 \in 1 .. Len(l) /\ (i - 1) + 1 = i
    BY <1>1
  <2> QED BY <1>1, <2>1
<1> DEFINE m == <<e>> \o l
<1> HIDE DEF m
<1>4. /\ m \in Seq(S) /\ Len(m) = Len(l) + 1
      /\ \A i \in 1 .. (Len(l) + 1) :
           m[i] = IF i < 1 THEN l[i] ELSE IF i = 1 THEN e ELSE l[i - 1]
  BY <1>1, <1>3 DEF m
<1>5. ToSet(m) = ToSet(l) \cup {e} /\ IsInjective(m)
  BY <1>2, <1>4, InsertedOnce
<1> QED BY <1>4, <1>5 DEF m

LEMMA JoinsAt ==
  ASSUME NEW S, NEW l \in Seq(S), NEW r \in 1 .. Len(l), NEW e \in S, IsInjective(l),
         e \notin ToSet(l)
  PROVE  /\ InsertAt(l, r, e) \in Seq(S) /\ ToSet(InsertAt(l, r, e)) = ToSet(l) \cup {e}
         /\ IsInjective(InsertAt(l, r, e))
<1>1. r \in 1 .. (Len(l) + 1)
  OBVIOUS
<1> QED BY <1>1, Inserted, InsertedOnce DEF HasInserted

LEMMA Leaves ==
  ASSUME NEW S, NEW l \in Seq(S), NEW e, IsInjective(l)
  PROVE  /\ RemoveFirst(l, e) \in Seq(S) /\ ToSet(RemoveFirst(l, e)) = ToSet(l) \ {e}
         /\ IsInjective(RemoveFirst(l, e)) /\ (e \notin ToSet(l) => RemoveFirst(l, e) = l)
<1> DEFINE m == RemoveFirst(l, e)
<1>0. DOMAIN l = 1 .. Len(l) /\ Len(l) \in Nat
  OBVIOUS
<1>1. CASE e \notin ToSet(l)
  <2>1. m = l
    BY <1>0, <1>1 DEF RemoveFirst, ToSet
  <2> QED BY <1>1, <2>1
<1>2. CASE e \in ToSet(l)
  <2>1. PICK r \in 1 .. Len(l) : l[r] = e
    BY <1>0, <1>2 DEF ToSet
  <2>2. m = RemoveAt(l, r)
    <3>1. \A i \in 1 .. Len(l) : l[i] = e => i = r
      BY <1>0, <2>1 DEF IsInjective
    <3>2. SelectInSeq(l, LAMBDA v : v = e) = r
      BY <2>1, <3>1 DEF SelectInSeq, Min
    <3> QED BY <2>1, <3>2 DEF RemoveFirst
  <2>3. /\ m \in Seq(S) /\ Len(m) = Len(l) - 1
        /\ \A i \in 1 .. (Len(l) - 1) : m[i] = IF i < r THEN l[i] ELSE l[i + 1]
    BY <2>2, Removed
  <2> HIDE DEF m
  <2>4. DOMAIN m = 1 .. (Len(l) - 1)
    BY <2>3
  <2>5. \A i \in DOMAIN l : i # r =>
          LET j == IF i < r THEN i ELSE i - 1 IN j \in DOMAIN m /\ m[j] = l[i]
    BY <1>0, <2>3, <2>4
  <2>6. \A i \in DOMAIN m :
          LET j == IF i < r THEN i ELSE i + 1 IN j \in DOMAIN l /\ j # r /\ m[i] = l[j]
    BY <1>0, <2>3, <2>4
  <2>7. ToSet(m) = ToSet(l) \ {e}
    <3>1. ASSUME NEW y \in ToSet(m) PROVE y \in ToSet(l) \ {e}
      <4>1. PICK i \in DOMAIN m : m[i] = y
        BY <3>1 DEF ToSet
      <4>2. PICK j \in DOMAIN l : j # r /\ l[j] = y
        BY <2>6, <4>1
      <4>3. y # e
        BY <1>0, <2>1, <4>2 DEF IsInjective
      <4> QED BY <4>2, <4>3 DEF ToSet
    <3>2. ASSUME NEW y \in ToSet(l), y # e PROVE y \in ToSet(m)
      <4>1. PICK i \in DOMAIN l : l[i] = y
        BY <3>2 DEF ToSet
      <4>2. i # r
        BY <2>1, <3>2, <4>1
      <4>3. PICK j \in DOMAIN m : m[j] = y
        BY <2>5, <4>1, <4>2
      <4> QED BY <4>3 DEF ToSet
    <3> QED BY <3>1, <3>2
  <2>8. IsInjective(m)
    <3> SUFFICES ASSUME NEW i \in DOMAIN m, NEW j \in DOMAIN m, m[i] = m[j] PROVE i = j
      BY DEF IsInjective
    <3> DEFINE a == IF i < r THEN i ELSE i + 1
               b == IF j < r THEN j ELSE j + 1
    <3>1. a \in DOMAIN l /\ b \in DOMAIN l /\ l[a] = l[b]
      BY <2>6
    <3>2. a = b
      BY <3>1 DEF IsInjective
    <3> QED BY <2>4, <3>2
  <2> QED BY <1>2, <2>3, <2>7, <2>8 DEF m
<1> QED BY <1>1, <1>2

(* What is left of a list keeps its order.                                  *)
Before(l, x, y) == \E i, j \in DOMAIN l : i < j /\ l[i] = x /\ l[j] = y
Thinner(l, m) == ToSet(m) \subseteq ToSet(l) /\ \A x, y : Before(m, x, y) => Before(l, x, y)

LEMMA LeavesOrder ==
  ASSUME NEW S, NEW l \in Seq(S), NEW e, IsInjective(l)
  PROVE  Thinner(l, RemoveFirst(l, e))
<1> DEFINE m == RemoveFirst(l, e)
<1>0. DOMAIN l = 1 .. Len(l) /\ Len(l) \in Nat
  OBVIOUS
<1>1. ToSet(m) = ToSet(l) \ {e} /\ (e \notin ToSet(l) => m = l)
  BY Leaves
<1>2. CASE e \notin ToSet(l)
  BY <1>1, <1>2 DEF Thinner
<1>3. CASE e \in ToSet(l)
  <2>1. PICK r \in 1 .. Len(l) : l[r] = e
    BY <1>0, <1>3 DEF ToSet
  <2>2. m = RemoveAt(l, r)
    <3>1. \A i \in 1 .. Len(l) : l[i] = e => i = r
      BY <1>0, <2>1 DEF IsInjective
    <3>2. SelectInSeq(l, LAMBDA v : v = e) = r
      BY <2>1, <3>1 DEF SelectInSeq, Min
    <3> QED BY <2>1, <3>2 DEF RemoveFirst
  <2>3. /\ m \in Seq(S) /\ Len(m) = Len(l) - 1
        /\ \A i \in 1 .. (Len(l) - 1) : m[i] = IF i < r THEN l[i] ELSE l[i + 1]
    BY <2>2, Removed
  <2> HIDE DEF m
  <2>4. DOMAIN m = 1 .. (Len(l) - 1)
    BY <2>3
  <2>5. ASSUME NEW x, NEW y, Before(m, x, y) PROVE Before(l, x, y)
    <3>1. PICK i \in DOMAIN m, j \in DOMAIN m : i < j /\ m[i] = x /\ m[j] = y
      BY <2>5 DEF Before
    <3> DEFINE a == IF i < r THEN i ELSE i + 1
               b == IF j < r THEN j ELSE j + 1
    <3>2. a \in DOMAIN l /\ b \in DOMAIN l /\ a < b
      BY <1>0, <2>4, <3>1
    <3>3. l[a] = x /\ l[b] = y
      BY <2>3, <2>4, <3>1
    <3> HIDE DEF a, b
    <3> QED BY <3>2, <3>3 DEF Before
  <2>6. ToSet(m) \subseteq ToSet(l)
    BY <1>1
  <2> QED BY <2>5, <2>6, Zenon DEF Thinner, m
<1> QED BY <1>2, <1>3

(***************************************************************************)
(* The list of timers: each thread has one, the first to expire in front.  *)
(***************************************************************************)
Running == [thread : Threads, left : Nat]
Owners(l) == {l[i].thread : i \in DOMAIN l}
InOrder(l) ==
  /\ \A i, j \in DOMAIN l : l[i].thread = l[j].thread => i = j
  /\ \A i, j \in DOMAIN l : i < j => l[i].left <= l[j].left

Without(l, t) == RemoveFirstMatch(l, LAMBDA e : e.thread = t)
With(l, t, time) ==
  LET e == [thread |-> t, left |-> time]
      r == SelectInSeq(l, LAMBDA d : d.left > time)
  IN  IF r = 0 THEN Append(l, e) ELSE InsertAt(l, r, e)

LEMMA TimerLeaves ==
  ASSUME NEW l \in Seq(Running), NEW t, InOrder(l)
  PROVE  LET m == Without(l, t) IN
         /\ (t \notin Owners(l) => m = l)
         /\ m \in Seq(Running) /\ InOrder(m) /\ Owners(m) = Owners(l) \ {t}
         /\ \A i \in DOMAIN m : \E j \in DOMAIN l : m[i] = l[j]
<1> DEFINE m == Without(l, t)
<1>0. DOMAIN l = 1 .. Len(l) /\ Len(l) \in Nat
  OBVIOUS
<1>1. CASE t \notin Owners(l)
  <2>1. m = l
    BY <1>0, <1>1 DEF Without, RemoveFirstMatch, Owners
  <2> QED BY <1>1, <2>1
<1>2. CASE t \in Owners(l)
  <2>1. PICK r \in 1 .. Len(l) : l[r].thread = t
    BY <1>0, <1>2 DEF Owners
  <2>2. m = RemoveAt(l, r)
    <3>1. \A i \in 1 .. Len(l) : l[i].thread = t => i = r
      BY <1>0, <2>1 DEF InOrder
    <3>2. SelectInSeq(l, LAMBDA e : e.thread = t) = r
      BY <2>1, <3>1 DEF SelectInSeq, Min
    <3> QED BY <2>1, <3>2 DEF Without, RemoveFirstMatch
  <2>3. /\ m \in Seq(Running) /\ Len(m) = Len(l) - 1
        /\ \A i \in 1 .. (Len(l) - 1) : m[i] = IF i < r THEN l[i] ELSE l[i + 1]
    BY <2>2, Removed
  <2> HIDE DEF m
  <2>4. DOMAIN m = 1 .. (Len(l) - 1)
    BY <2>3
  <2> DEFINE at(i) == IF i < r THEN i ELSE i + 1
  <2>5. \A i \in DOMAIN l : i # r => \E j \in DOMAIN m : m[j] = l[i]
    <3> SUFFICES ASSUME NEW i \in DOMAIN l, i # r PROVE \E j \in DOMAIN m : m[j] = l[i]
      OBVIOUS
    <3>1. CASE i < r
      BY <1>0, <2>3, <2>4, <3>1
    <3>2. CASE ~(i < r)
      <4>1. i - 1 \in 1 .. (Len(l) - 1) /\ ~(i - 1 < r) /\ (i - 1) + 1 = i
        BY <1>0, <3>2
      <4> QED BY <2>3, <2>4, <4>1
    <3> QED BY <3>1, <3>2
  <2>6. \A i \in DOMAIN m : at(i) \in DOMAIN l /\ at(i) # r /\ m[i] = l[at(i)]
    BY <1>0, <2>3, <2>4
  <2>7. \A i, j \in DOMAIN m : /\ at(i) = at(j) => i = j
                               /\ i < j => at(i) < at(j)
    BY <1>0, <2>4
  <2> HIDE DEF at
  <2>8. InOrder(m)
    <3>1. ASSUME NEW i \in DOMAIN m, NEW j \in DOMAIN m, m[i].thread = m[j].thread
          PROVE  i = j
      <4>1. at(i) = at(j)
        BY <2>6, <3>1 DEF InOrder
      <4> QED BY <2>7, <4>1
    <3>2. ASSUME NEW i \in DOMAIN m, NEW j \in DOMAIN m, i < j
          PROVE  m[i].left <= m[j].left
      BY <2>6, <2>7, <3>2 DEF InOrder
    <3> QED BY <3>1, <3>2 DEF InOrder
  <2>9. Owners(m) = Owners(l) \ {t}
    <3>1. ASSUME NEW y \in Owners(m) PROVE y \in Owners(l) \ {t}
      <4>1. PICK i \in DOMAIN m : m[i].thread = y
        BY <3>1 DEF Owners
      <4>2. at(i) \in DOMAIN l /\ l[at(i)].thread = y /\ at(i) # r
        BY <2>6, <4>1
      <4>3. y # t
        BY <1>0, <2>1, <4>2 DEF InOrder
      <4> QED BY <4>2, <4>3 DEF Owners
    <3>2. ASSUME NEW y \in Owners(l), y # t PROVE y \in Owners(m)
      <4>1. PICK i \in DOMAIN l : l[i].thread = y
        BY <3>2 DEF Owners
      <4>2. i # r
        BY <2>1, <3>2, <4>1
      <4>3. PICK j \in DOMAIN m : m[j] = l[i]
        BY <2>5, <4>2
      <4> QED BY <4>1, <4>3 DEF Owners
    <3> QED BY <3>1, <3>2
  <2>10. \A i \in DOMAIN m : \E j \in DOMAIN l : m[i] = l[j]
    BY <2>6
  <2> QED BY <1>2, <2>3, <2>8, <2>9, <2>10 DEF m
<1> QED BY <1>1, <1>2

LEMMA TimerJoins ==
  ASSUME NEW l \in Seq(Running), NEW t \in Threads, NEW time \in Nat, InOrder(l),
         t \notin Owners(l)
  PROVE  LET m == With(l, t, time) IN
         /\ m \in Seq(Running) /\ InOrder(m) /\ Owners(m) = Owners(l) \cup {t}
         /\ \A i \in DOMAIN m : m[i].left = time \/ \E j \in DOMAIN l : m[i] = l[j]
<1> DEFINE e == [thread |-> t, left |-> time]
           Later == {i \in 1 .. Len(l) : l[i].left > time}
           s == SelectInSeq(l, LAMBDA d : d.left > time)
           m == IF s = 0 THEN Append(l, e) ELSE InsertAt(l, s, e)
           r == IF s = 0 THEN Len(l) + 1 ELSE s
<1>0. DOMAIN l = 1 .. Len(l) /\ Len(l) \in Nat /\ e \in Running
  BY DEF Running
<1>1. \A i \in DOMAIN l : l[i] \in Running /\ l[i].left \in Nat /\ l[i].thread \in Threads
  <2>1. \A i \in DOMAIN l : l[i] \in Running
    BY <1>0
  <2>2. \A y \in Running : y.left \in Nat /\ y.thread \in Threads
    BY DEF Running
  <2> QED BY <2>1, <2>2
<1>2. s = IF Later # {} THEN Min(Later) ELSE 0
  BY DEF SelectInSeq
<1>3. IF Later = {} THEN s = 0
      ELSE s \in Later /\ \A i \in Later : s <= i
  <2>1. Later \in SUBSET Nat
    BY <1>0
  <2> HIDE DEF Later
  <2>2. Later # {} => \E i \in Later : \A j \in Later : i <= j
    BY <2>1, Least
  <2> QED BY <1>2, <2>2 DEF Min
<1> HIDE DEF s
<1>4. r \in 1 .. (Len(l) + 1)
  BY <1>0, <1>3
<1>5. \A i \in 1 .. Len(l) : /\ i < r => l[i].left <= time
                             /\ ~(i < r) => time <= l[i].left
  <2> SUFFICES ASSUME NEW i \in 1 .. Len(l)
               PROVE  (i < r => l[i].left <= time) /\ (~(i < r) => time <= l[i].left)
    OBVIOUS
  <2>1. CASE Later = {}
    BY <1>0, <1>1, <1>3, <2>1
  <2>2. CASE Later # {}
    <3>1. s \in 1 .. Len(l) /\ l[s].left > time /\ r = s
      BY <1>0, <1>3, <2>2
    <3>2. i < s => i \notin Later
      BY <1>0, <1>3, <2>2, <3>1
    <3>3. i < s => l[i].left <= time
      BY <1>0, <1>1, <3>2
    <3>4. ~(i < s) => l[s].left <= l[i].left
      BY <1>0, <1>1, <3>1 DEF InOrder
    <3>5. l[s].left \in Nat /\ l[i].left \in Nat
      BY <1>0, <1>1, <3>1
    <3> QED BY <3>1, <3>3, <3>4, <3>5
  <2> QED BY <2>1, <2>2
<1>6. /\ m \in Seq(Running) /\ Len(m) = Len(l) + 1
      /\ \A i \in 1 .. (Len(l) + 1) :
           m[i] = IF i < r THEN l[i] ELSE IF i = r THEN e ELSE l[i - 1]
  <2>1. CASE s = 0
    BY <1>0, <2>1
  <2>2. CASE s # 0
    <3>1. s \in 1 .. Len(l)
      BY <1>3, <2>2
    <3>3. l \in Seq(Running) /\ e \in Running
      BY <1>0
    <3> HIDE DEF e, m, r, Later
    <3>5. HasInserted(Running, l, s, e, InsertAt(l, s, e))
      BY <3>1, <3>3, Inserted
    <3>2. /\ InsertAt(l, s, e) \in Seq(Running) /\ Len(InsertAt(l, s, e)) = Len(l) + 1
          /\ \A i \in 1 .. (Len(l) + 1) : InsertAt(l, s, e)[i] =
               IF i < s THEN l[i] ELSE IF i = s THEN e ELSE l[i - 1]
      BY <3>5 DEF HasInserted
    <3>4. m = InsertAt(l, s, e) /\ r = s
      BY <2>2 DEF m, r
    <3> QED BY <3>2, <3>4
  <2> QED BY <2>1, <2>2
<1>7. e.thread = t /\ e.left = time
  OBVIOUS
<1> HIDE DEF m, r, e, Later
<1>8. DOMAIN m = 1 .. (Len(l) + 1) /\ r \in DOMAIN m /\ m[r] = e /\ r \in Nat
  BY <1>0, <1>4, <1>6
<1> DEFINE from(i) == IF i < r THEN i ELSE i - 1
<1>9. \A i \in DOMAIN m : i # r => from(i) \in DOMAIN l /\ m[i] = l[from(i)]
  BY <1>0, <1>4, <1>6, <1>8
<1>10. \A i, j \in DOMAIN m : i # r /\ j # r =>
         (from(i) = from(j) => i = j) /\ (i < j => from(i) < from(j))
  BY <1>0, <1>8
<1>11. \A i \in DOMAIN m : i # r => (from(i) < r <=> i < r)
  BY <1>0, <1>8
<1>12. \A i \in DOMAIN l : \E j \in DOMAIN m : m[j] = l[i]
  <2> SUFFICES ASSUME NEW i \in DOMAIN l PROVE \E j \in DOMAIN m : m[j] = l[i]
    OBVIOUS
  <2>1. CASE i < r
    BY <1>0, <1>6, <1>8, <2>1
  <2>2. CASE ~(i < r)
    <3>1. i + 1 \in 1 .. (Len(l) + 1) /\ ~(i + 1 < r) /\ i + 1 # r /\ (i + 1) - 1 = i
      BY <1>0, <1>8, <2>2
    <3> QED BY <1>6, <1>8, <3>1
  <2> QED BY <2>1, <2>2
<1> HIDE DEF from
<1>13. \A i \in DOMAIN l : l[i].thread # t
  BY DEF Owners
<1>14. InOrder(m)
  <2>1. ASSUME NEW i \in DOMAIN m, NEW j \in DOMAIN m, m[i].thread = m[j].thread
        PROVE  i = j
    <3>1. CASE i # r /\ j # r
      <4>1. from(i) = from(j)
        BY <1>9, <2>1, <3>1 DEF InOrder
      <4> QED BY <1>10, <3>1, <4>1
    <3>2. CASE i = r \/ j = r
      BY <1>7, <1>8, <1>9, <1>13, <2>1, <3>2
    <3> QED BY <3>1, <3>2
  <2>2. ASSUME NEW i \in DOMAIN m, NEW j \in DOMAIN m, i < j
        PROVE  m[i].left <= m[j].left
    <3>1. CASE i # r /\ j # r
      <4>1. from(i) < from(j) /\ from(i) \in DOMAIN l /\ from(j) \in DOMAIN l
        BY <1>9, <1>10, <2>2, <3>1
      <4> QED BY <1>9, <3>1, <4>1 DEF InOrder
    <3>2. CASE i = r
      <4>1. j # r /\ ~(j < r)
        BY <1>8, <2>2, <3>2
      <4>2. from(j) \in DOMAIN l /\ ~(from(j) < r) /\ m[j] = l[from(j)]
        BY <1>9, <1>11, <4>1
      <4> QED BY <1>0, <1>5, <1>7, <1>8, <3>2, <4>2
    <3>3. CASE j = r
      <4>1. i # r /\ i < r
        BY <1>8, <2>2, <3>3
      <4>2. from(i) \in DOMAIN l /\ from(i) < r /\ m[i] = l[from(i)]
        BY <1>9, <1>11, <4>1
      <4> QED BY <1>0, <1>5, <1>7, <1>8, <3>3, <4>2
    <3> QED BY <3>1, <3>2, <3>3
  <2> QED BY <2>1, <2>2 DEF InOrder
<1>15. Owners(m) = Owners(l) \cup {t}
  <2>1. ASSUME NEW y \in Owners(m) PROVE y \in Owners(l) \cup {t}
    BY <1>7, <1>8, <1>9, <2>1 DEF Owners
  <2>2. ASSUME NEW y \in Owners(l) PROVE y \in Owners(m)
    <3>1. PICK i \in DOMAIN l : l[i].thread = y
      BY <2>2 DEF Owners
    <3>2. PICK j \in DOMAIN m : m[j] = l[i]
      BY <1>12
    <3> QED BY <3>1, <3>2 DEF Owners
  <2>3. t \in Owners(m)
    BY <1>7, <1>8 DEF Owners
  <2> QED BY <2>1, <2>2, <2>3
<1>16. \A i \in DOMAIN m : m[i].left = time \/ \E j \in DOMAIN l : m[i] = l[j]
  BY <1>7, <1>8, <1>9
<1>17. With(l, t, time) = m
  BY DEF With, m, e, s
<1> QED BY <1>6, <1>14, <1>15, <1>16, <1>17

(***************************************************************************)
(* What the kernel leaves to its callers: no two threads handle one thread *)
(* (Careful); and what lies behind a memory pool does not read as a        *)
(* suspended thread.                                                       *)
(***************************************************************************)
Disciplined == Careful /\ ~Behind

(***************************************************************************)
(* The kernel's data.  Threads in `off` are on no list although their      *)
(* status says so (they are being moved or deleted); those in `reaped` are *)
(* dead and the idle thread has taken them off its list; no timer has less *)
(* than `least` ticks left.                                                *)
(***************************************************************************)
Stats == {"INIT", "READY", "SUSPEND", "CLOSE", "GONE"}
KernelData ==
  [static : SUBSET Threads, current : Threads, nest : 0 .. MaxNest, defunct : Seq(Threads),
   timers : Seq(Running), stat : [Threads -> Stats],
   err : [Threads -> {"EOK", "ERROR", "ETIMEOUT"}], prio : [Threads -> Prios],
   slice : [Threads -> 1 .. Slice], group : SUBSET Prios,
   ready : [Prios -> Seq(Threads)], wait : [Queues -> Seq(Threads)]]

ReadyLinked(kk, off) ==
  /\ \A p \in Prios : IsInjective(kk.ready[p])
  /\ \A t \in Threads, p \in Prios :
       t \in ToSet(kk.ready[p]) <=> kk.stat[t] = "READY" /\ t \notin off /\ kk.prio[t] = p
WaitLinked(kk, off) ==
  /\ \A q \in Queues : IsInjective(kk.wait[q])
  /\ \A t \in Threads, q \in Queues :
       t \in ToSet(kk.wait[q]) => kk.stat[t] = "SUSPEND" /\ t \notin off
  /\ \A t \in Threads, q, r \in Queues :
       t \in ToSet(kk.wait[q]) /\ t \in ToSet(kk.wait[r]) => q = r
DeadLinked(kk, reaped) ==
  /\ IsInjective(kk.defunct)
  /\ \A t \in Threads :
       t \in ToSet(kk.defunct) <=> kk.stat[t] = "CLOSE" /\ t \notin reaped /\ t \notin kk.static
  /\ \A t \in reaped : t \in Threads /\ kk.stat[t] = "CLOSE" /\ t \notin kk.static
TimersLinked(kk, least) ==
  /\ InOrder(kk.timers)
  /\ \A i \in DOMAIN kk.timers : kk.stat[kk.timers[i].thread] = "SUSPEND"
  /\ \A i \in DOMAIN kk.timers : kk.timers[i].left \in least .. MaxWait
GroupLinked(kk) == \A p \in Prios : p \in kk.group <=> kk.ready[p] # <<>>
IdleLinked(kk, off) == kk.stat[Idle] = "READY" /\ Idle \notin off

Linked(kk, off, reaped, least) ==
  /\ ReadyLinked(kk, off) /\ WaitLinked(kk, off) /\ DeadLinked(kk, reaped)
  /\ TimersLinked(kk, least) /\ GroupLinked(kk) /\ IdleLinked(kk, off)
Good(off, reaped, least) == {kk \in KernelData : Linked(kk, off, reaped, least)}

(* The processor executes a ready thread, or one that has just suspended   *)
(* itself or exited and comes to its rt_schedule with the scheduler        *)
(* unlocked.                                                               *)
RunsWell(kk, c) ==
  LET t == kk.current IN
  /\ \/ kk.stat[t] = "READY"
     \/ kk.nest = 0 /\ kk.stat[t] = "SUSPEND" /\ c[t].at = "suspending"
     \/ kk.nest = 0 /\ kk.stat[t] = "CLOSE" /\ c[t].at = "resched" /\ t # Idle
  /\ kk.nest # 0 => c[t].at \notin {"suspend", "suspending", "woken"}

(* Several threads may delete at the same time, none of them one that does. *)
Reaped == {t \in Threads : Reaping(t)}
Living == {"INIT", "READY", "SUSPEND"}
CallsOK ==
  /\ call = [t \in Threads |-> [at |-> call[t].at, op |-> call[t].op,
                                left |-> call[t].left, arg |-> call[t].arg]]
  /\ \A t \in Threads : call[t].left \in Times
  /\ call[Idle].at \in {"run", "reap"}
  /\ call[Idle].at = "reap" => call[Idle].arg \in Threads
  /\ \A t \in Threads : Deleting(t) =>
       /\ call[t].arg \in Mortal /\ {k.stat[t], k.stat[call[t].arg]} \subseteq Living
       /\ \A u \in Threads : Deleting(u) =>
            call[t].arg # u /\ (call[u].arg = call[t].arg => u = t)

Wish == [set : SUBSET Bits, and : BOOLEAN, clear : BOOLEAN]
EventData == [set : SUBSET Bits, wish : [Threads -> Wish]]
MutexData == [value : {0, 1}, owner : Threads \cup {NULL}, original_priority : Nat, hold : Nat]
ObjectsOK ==
  /\ kind \in Kinds /\ event \in EventData /\ mutex \in [Mutexes -> MutexData]
  /\ \A m \in Mutexes : /\ mutex[m].value = 0 <=> mutex[m].owner # NULL
                        /\ mutex[m].owner # NULL => /\ mutex[m].owner # Idle
                                                    /\ mutex[m].original_priority \in Prios

(* The lists are in order, and the processor does not execute a thread that *)
(* is being deleted.                                                        *)
Sane == {kk \in Good(BeingDeleted, Reaped, 1) : kk.current \notin BeingDeleted}
KInv == k \in Sane /\ CallsOK /\ RunsWell(k, call)

(* A thread that another one is about to suspend, resume or start: nobody   *)
(* else handles it.  Once its status was looked at it stays suspended, and  *)
(* once it was taken off its list it is nowhere and has no timer.           *)
Windows == {"suspend", "startup", "resume", "insert"}
Handles(t) ==
  LET u == call[t].arg IN
  /\ kind = "thread" /\ u \in Threads \ {Idle} /\ u \notin BeingDeleted
  /\ k.stat[u] \in {"READY", "SUSPEND"}
  /\ call[t].at \in {"resume", "insert"} => k.stat[u] = "SUSPEND"
  /\ call[t].at = "insert" =>
       u \notin Owners(k.timers) /\ \A q \in Queues : u \notin ToSet(k.wait[q])
(* Behaviours about no object make the calls about threads only.            *)
ThreadOps == {"none", "sleep", "suspend", "startup"}
WInv ==
  /\ \A t \in Threads : call[t].at \in Windows =>
       /\ Handles(t)
       /\ \A v \in Threads : call[v].at \in Windows /\ call[v].arg = call[t].arg => v = t
  /\ kind = "thread" => \A t \in Threads :
       call[t].op \in ThreadOps /\ call[t].at \notin {"copy", "detach"}

IInv == KInv /\ WInv /\ ObjectsOK

LEMMA Typed ==
  ASSUME NEW kk \in KernelData
  PROVE  /\ kk.static \in SUBSET Threads /\ kk.current \in Threads /\ kk.nest \in 0 .. MaxNest
         /\ kk.defunct \in Seq(Threads) /\ kk.timers \in Seq(Running)
         /\ kk.stat \in [Threads -> Stats] /\ kk.err \in [Threads -> {"EOK", "ERROR", "ETIMEOUT"}]
         /\ kk.prio \in [Threads -> Prios] /\ kk.slice \in [Threads -> 1 .. Slice]
         /\ kk.group \in SUBSET Prios /\ kk.ready \in [Prios -> Seq(Threads)]
         /\ kk.wait \in [Queues -> Seq(Threads)]
BY DEF KernelData

(* rt_list_remove takes the thread off every list, and off no other.        *)
OnceEach(kk) ==
  /\ IsInjective(kk.defunct)
  /\ \A p \in Prios : IsInjective(kk.ready[p])
  /\ \A q \in Queues : IsInjective(kk.wait[q])
Less(kk, t) == [q \in Queues |-> RemoveFirst(kk.wait[q], t)]
TakenOff(kk, t, r) ==
  /\ r \in KernelData
  /\ \A p \in Prios : /\ IsInjective(r.ready[p]) /\ ToSet(r.ready[p]) = ToSet(kk.ready[p]) \ {t}
                      /\ t \notin ToSet(kk.ready[p]) => r.ready[p] = kk.ready[p]
  /\ \A q \in Queues : IsInjective(r.wait[q]) /\ ToSet(r.wait[q]) = ToSet(kk.wait[q]) \ {t}
  /\ IsInjective(r.defunct) /\ ToSet(r.defunct) = ToSet(kk.defunct) \ {t}
  /\ r.wait = Less(kk, t) /\ r.static = kk.static /\ r.current = kk.current /\ r.nest = kk.nest
  /\ r.timers = kk.timers /\ r.stat = kk.stat /\ r.err = kk.err /\ r.prio = kk.prio
  /\ r.slice = kk.slice /\ r.group = kk.group

LEMMA OffLists ==
  ASSUME NEW kk \in KernelData, NEW t, NEW r, r = list_remove(kk, t), OnceEach(kk)
  PROVE  TakenOff(kk, t, r)
<1> DEFINE ready == [p \in Prios |-> RemoveFirst(kk.ready[p], t)]
           wait == [q \in Queues |-> RemoveFirst(kk.wait[q], t)]
           defunct == RemoveFirst(kk.defunct, t)
<1>0. /\ IsInjective(kk.defunct)
      /\ \A p \in Prios : IsInjective(kk.ready[p])
      /\ \A q \in Queues : IsInjective(kk.wait[q])
  BY DEF OnceEach
<1>1. r = [kk EXCEPT !.ready = ready, !.wait = wait, !.defunct = defunct]
  BY DEF list_remove
<1>2. \A p \in Prios : kk.ready[p] \in Seq(Threads)
  BY Typed
<1>3. \A q \in Queues : kk.wait[q] \in Seq(Threads)
  BY Typed
<1>4. kk.defunct \in Seq(Threads)
  BY Typed
<1>5. /\ ready \in [Prios -> Seq(Threads)]
      /\ \A p \in Prios : /\ IsInjective(ready[p]) /\ ToSet(ready[p]) = ToSet(kk.ready[p]) \ {t}
                          /\ t \notin ToSet(kk.ready[p]) => ready[p] = kk.ready[p]
  BY <1>0, <1>2, Leaves
<1>6. /\ wait \in [Queues -> Seq(Threads)]
      /\ \A q \in Queues : IsInjective(wait[q]) /\ ToSet(wait[q]) = ToSet(kk.wait[q]) \ {t}
  BY <1>0, <1>3, Leaves
<1>7. defunct \in Seq(Threads) /\ IsInjective(defunct) /\ ToSet(defunct) = ToSet(kk.defunct) \ {t}
  BY <1>0, <1>4, Leaves
<1> HIDE DEF ready, wait, defunct
<1>8. /\ r \in KernelData /\ r.ready = ready /\ r.wait = wait /\ r.defunct = defunct
      /\ r.static = kk.static /\ r.current = kk.current /\ r.nest = kk.nest
      /\ r.timers = kk.timers /\ r.stat = kk.stat /\ r.err = kk.err /\ r.prio = kk.prio
      /\ r.slice = kk.slice /\ r.group = kk.group
  BY <1>1, <1>5, <1>6, <1>7 DEF KernelData
<1>9. r.wait = Less(kk, t)
  BY <1>8 DEF Less, wait
<1> QED BY <1>5, <1>6, <1>7, <1>8, <1>9 DEF TakenOff

LEMMA GoodData ==
  ASSUME NEW off, NEW reaped, NEW least, NEW kk \in Good(off, reaped, least)
  PROVE  kk \in KernelData /\ Linked(kk, off, reaped, least)
BY DEF Good

(* rt_schedule_remove_thread: the thread is nowhere, and the bitmap knows   *)
(* when it was the last of its priority.                                    *)
LEMMA Unlinks ==
  ASSUME NEW gone, NEW reaped, NEW least, NEW kk \in Good(gone, reaped, least), NEW t \in Threads \ {Idle},
         kk.stat[t] \in {"INIT", "READY", "SUSPEND"}
  PROVE  LET r == rt_schedule_remove_thread(kk, t) IN
         /\ r.group \subseteq kk.group
         /\ r \in Good(gone \cup {t}, reaped, least)
         /\ \A p \in Prios : t \notin ToSet(r.ready[p])
         /\ \A q \in Queues : ToSet(r.wait[q]) = ToSet(kk.wait[q]) \ {t}
         /\ r.static = kk.static /\ r.current = kk.current /\ r.nest = kk.nest
         /\ r.timers = kk.timers /\ r.stat = kk.stat /\ r.err = kk.err /\ r.prio = kk.prio
         /\ r.slice = kk.slice /\ r.wait = Less(kk, t)
<1> DEFINE r == rt_schedule_remove_thread(kk, t)
           off == list_remove(kk, t)
           here == kk.prio[t]
<1>1. kk \in KernelData /\ Linked(kk, gone, reaped, least)
  BY GoodData
<1>2. OnceEach(kk)
  BY <1>1 DEF OnceEach, Linked, ReadyLinked, WaitLinked, DeadLinked
<1>3. /\ off \in KernelData
      /\ \A p \in Prios : /\ IsInjective(off.ready[p])
                          /\ ToSet(off.ready[p]) = ToSet(kk.ready[p]) \ {t}
                          /\ t \notin ToSet(kk.ready[p]) => off.ready[p] = kk.ready[p]
      /\ \A q \in Queues : IsInjective(off.wait[q]) /\ ToSet(off.wait[q]) = ToSet(kk.wait[q]) \ {t}
      /\ IsInjective(off.defunct) /\ ToSet(off.defunct) = ToSet(kk.defunct) \ {t}
      /\ off.static = kk.static /\ off.current = kk.current /\ off.nest = kk.nest
      /\ off.timers = kk.timers /\ off.stat = kk.stat /\ off.err = kk.err /\ off.prio = kk.prio
      /\ off.slice = kk.slice /\ off.group = kk.group /\ off.wait = Less(kk, t)
  <2>1. TakenOff(kk, t, off)
    BY <1>1, <1>2, OffLists
  <2> HIDE DEF off, r
  <2> QED BY <2>1 DEF TakenOff
<1>4. r = IF off.ready[here] = <<>> THEN [off EXCEPT !.group = kk.group \ {here}] ELSE off
  BY <1>3 DEF rt_schedule_remove_thread
<1>5. here \in Prios /\ \A p \in Prios : off.ready[p] \in Seq(Threads)
  BY <1>1, <1>3, Typed
<1> HIDE DEF r, off
<1>6. /\ r \in KernelData /\ r.ready = off.ready /\ r.wait = off.wait /\ r.defunct = off.defunct
      /\ r.static = kk.static /\ r.current = kk.current /\ r.nest = kk.nest
      /\ r.timers = kk.timers /\ r.stat = kk.stat /\ r.err = kk.err /\ r.prio = kk.prio
      /\ r.slice = kk.slice
      /\ r.group = IF off.ready[here] = <<>> THEN kk.group \ {here} ELSE kk.group
      /\ r.group \subseteq kk.group
  <2>1. kk.group \ {here} \in SUBSET Prios
    BY <1>1, Typed
  <2> HIDE DEF here
  <2> QED BY <1>3, <1>4, <2>1 DEF KernelData
<1>7. \A u \in Threads, p \in Prios : u \in ToSet(kk.ready[p]) <=>
         kk.stat[u] = "READY" /\ u \notin gone /\ kk.prio[u] = p
  BY <1>1 DEF Linked, ReadyLinked
<1>8. ReadyLinked(r, gone \cup {t})
  BY <1>3, <1>6, <1>7 DEF ReadyLinked
<1>9. WaitLinked(r, gone \cup {t})
  <2>1. \A q \in Queues : IsInjective(r.wait[q]) /\ ToSet(r.wait[q]) = ToSet(kk.wait[q]) \ {t}
    BY <1>3, <1>6
  <2>2. \A u \in Threads, q \in Queues : u \in ToSet(kk.wait[q]) => kk.stat[u] = "SUSPEND" /\ u \notin gone
    BY <1>1 DEF Linked, WaitLinked
  <2>3. \A u \in Threads, q, z \in Queues :
          u \in ToSet(kk.wait[q]) /\ u \in ToSet(kk.wait[z]) => q = z
    BY <1>1 DEF Linked, WaitLinked
  <2>4. r.stat = kk.stat
    BY <1>6
  <2> QED BY <2>1, <2>2, <2>3, <2>4 DEF WaitLinked
<1>10. DeadLinked(r, reaped)
  <2>1. t \notin ToSet(kk.defunct)
    BY <1>1 DEF Linked, DeadLinked
  <2> QED BY <1>1, <1>3, <1>6, <2>1 DEF Linked, DeadLinked
<1>11. TimersLinked(r, least)
  BY <1>1, <1>6 DEF Linked, TimersLinked
<1>12. GroupLinked(r)
  <2>1. ASSUME NEW p \in Prios PROVE p \in r.group <=> r.ready[p] # <<>>
    <3>1. p \in kk.group <=> kk.ready[p] # <<>>
      BY <1>1 DEF Linked, GroupLinked
    <3>2. CASE p # here
      <4>1. t \notin ToSet(kk.ready[p])
        BY <1>7, <3>2
      <4> QED BY <1>3, <1>6, <3>1, <3>2, <4>1
    <3>3. CASE p = here
      <4>1. CASE t \in ToSet(kk.ready[p])
        <5>1. kk.ready[p] # <<>>
          BY <1>1, <4>1, Typed, Positions
        <5> QED BY <1>6, <3>1, <3>3, <5>1
      <4>2. CASE t \notin ToSet(kk.ready[p])
        BY <1>3, <1>6, <3>1, <3>3, <4>2
      <4> QED BY <4>1, <4>2
    <3> QED BY <3>2, <3>3
  <2> QED BY <2>1 DEF GroupLinked
<1>13. IdleLinked(r, gone \cup {t})
  BY <1>1, <1>6 DEF Linked, IdleLinked
<1>14. r \in Good(gone \cup {t}, reaped, least)
  BY <1>6, <1>8, <1>9, <1>10, <1>11, <1>12, <1>13 DEF Good, Linked
<1> QED BY <1>3, <1>6, <1>14 DEF r

(* rt_schedule_insert_thread: a thread that is nowhere becomes READY.       *)
LEMMA Enters ==
  ASSUME NEW off, NEW reaped, NEW least, NEW kk \in Good(off, reaped, least), NEW t \in Threads,
         \A p \in Prios : t \notin ToSet(kk.ready[p]), \A q \in Queues : t \notin ToSet(kk.wait[q]),
         t \notin Owners(kk.timers), kk.stat[t] # "CLOSE",
         NEW r, r = rt_schedule_insert_thread(kk, t)
  PROVE  /\ r \in Good(off \ {t}, reaped, least)
         /\ r.static = kk.static /\ r.current = kk.current /\ r.nest = kk.nest
         /\ r.timers = kk.timers /\ r.stat = [kk.stat EXCEPT ![t] = "READY"]
         /\ r.err = kk.err /\ r.prio = kk.prio /\ r.slice = kk.slice /\ r.wait = kk.wait
<1> DEFINE here == kk.prio[t]
           stat == [kk.stat EXCEPT ![t] = "READY"]
           ready == [kk.ready EXCEPT ![here] = Append(kk.ready[here], t)]
           group == kk.group \cup {here}
<1>1. kk \in KernelData /\ Linked(kk, off, reaped, least)
  BY GoodData
<1>2. r = [kk EXCEPT !.stat = stat, !.ready = ready, !.group = group]
  BY DEF rt_schedule_insert_thread
<1>3. here \in Prios /\ \A p \in Prios : kk.ready[p] \in Seq(Threads)
  BY <1>1, Typed
<1>4. /\ Append(kk.ready[here], t) \in Seq(Threads)
      /\ ToSet(Append(kk.ready[here], t)) = ToSet(kk.ready[here]) \cup {t}
      /\ IsInjective(Append(kk.ready[here], t))
  <2>1. IsInjective(kk.ready[here])
    BY <1>1, <1>3 DEF Linked, ReadyLinked
  <2> QED BY <1>3, <2>1, Joins
<1>5. /\ ready \in [Prios -> Seq(Threads)]
      /\ \A p \in Prios : ready[p] = IF p = here THEN Append(kk.ready[here], t) ELSE kk.ready[p]
  <2> HIDE DEF here
  <2> QED BY <1>1, <1>3, <1>4, Typed
<1>6. /\ stat \in [Threads -> Stats]
      /\ \A u \in Threads : stat[u] = IF u = t THEN "READY" ELSE kk.stat[u]
  BY <1>1, Typed DEF Stats
<1>7. group \in SUBSET Prios
  BY <1>1, <1>3, Typed
<1> HIDE DEF stat, ready, group, here
<1>8. /\ r \in KernelData /\ r.ready = ready /\ r.wait = kk.wait /\ r.defunct = kk.defunct
      /\ r.static = kk.static /\ r.current = kk.current /\ r.nest = kk.nest
      /\ r.timers = kk.timers /\ r.stat = stat /\ r.err = kk.err /\ r.prio = kk.prio
      /\ r.slice = kk.slice /\ r.group = group
  BY <1>1, <1>2, <1>5, <1>6, <1>7 DEF KernelData
<1>9. ReadyLinked(r, off \ {t})
  <2>1. \A p \in Prios : IsInjective(r.ready[p])
    BY <1>1, <1>4, <1>5, <1>8 DEF Linked, ReadyLinked
  <2>2. ASSUME NEW u \in Threads, NEW p \in Prios
        PROVE  u \in ToSet(r.ready[p]) <=>
                 r.stat[u] = "READY" /\ u \notin off \ {t} /\ r.prio[u] = p
    <3>1. u \in ToSet(kk.ready[p]) <=> kk.stat[u] = "READY" /\ u \notin off /\ kk.prio[u] = p
      BY <1>1 DEF Linked, ReadyLinked
    <3>2. u \in ToSet(ready[p]) <=> u \in ToSet(kk.ready[p]) \/ (u = t /\ p = here)
      BY <1>4, <1>5
    <3> QED BY <1>6, <1>8, <3>1, <3>2 DEF here
  <2> QED BY <2>1, <2>2 DEF ReadyLinked
<1>10. WaitLinked(r, off \ {t})
  BY <1>1, <1>6, <1>8 DEF Linked, WaitLinked
<1>11. DeadLinked(r, reaped)
  BY <1>1, <1>6, <1>8 DEF Linked, DeadLinked
<1>12. TimersLinked(r, least)
  <2>1. \A i \in DOMAIN kk.timers : kk.timers[i].thread # t
    BY DEF Owners
  <2>2. \A i \in DOMAIN kk.timers : kk.timers[i].thread \in Threads
    <3>1. \A i \in DOMAIN kk.timers : kk.timers[i] \in Running
      BY <1>1, Typed
    <3>2. \A y \in Running : y.thread \in Threads
      BY DEF Running
    <3> QED BY <3>1, <3>2
  <2> QED BY <1>1, <1>6, <1>8, <2>1, <2>2 DEF Linked, TimersLinked
<1>13. GroupLinked(r)
  <2>1. Append(kk.ready[here], t) # <<>>
    BY <1>3
  <2> QED BY <1>1, <1>5, <1>8, <2>1 DEF Linked, GroupLinked, group
<1>14. IdleLinked(r, off \ {t})
  <2>1. Idle \in Threads
    BY KernelAssumption
  <2> QED BY <1>1, <1>6, <1>8, <2>1 DEF Linked, IdleLinked
<1>15. r \in Good(off \ {t}, reaped, least)
  BY <1>8, <1>9, <1>10, <1>11, <1>12, <1>13, <1>14 DEF Good, Linked
<1> QED BY <1>8, <1>15 DEF stat

(* The timer of a thread is stopped, or started.                            *)
LEMMA Stops ==
  ASSUME NEW off, NEW reaped, NEW least, NEW kk \in Good(off, reaped, least), NEW t \in Threads
  PROVE  LET r == rt_timer_stop(kk, t) IN
         /\ r \in Good(off, reaped, least) /\ t \notin Owners(r.timers)
         /\ r.static = kk.static /\ r.current = kk.current /\ r.nest = kk.nest
         /\ r.stat = kk.stat /\ r.err = kk.err /\ r.prio = kk.prio /\ r.slice = kk.slice
         /\ r.ready = kk.ready /\ r.wait = kk.wait /\ r.defunct = kk.defunct /\ r.group = kk.group
         /\ t \notin Owners(kk.timers) => r.timers = kk.timers
         /\ Owners(r.timers) \subseteq Owners(kk.timers)
<1> DEFINE r == rt_timer_stop(kk, t)
           timers == Without(kk.timers, t)
<1>1. kk \in KernelData /\ Linked(kk, off, reaped, least) /\ kk.timers \in Seq(Running)
  BY GoodData, Typed
<1>2. InOrder(kk.timers)
  BY <1>1 DEF Linked, TimersLinked
<1>3. /\ timers \in Seq(Running) /\ InOrder(timers) /\ Owners(timers) = Owners(kk.timers) \ {t}
      /\ \A i \in DOMAIN timers : \E j \in DOMAIN kk.timers : timers[i] = kk.timers[j]
  BY <1>1, <1>2, TimerLeaves
<1>4. t \notin Owners(kk.timers) => timers = kk.timers
  BY <1>1, <1>2, TimerLeaves
<1>5. r = [kk EXCEPT !.timers = timers]
  BY DEF rt_timer_stop, Without
<1> HIDE DEF r, timers
<1>6. /\ r \in KernelData /\ r.timers = timers
      /\ r.static = kk.static /\ r.current = kk.current /\ r.nest = kk.nest
      /\ r.stat = kk.stat /\ r.err = kk.err /\ r.prio = kk.prio /\ r.slice = kk.slice
      /\ r.ready = kk.ready /\ r.wait = kk.wait /\ r.defunct = kk.defunct /\ r.group = kk.group
  BY <1>1, <1>3, <1>5 DEF KernelData
<1>7. TimersLinked(r, least)
  BY <1>1, <1>3, <1>6 DEF Linked, TimersLinked
<1>8. Linked(r, off, reaped, least)
  <2>1. ReadyLinked(r, off)
    BY <1>1, <1>6 DEF Linked, ReadyLinked
  <2>2. WaitLinked(r, off)
    BY <1>1, <1>6 DEF Linked, WaitLinked
  <2>3. DeadLinked(r, reaped)
    BY <1>1, <1>6 DEF Linked, DeadLinked
  <2>4. GroupLinked(r) /\ IdleLinked(r, off)
    BY <1>1, <1>6 DEF Linked, GroupLinked, IdleLinked
  <2> QED BY <1>7, <2>1, <2>2, <2>3, <2>4 DEF Linked
<1>9. r \in Good(off, reaped, least) /\ t \notin Owners(r.timers)
  BY <1>3, <1>6, <1>8 DEF Good
<1> QED BY <1>3, <1>4, <1>6, <1>9 DEF r

LEMMA Starts ==
  ASSUME NEW off, NEW reaped, NEW kk \in Good(off, reaped, 1), NEW t \in Threads,
         kk.stat[t] = "SUSPEND", NEW time \in 1 .. MaxWait,
         NEW r, r = rt_timer_start(kk, t, time)
  PROVE  /\ r \in Good(off, reaped, 1)
         /\ r.static = kk.static /\ r.current = kk.current /\ r.nest = kk.nest
         /\ r.stat = kk.stat /\ r.prio = kk.prio /\ r.err = kk.err /\ r.wait = kk.wait
         /\ Owners(r.timers) \subseteq Owners(kk.timers) \cup {t}
<1> DEFINE stopped == rt_timer_stop(kk, t)
           l == stopped.timers
           timers == With(l, t, time)
<1>0. time \in Nat /\ MaxWait \in Nat /\ time >= 1 /\ time <= MaxWait
  BY KernelAssumption
<1>1. /\ stopped \in Good(off, reaped, 1) /\ t \notin Owners(l)
      /\ stopped.stat = kk.stat /\ Owners(l) \subseteq Owners(kk.timers)
  BY Stops
<1>2. kk \in KernelData /\ Linked(kk, off, reaped, 1)
  BY GoodData
<1>3. stopped \in KernelData /\ Linked(stopped, off, reaped, 1)
  BY <1>1, GoodData
<1>4. r = [kk EXCEPT !.timers = timers]
  BY DEF rt_timer_start, With
<1> HIDE DEF stopped
<1>5. l \in Seq(Running) /\ InOrder(l)
  BY <1>3, Typed DEF Linked, TimersLinked
<1> HIDE DEF l
<1>6. /\ timers \in Seq(Running) /\ InOrder(timers) /\ Owners(timers) = Owners(l) \cup {t}
      /\ \A i \in DOMAIN timers : timers[i].left = time \/ \E j \in DOMAIN l : timers[i] = l[j]
  BY <1>0, <1>1, <1>5, TimerJoins
<1> HIDE DEF timers
<1>7. /\ r \in KernelData /\ r.timers = timers
      /\ r.static = kk.static /\ r.current = kk.current /\ r.nest = kk.nest
      /\ r.stat = kk.stat /\ r.err = kk.err /\ r.prio = kk.prio /\ r.slice = kk.slice
      /\ r.ready = kk.ready /\ r.wait = kk.wait /\ r.defunct = kk.defunct /\ r.group = kk.group
  BY <1>2, <1>4, <1>6 DEF KernelData
<1>8. TimersLinked(r, 1)
  <2>1. /\ \A i \in DOMAIN l : l[i].left \in 1 .. MaxWait
        /\ \A i \in DOMAIN l : kk.stat[l[i].thread] = "SUSPEND"
    BY <1>1, <1>3 DEF Linked, TimersLinked, l
  <2>2. \A i \in DOMAIN timers : timers[i].left \in 1 .. MaxWait
    BY <1>0, <1>6, <2>1
  <2>3. \A u \in Owners(timers) : kk.stat[u] = "SUSPEND"
    BY <1>6, <2>1 DEF Owners
  <2>4. \A i \in DOMAIN timers : kk.stat[timers[i].thread] = "SUSPEND"
    BY <2>3 DEF Owners
  <2> QED BY <1>6, <1>7, <2>2, <2>4 DEF TimersLinked
<1>9. Linked(r, off, reaped, 1)
  <2>1. ReadyLinked(r, off)
    BY <1>2, <1>7 DEF Linked, ReadyLinked
  <2>2. WaitLinked(r, off)
    BY <1>2, <1>7 DEF Linked, WaitLinked
  <2>3. DeadLinked(r, reaped)
    BY <1>2, <1>7 DEF Linked, DeadLinked
  <2>4. GroupLinked(r) /\ IdleLinked(r, off)
    BY <1>2, <1>7 DEF Linked, GroupLinked, IdleLinked
  <2> QED BY <1>8, <2>1, <2>2, <2>3, <2>4 DEF Linked
<1>10. r \in Good(off, reaped, 1)
  BY <1>7, <1>9 DEF Good
<1> QED BY <1>1, <1>6, <1>7, <1>10

(* rt_thread_suspend of a READY thread: it waits nowhere yet.               *)
LEMMA Suspends ==
  ASSUME NEW gone, NEW reaped, NEW kk \in Good(gone, reaped, 1), NEW t \in Threads \ {Idle},
         kk.stat[t] \in {"READY", "SUSPEND"}, t \notin gone
  PROVE  LET r == suspended(kk, t) IN
         /\ r \in Good(gone, reaped, 1)
         /\ r.static = kk.static /\ r.current = kk.current /\ r.nest = kk.nest
         /\ r.stat = [kk.stat EXCEPT ![t] = "SUSPEND"] /\ r.prio = kk.prio
         /\ \A q \in Queues : t \notin ToSet(r.wait[q])
         /\ r.err = kk.err /\ r.wait = Less(kk, t) /\ r.group \subseteq kk.group
         /\ Owners(r.timers) \subseteq Owners(kk.timers)
         /\ kk.stat[t] = "READY" => rt_thread_suspend(kk, t) = r
<1> DEFINE off == rt_schedule_remove_thread(kk, t)
           stat == [kk.stat EXCEPT ![t] = "SUSPEND"]
           on == [off EXCEPT !.stat = stat]
           r == rt_timer_stop(on, t)
<1>1. /\ off \in Good(gone \cup {t}, reaped, 1)
      /\ \A p \in Prios : t \notin ToSet(off.ready[p])
      /\ \A q \in Queues : t \notin ToSet(off.wait[q])
      /\ off.static = kk.static /\ off.current = kk.current /\ off.nest = kk.nest
      /\ off.stat = kk.stat /\ off.prio = kk.prio /\ off.timers = kk.timers
      /\ off.err = kk.err /\ off.wait = Less(kk, t) /\ off.group \subseteq kk.group
  <2>1. kk.stat[t] \in {"INIT", "READY", "SUSPEND"}
    OBVIOUS
  <2> QED BY <2>1, Unlinks
<1>2. suspended(kk, t) = r /\ (kk.stat[t] = "READY" => rt_thread_suspend(kk, t) = r)
  BY <1>1 DEF rt_thread_suspend, suspended
<1>3. kk \in KernelData /\ Linked(kk, gone, reaped, 1)
  BY GoodData
<1>4. off \in KernelData /\ Linked(off, gone \cup {t}, reaped, 1)
  BY <1>1, GoodData
<1>5. stat \in [Threads -> Stats] /\ \A u \in Threads : stat[u] = IF u = t THEN "SUSPEND" ELSE kk.stat[u]
  BY <1>3, Typed DEF Stats
<1> HIDE DEF off, stat
<1>6. /\ on \in KernelData /\ on.ready = off.ready /\ on.wait = off.wait
      /\ on.defunct = off.defunct /\ on.static = off.static /\ on.current = off.current
      /\ on.nest = off.nest /\ on.timers = off.timers /\ on.stat = stat /\ on.prio = off.prio
      /\ on.group = off.group /\ on.err = off.err
  BY <1>4, <1>5 DEF KernelData
<1> HIDE DEF on
<1>7. on \in Good(gone, reaped, 1)
  <2>1. ReadyLinked(on, gone)
    BY <1>1, <1>4, <1>5, <1>6 DEF Linked, ReadyLinked
  <2>2. WaitLinked(on, gone)
    BY <1>1, <1>4, <1>5, <1>6 DEF Linked, WaitLinked
  <2>3. DeadLinked(on, reaped)
    BY <1>1, <1>4, <1>5, <1>6 DEF Linked, DeadLinked
  <2>4. TimersLinked(on, 1)
    <3>1. \A i \in DOMAIN off.timers : off.timers[i].thread \in Threads
      <4>1. \A i \in DOMAIN off.timers : off.timers[i] \in Running
        BY <1>4, Typed
      <4>2. \A y \in Running : y.thread \in Threads
        BY DEF Running
      <4> QED BY <4>1, <4>2
    <3> QED BY <1>1, <1>4, <1>5, <1>6, <3>1 DEF Linked, TimersLinked
  <2>5. GroupLinked(on) /\ IdleLinked(on, gone)
    <3>1. Idle \in Threads
      BY KernelAssumption
    <3> QED BY <1>1, <1>4, <1>5, <1>6, <3>1 DEF Linked, GroupLinked, IdleLinked
  <2> QED BY <1>6, <2>1, <2>2, <2>3, <2>4, <2>5 DEF Good, Linked
<1>8. /\ r \in Good(gone, reaped, 1)
      /\ r.static = on.static /\ r.current = on.current /\ r.nest = on.nest
      /\ r.stat = on.stat /\ r.prio = on.prio /\ r.wait = on.wait /\ r.err = on.err
      /\ r.group = on.group /\ Owners(r.timers) \subseteq Owners(on.timers)
  BY <1>7, Stops
<1> QED BY <1>1, <1>2, <1>6, <1>8 DEF stat

(* A suspended thread that waits nowhere joins a list of waiters.           *)
WaitsNowhere(kk, t) == \A q \in Queues : t \notin ToSet(kk.wait[q])
WithWaiters(kk, q, l) == [kk EXCEPT !.wait[q] = l]

LEMMA Queued ==
  ASSUME NEW gone, NEW reaped, NEW kk \in Good(gone, reaped, 1), NEW t \in Threads \ gone, kk.stat[t] = "SUSPEND",
         NEW q \in Queues, WaitsNowhere(kk, t),
         NEW l \in Seq(Threads), ToSet(l) = ToSet(kk.wait[q]) \cup {t}, IsInjective(l),
         NEW r, r = WithWaiters(kk, q, l)
  PROVE  /\ r \in Good(gone, reaped, 1)
         /\ r.static = kk.static /\ r.current = kk.current /\ r.nest = kk.nest
         /\ r.stat = kk.stat /\ r.prio = kk.prio /\ r.err = kk.err
<1> DEFINE wait == [kk.wait EXCEPT ![q] = l]
<1>1. kk \in KernelData /\ Linked(kk, gone, reaped, 1)
  BY GoodData
<1>2. /\ wait \in [Queues -> Seq(Threads)]
      /\ \A z \in Queues : wait[z] = IF z = q THEN l ELSE kk.wait[z]
  BY <1>1, Typed
<1>10. r = [kk EXCEPT !.wait = wait]
  BY DEF WithWaiters
<1> HIDE DEF wait
<1>3. /\ r \in KernelData /\ r.ready = kk.ready /\ r.wait = wait
      /\ r.defunct = kk.defunct /\ r.static = kk.static /\ r.current = kk.current
      /\ r.nest = kk.nest /\ r.timers = kk.timers /\ r.stat = kk.stat /\ r.prio = kk.prio
      /\ r.group = kk.group /\ r.err = kk.err
  BY <1>1, <1>2, <1>10 DEF KernelData
<1>4. ReadyLinked(r, gone)
  BY <1>1, <1>3 DEF Linked, ReadyLinked
<1>5. WaitLinked(r, gone)
  <2>1. \A z \in Queues : IsInjective(wait[z])
    BY <1>1, <1>2 DEF Linked, WaitLinked
  <2>2. \A u \in Threads, z \in Queues :
          u \in ToSet(wait[z]) <=> u \in ToSet(kk.wait[z]) \/ (u = t /\ z = q)
    BY <1>2
  <2>7. \A z \in Queues : t \notin ToSet(kk.wait[z])
    BY DEF WaitsNowhere
  <2>3. \A u \in Threads, z \in Queues : u \in ToSet(kk.wait[z]) => kk.stat[u] = "SUSPEND" /\ u \notin gone
    BY <1>1 DEF Linked, WaitLinked
  <2>4. \A u \in Threads, y, z \in Queues :
          u \in ToSet(kk.wait[y]) /\ u \in ToSet(kk.wait[z]) => y = z
    BY <1>1 DEF Linked, WaitLinked
  <2>5. \A u \in Threads, z \in Queues : u \in ToSet(wait[z]) => kk.stat[u] = "SUSPEND" /\ u \notin gone
    BY <2>2, <2>3
  <2>6. \A u \in Threads, y, z \in Queues :
          u \in ToSet(wait[y]) /\ u \in ToSet(wait[z]) => y = z
    BY <2>2, <2>4, <2>7
  <2> QED BY <1>3, <2>1, <2>5, <2>6 DEF WaitLinked
<1>6. DeadLinked(r, reaped)
  BY <1>1, <1>3 DEF Linked, DeadLinked
<1>7. TimersLinked(r, 1)
  BY <1>1, <1>3 DEF Linked, TimersLinked
<1>8. GroupLinked(r) /\ IdleLinked(r, gone)
  BY <1>1, <1>3 DEF Linked, GroupLinked, IdleLinked
<1>9. r \in Good(gone, reaped, 1)
  BY <1>3, <1>4, <1>5, <1>6, <1>7, <1>8 DEF Good, Linked
<1> QED BY <1>3, <1>9

(* What wakes threads up, and may give the processor to another one.        *)
OnlyWakes(kk, r) ==
  /\ r.nest = kk.nest /\ r.static = kk.static
  /\ \A t \in Threads : r.stat[t] = kk.stat[t] \/ (kk.stat[t] = "SUSPEND" /\ r.stat[t] = "READY")
  /\ r.current = kk.current \/ (kk.nest = 0 /\ r.stat[r.current] = "READY")

LEMMA WakesAgain ==
  ASSUME NEW kk \in KernelData, NEW r \in KernelData, NEW z \in KernelData,
         OnlyWakes(kk, r), OnlyWakes(r, z)
  PROVE  OnlyWakes(kk, z)
<1>1. r.current \in Threads /\ z.current \in Threads
  BY Typed
<1> QED BY <1>1 DEF OnlyWakes

(* The processor has a most urgent thread of those that are ready.  What    *)
(* makes others ready comes to that, if the scheduler may run; anything     *)
(* else leaves the processor where it is and makes nobody ready.            *)
Top(kk) == \A p \in kk.group : kk.prio[kk.current] <= p
Settled(kk, r) ==
  /\ r.nest = kk.nest
  /\ kk.nest = 0 =>
       \/ Top(r)
       \/ r.current = kk.current /\ r.prio = kk.prio /\ r.group \subseteq kk.group

LEMMA SettledAgain ==
  ASSUME NEW kk, NEW r, NEW z, Settled(kk, r), Settled(r, z)
  PROVE  Settled(kk, z)
BY DEF Settled, Top

LEMMA SettledTop ==
  ASSUME NEW kk, NEW r, Settled(kk, r), kk.nest = 0, Top(kk)
  PROVE  Top(r)
BY DEF Settled, Top

(* What makes nobody wait, and tells whom it wakes that he did not get what *)
(* he waited for.                                                           *)
SameOrRefused(kk, r, u) ==
  \/ r.stat[u] = kk.stat[u] /\ r.err[u] = kk.err[u]
  \/ kk.stat[u] = "SUSPEND" /\ r.stat[u] = "READY" /\ r.err[u] # "EOK"
Refuses(kk, r) ==
  /\ r.prio = kk.prio
  /\ \A q \in Queues : Thinner(kk.wait[q], r.wait[q])
  /\ \A u \in Threads : SameOrRefused(kk, r, u)

LEMMA RefusesAgain ==
  ASSUME NEW kk, NEW r, NEW z, Refuses(kk, r), Refuses(r, z)
  PROVE  Refuses(kk, z)
<1>1. ASSUME NEW q \in Queues PROVE Thinner(kk.wait[q], z.wait[q])
  <2>1. Thinner(kk.wait[q], r.wait[q]) /\ Thinner(r.wait[q], z.wait[q])
    BY DEF Refuses
  <2> QED BY <2>1, Zenon DEF Thinner
<1>2. ASSUME NEW u \in Threads PROVE SameOrRefused(kk, z, u)
  BY DEF Refuses, SameOrRefused
<1>3. z.prio = kk.prio
  BY DEF Refuses
<1> QED BY <1>1, <1>2, <1>3 DEF Refuses

LEMMA RefusesNobody ==
  ASSUME NEW kk, NEW r, r.stat = kk.stat, r.err = kk.err, r.prio = kk.prio, r.wait = kk.wait
  PROVE  Refuses(kk, r)
<1>1. \A q \in Queues : Thinner(kk.wait[q], r.wait[q])
  BY DEF Thinner
<1>2. \A u \in Threads : SameOrRefused(kk, r, u)
  BY DEF SameOrRefused
<1> QED BY <1>1, <1>2 DEF Refuses

LEMMA LessIsThinner ==
  ASSUME NEW kk \in KernelData, OnceEach(kk), NEW t, NEW q \in Queues
  PROVE  Thinner(kk.wait[q], Less(kk, t)[q])
<1>1. kk.wait[q] \in Seq(Threads) /\ IsInjective(kk.wait[q])
  BY Typed DEF OnceEach
<1>2. Less(kk, t)[q] = RemoveFirst(kk.wait[q], t)
  BY DEF Less
<1> QED BY <1>1, <1>2, LeavesOrder

LEMMA LessIsSame ==
  ASSUME NEW kk \in KernelData, OnceEach(kk), NEW t, \A q \in Queues : t \notin ToSet(kk.wait[q])
  PROVE  Less(kk, t) = kk.wait
<1>1. kk.wait \in [Queues -> Seq(Threads)]
  BY Typed
<1>2. ASSUME NEW q \in Queues PROVE Less(kk, t)[q] = kk.wait[q]
  <2>1. kk.wait[q] \in Seq(Threads) /\ IsInjective(kk.wait[q])
    BY <1>1 DEF OnceEach
  <2> QED BY <2>1, Leaves DEF Less
<1> QED BY <1>1, <1>2 DEF Less

LEMMA GoodOnce ==
  ASSUME NEW off, NEW reaped, NEW least, NEW kk \in Good(off, reaped, least)
  PROVE  OnceEach(kk)
BY GoodData DEF OnceEach, Linked, ReadyLinked, WaitLinked, DeadLinked

(* rt_schedule finds somebody: the idle thread, if nobody else; and he is   *)
(* a most urgent one, because the bitmap has every priority that is ready.  *)
LEMMA Schedules ==
  ASSUME NEW gone, NEW reaped, NEW least, NEW kk \in Good(gone, reaped, least)
  PROVE  LET r == rt_schedule(kk) IN
         /\ r \in Good(gone, reaped, least) /\ OnlyWakes(kk, r)
         /\ r.stat = kk.stat /\ r.timers = kk.timers
         /\ kk.nest = 0 => r.stat[r.current] = "READY" /\ Top(r)
         /\ kk.nest # 0 => r = kk
         /\ Settled(kk, r) /\ Refuses(kk, r)
         /\ kk.current \notin gone => r.current \notin gone
         /\ kk.nest = 0 => r.current \notin gone
<1> DEFINE top == Head(kk.ready[Min(kk.group)])
           r == [kk EXCEPT !.current = top]
<1>1. kk \in KernelData /\ Linked(kk, gone, reaped, least)
  BY GoodData
<1>2. CASE kk.nest # 0
  <2>1. Refuses(kk, kk)
    BY RefusesNobody
  <2> QED BY <1>2, <2>1 DEF rt_schedule, OnlyWakes, Settled
<1>3. CASE kk.nest = 0
  <2>1. rt_schedule(kk) = r
    BY <1>3 DEF rt_schedule
  <2>2. kk.group \in SUBSET Nat /\ kk.group \in SUBSET Prios
    <3>1. Prios \in SUBSET Nat
      BY KernelAssumption DEF Prios
    <3> QED BY <1>1, <3>1, Typed
  <2>3. kk.group # {}
    <3>1. Idle \in Threads /\ kk.prio[Idle] \in Prios /\ kk.ready[kk.prio[Idle]] \in Seq(Threads)
      BY <1>1, Typed, KernelAssumption
    <3>2. Idle \in ToSet(kk.ready[kk.prio[Idle]])
      BY <1>1, <3>1 DEF Linked, ReadyLinked, IdleLinked
    <3>3. kk.ready[kk.prio[Idle]] # <<>>
      BY <3>1, <3>2, Positions
    <3> QED BY <1>1, <3>1, <3>3 DEF Linked, GroupLinked
  <2>4. Min(kk.group) \in kk.group /\ \A p \in kk.group : Min(kk.group) <= p
    <3>1. \E n \in kk.group : \A m \in kk.group : n <= m
      BY <2>2, <2>3, Least
    <3> QED BY <3>1 DEF Min
  <2>5. /\ Min(kk.group) \in Prios /\ kk.ready[Min(kk.group)] # <<>>
        /\ kk.ready[Min(kk.group)] \in Seq(Threads)
    BY <1>1, <2>2, <2>4, Typed DEF Linked, GroupLinked
  <2>6. top \in ToSet(kk.ready[Min(kk.group)]) /\ top \in Threads
    BY <2>5, Positions
  <2>7. kk.stat[top] = "READY" /\ kk.prio[top] = Min(kk.group) /\ top \notin gone
    BY <1>1, <2>5, <2>6 DEF Linked, ReadyLinked
  <2> HIDE DEF top
  <2>8. /\ r \in KernelData /\ r.ready = kk.ready /\ r.wait = kk.wait
        /\ r.defunct = kk.defunct /\ r.static = kk.static /\ r.current = top
        /\ r.nest = kk.nest /\ r.timers = kk.timers /\ r.stat = kk.stat /\ r.prio = kk.prio
        /\ r.group = kk.group /\ r.err = kk.err
    BY <1>1, <2>6 DEF KernelData
  <2> HIDE DEF r
  <2>9. ReadyLinked(r, gone) /\ WaitLinked(r, gone)
    BY <1>1, <2>8 DEF Linked, ReadyLinked, WaitLinked
  <2>10. DeadLinked(r, reaped) /\ TimersLinked(r, least)
    BY <1>1, <2>8 DEF Linked, DeadLinked, TimersLinked
  <2>11. GroupLinked(r) /\ IdleLinked(r, gone)
    BY <1>1, <2>8 DEF Linked, GroupLinked, IdleLinked
  <2>12. r \in Good(gone, reaped, least)
    BY <2>8, <2>9, <2>10, <2>11 DEF Good, Linked
  <2>13. OnlyWakes(kk, r)
    BY <1>3, <2>7, <2>8 DEF OnlyWakes
  <2>14. Top(r)
    BY <2>4, <2>7, <2>8 DEF Top
  <2>16. Settled(kk, r)
    BY <2>8, <2>14 DEF Settled
  <2>17. Refuses(kk, r)
    BY <2>8, RefusesNobody
  <2> QED BY <1>3, <2>1, <2>7, <2>8, <2>12, <2>13, <2>14, <2>16, <2>17
<1> QED BY <1>2, <1>3

(* A suspended thread leaves the list it waits on, its timer is stopped,    *)
(* and it is READY.                                                         *)
LEMMA Delists ==
  ASSUME NEW gone, NEW reaped, NEW least, NEW kk \in Good(gone, reaped, least), NEW t \in Threads,
         kk.stat[t] = "SUSPEND"
  PROVE  LET r == list_remove(kk, t) IN
         /\ r \in Good(gone, reaped, least)
         /\ \A p \in Prios : t \notin ToSet(r.ready[p])
         /\ \A q \in Queues : t \notin ToSet(r.wait[q])
         /\ r.static = kk.static /\ r.current = kk.current /\ r.nest = kk.nest
         /\ r.timers = kk.timers /\ r.stat = kk.stat
         /\ r.err = kk.err /\ r.prio = kk.prio /\ r.wait = Less(kk, t)
<1> DEFINE r == list_remove(kk, t)
<1>1. kk \in KernelData /\ Linked(kk, gone, reaped, least)
  BY GoodData
<1>2. OnceEach(kk)
  BY <1>1 DEF OnceEach, Linked, ReadyLinked, WaitLinked, DeadLinked
<1>13. TakenOff(kk, t, r)
  BY <1>1, <1>2, OffLists
<1> HIDE DEF r
<1>3. /\ r \in KernelData
      /\ \A p \in Prios : /\ IsInjective(r.ready[p]) /\ ToSet(r.ready[p]) = ToSet(kk.ready[p]) \ {t}
                          /\ t \notin ToSet(kk.ready[p]) => r.ready[p] = kk.ready[p]
      /\ \A q \in Queues : IsInjective(r.wait[q]) /\ ToSet(r.wait[q]) = ToSet(kk.wait[q]) \ {t}
      /\ IsInjective(r.defunct) /\ ToSet(r.defunct) = ToSet(kk.defunct) \ {t}
      /\ r.static = kk.static /\ r.current = kk.current /\ r.nest = kk.nest
      /\ r.timers = kk.timers /\ r.stat = kk.stat /\ r.err = kk.err /\ r.prio = kk.prio
      /\ r.slice = kk.slice /\ r.group = kk.group /\ r.wait = Less(kk, t)
  BY <1>13 DEF TakenOff
<1>4. \A p \in Prios : t \notin ToSet(kk.ready[p])
  BY <1>1 DEF Linked, ReadyLinked
<1>5. \A p \in Prios : r.ready[p] = kk.ready[p]
  BY <1>3, <1>4
<1>6. ReadyLinked(r, gone)
  BY <1>1, <1>3, <1>5 DEF Linked, ReadyLinked
<1>7. WaitLinked(r, gone)
  <2>1. \A q \in Queues : IsInjective(r.wait[q]) /\ ToSet(r.wait[q]) = ToSet(kk.wait[q]) \ {t}
    BY <1>3
  <2>2. \A u \in Threads, q \in Queues : u \in ToSet(kk.wait[q]) => kk.stat[u] = "SUSPEND" /\ u \notin gone
    BY <1>1 DEF Linked, WaitLinked
  <2>3. \A u \in Threads, q, z \in Queues :
          u \in ToSet(kk.wait[q]) /\ u \in ToSet(kk.wait[z]) => q = z
    BY <1>1 DEF Linked, WaitLinked
  <2>4. r.stat = kk.stat
    BY <1>3
  <2> QED BY <2>1, <2>2, <2>3, <2>4 DEF WaitLinked
<1>8. DeadLinked(r, reaped)
  <2>1. t \notin ToSet(kk.defunct)
    BY <1>1 DEF Linked, DeadLinked
  <2> QED BY <1>1, <1>3, <2>1 DEF Linked, DeadLinked
<1>9. TimersLinked(r, least)
  BY <1>1, <1>3 DEF Linked, TimersLinked
<1>10. GroupLinked(r) /\ IdleLinked(r, gone)
  BY <1>1, <1>3, <1>5 DEF Linked, GroupLinked, IdleLinked
<1>11. r \in Good(gone, reaped, least)
  BY <1>3, <1>6, <1>7, <1>8, <1>9, <1>10 DEF Good, Linked
<1>12. /\ \A p \in Prios : t \notin ToSet(r.ready[p])
       /\ \A q \in Queues : t \notin ToSet(r.wait[q])
  BY <1>3
<1> QED BY <1>3, <1>11, <1>12 DEF r

Admits(kk, r, t) ==
  /\ r.stat = [kk.stat EXCEPT ![t] = "READY"] /\ r.err = kk.err /\ r.prio = kk.prio
  /\ r.wait = Less(kk, t)

LEMMA Resumes ==
  ASSUME NEW gone, NEW reaped, NEW least, NEW kk \in Good(gone, reaped, least), NEW t \in Threads \ gone
  PROVE  LET r == rt_thread_resume(kk, t) IN
         /\ r \in Good(gone, reaped, least) /\ OnlyWakes(kk, r) /\ r.current = kk.current
         /\ kk.stat[t] = "SUSPEND" => Admits(kk, r, t)
<1> DEFINE r == rt_thread_resume(kk, t)
<1>1. CASE kk.stat[t] # "SUSPEND"
  BY <1>1 DEF rt_thread_resume, OnlyWakes
<1>2. CASE kk.stat[t] = "SUSPEND"
  <2> DEFINE a == list_remove(kk, t)
             b == rt_timer_stop(a, t)
             c == rt_schedule_insert_thread(b, t)
  <2>1. /\ a \in Good(gone, reaped, least)
        /\ \A p \in Prios : t \notin ToSet(a.ready[p])
        /\ \A q \in Queues : t \notin ToSet(a.wait[q])
        /\ a.static = kk.static /\ a.current = kk.current /\ a.nest = kk.nest
        /\ a.stat = kk.stat /\ a.err = kk.err /\ a.prio = kk.prio /\ a.wait = Less(kk, t)
    BY <1>2, Delists
  <2>2. r = c
    BY <1>2 DEF rt_thread_resume, unlisted
  <2> HIDE DEF a
  <2>3. /\ b \in Good(gone, reaped, least) /\ t \notin Owners(b.timers)
        /\ b.static = a.static /\ b.current = a.current /\ b.nest = a.nest
        /\ b.stat = a.stat /\ b.ready = a.ready /\ b.wait = a.wait
        /\ b.err = a.err /\ b.prio = a.prio
    BY <2>1, Stops
  <2> HIDE DEF b
  <2>4. /\ c \in Good(gone \ {t}, reaped, least)
        /\ c.static = b.static /\ c.current = b.current /\ c.nest = b.nest
        /\ c.stat = [b.stat EXCEPT ![t] = "READY"]
        /\ c.err = b.err /\ c.prio = b.prio /\ c.wait = b.wait
    <3>1. /\ \A p \in Prios : t \notin ToSet(b.ready[p])
          /\ \A q \in Queues : t \notin ToSet(b.wait[q])
          /\ b.stat[t] # "CLOSE"
      BY <1>2, <2>1, <2>3
    <3> QED BY <2>3, <3>1, Enters
  <2> HIDE DEF c, r
  <2>5. gone \ {t} = gone
    OBVIOUS
  <2>6. c.stat = [kk.stat EXCEPT ![t] = "READY"] /\ kk.stat \in [Threads -> Stats]
    BY <2>1, <2>3, <2>4, GoodData, Typed
  <2>7. OnlyWakes(kk, c) /\ c.current = kk.current
    BY <1>2, <2>1, <2>3, <2>4, <2>6 DEF OnlyWakes
  <2>8. Admits(kk, c, t)
    BY <2>1, <2>3, <2>4, <2>6 DEF Admits
  <2> QED BY <2>2, <2>4, <2>5, <2>7, <2>8 DEF r
<1> QED BY <1>1, <1>2

(* Setting the error code of a thread touches no list.                      *)
LEMMA SetsError ==
  ASSUME NEW off, NEW reaped, NEW least, NEW kk \in Good(off, reaped, least), NEW t \in Threads,
         NEW e \in {"EOK", "ERROR", "ETIMEOUT"}, NEW r, r = [kk EXCEPT !.err[t] = e]
  PROVE  /\ r \in Good(off, reaped, least) /\ OnlyWakes(kk, r)
         /\ r.current = kk.current /\ r.stat = kk.stat /\ r.timers = kk.timers
         /\ r.prio = kk.prio /\ r.wait = kk.wait
<1> DEFINE err == [kk.err EXCEPT ![t] = e]
<1>1. kk \in KernelData /\ Linked(kk, off, reaped, least)
  BY GoodData
<1>2. err \in [Threads -> {"EOK", "ERROR", "ETIMEOUT"}]
  BY <1>1, Typed
<1>9. r = [kk EXCEPT !.err = err]
  OBVIOUS
<1> HIDE DEF err
<1>3. /\ r \in KernelData /\ r.ready = kk.ready /\ r.wait = kk.wait
      /\ r.defunct = kk.defunct /\ r.static = kk.static /\ r.current = kk.current
      /\ r.nest = kk.nest /\ r.timers = kk.timers /\ r.stat = kk.stat /\ r.prio = kk.prio
      /\ r.group = kk.group
  BY <1>1, <1>2, <1>9 DEF KernelData
<1>4. ReadyLinked(r, off) /\ WaitLinked(r, off)
  BY <1>1, <1>3 DEF Linked, ReadyLinked, WaitLinked
<1>5. DeadLinked(r, reaped) /\ TimersLinked(r, least)
  BY <1>1, <1>3 DEF Linked, DeadLinked, TimersLinked
<1>6. GroupLinked(r) /\ IdleLinked(r, off)
  BY <1>1, <1>3 DEF Linked, GroupLinked, IdleLinked
<1>7. r \in Good(off, reaped, least)
  BY <1>3, <1>4, <1>5, <1>6 DEF Good, Linked
<1>8. OnlyWakes(kk, r)
  BY <1>3 DEF OnlyWakes
<1> QED BY <1>3, <1>7, <1>8

(* What leaves the status of some threads as it is, and starts no timer.    *)
Spares(kk, r, kept) ==
  /\ \A u \in kept \cap Threads : r.stat[u] = kk.stat[u]
  /\ Owners(r.timers) \subseteq Owners(kk.timers)
NotDue(kk, n, kept) == \A i \in DOMAIN kk.timers : kk.timers[i].left = n => kk.timers[i].thread \notin kept

(* rt_thread_timeout: as a resume, with an error, and the scheduler runs.   *)
LEMMA TimesOut ==
  ASSUME NEW gone, NEW reaped, NEW least, NEW kk \in Good(gone, reaped, least), NEW t \in Threads \ gone,
         kk.stat[t] = "SUSPEND", t \notin Owners(kk.timers)
  PROVE  LET r == rt_thread_timeout(kk, t) IN
         /\ r \in Good(gone, reaped, least) /\ OnlyWakes(kk, r) /\ r.timers = kk.timers
         /\ Settled(kk, r) /\ Refuses(kk, r)
         /\ kk.current \notin gone => r.current \notin gone
         /\ r.stat = [kk.stat EXCEPT ![t] = "READY"]
<1> DEFINE z == [kk EXCEPT !.err[t] = "ETIMEOUT"]
           a == list_remove(z, t)
           b == rt_schedule_insert_thread(a, t)
           r == rt_schedule(b)
<1>0. rt_thread_timeout(kk, t) = r
  BY DEF rt_thread_timeout
<1>1. /\ z \in Good(gone, reaped, least) /\ OnlyWakes(kk, z)
      /\ z.current = kk.current /\ z.stat = kk.stat /\ z.timers = kk.timers
      /\ z.prio = kk.prio /\ z.wait = kk.wait
  BY SetsError
<1>13. z.err = [kk.err EXCEPT ![t] = "ETIMEOUT"]
  BY GoodData DEF KernelData
<1> HIDE DEF z
<1>2. /\ a \in Good(gone, reaped, least)
      /\ \A p \in Prios : t \notin ToSet(a.ready[p])
      /\ \A q \in Queues : t \notin ToSet(a.wait[q])
      /\ a.static = z.static /\ a.current = z.current /\ a.nest = z.nest
      /\ a.timers = z.timers /\ a.stat = z.stat
      /\ a.err = z.err /\ a.prio = z.prio /\ a.wait = Less(z, t)
  BY <1>1, Delists
<1> HIDE DEF a
<1>3. /\ b \in Good(gone \ {t}, reaped, least)
      /\ b.static = a.static /\ b.current = a.current /\ b.nest = a.nest
      /\ b.timers = a.timers /\ b.stat = [a.stat EXCEPT ![t] = "READY"]
      /\ b.err = a.err /\ b.prio = a.prio /\ b.wait = a.wait
  <2>1. a.stat[t] # "CLOSE" /\ t \notin Owners(a.timers)
    BY <1>1, <1>2
  <2> QED BY <1>2, <2>1, Enters
<1> HIDE DEF b
<1>4. gone \ {t} = gone
  OBVIOUS
<1>5. b \in Good(gone, reaped, least)
  BY <1>3, <1>4
<1>6. /\ r \in Good(gone, reaped, least) /\ OnlyWakes(b, r) /\ r.timers = b.timers
      /\ b.nest = 0 => Top(r)
      /\ Refuses(b, r) /\ r.stat = b.stat /\ (b.current \notin gone => r.current \notin gone)
  BY <1>5, Schedules
<1> HIDE DEF r
<1>7. OnlyWakes(kk, b)
  <2>1. b.stat = [kk.stat EXCEPT ![t] = "READY"] /\ kk.stat \in [Threads -> Stats]
    BY <1>1, <1>2, <1>3, GoodData, Typed
  <2> QED BY <1>1, <1>2, <1>3, <2>1 DEF OnlyWakes
<1>8. kk \in KernelData /\ b \in KernelData /\ r \in KernelData
  BY <1>5, <1>6, GoodData
<1>9. OnlyWakes(kk, r)
  BY <1>6, <1>7, <1>8, WakesAgain
<1>10. Settled(kk, r)
  BY <1>6, <1>7, <1>9 DEF Settled, OnlyWakes
<1>11. Refuses(kk, b)
  <2>1. \A q \in Queues : Thinner(kk.wait[q], b.wait[q])
    <3>1. z \in KernelData /\ OnceEach(z)
      BY <1>1, GoodData, GoodOnce
    <3> QED BY <1>1, <1>2, <1>3, <3>1, LessIsThinner
  <2>2. ASSUME NEW u \in Threads PROVE SameOrRefused(kk, b, u)
    <3>1. b.stat = [kk.stat EXCEPT ![t] = "READY"] /\ kk.stat \in [Threads -> Stats]
      BY <1>1, <1>2, <1>3, GoodData, Typed
    <3>2. b.err = [kk.err EXCEPT ![t] = "ETIMEOUT"]
          /\ kk.err \in [Threads -> {"EOK", "ERROR", "ETIMEOUT"}]
      BY <1>2, <1>3, <1>13, GoodData, Typed
    <3> QED BY <3>1, <3>2 DEF SameOrRefused
  <2>3. b.prio = kk.prio
    BY <1>1, <1>2, <1>3
  <2> QED BY <2>1, <2>2, <2>3 DEF Refuses
<1>12. Refuses(kk, r)
  BY <1>6, <1>11, RefusesAgain
<1> QED BY <1>0, <1>1, <1>2, <1>3, <1>6, <1>9, <1>10, <1>12

LEMMA SameLists ==
  ASSUME NEW off, NEW reaped, NEW least, NEW kk \in Good(off, reaped, least), NEW r \in KernelData,
         r.static = kk.static, r.defunct = kk.defunct, r.timers = kk.timers, r.stat = kk.stat,
         r.prio = kk.prio, r.group = kk.group, r.ready = kk.ready, r.wait = kk.wait
  PROVE  r \in Good(off, reaped, least)
<1>1. Linked(kk, off, reaped, least)
  BY GoodData
<1>2. ReadyLinked(r, off) /\ WaitLinked(r, off)
  BY <1>1 DEF Linked, ReadyLinked, WaitLinked
<1>3. DeadLinked(r, reaped) /\ TimersLinked(r, least)
  BY <1>1 DEF Linked, DeadLinked, TimersLinked
<1>4. GroupLinked(r) /\ IdleLinked(r, off)
  BY <1>1 DEF Linked, GroupLinked, IdleLinked
<1> QED BY <1>2, <1>3, <1>4 DEF Good, Linked

LEMMA Reprioritized ==
  ASSUME NEW off, NEW reaped, NEW least, NEW kk \in Good(off, reaped, least), NEW t \in Threads,
         kk.stat[t] # "READY" \/ t \in off, NEW p \in Prios, NEW r, r = [kk EXCEPT !.prio[t] = p]
  PROVE  /\ r \in Good(off, reaped, least)
         /\ r.static = kk.static /\ r.current = kk.current /\ r.nest = kk.nest
         /\ r.timers = kk.timers /\ r.stat = kk.stat /\ r.ready = kk.ready /\ r.wait = kk.wait
<1> DEFINE prio == [kk.prio EXCEPT ![t] = p]
<1>1. kk \in KernelData /\ Linked(kk, off, reaped, least)
  BY GoodData
<1>2. /\ prio \in [Threads -> Prios]
      /\ \A u \in Threads : prio[u] = IF u = t THEN p ELSE kk.prio[u]
  BY <1>1, Typed
<1>3. r = [kk EXCEPT !.prio = prio]
  OBVIOUS
<1> HIDE DEF prio
<1>4. /\ r \in KernelData /\ r.ready = kk.ready /\ r.wait = kk.wait
      /\ r.defunct = kk.defunct /\ r.static = kk.static /\ r.current = kk.current
      /\ r.nest = kk.nest /\ r.timers = kk.timers /\ r.stat = kk.stat /\ r.prio = prio
      /\ r.group = kk.group
  BY <1>1, <1>2, <1>3 DEF KernelData
<1>5. ReadyLinked(r, off)
  BY <1>1, <1>2, <1>4 DEF Linked, ReadyLinked
<1>6. WaitLinked(r, off) /\ DeadLinked(r, reaped)
  BY <1>1, <1>4 DEF Linked, WaitLinked, DeadLinked
<1>7. TimersLinked(r, least) /\ GroupLinked(r) /\ IdleLinked(r, off)
  BY <1>1, <1>4 DEF Linked, TimersLinked, GroupLinked, IdleLinked
<1> QED BY <1>4, <1>5, <1>6, <1>7 DEF Good, Linked

(* rt_thread_change_priority moves a READY thread to the list of its new    *)
(* priority, and wakes nobody.                                              *)
LEMMA ChangesPriority ==
  ASSUME NEW gone, NEW reaped, NEW least, NEW kk \in Good(gone, reaped, least), NEW t \in Threads \ {Idle},
         kk.stat[t] = "READY" => t \notin gone, NEW p \in Prios, NEW r, r = rt_thread_change_priority(kk, t, p)
  PROVE  /\ r \in Good(gone, reaped, least) /\ OnlyWakes(kk, r)
         /\ r.current = kk.current /\ r.stat = kk.stat
         /\ \A q \in Queues : ToSet(r.wait[q]) = ToSet(kk.wait[q])
         /\ r.wait = kk.wait /\ r.err = kk.err /\ r.timers = kk.timers
         /\ \A u \in Threads : r.prio[u] = IF u = t THEN p ELSE kk.prio[u]
<1>1. CASE kk.stat[t] # "READY"
  <2>1. r = [kk EXCEPT !.prio[t] = p]
    BY <1>1 DEF rt_thread_change_priority
  <2>2. /\ r \in Good(gone, reaped, least)
        /\ r.static = kk.static /\ r.current = kk.current /\ r.nest = kk.nest
        /\ r.stat = kk.stat /\ r.wait = kk.wait /\ r.timers = kk.timers
    BY <1>1, <2>1, Reprioritized
  <2>3. /\ r.err = kk.err
        /\ \A u \in Threads : r.prio[u] = IF u = t THEN p ELSE kk.prio[u]
    BY <2>1, GoodData DEF KernelData
  <2> QED BY <2>2, <2>3 DEF OnlyWakes
<1>2. CASE kk.stat[t] = "READY"
  <2> DEFINE a == rt_schedule_remove_thread(kk, t)
             b == [a EXCEPT !.prio[t] = p]
  <2>1. /\ a \in Good(gone \cup {t}, reaped, least)
        /\ \A z \in Prios : t \notin ToSet(a.ready[z])
        /\ \A q \in Queues : ToSet(a.wait[q]) = ToSet(kk.wait[q]) \ {t}
        /\ a.static = kk.static /\ a.current = kk.current /\ a.nest = kk.nest
        /\ a.timers = kk.timers /\ a.stat = kk.stat /\ a.err = kk.err /\ a.prio = kk.prio
        /\ a.wait = Less(kk, t)
    BY <1>2, Unlinks
  <2>2. r = rt_schedule_insert_thread(b, t)
    BY <1>2 DEF rt_thread_change_priority
  <2> HIDE DEF a
  <2>3. /\ b \in Good(gone \cup {t}, reaped, least)
        /\ b.static = a.static /\ b.current = a.current /\ b.nest = a.nest
        /\ b.timers = a.timers /\ b.stat = a.stat /\ b.ready = a.ready /\ b.wait = a.wait
    BY <2>1, Reprioritized
  <2>17. b.err = a.err /\ b.prio = [a.prio EXCEPT ![t] = p]
    BY <2>1, GoodData DEF KernelData
  <2> HIDE DEF b
  <2>4. kk \in KernelData /\ Linked(kk, gone, reaped, least)
    BY GoodData
  <2>5. t \notin Owners(kk.timers)
    BY <1>2, <2>4 DEF Linked, TimersLinked, Owners
  <2>6. \A q \in Queues : t \notin ToSet(kk.wait[q])
    BY <1>2, <2>4 DEF Linked, WaitLinked
  <2>7. /\ r \in Good((gone \cup {t}) \ {t}, reaped, least)
        /\ r.static = b.static /\ r.current = b.current /\ r.nest = b.nest
        /\ r.stat = [b.stat EXCEPT ![t] = "READY"] /\ r.timers = b.timers
    <3>1. /\ \A z \in Prios : t \notin ToSet(b.ready[z])
          /\ \A q \in Queues : t \notin ToSet(b.wait[q])
          /\ t \notin Owners(b.timers) /\ b.stat[t] # "CLOSE"
      BY <1>2, <2>1, <2>3, <2>5
    <3>2. b \in Good(gone \cup {t}, reaped, least)
      BY <2>3
    <3> QED BY <2>2, <3>1, <3>2, Enters
  <2>8. r.stat = kk.stat
    <3>1. kk.stat \in [Threads -> Stats]
      BY <2>4, Typed
    <3> QED BY <1>2, <2>1, <2>3, <2>7, <3>1
  <2>9. r.wait = b.wait /\ r.err = b.err /\ r.prio = b.prio
    <3>1. b \in KernelData
      BY <2>3, GoodData
    <3> QED BY <2>2, <3>1 DEF rt_schedule_insert_thread, KernelData
  <2>10. \A q \in Queues : ToSet(r.wait[q]) = ToSet(kk.wait[q])
    <3>1. \A q \in Queues : ToSet(kk.wait[q]) \ {t} = ToSet(kk.wait[q])
      BY <2>6
    <3> QED BY <2>1, <2>3, <2>9, <3>1
  <2>11. (gone \cup {t}) \ {t} = gone
    BY <1>2
  <2>12. r \in Good(gone, reaped, least) /\ r.current = kk.current
    BY <2>1, <2>3, <2>7, <2>11
  <2>13. OnlyWakes(kk, r)
    BY <2>1, <2>3, <2>7, <2>8 DEF OnlyWakes
  <2>14. r.err = kk.err /\ \A u \in Threads : r.prio[u] = IF u = t THEN p ELSE kk.prio[u]
    <3>1. kk.prio \in [Threads -> Prios]
      BY <2>4, Typed
    <3> QED BY <2>1, <2>9, <2>17, <3>1
  <2>15. Less(kk, t) = kk.wait
    BY <2>4, <2>6, GoodOnce, LessIsSame
  <2>16. r.wait = kk.wait /\ r.timers = kk.timers
    BY <2>1, <2>3, <2>7, <2>9, <2>15
  <2> QED BY <2>8, <2>10, <2>12, <2>13, <2>14, <2>16
<1> QED BY <1>1, <1>2

(* rt_thread_yield: the running thread goes behind its peers.               *)
LEMMA GoesLast ==
  ASSUME NEW gone, NEW reaped, NEW least, NEW kk \in Good(gone, reaped, least),
         kk.current \notin gone, has_peers(kk), NEW r, r = goes_last(kk)
  PROVE  /\ r \in Good(gone, reaped, least)
         /\ r.wait = kk.wait /\ r.static = kk.static /\ r.current = kk.current
         /\ r.nest = kk.nest /\ r.timers = kk.timers /\ r.stat = kk.stat /\ r.prio = kk.prio
         /\ r.group = kk.group /\ r.err = kk.err
<1> DEFINE t == kk.current
           p == kk.prio[t]
           l == Append(RemoveFirst(kk.ready[p], t), t)
           ready == [kk.ready EXCEPT ![p] = l]
<1>1. kk \in KernelData /\ Linked(kk, gone, reaped, least)
  BY GoodData
<1>2. kk.stat[t] = "READY" /\ r = [kk EXCEPT !.ready = ready]
  BY DEF has_peers, goes_last
<1>3. t \in Threads /\ p \in Prios /\ kk.ready[p] \in Seq(Threads) /\ kk.ready \in [Prios -> Seq(Threads)]
  BY <1>1, Typed
<1>4. IsInjective(kk.ready[p]) /\ t \in ToSet(kk.ready[p])
  BY <1>1, <1>2, <1>3 DEF Linked, ReadyLinked
<1> HIDE DEF p, t
<1>5. l \in Seq(Threads) /\ ToSet(l) = ToSet(kk.ready[p]) /\ IsInjective(l)
  <2> DEFINE o == RemoveFirst(kk.ready[p], t)
  <2>1. o \in Seq(Threads) /\ ToSet(o) = ToSet(kk.ready[p]) \ {t} /\ IsInjective(o)
    BY <1>3, <1>4, Leaves
  <2> HIDE DEF o
  <2>2. /\ Append(o, t) \in Seq(Threads) /\ ToSet(Append(o, t)) = ToSet(o) \cup {t}
        /\ IsInjective(Append(o, t))
    BY <1>3, <2>1, Joins
  <2>3. l = Append(o, t)
    BY DEF o
  <2> QED BY <1>4, <2>1, <2>2, <2>3
<1> HIDE DEF l
<1>6. /\ ready \in [Prios -> Seq(Threads)]
      /\ \A z \in Prios : ready[z] = IF z = p THEN l ELSE kk.ready[z]
  BY <1>3, <1>5
<1> HIDE DEF ready
<1>7. /\ r \in KernelData /\ r.ready = ready /\ r.wait = kk.wait
      /\ r.defunct = kk.defunct /\ r.static = kk.static /\ r.current = kk.current
      /\ r.nest = kk.nest /\ r.timers = kk.timers /\ r.stat = kk.stat /\ r.prio = kk.prio
      /\ r.group = kk.group /\ r.err = kk.err
  BY <1>1, <1>2, <1>6 DEF KernelData
<1>8. \A z \in Prios : IsInjective(ready[z]) /\ ToSet(ready[z]) = ToSet(kk.ready[z])
  BY <1>1, <1>5, <1>6 DEF Linked, ReadyLinked
<1>9. ReadyLinked(r, gone)
  BY <1>1, <1>7, <1>8 DEF Linked, ReadyLinked
<1>10. WaitLinked(r, gone) /\ DeadLinked(r, reaped)
  BY <1>1, <1>7 DEF Linked, WaitLinked, DeadLinked
<1>11. TimersLinked(r, least) /\ IdleLinked(r, gone)
  BY <1>1, <1>7 DEF Linked, TimersLinked, IdleLinked
<1>12. GroupLinked(r)
  <2>1. \A z \in Prios : ready[z] = <<>> <=> kk.ready[z] = <<>>
    BY <1>3, <1>6, <1>8, Positions
  <2> QED BY <1>1, <1>7, <2>1 DEF Linked, GroupLinked
<1>13. r \in Good(gone, reaped, least)
  BY <1>7, <1>9, <1>10, <1>11, <1>12 DEF Good, Linked
<1> QED BY <1>7, <1>13

LEMMA Yields ==
  ASSUME NEW gone, NEW reaped, NEW least, NEW kk \in Good(gone, reaped, least),
         kk.current \notin gone, NEW r, r = rt_thread_yield(kk)
  PROVE  /\ r \in Good(gone, reaped, least) /\ OnlyWakes(kk, r) /\ r.timers = kk.timers
         /\ Settled(kk, r) /\ Refuses(kk, r) /\ r.current \notin gone /\ r.stat = kk.stat
<1> DEFINE b == goes_last(kk)
<1>1. kk \in KernelData
  BY GoodData
<1>2. CASE ~has_peers(kk)
  <2>1. r = kk
    BY <1>2 DEF rt_thread_yield
  <2>2. Refuses(kk, kk)
    BY RefusesNobody
  <2> QED BY <2>1, <2>2 DEF OnlyWakes, Settled
<1>3. CASE has_peers(kk)
  <2>1. r = rt_schedule(b)
    BY <1>3 DEF rt_thread_yield
  <2>2. /\ b \in Good(gone, reaped, least)
        /\ b.wait = kk.wait /\ b.static = kk.static /\ b.current = kk.current
        /\ b.nest = kk.nest /\ b.timers = kk.timers /\ b.stat = kk.stat /\ b.prio = kk.prio
        /\ b.group = kk.group /\ b.err = kk.err
    BY <1>3, GoesLast
  <2> HIDE DEF b
  <2>3. /\ r.current \notin gone /\ r.stat = b.stat
        /\ r \in Good(gone, reaped, least) /\ OnlyWakes(b, r) /\ r.timers = b.timers
        /\ Settled(b, r) /\ Refuses(b, r)
    BY <2>1, <2>2, Schedules
  <2>4. OnlyWakes(kk, b) /\ Settled(kk, b)
    BY <2>2 DEF OnlyWakes, Settled
  <2>5. r \in KernelData /\ b \in KernelData
    BY <2>2, <2>3, GoodData
  <2>6. Settled(kk, r)
    BY <2>3, <2>4, SettledAgain
  <2>7. Refuses(kk, r)
    <3>1. Refuses(kk, b)
      BY <2>2, RefusesNobody
    <3> QED BY <2>3, <3>1, RefusesAgain
  <2> QED BY <1>1, <2>2, <2>3, <2>4, <2>5, <2>6, <2>7, WakesAgain
<1> QED BY <1>2, <1>3

(***************************************************************************)
(* The clock tick.                                                         *)
(***************************************************************************)
LEMMA Stays ==
  ASSUME NEW n \in Nat, NEW S, NEW a, a[0] \in S, \A i \in 1 .. n : a[i - 1] \in S => a[i] \in S
  PROVE  \A i \in 0 .. n : a[i] \in S
<1> DEFINE Bad == {i \in 0 .. n : a[i] \notin S}
<1> SUFFICES ASSUME Bad # {} PROVE FALSE
  OBVIOUS
<1>1. Bad \in SUBSET Nat /\ \A i \in Bad : i \in 0 .. n /\ a[i] \notin S
  OBVIOUS
<1>2. \A i \in 0 .. n : i \notin Bad => a[i] \in S
  OBVIOUS
<1> HIDE DEF Bad
<1>3. PICK i \in Bad : \A j \in Bad : i <= j
  BY <1>1, Least
<1>4. i \in 1 .. n
  BY <1>1
<1>5. i - 1 \in 0 .. n /\ ~(i <= i - 1)
  BY <1>4
<1>6. a[i - 1] \in S
  BY <1>2, <1>3, <1>5
<1> QED BY <1>1, <1>4, <1>6

LEMMA FirstTimer ==
  ASSUME NEW l \in Seq(Running), l # <<>>, InOrder(l)
  PROVE  /\ Head(l) = l[1] /\ Head(l) \in Running /\ Tail(l) \in Seq(Running) /\ InOrder(Tail(l))
         /\ Len(l) \in Nat /\ Len(l) > 0 /\ Len(Tail(l)) = Len(l) - 1 /\ 1 \in DOMAIN l
         /\ Head(l).thread \notin Owners(Tail(l))
         /\ \A i \in DOMAIN Tail(l) : i + 1 \in DOMAIN l /\ Tail(l)[i] = l[i + 1]
         /\ \A i \in DOMAIN l : l[i].left \in Nat /\ Head(l).left <= l[i].left
<1>1. /\ Head(l) = l[1] /\ Head(l) \in Running /\ Tail(l) \in Seq(Running)
      /\ Len(l) \in Nat /\ Len(l) > 0 /\ Len(Tail(l)) = Len(l) - 1
      /\ DOMAIN l = 1 .. Len(l) /\ DOMAIN Tail(l) = 1 .. (Len(l) - 1)
      /\ \A i \in 1 .. (Len(l) - 1) : Tail(l)[i] = l[i + 1]
      /\ \A i \in DOMAIN l : l[i] \in Running
  <2>1. Len(l) \in Nat /\ Len(l) > 0 /\ DOMAIN l = 1 .. Len(l) /\ \A i \in DOMAIN l : l[i] \in Running
    OBVIOUS
  <2>2. Head(l) = l[1] /\ Head(l) \in Running
    BY <2>1
  <2>3. /\ Tail(l) \in Seq(Running) /\ Len(Tail(l)) = Len(l) - 1
        /\ \A i \in 1 .. (Len(l) - 1) : Tail(l)[i] = l[i + 1]
    BY HeadTailProperties
  <2>4. DOMAIN Tail(l) = 1 .. (Len(l) - 1)
    BY <2>3
  <2> QED BY <2>1, <2>2, <2>3, <2>4
<1> DEFINE m == Tail(l)
<1> HIDE DEF m
<1>2. \A i \in DOMAIN m : i + 1 \in DOMAIN l /\ i + 1 # 1 /\ m[i] = l[i + 1]
  BY <1>1 DEF m
<1>3. InOrder(m)
  <2>1. \A i, j \in DOMAIN m : (i + 1 = j + 1 => i = j) /\ (i < j => i + 1 < j + 1)
    BY <1>1 DEF m
  <2> QED BY <1>2, <2>1 DEF InOrder
<1>4. Head(l).thread \notin Owners(m)
  BY <1>1, <1>2 DEF InOrder, Owners
<1>5. \A y \in Running : y.left \in Nat
  BY DEF Running
<1>6. ASSUME NEW i \in DOMAIN l PROVE Head(l).left <= l[i].left
  <2>1. CASE i = 1
    BY <1>1, <1>5, <2>1
  <2>2. CASE i # 1
    <3>1. 1 < i /\ 1 \in DOMAIN l
      BY <1>1, <2>2
    <3> QED BY <1>1, <3>1 DEF InOrder
  <2> QED BY <2>1, <2>2
<1>7. 1 \in DOMAIN l
  BY <1>1
<1> QED BY <1>1, <1>2, <1>3, <1>4, <1>5, <1>6, <1>7 DEF m

(* One round of rt_timer_check.                                             *)
LEMMA Expires ==
  ASSUME NEW gone, NEW reaped, NEW kk \in Good(gone, reaped, 0), kk.current \notin gone,
         NEW kept, gone \subseteq kept, NotDue(kk, 0, kept), NEW e, NEW r, r = expires(kk, e)
  PROVE  /\ r \in Good(gone, reaped, 0) /\ OnlyWakes(kk, r) /\ Settled(kk, r) /\ Refuses(kk, r)
         /\ r.current \notin gone
         /\ NotDue(r, 0, kept) /\ Spares(kk, r, kept)
         /\ r.timers = IF kk.timers # <<>> /\ Head(kk.timers).left = 0
                       THEN Tail(kk.timers) ELSE kk.timers
<1>1. CASE ~(kk.timers # <<>> /\ Head(kk.timers).left = 0)
  <2>1. Refuses(kk, kk)
    BY RefusesNobody
  <2> QED BY <1>1, <2>1 DEF expires, OnlyWakes, Settled, Spares
<1>2. CASE kk.timers # <<>> /\ Head(kk.timers).left = 0
  <2> DEFINE t == Head(kk.timers).thread
             l == Tail(kk.timers)
             z == [kk EXCEPT !.timers = l]
  <2>1. r = rt_thread_timeout(z, t)
    BY <1>2 DEF expires
  <2>2. kk \in KernelData /\ Linked(kk, gone, reaped, 0) /\ kk.timers \in Seq(Running)
    BY GoodData, Typed
  <2>3. InOrder(kk.timers)
    BY <2>2 DEF Linked, TimersLinked
  <2>4. /\ Head(kk.timers) = kk.timers[1] /\ Head(kk.timers) \in Running
        /\ l \in Seq(Running) /\ InOrder(l) /\ t \notin Owners(l) /\ 1 \in DOMAIN kk.timers
        /\ \A i \in DOMAIN l : i + 1 \in DOMAIN kk.timers /\ l[i] = kk.timers[i + 1]
    BY <1>2, <2>2, <2>3, FirstTimer
  <2>5. t \in Threads \ gone /\ t \notin kept /\ kk.stat[t] = "SUSPEND"
    <3>1. t \in Threads
      BY <2>4 DEF Running
    <3>2. t \notin gone /\ t \notin kept
      BY <1>2, <2>4 DEF NotDue
    <3> QED BY <2>2, <2>4, <3>1, <3>2 DEF Linked, TimersLinked
  <2> HIDE DEF l, t
  <2>6. /\ z \in KernelData /\ z.ready = kk.ready /\ z.wait = kk.wait
        /\ z.defunct = kk.defunct /\ z.static = kk.static /\ z.current = kk.current
        /\ z.nest = kk.nest /\ z.timers = l /\ z.stat = kk.stat /\ z.prio = kk.prio
        /\ z.group = kk.group /\ z.err = kk.err
    BY <2>2, <2>4 DEF KernelData
  <2> HIDE DEF z
  <2>7. TimersLinked(z, 0)
    BY <2>2, <2>4, <2>6 DEF Linked, TimersLinked
  <2>8. ReadyLinked(z, gone) /\ WaitLinked(z, gone)
    BY <2>2, <2>6 DEF Linked, ReadyLinked, WaitLinked
  <2>9. DeadLinked(z, reaped) /\ GroupLinked(z) /\ IdleLinked(z, gone)
    BY <2>2, <2>6 DEF Linked, DeadLinked, GroupLinked, IdleLinked
  <2>10. z \in Good(gone, reaped, 0)
    BY <2>6, <2>7, <2>8, <2>9 DEF Good, Linked
  <2>11. z.stat[t] = "SUSPEND" /\ t \notin Owners(z.timers)
    BY <2>4, <2>5, <2>6
  <2>12. /\ r \in Good(gone, reaped, 0) /\ OnlyWakes(z, r) /\ r.timers = z.timers
         /\ Settled(z, r) /\ Refuses(z, r) /\ r.current \notin gone
         /\ r.stat = [z.stat EXCEPT ![t] = "READY"]
    BY <2>1, <2>5, <2>6, <2>10, <2>11, TimesOut
  <2>13. OnlyWakes(kk, z) /\ Settled(kk, z)
    BY <2>6 DEF OnlyWakes, Settled
  <2>14. r \in KernelData
    BY <2>12, GoodData
  <2>15. Settled(kk, r)
    BY <2>12, <2>13, SettledAgain
  <2>16. Refuses(kk, r)
    <3>1. Refuses(kk, z)
      BY <2>6, RefusesNobody
    <3> QED BY <2>12, <3>1, RefusesAgain
  <2>17. NotDue(r, 0, kept)
    BY <2>4, <2>6, <2>12 DEF NotDue
  <2>18. Spares(kk, r, kept)
    <3>1. Owners(r.timers) \subseteq Owners(kk.timers)
      BY <2>4, <2>6, <2>12 DEF Owners
    <3>2. kk.stat \in [Threads -> Stats]
      BY <2>2, Typed
    <3> QED BY <2>5, <2>6, <2>12, <3>1, <3>2 DEF Spares
  <2> QED BY <1>2, <2>2, <2>6, <2>12, <2>13, <2>14, <2>15, <2>16, <2>17, <2>18, WakesAgain DEF l
<1> QED BY <1>1, <1>2

Older(kk) == [kk EXCEPT !.timers = aged(kk.timers)]
LEMMA Ages ==
  ASSUME NEW gone, NEW reaped, NEW kk \in Good(gone, reaped, 1), kk.current \notin gone,
         NEW kept, NotDue(kk, 1, kept), NEW r, r = Older(kk)
  PROVE  /\ r \in Good(gone, reaped, 0) /\ OnlyWakes(kk, r) /\ Settled(kk, r) /\ Refuses(kk, r)
         /\ r.current \notin gone
         /\ NotDue(r, 0, kept) /\ Spares(kk, r, kept)
         /\ Len(r.timers) = Len(kk.timers)
<1> DEFINE l == kk.timers
           m == aged(l)
<1>1. kk \in KernelData /\ Linked(kk, gone, reaped, 1) /\ l \in Seq(Running) /\ MaxWait \in Nat
  BY GoodData, Typed, KernelAssumption
<1>2. /\ DOMAIN l = 1 .. Len(l) /\ Len(l) \in Nat /\ InOrder(l)
      /\ \A i \in DOMAIN l : l[i].left \in 1 .. MaxWait /\ kk.stat[l[i].thread] = "SUSPEND"
  BY <1>1 DEF Linked, TimersLinked
<1>17. \A i \in DOMAIN l : l[i].left = 1 => l[i].thread \notin kept
  BY DEF NotDue
<1>3. \A i \in DOMAIN l : l[i] \in Running
  BY <1>1
<1>4. \A y \in Running : /\ y.thread \in Threads
                         /\ [y EXCEPT !.left = y.left - 1].thread = y.thread
                         /\ [y EXCEPT !.left = y.left - 1].left = y.left - 1
                         /\ y.left >= 1 => [y EXCEPT !.left = y.left - 1] \in Running
  BY DEF Running
<1>5. m = [i \in DOMAIN l |-> [l[i] EXCEPT !.left = l[i].left - 1]]
  BY DEF aged
<1> HIDE DEF m, l
<1>6. /\ DOMAIN m = DOMAIN l
      /\ \A i \in DOMAIN l : /\ m[i] \in Running /\ m[i].thread = l[i].thread
                             /\ m[i].left = l[i].left - 1
  <2>1. \A i \in DOMAIN l : l[i].left >= 1
    BY <1>2
  <2> QED BY <1>3, <1>4, <1>5, <2>1
<1>7. m \in Seq(Running) /\ Len(m) = Len(l)
  <2>1. m \in [1 .. Len(l) -> Running]
    BY <1>2, <1>5, <1>6
  <2> QED BY <1>2, <2>1
<1>8. InOrder(m)
  <2>1. ASSUME NEW i \in DOMAIN m, NEW j \in DOMAIN m, i < j PROVE m[i].left <= m[j].left
    <3>1. l[i].left <= l[j].left
      BY <1>2, <1>6, <2>1 DEF InOrder
    <3> QED BY <1>2, <1>6, <3>1
  <2>2. ASSUME NEW i \in DOMAIN m, NEW j \in DOMAIN m, m[i].thread = m[j].thread PROVE i = j
    BY <1>2, <1>6, <2>2 DEF InOrder
  <2> QED BY <2>1, <2>2 DEF InOrder
<1>9. r = [kk EXCEPT !.timers = m]
  BY DEF m, l, Older
<1>10. /\ r \in KernelData /\ r.ready = kk.ready /\ r.wait = kk.wait
       /\ r.defunct = kk.defunct /\ r.static = kk.static /\ r.current = kk.current
       /\ r.nest = kk.nest /\ r.timers = m /\ r.stat = kk.stat /\ r.prio = kk.prio
       /\ r.group = kk.group /\ r.err = kk.err
  BY <1>1, <1>7, <1>9 DEF KernelData
<1>11. TimersLinked(r, 0)
  <2>1. \A i \in DOMAIN m : m[i].left \in 0 .. MaxWait
    BY <1>1, <1>2, <1>6
  <2> QED BY <1>2, <1>6, <1>8, <1>10, <2>1 DEF TimersLinked
<1>12. ReadyLinked(r, gone) /\ WaitLinked(r, gone)
  BY <1>1, <1>10 DEF Linked, ReadyLinked, WaitLinked
<1>13. DeadLinked(r, reaped) /\ GroupLinked(r) /\ IdleLinked(r, gone)
  BY <1>1, <1>10 DEF Linked, DeadLinked, GroupLinked, IdleLinked
<1>14. r \in Good(gone, reaped, 0)
  BY <1>10, <1>11, <1>12, <1>13 DEF Good, Linked
<1>15. OnlyWakes(kk, r) /\ Settled(kk, r)
  BY <1>10 DEF OnlyWakes, Settled
<1>16. Refuses(kk, r)
  BY <1>10, RefusesNobody
<1>18. NotDue(r, 0, kept)
  <2>1. \A i \in DOMAIN m : m[i].left = 0 => l[i].left = 1
    BY <1>2, <1>6
  <2> QED BY <1>6, <1>10, <1>17, <2>1 DEF NotDue
<1>19. Spares(kk, r, kept)
  <2>1. Owners(m) \subseteq Owners(l)
    BY <1>6 DEF Owners
  <2> QED BY <1>10, <2>1 DEF Spares, l
<1> QED BY <1>7, <1>10, <1>14, <1>15, <1>16, <1>18, <1>19 DEF l

(* rt_timer_check looks at the front of the list as often as there are      *)
(* timers, so no timer that is due stays.                                   *)
LEMMA ChecksTimers ==
  ASSUME NEW gone, NEW reaped, NEW kk \in Good(gone, reaped, 1), kk.current \notin gone,
         NEW kept, gone \subseteq kept, NotDue(kk, 1, kept),
         NEW r, r = rt_timer_check(kk)
  PROVE  /\ r \in Good(gone, reaped, 1) /\ OnlyWakes(kk, r) /\ Settled(kk, r) /\ Refuses(kk, r)
         /\ r.current \notin gone /\ Spares(kk, r, kept)
<1> DEFINE x == Older(kk)
           s == kk.timers
           n == Len(s)
           Spared(z) == z.current \notin gone /\ NotDue(z, 0, kept) /\ Spares(kk, z, kept)
           S == {z \in Good(gone, reaped, 0) : /\ OnlyWakes(kk, z) /\ Settled(kk, z) /\ Refuses(kk, z)
                                               /\ Spared(z)}
           Loop(h) == [i \in 0 .. n |-> IF i = 0 THEN x ELSE expires(h[i - 1], s[i])]
           after == CHOOSE h : h = Loop(h)
<1>1. kk \in KernelData /\ s \in Seq(Running) /\ n \in Nat
  BY GoodData, Typed
<1>2. x \in S /\ Len(x.timers) = n
  <2>1. /\ x \in Good(gone, reaped, 0) /\ OnlyWakes(kk, x) /\ Settled(kk, x) /\ Refuses(kk, x)
        /\ x.current \notin gone /\ NotDue(x, 0, kept) /\ Spares(kk, x, kept)
        /\ Len(x.timers) = n
    BY Ages
  <2> HIDE DEF x, n
  <2> QED BY <2>1
<1>3. r = after[n]
  BY DEF rt_timer_check, Along, Older
<1>4. ASSUME NEW z \in S, NEW e
      PROVE  /\ expires(z, e) \in S
             /\ expires(z, e).timers = IF z.timers # <<>> /\ Head(z.timers).left = 0
                                       THEN Tail(z.timers) ELSE z.timers
  <2>1. /\ z \in Good(gone, reaped, 0) /\ OnlyWakes(kk, z) /\ Settled(kk, z) /\ Refuses(kk, z)
        /\ Spared(z)
    OBVIOUS
  <2> DEFINE y == expires(z, e)
  <2>2. /\ y \in Good(gone, reaped, 0) /\ OnlyWakes(z, y) /\ Settled(z, y) /\ Refuses(z, y)
        /\ y.current \notin gone /\ NotDue(y, 0, kept) /\ Spares(z, y, kept)
        /\ y.timers = IF z.timers # <<>> /\ Head(z.timers).left = 0
                      THEN Tail(z.timers) ELSE z.timers
    BY <2>1, Expires
  <2> HIDE DEF y
  <2>3. z \in KernelData /\ y \in KernelData
    BY <2>1, <2>2, GoodData
  <2>4. OnlyWakes(kk, y)
    BY <1>1, <2>1, <2>2, <2>3, WakesAgain
  <2>5. Settled(kk, y)
    BY <2>1, <2>2, SettledAgain
  <2>6. Refuses(kk, y)
    BY <2>1, <2>2, RefusesAgain
  <2>7. Spares(kk, y, kept)
    BY <2>1, <2>2 DEF Spares
  <2> QED BY <2>2, <2>4, <2>5, <2>6, <2>7 DEF y
<1> HIDE DEF x, s, n, S
<1>5. \E g : g = Loop(g)
  <2> DEFINE f == [w \in S \X Running |-> expires(w[1], w[2])]
  <2>1. f \in [S \X Running -> S]
    BY <1>4
  <2>2. PICK g \in [0 .. Len(s) -> S] : Iterates(g, f, x, s)
    <3>1. x \in S /\ s \in Seq(Running)
      BY <1>1, <1>2
    <3> HIDE DEF f
    <3> QED BY <2>1, <3>1, Folds
  <2>3. ASSUME NEW i \in 0 .. n, i # 0 PROVE f[<<g[i - 1], s[i]>>] = expires(g[i - 1], s[i])
    <3>1. i - 1 \in 0 .. Len(s) /\ i \in 1 .. Len(s)
      BY <1>1, <2>3 DEF n
    <3>2. g[i - 1] \in S
      BY <2>2, <3>1, Zenon
    <3>3. s[i] \in Running
      BY <1>1, <3>1
    <3> QED BY <3>2, <3>3
  <2>4. g = Loop(g)
    <3> HIDE DEF f
    <3>1. \A i \in 0 .. n : i # 0 => i \in 1 .. n
      BY <1>1
    <3>2. \A i \in 0 .. n : g[i] = IF i = 0 THEN x ELSE expires(g[i - 1], s[i])
      BY <2>2, <2>3, <3>1 DEF n, Iterates
    <3> QED BY <2>2, <3>2 DEF n
  <2> QED BY <2>4
<1>6. after = Loop(after)
  BY <1>5
<1> HIDE DEF after
<1>7. after[0] = x /\ \A i \in 1 .. n : after[i] = expires(after[i - 1], s[i])
  <2>1. 0 \in 0 .. n /\ \A i \in 1 .. n : i \in 0 .. n /\ i # 0
    BY <1>1
  <2> QED BY <1>6, <2>1
<1>8. \A i \in 0 .. n : after[i] \in S
  <2>1. \A i \in 1 .. n : after[i - 1] \in S => after[i] \in S
    BY <1>4, <1>7
  <2> QED BY <1>1, <1>2, <1>7, <2>1, Stays
<1> DEFINE Fresh(l) == l = <<>> \/ Head(l).left # 0
           Done == {i \in 0 .. n : Fresh(after[i].timers) \/ Len(after[i].timers) <= n - i}
<1>9. \A z \in S : /\ z \in KernelData /\ z.timers \in Seq(Running) /\ InOrder(z.timers)
                   /\ z.timers # <<>> => Len(Tail(z.timers)) = Len(z.timers) - 1
  <2> SUFFICES ASSUME NEW z \in S
               PROVE  /\ z \in KernelData /\ z.timers \in Seq(Running) /\ InOrder(z.timers)
                      /\ z.timers # <<>> => Len(Tail(z.timers)) = Len(z.timers) - 1
    OBVIOUS
  <2>1. z \in KernelData /\ Linked(z, gone, reaped, 0)
    BY GoodData DEF S
  <2>2. z.timers \in Seq(Running) /\ InOrder(z.timers)
    BY <2>1, Typed DEF Linked, TimersLinked
  <2> QED BY <2>1, <2>2, FirstTimer
<1>10. 0 \in Done
  BY <1>1, <1>2, <1>7
<1>11. ASSUME NEW i \in 1 .. n, i - 1 \in Done PROVE i \in Done
  <2>1. i - 1 \in 0 .. n /\ i \in 0 .. n /\ n \in Nat /\ i \in Nat
    BY <1>1
  <2>2. after[i - 1] \in S /\ after[i] = expires(after[i - 1], s[i])
    BY <1>7, <1>8, <2>1
  <2> DEFINE l == after[i - 1].timers
             m == after[i].timers
  <2>3. m = IF l # <<>> /\ Head(l).left = 0 THEN Tail(l) ELSE l
    BY <1>4, <2>2
  <2>4. l \in Seq(Running) /\ (l # <<>> => Len(Tail(l)) = Len(l) - 1)
    BY <1>9, <2>2
  <2>5. Fresh(l) \/ Len(l) <= n - (i - 1)
    BY <1>11
  <2> HIDE DEF l, m
  <2>6. Len(l) \in Nat /\ n - (i - 1) = n - i + 1
    BY <2>1, <2>4
  <2>7. Fresh(m) \/ Len(m) <= n - i
    <3>1. CASE Fresh(l)
      BY <2>3, <3>1
    <3>2. CASE ~Fresh(l) /\ Len(l) <= n - (i - 1)
      <4>1. m = Tail(l) /\ Len(m) = Len(l) - 1
        BY <2>3, <2>4, <3>2
      <4> QED BY <2>1, <2>6, <3>2, <4>1
    <3> QED BY <2>5, <3>1, <3>2
  <2> QED BY <2>1, <2>7 DEF m
<1>12. n \in Done
  <2> HIDE DEF Done
  <2> DEFINE a == [i \in 0 .. n |-> i]
  <2>1. a[0] \in Done
    BY <1>1, <1>10
  <2>2. \A i \in 1 .. n : a[i - 1] \in Done => a[i] \in Done
    BY <1>1, <1>11
  <2>3. \A i \in 0 .. n : a[i] \in Done
    <3> HIDE DEF a
    <3> QED BY <1>1, <2>1, <2>2, Stays
  <2> QED BY <1>1, <2>3
<1>13. r \in S /\ r.timers \in Seq(Running) /\ InOrder(r.timers) /\ Fresh(r.timers)
  <2>1. n \in 0 .. n /\ n - n = 0
    BY <1>1
  <2>2. r \in S
    BY <1>3, <1>8, <2>1
  <2>3. r.timers \in Seq(Running) /\ InOrder(r.timers)
    BY <1>9, <2>2
  <2>4. Fresh(r.timers) \/ Len(r.timers) <= 0
    BY <1>3, <1>12, <2>1
  <2>5. Len(r.timers) <= 0 => r.timers = <<>>
    BY <2>3
  <2> QED BY <2>2, <2>3, <2>4, <2>5
<1>14. /\ r \in Good(gone, reaped, 0) /\ OnlyWakes(kk, r) /\ Settled(kk, r) /\ Refuses(kk, r)
       /\ r.current \notin gone /\ Spares(kk, r, kept)
  BY <1>13 DEF S
<1>15. r \in KernelData /\ Linked(r, gone, reaped, 0)
  BY <1>14, GoodData
<1>16. \A i \in DOMAIN r.timers : r.timers[i].left \in 1 .. MaxWait
  <2> SUFFICES ASSUME NEW i \in DOMAIN r.timers PROVE r.timers[i].left \in 1 .. MaxWait
    OBVIOUS
  <2>1. r.timers # <<>>
    BY <1>13
  <2>2. Head(r.timers).left # 0
    BY <1>13, <2>1
  <2>3. /\ Head(r.timers) \in Running /\ r.timers[i].left \in Nat
        /\ Head(r.timers).left <= r.timers[i].left
    BY <1>13, <2>1, FirstTimer
  <2>4. Head(r.timers).left \in Nat
    BY <2>3 DEF Running
  <2>5. r.timers[i].left \in 0 .. MaxWait /\ MaxWait \in Nat
    BY <1>15, KernelAssumption DEF Linked, TimersLinked
  <2> QED BY <2>2, <2>3, <2>4, <2>5
<1>17. Linked(r, gone, reaped, 1)
  BY <1>15, <1>16 DEF Linked, TimersLinked
<1> QED BY <1>14, <1>15, <1>17 DEF Good

LEMMA Ticks ==
  ASSUME NEW gone, NEW reaped, NEW kk \in Good(gone, reaped, 1), kk.current \notin gone,
         NEW kept, gone \subseteq kept, NotDue(kk, 1, kept), NEW r, r = rt_tick_increase(kk)
  PROVE  /\ r \in Good(gone, reaped, 1) /\ OnlyWakes(kk, r) /\ Settled(kk, r) /\ Refuses(kk, r)
         /\ r.current \notin gone /\ Spares(kk, r, kept)
<1> DEFINE t == kk.current
           slice == [kk.slice EXCEPT ![t] = IF kk.slice[t] = 1 THEN Slice ELSE kk.slice[t] - 1]
           spent == [kk EXCEPT !.slice = slice]
           a == IF kk.slice[t] = 1 THEN rt_thread_yield(spent) ELSE spent
<1>1. kk \in KernelData /\ kk.slice \in [Threads -> 1 .. Slice] /\ t \in Threads /\ Slice \in Nat \ {0}
  BY GoodData, Typed, KernelAssumption
<1>2. r = rt_timer_check(a)
  BY DEF rt_tick_increase
<1>3. slice \in [Threads -> 1 .. Slice]
  <2>1. (IF kk.slice[t] = 1 THEN Slice ELSE kk.slice[t] - 1) \in 1 .. Slice
    <3>1. kk.slice[t] \in 1 .. Slice
      BY <1>1
    <3> QED BY <1>1, <3>1
  <2> QED BY <1>1, <2>1
<1> HIDE DEF slice
<1>4. /\ spent \in KernelData /\ spent.ready = kk.ready /\ spent.wait = kk.wait
      /\ spent.defunct = kk.defunct /\ spent.static = kk.static /\ spent.current = kk.current
      /\ spent.nest = kk.nest /\ spent.timers = kk.timers /\ spent.stat = kk.stat
      /\ spent.prio = kk.prio /\ spent.group = kk.group /\ spent.err = kk.err
  BY <1>1, <1>3 DEF KernelData
<1> HIDE DEF spent
<1>5. spent \in Good(gone, reaped, 1) /\ OnlyWakes(kk, spent) /\ Settled(kk, spent)
  BY <1>4, SameLists DEF OnlyWakes, Settled
<1>10. Refuses(kk, spent)
  BY <1>4, RefusesNobody
<1>6. /\ a \in Good(gone, reaped, 1) /\ OnlyWakes(kk, a) /\ Settled(kk, a) /\ Refuses(kk, a)
      /\ a.current \notin gone /\ a.timers = kk.timers /\ a.stat = kk.stat
  <2>1. CASE kk.slice[t] = 1
    <3>1. /\ a \in Good(gone, reaped, 1) /\ OnlyWakes(spent, a) /\ Settled(spent, a)
          /\ Refuses(spent, a) /\ a.current \notin gone /\ a.timers = spent.timers
          /\ a.stat = spent.stat
      BY <1>4, <1>5, <2>1, Yields
    <3>2. a \in KernelData
      BY <3>1, GoodData
    <3> HIDE DEF a
    <3>3. Settled(kk, a)
      BY <1>5, <3>1, SettledAgain
    <3>4. Refuses(kk, a)
      BY <1>10, <3>1, RefusesAgain
    <3> QED BY <1>1, <1>4, <1>5, <3>1, <3>2, <3>3, <3>4, WakesAgain
  <2>2. CASE kk.slice[t] # 1
    BY <1>4, <1>5, <1>10, <2>2
  <2> QED BY <2>1, <2>2
<1> HIDE DEF a
<1>7. /\ r \in Good(gone, reaped, 1) /\ OnlyWakes(a, r) /\ Settled(a, r) /\ Refuses(a, r)
      /\ r.current \notin gone /\ Spares(a, r, kept)
  <2>1. NotDue(a, 1, kept)
    BY <1>6 DEF NotDue
  <2> QED BY <1>2, <1>6, <2>1, ChecksTimers
<1>8. a \in KernelData /\ r \in KernelData
  BY <1>6, <1>7, GoodData
<1>9. Settled(kk, r)
  BY <1>6, <1>7, SettledAgain
<1>11. Refuses(kk, r)
  BY <1>6, <1>7, RefusesAgain
<1>12. Spares(kk, r, kept)
  BY <1>6, <1>7 DEF Spares
<1> QED BY <1>1, <1>6, <1>7, <1>8, <1>9, <1>11, <1>12, WakesAgain

(***************************************************************************)
(* Waiting for an object, and being woken by one.                          *)
(***************************************************************************)
LEMMA Listed ==
  ASSUME NEW kk, NEW l \in Seq(Threads), NEW t \in Threads, IsInjective(l), t \notin ToSet(l),
         NEW m, m = listed(kk, l, t)
  PROVE  m \in Seq(Threads) /\ ToSet(m) = ToSet(l) \cup {t} /\ IsInjective(m)
<1> DEFINE i == SelectInSeq(l, LAMBDA u : kk.prio[t] < kk.prio[u])
<1>1. i \in 0 .. Len(l)
  <2> DEFINE I == {j \in 1 .. Len(l) : kk.prio[t] < kk.prio[l[j]]}
  <2>1. i = IF I # {} THEN Min(I) ELSE 0
    BY DEF SelectInSeq
  <2>2. I \in SUBSET Nat /\ I \subseteq 1 .. Len(l)
    OBVIOUS
  <2> HIDE DEF I, i
  <2>3. I # {} => Min(I) \in I
    <3>1. I # {} => \E n \in I : \A j \in I : n <= j
      BY <2>2, Least
    <3> QED BY <3>1 DEF Min
  <2>4. Len(l) \in Nat /\ \A j \in 1 .. Len(l) : j \in 0 .. Len(l)
    OBVIOUS
  <2>5. CASE I = {}
    BY <2>1, <2>4, <2>5
  <2>6. CASE I # {}
    BY <2>1, <2>2, <2>3, <2>4, <2>6
  <2> QED BY <2>5, <2>6
<1>2. m = IF flag = "FIFO" \/ i = 0 THEN Append(l, t) ELSE InsertAt(l, i, t)
  BY DEF listed
<1> HIDE DEF i
<1>3. CASE flag = "FIFO" \/ i = 0
  BY <1>2, <1>3, Joins
<1>4. CASE ~(flag = "FIFO" \/ i = 0)
  <2>1. i \in 1 .. Len(l) /\ m = InsertAt(l, i, t)
    BY <1>1, <1>2, <1>4
  <2> QED BY <2>1, JoinsAt
<1> QED BY <1>3, <1>4

(* A list kept by priority stays so.                                        *)
Sorted(prio, l) == \A i, j \in DOMAIN l : i < j => prio[l[i]] <= prio[l[j]]

LEMMA ThinnerSorted ==
  ASSUME NEW prio, NEW l, NEW m, Sorted(prio, l), Thinner(l, m)
  PROVE  Sorted(prio, m)
<1> SUFFICES ASSUME NEW i \in DOMAIN m, NEW j \in DOMAIN m, i < j PROVE prio[m[i]] <= prio[m[j]]
  BY DEF Sorted
<1>1. Before(m, m[i], m[j])
  BY DEF Before
<1>2. Before(l, m[i], m[j])
  BY <1>1 DEF Thinner
<1> QED BY <1>2 DEF Before, Sorted

LEMMA ListedSorted ==
  ASSUME flag = "PRIO", NEW kk, kk.prio \in [Threads -> Nat], NEW l \in Seq(Threads),
         NEW t \in Threads, Sorted(kk.prio, l), NEW m, m = listed(kk, l, t)
  PROVE  Sorted(kk.prio, m)
<1> DEFINE I == {j \in 1 .. Len(l) : kk.prio[t] < kk.prio[l[j]]}
           r == SelectInSeq(l, LAMBDA u : kk.prio[t] < kk.prio[u])
<1>0. /\ DOMAIN l = 1 .. Len(l) /\ Len(l) \in Nat /\ kk.prio[t] \in Nat
      /\ \A j \in DOMAIN l : l[j] \in Threads /\ kk.prio[l[j]] \in Nat
  OBVIOUS
<1>1. r = IF I # {} THEN Min(I) ELSE 0
  BY DEF SelectInSeq
<1>2. m = IF r = 0 THEN Append(l, t) ELSE InsertAt(l, r, t)
  BY DEF listed
<1>3. I \subseteq 1 .. Len(l) /\ I \in SUBSET Nat
  OBVIOUS
<1>4. \A j \in DOMAIN l : j \in I <=> kk.prio[t] < kk.prio[l[j]]
  BY <1>0
<1> HIDE DEF I, r
<1>5. CASE I = {}
  <2>1. m = Append(l, t)
    BY <1>1, <1>2, <1>5
  <2>2. \A j \in DOMAIN l : kk.prio[l[j]] <= kk.prio[t]
    BY <1>0, <1>4, <1>5
  <2>3. /\ DOMAIN m = 1 .. (Len(l) + 1)
        /\ \A j \in DOMAIN m : m[j] = IF j \in DOMAIN l THEN l[j] ELSE t
    BY <1>0, <2>1
  <2>4. ASSUME NEW i \in DOMAIN m, NEW j \in DOMAIN m, i < j
        PROVE  kk.prio[m[i]] <= kk.prio[m[j]]
    <3>1. i \in DOMAIN l
      BY <1>0, <2>3, <2>4
    <3> QED BY <2>2, <2>3, <2>4, <3>1 DEF Sorted
  <2> QED BY <2>4 DEF Sorted
<1>6. CASE I # {}
  <2>1. Min(I) \in I /\ \A j \in I : Min(I) <= j
    <3>1. \E n \in I : \A j \in I : n <= j
      BY <1>3, <1>6, Least
    <3> QED BY <3>1 DEF Min
  <2>2. r \in DOMAIN l /\ r \in I /\ \A j \in I : r <= j
    BY <1>0, <1>1, <1>3, <1>6, <2>1
  <2>3. r \in 1 .. Len(l) /\ m = InsertAt(l, r, t)
    BY <1>0, <1>2, <2>2
  <2>4. HasInserted(Threads, l, r, t, m)
    BY <2>3, Inserted
  <2>5. /\ DOMAIN m = 1 .. (Len(l) + 1)
        /\ \A j \in DOMAIN m : m[j] = IF j < r THEN l[j] ELSE IF j = r THEN t ELSE l[j - 1]
    BY <2>4 DEF HasInserted
  <2>6. ASSUME NEW j \in DOMAIN l, j < r PROVE kk.prio[l[j]] <= kk.prio[t]
    <3>1. j \notin I
      BY <1>0, <2>2, <2>6
    <3> QED BY <1>0, <1>4, <3>1
  <2>7. ASSUME NEW j \in DOMAIN l, r <= j PROVE kk.prio[t] <= kk.prio[l[j]]
    <3>1. kk.prio[t] < kk.prio[l[r]]
      BY <1>4, <2>2
    <3>2. kk.prio[l[r]] <= kk.prio[l[j]]
      BY <1>0, <2>2, <2>7 DEF Sorted
    <3> QED BY <1>0, <2>2, <3>1, <3>2
  <2>8. ASSUME NEW i \in DOMAIN m, NEW j \in DOMAIN m, i < j
        PROVE  kk.prio[m[i]] <= kk.prio[m[j]]
    <3> DEFINE a == IF i < r THEN i ELSE i - 1
               b == IF j < r THEN j ELSE j - 1
    <3>1. CASE i = r
      <4>1. b \in DOMAIN l /\ r <= b /\ m[i] = t /\ m[j] = l[b]
        BY <1>0, <2>2, <2>5, <2>8, <3>1
      <4> QED BY <2>7, <4>1
    <3>2. CASE j = r
      <4>1. a \in DOMAIN l /\ a < r /\ m[i] = l[a] /\ m[j] = t
        BY <1>0, <2>2, <2>5, <2>8, <3>2
      <4> QED BY <2>6, <4>1
    <3>3. CASE i # r /\ j # r
      <4>1. a \in DOMAIN l /\ b \in DOMAIN l /\ a < b /\ m[i] = l[a] /\ m[j] = l[b]
        BY <1>0, <2>2, <2>5, <2>8, <3>3
      <4> HIDE DEF a, b
      <4> QED BY <4>1 DEF Sorted
    <3> QED BY <3>1, <3>2, <3>3
  <2> QED BY <2>8 DEF Sorted
<1> QED BY <1>5, <1>6

(* What suspending itself on a list does to a thread; l is the list with    *)
(* the thread on it, wherever the kind of object puts it.                   *)
WaitsOn(kk, r, t) ==
  /\ r.static = kk.static /\ r.current = kk.current /\ r.nest = kk.nest
  /\ r.stat = [kk.stat EXCEPT ![t] = "SUSPEND"]

LEMMA MayTime ==
  ASSUME NEW gone, NEW reaped, NEW kk \in Good(gone, reaped, 1), NEW t \in Threads \ gone, kk.stat[t] = "SUSPEND",
         NEW time \in Times \ {0}, NEW r,
         r = IF time = FOREVER THEN kk ELSE rt_timer_start(kk, t, time)
  PROVE  /\ r \in Good(gone, reaped, 1) /\ r.static = kk.static /\ r.current = kk.current
         /\ r.nest = kk.nest /\ r.stat = kk.stat
         /\ r.err = kk.err /\ r.prio = kk.prio /\ r.wait = kk.wait
<1>1. CASE time = FOREVER
  BY <1>1
<1>2. CASE time # FOREVER
  <2>1. time \in 1 .. MaxWait
    BY <1>2, KernelAssumption DEF FOREVER, Times
  <2> QED BY <1>2, <2>1, Starts
<1> QED BY <1>1, <1>2

Lines(kk, r, t, q) ==
  /\ r.err = [kk.err EXCEPT ![t] = "EOK"] /\ r.prio = kk.prio
  /\ r.wait = [kk.wait EXCEPT ![q] = listed(kk, kk.wait[q], t)]

LEMMA ListSuspends ==
  ASSUME NEW gone, NEW reaped, NEW kk \in Good(gone, reaped, 1), NEW t \in Threads \ {Idle}, t \notin gone,
         kk.stat[t] = "READY", NEW q \in Queues, NEW time \in Times \ {0}, NEW r,
         r = rt_ipc_list_suspend(kk, t, q, time)
  PROVE  r \in Good(gone, reaped, 1) /\ WaitsOn(kk, r, t) /\ Lines(kk, r, t, q)
<1> DEFINE z == [kk EXCEPT !.err[t] = "EOK"]
           off == rt_thread_suspend(z, t)
           l == listed(off, off.wait[q], t)
           on == [off EXCEPT !.wait[q] = l]
<1>1. r = IF time = FOREVER THEN on ELSE rt_timer_start(on, t, time)
  BY DEF rt_ipc_list_suspend
<1>2. /\ z \in Good(gone, reaped, 1) /\ OnlyWakes(kk, z) /\ z.current = kk.current
      /\ z.stat = kk.stat /\ z.prio = kk.prio /\ z.wait = kk.wait
  BY SetsError
<1>9. z.err = [kk.err EXCEPT ![t] = "EOK"]
  BY GoodData DEF KernelData
<1> HIDE DEF z
<1>3. /\ off \in Good(gone, reaped, 1)
      /\ off.static = z.static /\ off.current = z.current /\ off.nest = z.nest
      /\ off.stat = [z.stat EXCEPT ![t] = "SUSPEND"]
      /\ \A y \in Queues : t \notin ToSet(off.wait[y])
      /\ off.prio = z.prio /\ off.err = z.err /\ off.wait = Less(z, t)
  BY <1>2, Suspends
<1> HIDE DEF off
<1>4. off \in KernelData /\ Linked(off, gone, reaped, 1) /\ off.wait[q] \in Seq(Threads)
  BY <1>3, GoodData, Typed
<1>5. l \in Seq(Threads) /\ ToSet(l) = ToSet(off.wait[q]) \cup {t} /\ IsInjective(l)
  <2>1. IsInjective(off.wait[q]) /\ t \notin ToSet(off.wait[q])
    BY <1>3, <1>4 DEF Linked, WaitLinked
  <2> QED BY <1>4, <2>1, Listed
<1>10. l = listed(kk, off.wait[q], t)
  BY <1>2, <1>3 DEF listed
<1> HIDE DEF l
<1>6. off.stat[t] = "SUSPEND"
  <2>1. kk.stat \in [Threads -> Stats]
    BY GoodData, Typed
  <2> QED BY <1>2, <1>3, <2>1
<1>7. /\ on \in Good(gone, reaped, 1)
      /\ on.static = off.static /\ on.current = off.current /\ on.nest = off.nest
      /\ on.stat = off.stat /\ on.prio = off.prio /\ on.err = off.err
  <2>1. on = WithWaiters(off, q, l)
    BY DEF WithWaiters
  <2>2. WaitsNowhere(off, t)
    BY <1>3 DEF WaitsNowhere
  <2>3. off \in Good(gone, reaped, 1)
    BY <1>3
  <2> HIDE DEF on
  <2> QED BY <1>5, <1>6, <2>1, <2>2, <2>3, Queued
<1>13. on.wait = [off.wait EXCEPT ![q] = l]
  BY <1>4 DEF KernelData
<1> HIDE DEF on
<1>8. /\ r \in Good(gone, reaped, 1) /\ r.static = on.static /\ r.current = on.current
      /\ r.nest = on.nest /\ r.stat = on.stat
      /\ r.err = on.err /\ r.prio = on.prio /\ r.wait = on.wait
  BY <1>1, <1>6, <1>7, MayTime
<1>11. off.wait = kk.wait
  <2>1. z \in KernelData /\ Linked(z, gone, reaped, 1) /\ OnceEach(z)
    BY <1>2, GoodData, GoodOnce
  <2>2. \A y \in Queues : t \notin ToSet(z.wait[y])
    BY <1>2, <2>1 DEF Linked, WaitLinked
  <2> QED BY <1>2, <1>3, <2>1, <2>2, LessIsSame
<1>12. Lines(kk, r, t, q)
  BY <1>2, <1>3, <1>7, <1>8, <1>9, <1>10, <1>11, <1>13 DEF Lines
<1> QED BY <1>2, <1>3, <1>7, <1>8, <1>12 DEF WaitsOn, OnlyWakes

LEMMA PoolSuspends ==
  ASSUME NEW gone, NEW reaped, NEW kk \in Good(gone, reaped, 1), NEW t \in Threads \ {Idle}, t \notin gone,
         kk.stat[t] = "READY", "recv" \in Queues, NEW time \in Times \ {0}, NEW r,
         r = mp_waits(kk, t, time)
  PROVE  /\ r \in Good(gone, reaped, 1) /\ WaitsOn(kk, r, t)
         /\ r.err = [kk.err EXCEPT ![t] = "EOK"] /\ r.prio = kk.prio
         /\ ToSet(r.wait["recv"]) = ToSet(kk.wait["recv"]) \cup {t}
         /\ \A q \in Queues \ {"recv"} : r.wait[q] = kk.wait[q]
<1> DEFINE z == [kk EXCEPT !.err[t] = "EOK"]
           off == rt_thread_suspend(z, t)
           l == <<t>> \o off.wait["recv"]
           on == [off EXCEPT !.wait["recv"] = l]
<1>1. r = IF time = FOREVER THEN on ELSE rt_timer_start(on, t, time)
  BY DEF mp_waits
<1>2. /\ z \in Good(gone, reaped, 1) /\ OnlyWakes(kk, z) /\ z.current = kk.current
      /\ z.stat = kk.stat /\ z.prio = kk.prio /\ z.wait = kk.wait
  BY SetsError
<1>9. z.err = [kk.err EXCEPT ![t] = "EOK"]
  BY GoodData DEF KernelData
<1> HIDE DEF z
<1>3. /\ off \in Good(gone, reaped, 1)
      /\ off.static = z.static /\ off.current = z.current /\ off.nest = z.nest
      /\ off.stat = [z.stat EXCEPT ![t] = "SUSPEND"]
      /\ \A y \in Queues : t \notin ToSet(off.wait[y])
      /\ off.prio = z.prio /\ off.err = z.err /\ off.wait = Less(z, t)
  BY <1>2, Suspends
<1> HIDE DEF off
<1>4. off \in KernelData /\ Linked(off, gone, reaped, 1) /\ off.wait["recv"] \in Seq(Threads)
  BY <1>3, GoodData, Typed
<1>5. l \in Seq(Threads) /\ ToSet(l) = ToSet(off.wait["recv"]) \cup {t} /\ IsInjective(l)
  <2>1. IsInjective(off.wait["recv"]) /\ t \notin ToSet(off.wait["recv"])
    BY <1>3, <1>4 DEF Linked, WaitLinked
  <2> QED BY <1>4, <2>1, JoinsFront
<1> HIDE DEF l
<1>6. off.stat[t] = "SUSPEND"
  <2>1. kk.stat \in [Threads -> Stats]
    BY GoodData, Typed
  <2> QED BY <1>2, <1>3, <2>1
<1>7. /\ on \in Good(gone, reaped, 1)
      /\ on.static = off.static /\ on.current = off.current /\ on.nest = off.nest
      /\ on.stat = off.stat /\ on.prio = off.prio /\ on.err = off.err
  <2>1. on = WithWaiters(off, "recv", l)
    BY DEF WithWaiters
  <2>2. WaitsNowhere(off, t)
    BY <1>3 DEF WaitsNowhere
  <2>3. off \in Good(gone, reaped, 1)
    BY <1>3
  <2> HIDE DEF on
  <2> QED BY <1>5, <1>6, <2>1, <2>2, <2>3, Queued
<1>10. on.wait = [off.wait EXCEPT !["recv"] = l]
  BY <1>4 DEF KernelData
<1> HIDE DEF on
<1>8. /\ r \in Good(gone, reaped, 1) /\ r.static = on.static /\ r.current = on.current
      /\ r.nest = on.nest /\ r.stat = on.stat
      /\ r.err = on.err /\ r.prio = on.prio /\ r.wait = on.wait
  BY <1>1, <1>6, <1>7, MayTime
<1>11. off.wait = kk.wait
  <2>1. z \in KernelData /\ Linked(z, gone, reaped, 1) /\ OnceEach(z)
    BY <1>2, GoodData, GoodOnce
  <2>2. \A y \in Queues : t \notin ToSet(z.wait[y])
    BY <1>2, <2>1 DEF Linked, WaitLinked
  <2> QED BY <1>2, <1>3, <2>1, <2>2, LessIsSame
<1>12. /\ ToSet(r.wait["recv"]) = ToSet(kk.wait["recv"]) \cup {t}
       /\ \A q \in Queues \ {"recv"} : r.wait[q] = kk.wait[q]
  <2>1. off.wait \in [Queues -> Seq(Threads)]
    BY <1>4, Typed
  <2> QED BY <1>5, <1>8, <1>10, <1>11, <2>1
<1>13. r.err = [kk.err EXCEPT ![t] = "EOK"] /\ r.prio = kk.prio
  BY <1>2, <1>3, <1>7, <1>8, <1>9
<1> QED BY <1>2, <1>3, <1>7, <1>8, <1>12, <1>13 DEF WaitsOn, OnlyWakes

LEMMA ResumesBad ==
  ASSUME NEW gone, NEW reaped, NEW kk \in Good(gone, reaped, 1), NEW t \in Threads \ gone, NEW r,
         r = resumed_bad(kk, t)
  PROVE  /\ r \in Good(gone, reaped, 1) /\ OnlyWakes(kk, r) /\ r.current = kk.current
         /\ kk.stat[t] = "SUSPEND" => Refuses(kk, r) /\ r.stat[t] = "READY"
<1> DEFINE z == [kk EXCEPT !.err[t] = "ERROR"]
<1>1. z \in Good(gone, reaped, 1) /\ OnlyWakes(kk, z) /\ z.current = kk.current
      /\ z.stat = kk.stat /\ z.prio = kk.prio /\ z.wait = kk.wait
  BY SetsError
<1>5. z.err = [kk.err EXCEPT ![t] = "ERROR"]
  BY GoodData DEF KernelData
<1>2. r = rt_thread_resume(z, t)
  BY DEF resumed_bad
<1> HIDE DEF z
<1>3. /\ r \in Good(gone, reaped, 1) /\ OnlyWakes(z, r) /\ r.current = z.current
      /\ z.stat[t] = "SUSPEND" => Admits(z, r, t)
  BY <1>1, <1>2, Resumes
<1>4. kk \in KernelData /\ z \in KernelData /\ r \in KernelData
  BY <1>1, <1>3, GoodData
<1>6. ASSUME kk.stat[t] = "SUSPEND" PROVE Refuses(kk, r) /\ r.stat[t] = "READY"
  <2>1. /\ r.stat = [kk.stat EXCEPT ![t] = "READY"] /\ r.err = [kk.err EXCEPT ![t] = "ERROR"]
        /\ r.prio = kk.prio /\ r.wait = Less(z, t)
    BY <1>1, <1>3, <1>5, <1>6 DEF Admits
  <2>2. \A q \in Queues : Thinner(kk.wait[q], r.wait[q])
    BY <1>1, <1>4, <2>1, GoodOnce, LessIsThinner
  <2>3. r.stat[t] = "READY" /\ \A u \in Threads : SameOrRefused(kk, r, u)
    <3>1. kk.stat \in [Threads -> Stats] /\ kk.err \in [Threads -> {"EOK", "ERROR", "ETIMEOUT"}]
      BY <1>4, Typed
    <3> QED BY <1>6, <2>1, <3>1 DEF SameOrRefused
  <2> QED BY <2>1, <2>2, <2>3 DEF Refuses
<1> QED BY <1>1, <1>3, <1>4, <1>6, WakesAgain

(* rt_ipc_list_resume_all, and one pass of rt_event_send.                   *)
LEMMA RefusesAnother ==
  ASSUME NEW gone, NEW reaped, NEW kk \in Good(gone, reaped, 1), NEW z \in Good(gone, reaped, 1), Refuses(kk, z),
         NEW t \in Threads \ gone, kk.stat[t] = "SUSPEND", NEW r, r = resumed_bad(z, t)
  PROVE  /\ Refuses(kk, r) /\ r.stat[t] = "READY"
         /\ \A u \in Threads : z.stat[u] = "READY" => r.stat[u] = "READY"
<1>1. CASE z.stat[t] = "SUSPEND"
  <2>1. Refuses(z, r) /\ r.stat[t] = "READY"
    BY <1>1, ResumesBad
  <2>2. \A u \in Threads : z.stat[u] = "READY" => r.stat[u] = "READY"
    BY <2>1 DEF Refuses, SameOrRefused
  <2> QED BY <2>1, <2>2, RefusesAgain
<1>2. CASE z.stat[t] # "SUSPEND"
  <2>1. z \in KernelData /\ SameOrRefused(kk, z, t)
    BY GoodData DEF Refuses
  <2>2. r = [z EXCEPT !.err[t] = "ERROR"]
    BY <1>2, <2>1 DEF resumed_bad, rt_thread_resume, KernelData
  <2>3. /\ r.stat = z.stat /\ r.prio = z.prio /\ r.wait = z.wait
        /\ r.err = [z.err EXCEPT ![t] = "ERROR"]
    BY <2>1, <2>2 DEF KernelData
  <2>4. z.err \in [Threads -> {"EOK", "ERROR", "ETIMEOUT"}]
    BY <2>1, Typed
  <2>5. ASSUME NEW u \in Threads PROVE SameOrRefused(kk, r, u)
    <3>1. SameOrRefused(kk, z, u)
      BY DEF Refuses
    <3>2. CASE u = t
      BY <1>2, <2>1, <2>3, <2>4, <3>2 DEF SameOrRefused
    <3>3. CASE u # t
      BY <2>3, <2>4, <3>1, <3>3 DEF SameOrRefused
    <3> QED BY <3>2, <3>3
  <2>6. r.stat[t] = "READY"
    BY <1>2, <2>1, <2>3 DEF SameOrRefused
  <2> QED BY <2>3, <2>5, <2>6 DEF Refuses
<1> QED BY <1>1, <1>2

LEMMA ResumesAll ==
  ASSUME NEW gone, NEW reaped, NEW kk \in Good(gone, reaped, 1), NEW q \in Queues, NEW r,
         r = rt_ipc_list_resume_all(kk, q)
  PROVE  r \in Good(gone, reaped, 1) /\ OnlyWakes(kk, r) /\ r.current = kk.current
         /\ Refuses(kk, r) /\ ToSet(r.wait[q]) = {}
<1> DEFINE s == kk.wait[q]
           n == Len(s)
           W == {t \in Threads \ gone : kk.stat[t] = "SUSPEND"}
           S == {z \in Good(gone, reaped, 1) :
                   OnlyWakes(kk, z) /\ z.current = kk.current /\ Refuses(kk, z)}
           Loop(h) == [i \in 0 .. n |-> IF i = 0 THEN kk ELSE resumed_bad(h[i - 1], s[i])]
           after == CHOOSE h : h = Loop(h)
<1>1. kk \in KernelData /\ s \in Seq(W) /\ n \in Nat
  <2>1. kk \in KernelData /\ Linked(kk, gone, reaped, 1)
    BY GoodData
  <2>2. s \in Seq(Threads)
    BY <2>1, Typed
  <2>3. \A i \in 1 .. Len(s) : s[i] \in W
    BY <2>1, <2>2 DEF Linked, WaitLinked, ToSet
  <2> HIDE DEF s, W
  <2>4. s \in Seq(W) /\ Len(s) \in Nat
    BY <2>2, <2>3
  <2> QED BY <2>1, <2>4
<1>2. kk \in S
  BY RefusesNobody DEF OnlyWakes
<1>3. r = after[n]
  BY DEF rt_ipc_list_resume_all, Along
<1>4. ASSUME NEW z \in S, NEW e \in W
      PROVE  /\ resumed_bad(z, e) \in S /\ resumed_bad(z, e).stat[e] = "READY"
             /\ \A u \in Threads : z.stat[u] = "READY" => resumed_bad(z, e).stat[u] = "READY"
  <2>1. z \in Good(gone, reaped, 1) /\ OnlyWakes(kk, z) /\ z.current = kk.current
        /\ Refuses(kk, z) /\ e \in Threads \ gone /\ kk.stat[e] = "SUSPEND"
    OBVIOUS
  <2> DEFINE y == resumed_bad(z, e)
  <2>2. y \in Good(gone, reaped, 1) /\ OnlyWakes(z, y) /\ y.current = z.current
    BY <2>1, ResumesBad
  <2>5. /\ Refuses(kk, y) /\ y.stat[e] = "READY"
        /\ \A u \in Threads : z.stat[u] = "READY" => y.stat[u] = "READY"
    BY <2>1, RefusesAnother
  <2> HIDE DEF y
  <2>3. z \in KernelData /\ y \in KernelData
    BY <2>1, <2>2, GoodData
  <2>4. OnlyWakes(kk, y)
    BY <1>1, <2>1, <2>2, <2>3, WakesAgain
  <2> QED BY <2>1, <2>2, <2>4, <2>5 DEF y
<1> HIDE DEF s, n, S, W
<1>5. \E g : g = Loop(g)
  <2> DEFINE f == [w \in S \X W |-> resumed_bad(w[1], w[2])]
  <2>1. f \in [S \X W -> S]
    BY <1>4
  <2>2. PICK g \in [0 .. Len(s) -> S] : Iterates(g, f, kk, s)
    <3> HIDE DEF f
    <3> QED BY <1>1, <1>2, <2>1, Folds
  <2>3. ASSUME NEW i \in 0 .. n, i # 0 PROVE f[<<g[i - 1], s[i]>>] = resumed_bad(g[i - 1], s[i])
    <3>1. i - 1 \in 0 .. Len(s) /\ i \in 1 .. Len(s)
      BY <1>1, <2>3 DEF n
    <3>2. g[i - 1] \in S
      BY <2>2, <3>1, Zenon
    <3>3. s[i] \in W
      BY <1>1, <3>1
    <3> QED BY <3>2, <3>3
  <2>4. g = Loop(g)
    <3> HIDE DEF f
    <3>1. \A i \in 0 .. n : i # 0 => i \in 1 .. n
      BY <1>1
    <3>2. \A i \in 0 .. n : g[i] = IF i = 0 THEN kk ELSE resumed_bad(g[i - 1], s[i])
      BY <2>2, <2>3, <3>1 DEF n, Iterates
    <3> QED BY <2>2, <3>2 DEF n
  <2> QED BY <2>4
<1>6. after = Loop(after)
  BY <1>5
<1> HIDE DEF after
<1>7. after[0] = kk /\ \A i \in 1 .. n : after[i] = resumed_bad(after[i - 1], s[i]) /\ s[i] \in W
  <2>1. 0 \in 0 .. n /\ \A i \in 1 .. n : i \in 0 .. n /\ i # 0
    BY <1>1
  <2>2. \A i \in 1 .. n : s[i] \in W
    BY <1>1 DEF n
  <2> QED BY <1>6, <2>1, <2>2
<1>8. \A i \in 0 .. n : after[i] \in S
  <2>1. \A i \in 1 .. n : after[i - 1] \in S => after[i] \in S
    BY <1>4, <1>7
  <2> QED BY <1>1, <1>2, <1>7, <2>1, Stays
<1>9. n \in 0 .. n
  BY <1>1
<1>10. \A j \in 1 .. n : r.stat[s[j]] = "READY"
  <2> DEFINE Done(i, z) == \A j \in 1 .. n : j <= i => z.stat[s[j]] = "READY"
             b == [i \in 0 .. n |-> <<i, after[i]>>]
             D == {p \in (0 .. n) \X S : Done(p[1], p[2])}
  <2>1. \A i \in 0 .. n : b[i] \in D <=> Done(i, after[i])
    <3> HIDE DEF Done
    <3> QED BY <1>8
  <2>2. Done(0, after[0])
    BY <1>1
  <2>3. ASSUME NEW i \in 1 .. n, Done(i - 1, after[i - 1]) PROVE Done(i, after[i])
    <3> SUFFICES ASSUME NEW j \in 1 .. n, j <= i PROVE after[i].stat[s[j]] = "READY"
      OBVIOUS
    <3> DEFINE z == after[i - 1]
    <3>1. i - 1 \in 0 .. n /\ z \in S /\ after[i] = resumed_bad(z, s[i]) /\ s[i] \in W
      BY <1>1, <1>7, <1>8
    <3>2. s[j] \in Threads
      BY <1>7 DEF W
    <3>3. j # i => z.stat[s[j]] = "READY"
      <4>1. j # i => j <= i - 1
        BY <1>1
      <4> QED BY <2>3, <4>1
    <3> HIDE DEF z
    <3> QED BY <1>4, <3>1, <3>2, <3>3
  <2> HIDE DEF Done, D
  <2>4. \A i \in 1 .. n : i \in 0 .. n /\ i - 1 \in 0 .. n
    BY <1>1
  <2>5. \A i \in 1 .. n : b[i - 1] \in D => b[i] \in D
    BY <2>1, <2>3, <2>4, Zenon
  <2>6. b[0] \in D
    BY <1>1, <2>1, <2>2
  <2> HIDE DEF b
  <2>7. \A i \in 0 .. n : b[i] \in D
    BY <1>1, <2>5, <2>6, Stays
  <2>8. Done(n, after[n])
    BY <1>9, <2>1, <2>7
  <2> QED BY <1>1, <1>3, <2>8 DEF Done
<1>11. r \in Good(gone, reaped, 1) /\ OnlyWakes(kk, r) /\ r.current = kk.current /\ Refuses(kk, r)
  BY <1>3, <1>8, <1>9 DEF S
<1>12. ToSet(r.wait[q]) = {}
  <2> SUFFICES ASSUME NEW t \in ToSet(r.wait[q]) PROVE FALSE
    OBVIOUS
  <2>1. t \in ToSet(kk.wait[q])
    BY <1>11 DEF Refuses, Thinner
  <2>2. PICK j \in 1 .. n : s[j] = t
    BY <1>1, <2>1 DEF s, n, ToSet
  <2>3. r \in KernelData /\ Linked(r, gone, reaped, 1)
    BY <1>11, GoodData
  <2>4. t \in Threads
    BY <1>7, <2>2 DEF W
  <2>5. r.stat[t] = "SUSPEND"
    BY <2>3, <2>4 DEF Linked, WaitLinked
  <2> QED BY <1>10, <2>2, <2>5
<1> QED BY <1>11, <1>12

(* One receiver of an event: he is off the list, or has not what he waits   *)
(* for; and who had not before has not now.                                 *)
LEMMA ServesOne ==
  ASSUME NEW gone, NEW reaped, NEW z, z.k \in Good(gone, reaped, 1), z.set \in SUBSET Bits,
         z.wish \in [Threads -> Wish], NEW e \in Threads \ gone, NEW r, r = Serve(z, e)
  PROVE  /\ \A q \in Queues : ToSet(r.k.wait[q]) \subseteq ToSet(z.k.wait[q])
         /\ \A q \in Queues : \A u \in ToSet(r.k.wait[q]) :
              u = e \/ ~Granted(z.set, z.wish[u]) => ~Granted(r.set, r.wish[u])
<1> DEFINE kk == z.k
           y == rt_thread_resume(kk, e)
           w == z.wish[e]
           got == IF w.and THEN w.set ELSE w.set \cap z.set
           left == IF w.clear THEN z.set \ got ELSE z.set
           wish == [z.wish EXCEPT ![e].set = got]
<1>1. CASE ~Granted(z.set, w)
  BY <1>1 DEF Serve
<1>2. CASE Granted(z.set, w)
  <2>1. r.set = left /\ r.wish = wish /\ r.k = y
    BY <1>2 DEF Serve
  <2>2. left \subseteq z.set /\ \A u \in Threads \ {e} : wish[u] = z.wish[u]
    OBVIOUS
  <2>3. kk \in Good(gone, reaped, 1) /\ y = rt_thread_resume(kk, e)
    OBVIOUS
  <2> HIDE DEF y, left, wish, w, kk
  <2>4. kk \in KernelData /\ Linked(kk, gone, reaped, 1) /\ OnceEach(kk)
    BY <2>3, GoodData, GoodOnce
  <2>5. \A q \in Queues : ToSet(y.wait[q]) \subseteq ToSet(kk.wait[q]) \ {e}
    <3>1. CASE kk.stat[e] # "SUSPEND"
      <4>1. y = kk
        BY <2>3, <3>1 DEF rt_thread_resume
      <4> QED BY <2>4, <3>1, <4>1 DEF Linked, WaitLinked
    <3>2. CASE kk.stat[e] = "SUSPEND"
      <4>0. Admits(kk, y, e)
        BY <2>3, <3>2, Resumes
      <4>1. y.wait = Less(kk, e)
        BY <4>0 DEF Admits
      <4> SUFFICES ASSUME NEW q \in Queues PROVE ToSet(y.wait[q]) \subseteq ToSet(kk.wait[q]) \ {e}
        OBVIOUS
      <4>2. kk.wait[q] \in Seq(Threads) /\ IsInjective(kk.wait[q])
        BY <2>4, Typed DEF OnceEach
      <4>3. y.wait[q] = RemoveFirst(kk.wait[q], e)
        BY <4>1 DEF Less
      <4> QED BY <4>2, <4>3, Leaves
    <3> QED BY <3>1, <3>2
  <2>6. ASSUME NEW q \in Queues, NEW u \in ToSet(y.wait[q]), ~Granted(z.set, z.wish[u])
        PROVE  ~Granted(left, wish[u])
    <3>1. u \in Threads /\ u # e
      <4>1. kk.wait[q] \in Seq(Threads)
        BY <2>4, Typed
      <4>2. ToSet(kk.wait[q]) \subseteq Threads
        BY <4>1 DEF ToSet
      <4> QED BY <2>5, <4>2
    <3> QED BY <2>2, <2>6, <3>1 DEF Granted
  <2>7. \A q \in Queues : e \notin ToSet(y.wait[q])
    BY <2>5
  <2> QED BY <2>1, <2>5, <2>6, <2>7 DEF kk
<1> QED BY <1>1, <1>2

LEMMA Serves ==
  ASSUME NEW gone, NEW reaped, k \in Good(gone, reaped, 1), event \in EventData, NEW set \in SUBSET Bits,
         "recv" \in Queues, NEW r, r = served(set)
  PROVE  /\ r.k \in Good(gone, reaped, 1) /\ OnlyWakes(k, r.k) /\ r.k.current = k.current
         /\ [set |-> r.set, wish |-> r.wish] \in EventData
         /\ \A q \in Queues : ToSet(r.k.wait[q]) \subseteq ToSet(k.wait[q])
         /\ \A t \in ToSet(r.k.wait["recv"]) : ~Granted(r.set, r.wish[t])
<1> DEFINE s == k.wait["recv"]
           n == Len(s)
           x == sending(set)
           W == Threads \ gone
           S == {z \in [set : SUBSET Bits, wish : [Threads -> Wish], k : Good(gone, reaped, 1)] :
                   /\ OnlyWakes(k, z.k) /\ z.k.current = k.current
                   /\ \A q \in Queues : ToSet(z.k.wait[q]) \subseteq ToSet(k.wait[q])}
           Loop(h) == [i \in 0 .. n |-> IF i = 0 THEN x ELSE Serve(h[i - 1], s[i])]
           after == CHOOSE h : h = Loop(h)
<1>1. k \in KernelData /\ s \in Seq(W) /\ n \in Nat
  <2>1. k \in KernelData /\ Linked(k, gone, reaped, 1)
    BY GoodData
  <2>2. s \in Seq(Threads)
    BY <2>1, Typed
  <2>3. \A i \in 1 .. Len(s) : s[i] \in W
    BY <2>1, <2>2 DEF Linked, WaitLinked, ToSet
  <2> HIDE DEF s, W
  <2>4. s \in Seq(W) /\ Len(s) \in Nat
    BY <2>2, <2>3
  <2> QED BY <2>1, <2>4
<1>2. x \in S
  <2>1. x.k = k /\ x = [set |-> event.set \cup set, wish |-> event.wish, k |-> k]
    BY DEF sending
  <2>2. event.set \cup set \in SUBSET Bits /\ event.wish \in [Threads -> Wish]
    BY DEF EventData
  <2> QED BY <2>1, <2>2 DEF OnlyWakes
<1>3. r = after[n]
  BY DEF served, Along
<1>4. ASSUME NEW z \in S, NEW e \in W
      PROVE  /\ Serve(z, e) \in S
             /\ \A u \in ToSet(Serve(z, e).k.wait["recv"]) :
                  /\ u \in ToSet(z.k.wait["recv"])
                  /\ u = e \/ ~Granted(z.set, z.wish[u]) =>
                       ~Granted(Serve(z, e).set, Serve(z, e).wish[u])
  <2>1. /\ z.k \in Good(gone, reaped, 1) /\ OnlyWakes(k, z.k) /\ z.k.current = k.current
        /\ z.set \in SUBSET Bits /\ z.wish \in [Threads -> Wish]
        /\ \A q \in Queues : ToSet(z.k.wait[q]) \subseteq ToSet(k.wait[q])
    OBVIOUS
  <2> DEFINE y == rt_thread_resume(z.k, e)
             w == z.wish[e]
             got == IF w.and THEN w.set ELSE w.set \cap z.set
             left == IF w.clear THEN z.set \ got ELSE z.set
             wish == [z.wish EXCEPT ![e].set = got]
  <2>2. y \in Good(gone, reaped, 1) /\ OnlyWakes(z.k, y) /\ y.current = z.k.current
    BY <2>1, Resumes
  <2>3. w \in Wish /\ w.set \in SUBSET Bits
    BY <2>1 DEF Wish
  <2>4. got \in SUBSET Bits /\ left \in SUBSET Bits
    BY <2>1, <2>3
  <2>7. /\ \A q \in Queues : ToSet(Serve(z, e).k.wait[q]) \subseteq ToSet(z.k.wait[q])
        /\ \A q \in Queues : \A u \in ToSet(Serve(z, e).k.wait[q]) :
             u = e \/ ~Granted(z.set, z.wish[u]) => ~Granted(Serve(z, e).set, Serve(z, e).wish[u])
    <3> DEFINE x_ == Serve(z, e)
    <3>1. x_ = Serve(z, e)
      OBVIOUS
    <3> HIDE DEF x_, S
    <3>2. /\ \A q \in Queues : ToSet(x_.k.wait[q]) \subseteq ToSet(z.k.wait[q])
          /\ \A q \in Queues : \A u \in ToSet(x_.k.wait[q]) :
               u = e \/ ~Granted(z.set, z.wish[u]) => ~Granted(x_.set, x_.wish[u])
      BY <2>1, <3>1, ServesOne
    <3> QED BY <3>1, <3>2
  <2>8. \A q \in Queues : ToSet(Serve(z, e).k.wait[q]) \subseteq ToSet(k.wait[q])
    BY <2>1, <2>7
  <2>5. CASE ~Granted(z.set, w)
    BY <2>5, <2>7 DEF Serve
  <2>6. CASE Granted(z.set, w)
    <3>1. Serve(z, e) = [set |-> left, wish |-> wish, k |-> y]
      BY <2>6 DEF Serve
    <3> HIDE DEF got, left
    <3>2. wish \in [Threads -> Wish]
      <4>1. [w EXCEPT !.set = got] \in Wish
        BY <2>3, <2>4 DEF Wish
      <4> QED BY <2>1, <4>1
    <3> HIDE DEF y, wish, w
    <3>3. z.k \in KernelData /\ y \in KernelData
      BY <2>1, <2>2, GoodData
    <3>4. OnlyWakes(k, y) /\ y.current = k.current
      BY <1>1, <2>1, <2>2, <3>3, WakesAgain
    <3>5. Serve(z, e) \in S
      <4>1. \A q \in Queues : ToSet(y.wait[q]) \subseteq ToSet(k.wait[q])
        BY <2>8, <3>1
      <4> QED BY <2>2, <2>4, <3>1, <3>2, <3>4, <4>1
    <3> QED BY <2>7, <3>5
  <2> QED BY <2>5, <2>6
<1> HIDE DEF s, n, S, x, W
<1>5. \E g : g = Loop(g)
  <2> DEFINE f == [w \in S \X W |-> Serve(w[1], w[2])]
  <2>1. f \in [S \X W -> S]
    BY <1>4
  <2>2. PICK g \in [0 .. Len(s) -> S] : Iterates(g, f, x, s)
    <3> HIDE DEF f
    <3> QED BY <1>1, <1>2, <2>1, Folds
  <2>3. ASSUME NEW i \in 0 .. n, i # 0 PROVE f[<<g[i - 1], s[i]>>] = Serve(g[i - 1], s[i])
    <3>1. i - 1 \in 0 .. Len(s) /\ i \in 1 .. Len(s)
      BY <1>1, <2>3 DEF n
    <3>2. g[i - 1] \in S
      BY <2>2, <3>1, Zenon
    <3>3. s[i] \in W
      BY <1>1, <3>1
    <3> QED BY <3>2, <3>3
  <2>4. g = Loop(g)
    <3> HIDE DEF f
    <3>1. \A i \in 0 .. n : i # 0 => i \in 1 .. n
      BY <1>1
    <3>2. \A i \in 0 .. n : g[i] = IF i = 0 THEN x ELSE Serve(g[i - 1], s[i])
      BY <2>2, <2>3, <3>1 DEF n, Iterates
    <3> QED BY <2>2, <3>2 DEF n
  <2> QED BY <2>4
<1>6. after = Loop(after)
  BY <1>5
<1> HIDE DEF after
<1>7. after[0] = x /\ \A i \in 1 .. n : after[i] = Serve(after[i - 1], s[i]) /\ s[i] \in W
  <2>1. 0 \in 0 .. n /\ \A i \in 1 .. n : i \in 0 .. n /\ i # 0
    BY <1>1
  <2>2. \A i \in 1 .. n : s[i] \in W
    BY <1>1 DEF n
  <2> QED BY <1>6, <2>1, <2>2
<1>8. \A i \in 0 .. n : after[i] \in S
  <2>1. \A i \in 1 .. n : after[i - 1] \in S => after[i] \in S
    BY <1>4, <1>7
  <2> QED BY <1>1, <1>2, <1>7, <2>1, Stays
<1>9. n \in 0 .. n
  BY <1>1
<1>10. r \in S
  BY <1>3, <1>8, <1>9
<1>11. \A j \in 1 .. n : s[j] \in ToSet(r.k.wait["recv"]) => ~Granted(r.set, r.wish[s[j]])
  <2> DEFINE Done(i, z) == \A j \in 1 .. n : j <= i /\ s[j] \in ToSet(z.k.wait["recv"]) =>
                             ~Granted(z.set, z.wish[s[j]])
             b == [i \in 0 .. n |-> <<i, after[i]>>]
             D == {p \in (0 .. n) \X S : Done(p[1], p[2])}
  <2>1. \A i \in 0 .. n : b[i] \in D <=> Done(i, after[i])
    <3> HIDE DEF Done
    <3> QED BY <1>8
  <2>2. Done(0, after[0])
    BY <1>1
  <2>3. ASSUME NEW i \in 1 .. n, Done(i - 1, after[i - 1]) PROVE Done(i, after[i])
    <3> DEFINE z == after[i - 1]
               a == after[i]
    <3> SUFFICES ASSUME NEW j \in 1 .. n, j <= i, s[j] \in ToSet(a.k.wait["recv"])
                 PROVE  ~Granted(a.set, a.wish[s[j]])
      OBVIOUS
    <3>1. i - 1 \in 0 .. n /\ z \in S /\ a = Serve(z, s[i]) /\ s[i] \in W
      BY <1>1, <1>7, <1>8
    <3>2. j # i => j <= i - 1
      BY <1>1
    <3>3. j # i /\ s[j] \in ToSet(z.k.wait["recv"]) => ~Granted(z.set, z.wish[s[j]])
      BY <2>3, <3>2
    <3> HIDE DEF z, a
    <3> QED BY <1>4, <3>1, <3>3
  <2> HIDE DEF Done, D
  <2>4. \A i \in 1 .. n : i \in 0 .. n /\ i - 1 \in 0 .. n
    BY <1>1
  <2>5. \A i \in 1 .. n : b[i - 1] \in D => b[i] \in D
    BY <2>1, <2>3, <2>4, Zenon
  <2>6. b[0] \in D
    BY <1>1, <2>1, <2>2
  <2> HIDE DEF b
  <2>7. \A i \in 0 .. n : b[i] \in D
    BY <1>1, <2>5, <2>6, Stays
  <2>8. Done(n, after[n])
    BY <1>9, <2>1, <2>7
  <2> QED BY <1>1, <1>3, <2>8 DEF Done
<1>12. ASSUME NEW t \in ToSet(r.k.wait["recv"]) PROVE ~Granted(r.set, r.wish[t])
  <2>1. t \in ToSet(k.wait["recv"])
    BY <1>10 DEF S
  <2>2. PICK j \in 1 .. n : s[j] = t
    BY <1>1, <2>1 DEF s, n, ToSet
  <2> QED BY <1>11, <2>2
<1> QED BY <1>10, <1>12 DEF S, EventData

(***************************************************************************)
(* What a step does to the calls the threads are in.                       *)
(***************************************************************************)
Shaped(c) == c = [at |-> c.at, op |-> c.op, left |-> c.left, arg |-> c.arg] /\ c.left \in Times

(* The processor stays with a ready thread.                                 *)
StaysReady(kk, r) ==
  r.nest = kk.nest /\ r.stat[r.current] = "READY" /\ (r.current = kk.current \/ kk.nest = 0)

(* Neither who deletes nor who is being deleted dies in the step.           *)
Involved(u) == u \in BeingDeleted \/ Deleting(u)
Spared(r) == \A u \in Threads : Involved(u) => r.stat[u] \in Living

LEMMA SaneData ==
  ASSUME NEW kk \in Sane
  PROVE  /\ kk \in Good(BeingDeleted, Reaped, 1) /\ kk.current \notin BeingDeleted
         /\ kk \in KernelData /\ Linked(kk, BeingDeleted, Reaped, 1)
         /\ kk.current \in Threads /\ kk.stat \in [Threads -> Stats]
BY GoodData, Typed DEF Sane

LEMMA DeletedAre ==
  ASSUME CallsOK
  PROVE  /\ BeingDeleted \subseteq Threads \ {Idle}
         /\ \A u \in Threads : Involved(u) => k.stat[u] \in Living
<1>1. \A u \in BeingDeleted : \E t \in Threads : Deleting(t) /\ u = call[t].arg
  BY DEF BeingDeleted
<1>2. \A t \in Threads : Deleting(t) =>
        call[t].arg \in Threads \ {Idle} /\ k.stat[t] \in Living /\ k.stat[call[t].arg] \in Living
  BY KernelAssumption DEF CallsOK
<1>3. BeingDeleted \subseteq Threads \ {Idle}
  BY <1>1, <1>2
<1>4. \A u \in Threads : Involved(u) => k.stat[u] \in Living
  BY <1>1, <1>2 DEF Involved
<1> QED BY <1>3, <1>4

LEMMA WakingSpares ==
  ASSUME CallsOK, NEW r, OnlyWakes(k, r)
  PROVE  Spared(r)
BY DeletedAre DEF Spared, OnlyWakes, Living

LEMMA WaitingSpares ==
  ASSUME CallsOK, k \in KernelData, NEW t \in Threads, NEW r, r.stat = [k.stat EXCEPT ![t] = "SUSPEND"]
  PROVE  Spared(r)
<1>1. k.stat \in [Threads -> Stats]
  BY Typed
<1>2. \A u \in Threads : r.stat[u] = IF u = t THEN "SUSPEND" ELSE k.stat[u]
  BY <1>1
<1> QED BY <1>2, DeletedAre DEF Spared, Living

LEMMA NoCallShaped ==
  /\ Shaped(NoCall) /\ NoCall.at = "run"
  /\ \A at : Shaped([NoCall EXCEPT !.at = at]) /\ [NoCall EXCEPT !.at = at].at = at
BY KernelAssumption DEF Shaped, NoCall, Times, FOREVER

LEMMA BlockedShaped ==
  ASSUME NEW op, NEW time \in Times, NEW arg
  PROVE  Shaped(Blocked(op, time, arg)) /\ Blocked(op, time, arg).at = "suspending"
BY DEF Shaped, Blocked

LEMMA AmidShaped ==
  ASSUME NEW at, NEW u
  PROVE  Shaped(Amid(at, u)) /\ Amid(at, u).at = at /\ Amid(at, u).arg = u
BY KernelAssumption DEF Shaped, Amid, Times, FOREVER

(* A call goes on.                                                          *)
LEMMA GoesOn ==
  ASSUME CallsOK, NEW t \in Threads, NEW at
  PROVE  LET c == [call[t] EXCEPT !.at = at] IN
         Shaped(c) /\ c.at = at /\ c.arg = call[t].arg /\ c.op = call[t].op
<1>1. /\ call[t] = [at |-> call[t].at, op |-> call[t].op, left |-> call[t].left, arg |-> call[t].arg]
      /\ call[t].left \in Times
  BY DEF CallsOK
<1> DEFINE c == [call[t] EXCEPT !.at = at]
<1>2. c = [at |-> at, op |-> call[t].op, left |-> call[t].left, arg |-> call[t].arg]
  BY <1>1
<1> HIDE DEF c
<1>3. Shaped(c) /\ c.at = at /\ c.arg = call[t].arg /\ c.op = call[t].op
  BY <1>1, <1>2 DEF Shaped
<1> QED BY <1>3 DEF c

(* A thread that is in the middle of something other than the end of a      *)
(* call is ready, and is not being deleted.                                 *)
LEMMA Active ==
  ASSUME KInv, NEW t \in Threads, Runs(t), call[t].at \notin {"suspending", "resched"}
  PROVE  /\ k.stat[t] = "READY" /\ t \notin BeingDeleted
         /\ k \in Sane /\ k \in KernelData /\ t = k.current /\ CallsOK
         /\ call[t].at \in {"woken", "suspend"} => k.nest = 0
         /\ call[t].at \notin {"run", "reap"} => t # Idle
         /\ OnlyWakes(k, k)
<1>1. t = k.current
  BY DEF Runs
<1>2. k \in Sane /\ k \in KernelData /\ t \notin BeingDeleted
  BY <1>1, SaneData DEF KInv
<1>3. OnlyWakes(k, k)
  BY DEF OnlyWakes
<1> QED BY <1>1, <1>2, <1>3 DEF KInv, RunsWell, CallsOK

LEMMA Calling_ ==
  ASSUME KInv, NEW t \in Threads, Calls(t)
  PROVE  /\ t \in Threads \ {Idle} /\ Runs(t) /\ call[t].at = "run" /\ ~Deleting(t)
         /\ k.stat[t] = "READY" /\ t \notin BeingDeleted /\ CallsOK
         /\ k \in Sane /\ k \in KernelData /\ t = k.current /\ OnlyWakes(k, k)
BY Active DEF Calls, Deleting

(* One thread goes on to another place in its calls.                        *)
LEMMA OneCall ==
  ASSUME CallsOK, NEW t \in Threads, NEW c, Goes(t, c), Shaped(c)
  PROVE  /\ call'[t] = c /\ \A u \in Threads \ {t} : call'[u] = call[u]
         /\ call' = [u \in Threads |-> [at |-> call'[u].at, op |-> call'[u].op,
                                        left |-> call'[u].left, arg |-> call'[u].arg]]
         /\ \A u \in Threads : call'[u].left \in Times
<1>1. call' = [u \in Threads |-> IF u = t THEN c ELSE call[u]]
  BY DEF Goes, CallsOK
<1>2. \A u \in Threads : Shaped(call[u])
  BY DEF CallsOK, Shaped
<1> DEFINE d == [u \in Threads |-> IF u = t THEN c ELSE call[u]]
<1>3. /\ \A u \in Threads : d[u] = [at |-> d[u].at, op |-> d[u].op, left |-> d[u].left, arg |-> d[u].arg]
      /\ \A u \in Threads : d[u].left \in Times
  <2>1. \A u \in Threads : Shaped(d[u])
    BY <1>2
  <2> QED BY <2>1 DEF Shaped
<1> QED BY <1>1, <1>3

LEMMA DeletesOn ==
  ASSUME CallsOK, Spared(k'), NEW t \in Threads, ~Deleting(t), call'[t].at # "delete",
         \A u \in Threads \ {t} : call'[u].at = call[u].at /\ call'[u].arg = call[u].arg
  PROVE  /\ BeingDeleted' = BeingDeleted
         /\ \A v \in Threads : Deleting(v)' =>
              /\ call'[v].arg \in Mortal /\ {k'.stat[v], k'.stat[call'[v].arg]} \subseteq Living
              /\ \A u \in Threads : Deleting(u)' =>
                   call'[v].arg # u /\ (call'[u].arg = call'[v].arg => u = v)
<1>1. \A u \in Threads : Deleting(u)' <=> Deleting(u)
  BY DEF Deleting
<1>2. \A u \in Threads : Deleting(u) => u # t /\ call'[u].arg = call[u].arg
  OBVIOUS
<1>3. BeingDeleted' = {call'[u].arg : u \in {v \in Threads : Deleting(v)}}
  BY <1>1 DEF BeingDeleted
<1>4. BeingDeleted' = BeingDeleted
  BY <1>2, <1>3 DEF BeingDeleted
<1>5. \A u \in Threads : Deleting(u) => call[u].arg \in BeingDeleted
  BY DEF BeingDeleted
<1>6. BeingDeleted \subseteq Threads
  BY DeletedAre
<1>7. \A u \in Threads : Deleting(u) => k'.stat[u] \in Living /\ k'.stat[call[u].arg] \in Living
  BY <1>5, <1>6 DEF Spared, Involved
<1> QED BY <1>1, <1>2, <1>4, <1>7 DEF CallsOK

LEMMA CallChanges ==
  ASSUME CallsOK, Spared(k'), NEW t \in Threads \ {Idle}, ~Deleting(t), NEW c, Goes(t, c), Shaped(c),
         c.at \notin {"delete", "reap"}
  PROVE  /\ CallsOK' /\ Reaped' = Reaped /\ BeingDeleted' = BeingDeleted
         /\ call'[t] = c /\ \A u \in Threads \ {t} : call'[u] = call[u]
<1>0. Idle \in Threads
  BY KernelAssumption
<1>1. /\ call'[t] = c /\ \A u \in Threads \ {t} : call'[u] = call[u]
      /\ call' = [u \in Threads |-> [at |-> call'[u].at, op |-> call'[u].op,
                                     left |-> call'[u].left, arg |-> call'[u].arg]]
      /\ \A u \in Threads : call'[u].left \in Times
  BY OneCall
<1>2. call'[Idle] = call[Idle]
  BY <1>0, <1>1
<1>3. Reaped' = Reaped
  BY <1>2 DEF Reaped, Reaping
<1>4. /\ BeingDeleted' = BeingDeleted
      /\ \A v \in Threads : Deleting(v)' =>
           /\ call'[v].arg \in Mortal /\ {k'.stat[v], k'.stat[call'[v].arg]} \subseteq Living
           /\ \A u \in Threads : Deleting(u)' =>
                call'[v].arg # u /\ (call'[u].arg = call'[v].arg => u = v)
  BY <1>1, DeletesOn
<1>5. CallsOK'
  BY <1>1, <1>2, <1>4 DEF CallsOK, Times, FOREVER
<1> QED BY <1>1, <1>3, <1>4, <1>5

LEMMA CallsStay ==
  ASSUME CallsOK, Spared(k'), UNCHANGED call
  PROVE  CallsOK' /\ Reaped' = Reaped /\ BeingDeleted' = BeingDeleted
<1>1. Reaped' = Reaped
  BY DEF Reaped, Reaping
<1>2. \A u \in Threads : Deleting(u)' <=> Deleting(u)
  BY DEF Deleting
<1>3. BeingDeleted' = BeingDeleted
  BY <1>2 DEF BeingDeleted
<1>4. \A u \in Threads : Deleting(u) => call[u].arg \in BeingDeleted
  BY DEF BeingDeleted
<1>5. BeingDeleted \subseteq Threads
  BY DeletedAre
<1>6. \A u \in Threads : Deleting(u) => k'.stat[u] \in Living /\ k'.stat[call[u].arg] \in Living
  BY <1>4, <1>5 DEF Spared, Involved
<1>7. CallsOK'
  BY <1>2, <1>6 DEF CallsOK, Times, FOREVER
<1> QED BY <1>1, <1>3, <1>7

(* A step that wakes threads and leaves the calls alone.                    *)
LEMMA WakesStep ==
  ASSUME KInv, k' \in Sane, OnlyWakes(k, k'), UNCHANGED call
  PROVE  KInv'
<1>1. CallsOK' /\ Reaped' = Reaped /\ BeingDeleted' = BeingDeleted
  BY CallsStay, WakingSpares DEF KInv
<1>2. RunsWell(k, call)'
  <2>1. k.current \in Threads /\ k'.current \in Threads
    BY SaneData DEF KInv
  <2> QED BY <2>1 DEF KInv, RunsWell, OnlyWakes
<1> QED BY <1>1, <1>2 DEF KInv, Sane

LEMMA WokenReady ==
  ASSUME NEW kk \in KernelData, NEW r \in KernelData, OnlyWakes(kk, r), kk.stat[kk.current] = "READY"
  PROVE  StaysReady(kk, r)
<1>1. kk.current \in Threads
  BY Typed
<1> QED BY <1>1 DEF OnlyWakes, StaysReady

(* A step of the running thread, in its call or out of it.                  *)
LEMMA ReturnStep ==
  ASSUME KInv, NEW t \in Threads \ {Idle}, ~Deleting(t), t = k.current, Spared(k'),
         k' \in Sane, StaysReady(k, k'), NEW c, Goes(t, c), Shaped(c),
         c.at \notin {"delete", "reap", "suspending", "woken"}, c.at = "suspend" => k.nest = 0
  PROVE  KInv'
<1>1. /\ CallsOK' /\ Reaped' = Reaped /\ BeingDeleted' = BeingDeleted
      /\ call'[t] = c
  BY CallChanges DEF KInv
<1>2. RunsWell(k, call)'
  BY <1>1 DEF RunsWell, StaysReady
<1> QED BY <1>1, <1>2 DEF KInv, Sane

LEMMA WakesReturns ==
  ASSUME KInv, NEW t \in Threads \ {Idle}, ~Deleting(t), t = k.current, k.stat[t] = "READY",
         k' \in Sane, OnlyWakes(k, k'), NEW c, Goes(t, c), Shaped(c),
         c.at \notin {"delete", "reap", "suspending", "woken"}, c.at = "suspend" => k.nest = 0
  PROVE  KInv'
<1>1. k \in KernelData /\ k' \in KernelData
  BY SaneData DEF KInv
<1>2. StaysReady(k, k')
  BY <1>1, WokenReady
<1>3. Spared(k')
  BY WakingSpares DEF KInv
<1> QED BY <1>2, <1>3, ReturnStep

LEMMA WaitStep ==
  ASSUME KInv, NEW t \in Threads \ {Idle}, ~Deleting(t), t = k.current, k.nest = 0,
         k' \in Good(BeingDeleted, Reaped, 1), WaitsOn(k, k', t),
         NEW c, Goes(t, c), Shaped(c), c.at = "suspending"
  PROVE  KInv'
<1>0. k \in KernelData /\ k.stat \in [Threads -> Stats] /\ k.current \notin BeingDeleted
  BY SaneData DEF KInv
<1>1. /\ CallsOK' /\ Reaped' = Reaped /\ BeingDeleted' = BeingDeleted
      /\ call'[t] = c
  BY <1>0, CallChanges, WaitingSpares DEF KInv, WaitsOn
<1>2. k'.stat[t] = "SUSPEND"
  BY <1>0 DEF WaitsOn
<1>3. RunsWell(k, call)'
  BY <1>1, <1>2 DEF RunsWell, WaitsOn
<1>4. k'.current \notin BeingDeleted
  BY <1>0 DEF WaitsOn
<1> QED BY <1>1, <1>3, <1>4 DEF KInv, Sane

(***************************************************************************)
(* The actions about threads.                                              *)
(***************************************************************************)
LEMMA TickSpares ==
  ASSUME KInv, Disciplined, Tick
  PROVE  /\ k' \in Sane /\ OnlyWakes(k, k') /\ Settled(k, k') /\ Refuses(k, k')
         /\ Spares(k, k', Taken_off)
<1>1. k \in Good(BeingDeleted, Reaped, 1) /\ k.current \notin BeingDeleted
  BY SaneData DEF KInv
<1>2. k' = rt_tick_increase(k)
  BY DEF Tick
<1>3. BeingDeleted \subseteq Taken_off
  BY DEF BeingDeleted, Taken_off, Deleting
<1>4. NotDue(k, 1, Taken_off)
  BY DEF Tick, Disciplined, NotDue
<1>5. /\ k' \in Good(BeingDeleted, Reaped, 1) /\ OnlyWakes(k, k') /\ Settled(k, k')
      /\ Refuses(k, k') /\ k'.current \notin BeingDeleted /\ Spares(k, k', Taken_off)
  BY <1>1, <1>2, <1>3, <1>4, Ticks
<1> QED BY <1>5 DEF Sane

LEMMA TickKeeps ==
  ASSUME KInv, Disciplined, Tick
  PROVE  /\ KInv'
         /\ \A t \in Threads : call'[t].at = call[t].at /\ call'[t].op = call[t].op
                               /\ call'[t].arg = call[t].arg
<1>2. call' = [t \in Threads |-> elapsed(call[t])]
  BY DEF Tick
<1>3. k' \in Sane /\ OnlyWakes(k, k')
  BY TickSpares
<1>4. CallsOK /\ \A t \in Threads : Shaped(call[t])
  BY DEF KInv, CallsOK, Shaped
<1>5. ASSUME NEW t \in Threads
      PROVE  LET c == call[t]
                 d == elapsed(call[t])
             IN  d.at = c.at /\ d.op = c.op /\ d.arg = c.arg /\ d.left \in Times
                 /\ d = [at |-> d.at, op |-> d.op, left |-> d.left, arg |-> d.arg]
  <2> DEFINE c == call[t]
             d == elapsed(c)
  <2>1. c = [at |-> c.at, op |-> c.op, left |-> c.left, arg |-> c.arg] /\ c.left \in Times
    BY <1>4 DEF Shaped
  <2>2. d = IF c.left \in 1 .. MaxWait /\ c.at \in {"suspending", "woken"}
            THEN [c EXCEPT !.left = c.left - 1] ELSE c
    BY DEF elapsed
  <2> HIDE DEF c, d
  <2>3. CASE c.left \in 1 .. MaxWait /\ c.at \in {"suspending", "woken"}
    <3>1. d = [at |-> c.at, op |-> c.op, left |-> c.left - 1, arg |-> c.arg]
      BY <2>1, <2>2, <2>3
    <3>2. c.left - 1 \in Times
      BY <2>3, KernelAssumption DEF Times, FOREVER
    <3> QED BY <3>1, <3>2 DEF c, d
  <2>4. CASE ~(c.left \in 1 .. MaxWait /\ c.at \in {"suspending", "woken"})
    BY <2>1, <2>2, <2>4 DEF c, d
  <2> QED BY <2>3, <2>4
<1>6. ASSUME NEW t \in Threads
      PROVE  /\ call'[t].at = call[t].at /\ call'[t].op = call[t].op /\ call'[t].arg = call[t].arg
             /\ call'[t].left \in Times
             /\ call'[t] = [at |-> call'[t].at, op |-> call'[t].op, left |-> call'[t].left,
                            arg |-> call'[t].arg]
  BY <1>2, <1>5
<1>7. Idle \in Threads
  BY KernelAssumption
<1>8. Reaped' = Reaped
  BY <1>6, <1>7 DEF Reaped, Reaping
<1>9. call[Idle].at \in {"run", "reap"} /\ ~Deleting(Idle) /\ call'[Idle].at # "delete"
  BY <1>4, <1>6, <1>7 DEF CallsOK, Deleting
<1>10. /\ BeingDeleted' = BeingDeleted
       /\ \A v \in Threads : Deleting(v)' =>
            /\ call'[v].arg \in Mortal /\ {k'.stat[v], k'.stat[call'[v].arg]} \subseteq Living
            /\ \A u \in Threads : Deleting(u)' =>
                 call'[v].arg # u /\ (call'[u].arg = call'[v].arg => u = v)
  <2>1. Spared(k')
    BY <1>3, <1>4, WakingSpares
  <2> QED BY <1>4, <1>6, <1>7, <1>9, <2>1, DeletesOn
<1>11. CallsOK'
  <2>1. call' = [t \in Threads |-> [at |-> call'[t].at, op |-> call'[t].op,
                                    left |-> call'[t].left, arg |-> call'[t].arg]]
    <3>1. call' = [t \in Threads |-> call'[t]]
      BY <1>2
    <3> QED BY <1>6, <3>1
  <2>2. \A t \in Threads : call'[t].left \in Times
    BY <1>6
  <2>3. call'[Idle].at \in {"run", "reap"} /\ (call'[Idle].at = "reap" => call'[Idle].arg \in Threads)
    BY <1>4, <1>6, <1>7 DEF CallsOK
  <2> QED BY <1>10, <2>1, <2>2, <2>3 DEF CallsOK, Times, FOREVER
<1>12. RunsWell(k, call)'
  <2>1. k.current \in Threads /\ k'.current \in Threads
    BY <1>3, SaneData DEF KInv
  <2>2. call'[k.current].at = call[k.current].at
    BY <1>6, <2>1
  <2> QED BY <1>3, <2>1, <2>2 DEF KInv, RunsWell, OnlyWakes
<1> QED BY <1>3, <1>6, <1>8, <1>10, <1>11, <1>12 DEF KInv, Sane

LEMMA ReschedKeeps ==
  ASSUME KInv, NEW t \in Threads, Resched(t) \/ SwitchAway(t)
  PROVE  KInv'
<1> DEFINE c == IF call[t].at = "resched" THEN NoCall ELSE [call[t] EXCEPT !.at = "woken"]
<1>1. /\ t = k.current /\ call[t].at \in {"resched", "suspending"} /\ k' = rt_schedule(k)
      /\ Goes(t, c)
  BY DEF Resched, SwitchAway, Continues, Runs
<1>2. CallsOK /\ RunsWell(k, call) /\ t \in Threads \ {Idle} /\ ~Deleting(t)
  BY <1>1 DEF KInv, CallsOK, Deleting
<1>4. k \in Good(BeingDeleted, Reaped, 1) /\ k.current \notin BeingDeleted
  BY SaneData DEF KInv
<1>5. /\ k' \in Sane /\ OnlyWakes(k, k') /\ k'.stat = k.stat
      /\ k.nest = 0 => k'.stat[k'.current] = "READY"
      /\ k.nest # 0 => k' = k
  BY <1>1, <1>4, Schedules DEF Sane
<1>6. Shaped(c) /\ c.at \in {"run", "woken"} /\ (call[t].at = "resched" => c.at = "run")
  <2>1. CASE call[t].at = "resched"
    BY <2>1, NoCallShaped
  <2>2. CASE call[t].at # "resched"
    BY <1>2, <2>2, GoesOn
  <2> QED BY <2>1, <2>2
<1> HIDE DEF c
<1>7. /\ CallsOK' /\ Reaped' = Reaped /\ BeingDeleted' = BeingDeleted /\ call'[t] = c
  BY <1>1, <1>2, <1>5, <1>6, WakingSpares, CallChanges
<1>8. RunsWell(k, call)'
  <2>1. CASE k.nest = 0
    <3>1. k'.nest = 0 /\ k'.stat[k'.current] = "READY"
      BY <1>5, <2>1 DEF OnlyWakes
    <3> QED BY <3>1 DEF RunsWell
  <2>2. CASE k.nest # 0
    <3>1. k' = k /\ call[t].at = "resched" /\ k.stat[t] = "READY" /\ c.at = "run"
      BY <1>1, <1>2, <1>5, <1>6, <2>2 DEF RunsWell
    <3> QED BY <1>1, <1>7, <3>1 DEF RunsWell
  <2> QED BY <2>1, <2>2
<1> QED BY <1>5, <1>7, <1>8 DEF KInv, Sane

LEMMA SleepKeeps ==
  ASSUME KInv, NEW t \in Threads, NEW times \in SUBSET (1 .. MaxWait), Sleep(t, times)
  PROVE  /\ KInv' /\ k'.stat = [k.stat EXCEPT ![t] = "SUSPEND"]
         /\ \A q \in Queues : ToSet(k'.wait[q]) \subseteq ToSet(k.wait[q])
         /\ Owners(k'.timers) \subseteq Owners(k.timers) \cup {t}
<1>1. PICK time \in times : /\ Calls(t) /\ k.nest = 0
                            /\ k' = rt_timer_start(rt_thread_suspend(k, t), t, time)
                            /\ Goes(t, Blocked("sleep", time, NULL))
  BY DEF Sleep
<1>2. /\ t \in Threads \ {Idle} /\ k.stat[t] = "READY" /\ t \notin BeingDeleted /\ ~Deleting(t)
      /\ k \in Good(BeingDeleted, Reaped, 1) /\ k \in KernelData /\ t = k.current
  BY <1>1, Calling_, SaneData
<1> DEFINE off == rt_thread_suspend(k, t)
<1>3. /\ off \in Good(BeingDeleted, Reaped, 1)
      /\ off.static = k.static /\ off.current = k.current /\ off.nest = k.nest
      /\ off.stat = [k.stat EXCEPT ![t] = "SUSPEND"] /\ off.wait = Less(k, t)
      /\ Owners(off.timers) \subseteq Owners(k.timers)
  BY <1>2, Suspends
<1>4. off.stat[t] = "SUSPEND"
  BY <1>2, <1>3, Typed
<1>5. time \in 1 .. MaxWait /\ time \in Times
  BY KernelAssumption DEF Times, FOREVER
<1>6. k' = rt_timer_start(off, t, time)
  BY <1>1
<1> HIDE DEF off
<1>7. /\ k' \in Good(BeingDeleted, Reaped, 1)
      /\ k'.static = off.static /\ k'.current = off.current /\ k'.nest = off.nest
      /\ k'.stat = off.stat /\ k'.wait = off.wait
      /\ Owners(k'.timers) \subseteq Owners(off.timers) \cup {t}
  <2>1. off \in Good(BeingDeleted, Reaped, 1) /\ t \in Threads /\ time \in 1 .. MaxWait
    BY <1>2, <1>3, <1>5
  <2> QED BY <1>4, <1>6, <2>1, Starts
<1>8. WaitsOn(k, k', t)
  BY <1>3, <1>7 DEF WaitsOn
<1>9. KInv'
  BY <1>1, <1>2, <1>5, <1>7, <1>8, BlockedShaped, WaitStep
<1>10. \A q \in Queues : ToSet(Less(k, t)[q]) \subseteq ToSet(k.wait[q])
  BY <1>2, GoodOnce, LessIsThinner DEF Thinner
<1> QED BY <1>3, <1>7, <1>9, <1>10

(* rt_thread_suspend looks, then suspends.                                  *)
LEMMA SuspendKeeps ==
  ASSUME KInv, NEW t \in Threads, Suspend(t)
  PROVE  KInv'
<1>1. PICK u \in Threads \ {Idle} : Calls(t) /\ k.nest = 0 /\ UNCHANGED k /\ Goes(t, Amid("suspend", u))
  BY DEF Suspend
<1>2. /\ t \in Threads \ {Idle} /\ k.stat[t] = "READY" /\ ~Deleting(t)
      /\ k \in Sane /\ t = k.current /\ OnlyWakes(k, k)
  BY <1>1, Calling_
<1>3. Shaped(Amid("suspend", u)) /\ Amid("suspend", u).at = "suspend"
  BY AmidShaped
<1>4. k' \in Sane /\ OnlyWakes(k, k')
  BY <1>1, <1>2
<1> HIDE DEF Amid
<1> QED BY <1>1, <1>2, <1>3, <1>4, WakesReturns

LEMMA SuspendNowKeeps ==
  ASSUME KInv, WInv, NEW t \in Threads, SuspendNow(t)
  PROVE  LET u == call[t].arg IN
         /\ KInv' /\ u \in Threads /\ k'.stat = [k.stat EXCEPT ![u] = "SUSPEND"]
         /\ \A q \in Queues : ToSet(k'.wait[q]) \subseteq ToSet(k.wait[q])
         /\ Owners(k'.timers) \subseteq Owners(k.timers)
<1> DEFINE u == call[t].arg
<1>1. /\ Runs(t) /\ call[t].at = "suspend" /\ k' = suspended(k, u)
      /\ Goes(t, IF u = t THEN Blocked("suspend", FOREVER, {}) ELSE NoCall)
  BY DEF SuspendNow
<1>2. u \in Threads \ {Idle} /\ u \notin BeingDeleted /\ k.stat[u] \in {"READY", "SUSPEND"}
  BY <1>1 DEF WInv, Windows, Handles
<1>3. /\ t \in Threads \ {Idle} /\ k.stat[t] = "READY" /\ ~Deleting(t) /\ k.nest = 0
      /\ k \in Good(BeingDeleted, Reaped, 1) /\ k \in KernelData /\ t = k.current
      /\ k.current \notin BeingDeleted
  BY <1>1, Active, SaneData DEF Deleting
<1> HIDE DEF u
<1>4. /\ k' \in Good(BeingDeleted, Reaped, 1)
      /\ k'.static = k.static /\ k'.current = k.current /\ k'.nest = k.nest
      /\ k'.stat = [k.stat EXCEPT ![u] = "SUSPEND"] /\ k'.wait = Less(k, u)
      /\ Owners(k'.timers) \subseteq Owners(k.timers)
  BY <1>1, <1>2, <1>3, Suspends
<1>5. \A q \in Queues : ToSet(k'.wait[q]) \subseteq ToSet(k.wait[q])
  BY <1>3, <1>4, GoodOnce, LessIsThinner DEF Thinner
<1>6. CASE u = t
  <2>1. WaitsOn(k, k', t) /\ Goes(t, Blocked("suspend", FOREVER, {}))
    BY <1>1, <1>4, <1>6 DEF WaitsOn
  <2>2. FOREVER \in Times
    BY KernelAssumption DEF Times, FOREVER
  <2>3. Shaped(Blocked("suspend", FOREVER, {})) /\ Blocked("suspend", FOREVER, {}).at = "suspending"
    BY <2>2, BlockedShaped
  <2>4. KInv'
    BY <1>3, <1>4, <2>1, <2>3, WaitStep
  <2> QED BY <1>2, <1>4, <1>5, <2>4 DEF u
<1>7. CASE u # t
  <2>1. StaysReady(k, k')
    BY <1>3, <1>4, <1>7, Typed DEF StaysReady
  <2>2. Goes(t, NoCall)
    BY <1>1, <1>7
  <2>3. k' \in Sane
    BY <1>3, <1>4 DEF Sane
  <2>4. Spared(k')
    BY <1>2, <1>3, <1>4, WaitingSpares DEF KInv
  <2>5. KInv'
    BY <1>3, <2>1, <2>2, <2>3, <2>4, NoCallShaped, ReturnStep
  <2> QED BY <1>2, <1>4, <1>5, <2>5 DEF u
<1> QED BY <1>6, <1>7

(* rt_thread_resume looks, takes the thread off its list and its timer, and *)
(* puts it on the ready list.                                               *)
LEMMA ResumeKeeps ==
  ASSUME KInv, NEW t \in Threads, Resume(t)
  PROVE  KInv'
<1>1. PICK u \in Threads \ {t} : Calls(t) /\ UNCHANGED k /\ Goes(t, Amid("resume", u))
  BY DEF Resume
<1>2. /\ t \in Threads \ {Idle} /\ k.stat[t] = "READY" /\ ~Deleting(t)
      /\ k \in Sane /\ t = k.current /\ OnlyWakes(k, k)
  BY <1>1, Calling_
<1>3. Shaped(Amid("resume", u)) /\ Amid("resume", u).at = "resume"
  BY AmidShaped
<1>4. k' \in Sane /\ OnlyWakes(k, k')
  BY <1>1, <1>2
<1> HIDE DEF Amid
<1> QED BY <1>1, <1>2, <1>3, <1>4, WakesReturns

LEMMA ResumeTakeKeeps ==
  ASSUME KInv, WInv, NEW t \in Threads, ResumeTake(t)
  PROVE  LET u == call[t].arg IN
         /\ KInv' /\ k'.stat = k.stat
         /\ \A q \in Queues : ToSet(k'.wait[q]) \subseteq ToSet(k.wait[q]) /\ u \notin ToSet(k'.wait[q])
         /\ Owners(k'.timers) \subseteq Owners(k.timers) /\ u \notin Owners(k'.timers)
<1> DEFINE u == call[t].arg
           z == list_remove(k, u)
           c == [call[t] EXCEPT !.at = "insert"]
<1>1. Runs(t) /\ call[t].at = "resume" /\ k' = rt_timer_stop(z, u) /\ Goes(t, c)
  BY DEF ResumeTake, unlisted, Continues
<1>2. u \in Threads /\ k.stat[u] = "SUSPEND"
  BY <1>1 DEF WInv, Windows, Handles
<1>3. /\ t \in Threads \ {Idle} /\ k.stat[t] = "READY" /\ ~Deleting(t) /\ CallsOK
      /\ k \in Good(BeingDeleted, Reaped, 1) /\ k.current \notin BeingDeleted /\ t = k.current
  BY <1>1, Active, SaneData DEF Deleting
<1>4. Shaped(c) /\ c.at = "insert"
  BY <1>3, GoesOn
<1> HIDE DEF u, c
<1>5. /\ z \in Good(BeingDeleted, Reaped, 1)
      /\ \A q \in Queues : u \notin ToSet(z.wait[q])
      /\ z.static = k.static /\ z.current = k.current /\ z.nest = k.nest
      /\ z.timers = k.timers /\ z.stat = k.stat /\ z.wait = Less(k, u)
  BY <1>2, <1>3, Delists
<1> HIDE DEF z
<1>6. /\ k' \in Good(BeingDeleted, Reaped, 1) /\ u \notin Owners(k'.timers)
      /\ k'.static = z.static /\ k'.current = z.current /\ k'.nest = z.nest
      /\ k'.stat = z.stat /\ k'.wait = z.wait /\ Owners(k'.timers) \subseteq Owners(z.timers)
  <2>1. z \in Good(BeingDeleted, Reaped, 1) /\ u \in Threads
    BY <1>2, <1>5
  <2> DEFINE r == rt_timer_stop(z, u)
  <2>2. /\ r \in Good(BeingDeleted, Reaped, 1) /\ u \notin Owners(r.timers)
        /\ r.static = z.static /\ r.current = z.current /\ r.nest = z.nest
        /\ r.stat = z.stat /\ r.wait = z.wait /\ Owners(r.timers) \subseteq Owners(z.timers)
    BY <2>1, Stops
  <2> HIDE DEF r
  <2> QED BY <1>1, <2>2 DEF r
<1>7. k' \in Sane /\ OnlyWakes(k, k')
  BY <1>3, <1>5, <1>6 DEF Sane, OnlyWakes
<1>8. KInv'
  BY <1>1, <1>3, <1>4, <1>7, WakesReturns
<1>9. \A q \in Queues : ToSet(k'.wait[q]) \subseteq ToSet(k.wait[q])
  BY <1>3, <1>5, <1>6, GoodData, GoodOnce, LessIsThinner DEF Thinner
<1> QED BY <1>5, <1>6, <1>8, <1>9 DEF u

LEMMA ResumeInsertKeeps ==
  ASSUME KInv, WInv, NEW t \in Threads, ResumeInsert(t)
  PROVE  LET u == call[t].arg IN
         /\ KInv' /\ u \in Threads /\ k'.stat = [k.stat EXCEPT ![u] = "READY"]
         /\ k'.wait = k.wait /\ k'.timers = k.timers
<1> DEFINE u == call[t].arg
           at == IF call[t].op = "startup" THEN "resched" ELSE "run"
           c == [NoCall EXCEPT !.at = at]
<1>1. Runs(t) /\ call[t].at = "insert" /\ k' = rt_schedule_insert_thread(k, u) /\ Goes(t, c)
  BY DEF ResumeInsert
<1>2. /\ u \in Threads /\ k.stat[u] = "SUSPEND" /\ u \notin BeingDeleted
      /\ u \notin Owners(k.timers) /\ \A q \in Queues : u \notin ToSet(k.wait[q])
  BY <1>1 DEF WInv, Windows, Handles
<1>3. /\ t \in Threads \ {Idle} /\ k.stat[t] = "READY" /\ ~Deleting(t)
      /\ k \in Good(BeingDeleted, Reaped, 1) /\ Linked(k, BeingDeleted, Reaped, 1)
      /\ k.current \notin BeingDeleted /\ t = k.current /\ k.stat \in [Threads -> Stats]
  BY <1>1, Active, SaneData DEF Deleting
<1>4. Shaped(c) /\ c.at \in {"run", "resched"}
  BY NoCallShaped
<1> HIDE DEF u, c
<1>5. \A p \in Prios : u \notin ToSet(k.ready[p])
  BY <1>2, <1>3 DEF Linked, ReadyLinked
<1>6. /\ k' \in Good(BeingDeleted \ {u}, Reaped, 1)
      /\ k'.static = k.static /\ k'.current = k.current /\ k'.nest = k.nest
      /\ k'.timers = k.timers /\ k'.stat = [k.stat EXCEPT ![u] = "READY"] /\ k'.wait = k.wait
  BY <1>1, <1>2, <1>3, <1>5, Enters
<1>7. BeingDeleted \ {u} = BeingDeleted
  BY <1>2
<1>8. k' \in Sane /\ OnlyWakes(k, k')
  BY <1>2, <1>3, <1>6, <1>7 DEF Sane, OnlyWakes
<1>9. KInv'
  BY <1>1, <1>3, <1>4, <1>8, WakesReturns
<1> QED BY <1>2, <1>6, <1>9 DEF u

LEMMA StartupResumeKeeps ==
  ASSUME KInv, NEW t \in Threads, StartupResume(t)
  PROVE  KInv'
<1> DEFINE at == IF k.stat[call[t].arg] = "SUSPEND" THEN "resume" ELSE "resched"
           c == [call[t] EXCEPT !.at = at]
<1>1. Runs(t) /\ call[t].at = "startup" /\ UNCHANGED k /\ Goes(t, c)
  BY DEF StartupResume, Continues
<1>2. /\ t \in Threads \ {Idle} /\ k.stat[t] = "READY" /\ ~Deleting(t) /\ CallsOK
      /\ k \in Sane /\ t = k.current /\ OnlyWakes(k, k)
  BY <1>1, Active DEF Deleting
<1>3. Shaped(c) /\ c.at = at
  BY <1>2, GoesOn
<1>4. c.at \in {"resume", "resched"}
  BY <1>3
<1> HIDE DEF c
<1>5. k' \in Sane /\ OnlyWakes(k, k')
  BY <1>1, <1>2
<1> QED BY <1>1, <1>2, <1>3, <1>4, <1>5, WakesReturns

LEMMA WokenKeeps ==
  ASSUME KInv, NEW t \in Threads, SleepDone(t) \/ SuspendDone(t)
  PROVE  /\ KInv' /\ k'.stat = k.stat /\ k'.wait = k.wait /\ k'.timers = k.timers
<1>1. Runs(t) /\ call[t].at = "woken" /\ Goes(t, NoCall)
  BY DEF SleepDone, SuspendDone
<1>2. /\ k.stat[t] = "READY" /\ t # Idle /\ ~Deleting(t)
      /\ k \in Good(BeingDeleted, Reaped, 1) /\ k \in KernelData /\ t = k.current /\ OnlyWakes(k, k)
      /\ k.current \notin BeingDeleted
  BY <1>1, Active, SaneData DEF Deleting
<1>3. /\ k' \in Sane /\ OnlyWakes(k, k')
      /\ k'.stat = k.stat /\ k'.wait = k.wait /\ k'.timers = k.timers
  <2>1. CASE SuspendDone(t)
    BY <1>2, <2>1 DEF SuspendDone, Sane
  <2>2. CASE SleepDone(t)
    <3> DEFINE e == IF k.err[t] = "ETIMEOUT" THEN "EOK" ELSE k.err[t]
    <3>1. e \in {"EOK", "ERROR", "ETIMEOUT"}
      BY <1>2, Typed
    <3>2. k' = [k EXCEPT !.err[t] = e]
      BY <2>2 DEF SleepDone
    <3> HIDE DEF e
    <3> QED BY <1>2, <3>1, <3>2, SetsError DEF Sane
  <2> QED BY <2>1, <2>2
<1> QED BY <1>1, <1>2, <1>3, NoCallShaped, WakesReturns

LEMMA YieldKeeps ==
  ASSUME KInv, NEW t \in Threads, Yield(t)
  PROVE  /\ KInv' /\ k'.stat = k.stat /\ k'.wait = k.wait /\ k'.timers = k.timers
<1> DEFINE c == [NoCall EXCEPT !.at = "resched"]
<1>1. Calls(t) /\ has_peers(k) /\ k' = goes_last(k) /\ Goes(t, c)
  BY DEF Yield
<1>2. /\ t \in Threads \ {Idle} /\ k.stat[t] = "READY" /\ ~Deleting(t) /\ t = k.current
      /\ k \in Good(BeingDeleted, Reaped, 1) /\ k.current \notin BeingDeleted
  BY <1>1, Calling_, SaneData
<1>3. /\ k' \in Good(BeingDeleted, Reaped, 1) /\ k'.stat = k.stat /\ k'.wait = k.wait
      /\ k'.timers = k.timers /\ k'.static = k.static /\ k'.current = k.current /\ k'.nest = k.nest
  BY <1>1, <1>2, GoesLast
<1>4. k' \in Sane /\ OnlyWakes(k, k')
  BY <1>2, <1>3 DEF Sane, OnlyWakes
<1>5. Shaped(c) /\ c.at = "resched"
  BY NoCallShaped
<1> HIDE DEF c
<1> QED BY <1>1, <1>2, <1>3, <1>4, <1>5, WakesReturns

LEMMA PriorityKeeps ==
  ASSUME KInv, Disciplined, NEW t \in Threads, ChangePriority(t)
  PROVE  /\ KInv' /\ k'.stat = k.stat /\ k'.wait = k.wait /\ k'.timers = k.timers
<1>1. PICK u \in Mortal, p \in Prios :
        Calls(t) /\ LeftAlone(t, u) /\ k' = rt_thread_change_priority(k, u, p) /\ UNCHANGED call
  BY DEF ChangePriority
<1>2. u \in Threads \ {Idle} /\ u \notin BeingDeleted
  BY <1>1, KernelAssumption DEF LeftAlone, Disciplined, Handled, Handling, BeingDeleted, Deleting
<1>3. k \in Good(BeingDeleted, Reaped, 1) /\ k.current \notin BeingDeleted
  BY SaneData DEF KInv
<1>4. /\ k' \in Sane /\ OnlyWakes(k, k')
      /\ k'.stat = k.stat /\ k'.wait = k.wait /\ k'.timers = k.timers
  BY <1>1, <1>2, <1>3, ChangesPriority DEF Sane
<1> QED BY <1>1, <1>4, WakesStep

LEMMA SameSpares ==
  ASSUME CallsOK, k'.stat = k.stat
  PROVE  Spared(k')
BY DeletedAre DEF Spared

LEMMA CriticalKeeps ==
  ASSUME KInv, NEW t \in Threads, EnterCritical(t) \/ ExitCritical(t)
  PROVE  /\ KInv' /\ k'.stat = k.stat /\ k'.wait = k.wait /\ k'.timers = k.timers
<1>1. Calls(t)
  BY DEF EnterCritical, ExitCritical
<1>2. /\ t \in Threads \ {Idle} /\ k.stat[t] = "READY" /\ ~Deleting(t) /\ call[t].at = "run"
      /\ k \in Good(BeingDeleted, Reaped, 1) /\ k \in KernelData /\ t = k.current
      /\ k.current \notin BeingDeleted /\ CallsOK
  BY <1>1, Calling_, SaneData
<1>3. PICK n \in 0 .. MaxNest : k' = [k EXCEPT !.nest = n]
  <2>1. k.nest \in 0 .. MaxNest /\ MaxNest \in Nat
    BY <1>2, Typed, KernelAssumption
  <2>2. CASE EnterCritical(t)
    <3>1. k' = [k EXCEPT !.nest = k.nest + 1] /\ k.nest < MaxNest
      BY <2>2 DEF EnterCritical
    <3>2. k.nest + 1 \in 0 .. MaxNest
      BY <2>1, <3>1
    <3> QED BY <3>1, <3>2, Zenon
  <2>3. CASE ExitCritical(t)
    <3>1. k' = [k EXCEPT !.nest = k.nest - 1] /\ k.nest > 0
      BY <2>3 DEF ExitCritical
    <3>2. k.nest - 1 \in 0 .. MaxNest
      BY <2>1, <3>1
    <3> QED BY <3>1, <3>2, Zenon
  <2> QED BY <2>2, <2>3
<1>4. /\ k' \in KernelData /\ k'.ready = k.ready /\ k'.wait = k.wait
      /\ k'.defunct = k.defunct /\ k'.static = k.static /\ k'.current = k.current
      /\ k'.nest = n /\ k'.timers = k.timers /\ k'.stat = k.stat /\ k'.prio = k.prio
      /\ k'.group = k.group
  BY <1>2, <1>3 DEF KernelData
<1>5. k' \in Sane /\ Spared(k')
  BY <1>2, <1>4, SameLists, SameSpares DEF Sane
<1>6. CASE EnterCritical(t)
  <2>1. UNCHANGED call
    BY <1>6 DEF EnterCritical
  <2>2. CallsOK' /\ Reaped' = Reaped /\ BeingDeleted' = BeingDeleted
    BY <1>2, <1>5, <2>1, CallsStay
  <2>3. RunsWell(k, call)'
    BY <1>2, <1>4, <2>1 DEF RunsWell
  <2> QED BY <1>4, <1>5, <2>2, <2>3 DEF KInv, Sane
<1>7. CASE ExitCritical(t)
  <2> DEFINE d == [NoCall EXCEPT !.at = IF k.nest = 1 THEN "resched" ELSE "run"]
  <2>1. Goes(t, d)
    BY <1>7 DEF ExitCritical, rt_exit_schedules
  <2>2. Shaped(d) /\ d.at \in {"resched", "run"}
    BY NoCallShaped
  <2> HIDE DEF d
  <2>3. /\ CallsOK' /\ Reaped' = Reaped /\ BeingDeleted' = BeingDeleted /\ call'[t] = d
    BY <1>2, <1>5, <2>1, <2>2, CallChanges
  <2>4. RunsWell(k, call)'
    BY <1>2, <1>4, <2>2, <2>3 DEF RunsWell
  <2> QED BY <1>4, <1>5, <2>3, <2>4 DEF KInv, Sane
<1> QED BY <1>6, <1>7

(* A new thread, and one that is started, is on no list before.             *)
Born(kk, u, static) ==
  [kk EXCEPT !.stat[u] = "INIT", !.prio[u] = Priority[u], !.slice[u] = Slice,
             !.err[u] = "EOK", !.static = IF static THEN @ \cup {u} ELSE @ \ {u}]
LEMMA News ==
  ASSUME NEW gone, NEW reaped, NEW kk \in Good(gone, reaped, 1), NEW u \in Threads \ {Idle}, NEW static,
         kk.stat[u] = "GONE" \/ (kk.stat[u] = "CLOSE" /\ u \in kk.static),
         NEW r, r = Born(kk, u, static)
  PROVE  /\ r \in Good(gone, reaped, 1) /\ r.wait = kk.wait /\ r.timers = kk.timers /\ r.nest = kk.nest /\ r.current = kk.current
         /\ \A t \in Threads \ {u} : r.stat[t] = kk.stat[t]
<1> DEFINE stat == [kk.stat EXCEPT ![u] = "INIT"]
           prio == [kk.prio EXCEPT ![u] = Priority[u]]
           slice == [kk.slice EXCEPT ![u] = Slice]
           err == [kk.err EXCEPT ![u] = "EOK"]
           owned == IF static THEN kk.static \cup {u} ELSE kk.static \ {u}
<1>1. kk \in KernelData /\ Linked(kk, gone, reaped, 1)
  BY GoodData
<1>2. /\ stat \in [Threads -> Stats] /\ prio \in [Threads -> Prios]
      /\ \A t \in Threads : /\ stat[t] = IF t = u THEN "INIT" ELSE kk.stat[t]
                            /\ t # u => prio[t] = kk.prio[t]
  <2>1. Priority[u] \in Prios
    BY DEF Prios
  <2> QED BY <1>1, <2>1, Typed DEF Stats
<1>3. slice \in [Threads -> 1 .. Slice] /\ err \in [Threads -> {"EOK", "ERROR", "ETIMEOUT"}]
  <2>1. Slice \in 1 .. Slice
    BY KernelAssumption
  <2> QED BY <1>1, <2>1, Typed
<1>4. owned \in SUBSET Threads /\ \A t \in Threads \ {u} : t \in owned <=> t \in kk.static
  BY <1>1, Typed
<1>5. r = [kk EXCEPT !.stat = stat, !.prio = prio, !.slice = slice, !.err = err, !.static = owned]
  BY DEF Born
<1> HIDE DEF stat, prio, slice, err, owned
<1>6. /\ r \in KernelData /\ r.ready = kk.ready /\ r.wait = kk.wait
      /\ r.defunct = kk.defunct /\ r.static = owned /\ r.current = kk.current
      /\ r.nest = kk.nest /\ r.timers = kk.timers /\ r.stat = stat /\ r.prio = prio
      /\ r.group = kk.group
  <2> DEFINE a == [kk EXCEPT !.stat = stat, !.prio = prio]
             b == [a EXCEPT !.slice = slice, !.err = err]
  <2>1. /\ a \in KernelData /\ a.ready = kk.ready /\ a.wait = kk.wait
        /\ a.defunct = kk.defunct /\ a.current = kk.current
        /\ a.nest = kk.nest /\ a.timers = kk.timers /\ a.stat = stat /\ a.prio = prio
        /\ a.group = kk.group
    BY <1>1, <1>2 DEF KernelData
  <2>2. r = [b EXCEPT !.static = owned]
    BY <1>1, <1>5 DEF KernelData
  <2> HIDE DEF a
  <2>3. /\ b \in KernelData /\ b.ready = a.ready /\ b.wait = a.wait
        /\ b.defunct = a.defunct /\ b.current = a.current
        /\ b.nest = a.nest /\ b.timers = a.timers /\ b.stat = a.stat /\ b.prio = a.prio
        /\ b.group = a.group
    BY <1>3, <2>1 DEF KernelData
  <2> HIDE DEF b
  <2> QED BY <1>4, <2>1, <2>2, <2>3 DEF KernelData
<1>7. ReadyLinked(r, gone)
  BY <1>1, <1>2, <1>6 DEF Linked, ReadyLinked
<1>8. WaitLinked(r, gone)
  BY <1>1, <1>2, <1>6 DEF Linked, WaitLinked
<1>9. DeadLinked(r, reaped)
  BY <1>1, <1>2, <1>4, <1>6 DEF Linked, DeadLinked
<1>10. TimersLinked(r, 1)
  <2>1. \A i \in DOMAIN kk.timers : kk.timers[i].thread \in Threads
    <3>1. \A i \in DOMAIN kk.timers : kk.timers[i] \in Running
      BY <1>1, Typed
    <3>2. \A y \in Running : y.thread \in Threads
      BY DEF Running
    <3> QED BY <3>1, <3>2
  <2> QED BY <1>1, <1>2, <1>6, <2>1 DEF Linked, TimersLinked
<1>11. GroupLinked(r) /\ IdleLinked(r, gone)
  BY <1>1, <1>2, <1>6, KernelAssumption DEF Linked, GroupLinked, IdleLinked
<1>12. r \in Good(gone, reaped, 1)
  BY <1>6, <1>7, <1>8, <1>9, <1>10, <1>11 DEF Good, Linked
<1> QED BY <1>2, <1>6, <1>12

LEMMA NewKeeps ==
  ASSUME KInv, NEW t \in Threads, InitThread(t) \/ Create(t)
  PROVE  \E u \in Threads :
           /\ KInv' /\ k'.wait = k.wait /\ k'.timers = k.timers /\ BeingDeleted' = BeingDeleted
           /\ k.stat[u] \in {"CLOSE", "GONE"} /\ \A v \in Threads \ {u} : k'.stat[v] = k.stat[v]
           /\ call'[u] = NoCall /\ \A v \in Threads \ {u} : call'[v] = call[v]
<1>1. Calls(t)
  BY DEF InitThread, Create
<1>2. PICK u \in Mortal, static \in BOOLEAN : Gone(u) /\ thread_new(u, static)
  BY DEF InitThread, Create
<1>3. /\ k.stat[t] = "READY" /\ call[t].at = "run" /\ t = k.current /\ CallsOK
      /\ k \in Good(BeingDeleted, Reaped, 1) /\ k.current \notin BeingDeleted
  BY <1>1, Calling_, SaneData
<1>4. u \in Threads \ {Idle} /\ u # t /\ k.stat[u] \in {"CLOSE", "GONE"}
  BY <1>2, <1>3, KernelAssumption DEF Gone
<1>5. k' = Born(k, u, static) /\ Goes(u, NoCall)
  BY <1>2 DEF thread_new, Goes, Born
<1>6. /\ k' \in Good(BeingDeleted, Reaped, 1) /\ k'.nest = k.nest /\ k'.current = k.current
      /\ k'.wait = k.wait /\ k'.timers = k.timers
      /\ \A v \in Threads \ {u} : k'.stat[v] = k.stat[v]
  BY <1>2, <1>3, <1>4, <1>5, News DEF Gone
<1>7. ~Involved(u) /\ Spared(k')
  BY <1>3, <1>4, <1>6, DeletedAre DEF Living, Spared
<1>8. /\ CallsOK' /\ Reaped' = Reaped /\ BeingDeleted' = BeingDeleted
      /\ call'[u] = NoCall /\ \A v \in Threads \ {u} : call'[v] = call[v]
  BY <1>3, <1>4, <1>5, <1>7, NoCallShaped, CallChanges DEF Involved
<1>9. RunsWell(k, call)'
  BY <1>3, <1>4, <1>6, <1>8 DEF RunsWell
<1>10. KInv'
  BY <1>3, <1>6, <1>8, <1>9 DEF KInv, Sane
<1> QED BY <1>4, <1>6, <1>8, <1>10

LEMMA Startables ==
  ASSUME NEW gone, NEW reaped, NEW kk \in Good(gone, reaped, 1), NEW u \in Threads \ {Idle},
         kk.stat[u] = "INIT", NEW r, r = startable(kk, u)
  PROVE  /\ r \in Good(gone, reaped, 1) /\ r.wait = kk.wait /\ r.timers = kk.timers
         /\ r.static = kk.static /\ r.nest = kk.nest /\ r.current = kk.current
         /\ r.stat = [kk.stat EXCEPT ![u] = "SUSPEND"]
<1> DEFINE stat == [kk.stat EXCEPT ![u] = "SUSPEND"]
           prio == [kk.prio EXCEPT ![u] = Priority[u]]
<1>1. kk \in KernelData /\ Linked(kk, gone, reaped, 1)
  BY GoodData
<1>2. /\ stat \in [Threads -> Stats] /\ prio \in [Threads -> Prios]
      /\ \A v \in Threads : /\ stat[v] = IF v = u THEN "SUSPEND" ELSE kk.stat[v]
                            /\ v # u => prio[v] = kk.prio[v]
  <2>1. Priority[u] \in Prios
    BY DEF Prios
  <2> QED BY <1>1, <2>1, Typed DEF Stats
<1>3. r = [kk EXCEPT !.stat = stat, !.prio = prio]
  BY DEF startable
<1> HIDE DEF stat, prio
<1>4. /\ r \in KernelData /\ r.ready = kk.ready /\ r.wait = kk.wait
      /\ r.defunct = kk.defunct /\ r.static = kk.static /\ r.current = kk.current
      /\ r.nest = kk.nest /\ r.timers = kk.timers /\ r.stat = stat /\ r.prio = prio
      /\ r.group = kk.group
  BY <1>1, <1>2, <1>3 DEF KernelData
<1>5. ReadyLinked(r, gone)
  BY <1>1, <1>2, <1>4 DEF Linked, ReadyLinked
<1>6. WaitLinked(r, gone)
  BY <1>1, <1>2, <1>4 DEF Linked, WaitLinked
<1>7. DeadLinked(r, reaped)
  BY <1>1, <1>2, <1>4 DEF Linked, DeadLinked
<1>8. TimersLinked(r, 1)
  <2>1. \A i \in DOMAIN kk.timers : kk.timers[i].thread \in Threads
    <3>1. \A i \in DOMAIN kk.timers : kk.timers[i] \in Running
      BY <1>1, Typed
    <3>2. \A y \in Running : y.thread \in Threads
      BY DEF Running
    <3> QED BY <3>1, <3>2
  <2> QED BY <1>1, <1>2, <1>4, <2>1 DEF Linked, TimersLinked
<1>9. GroupLinked(r) /\ IdleLinked(r, gone)
  BY <1>1, <1>2, <1>4, KernelAssumption DEF Linked, GroupLinked, IdleLinked
<1>10. r \in Good(gone, reaped, 1)
  BY <1>4, <1>5, <1>6, <1>7, <1>8, <1>9 DEF Good, Linked
<1> QED BY <1>4, <1>10 DEF stat

LEMMA StartupKeeps ==
  ASSUME KInv, NEW t \in Threads, NEW u \in Mortal, Calls(t), k.stat[u] = "INIT",
         k' = startable(k, u), NEW c, c = [Amid("startup", u) EXCEPT !.op = "startup"], Goes(t, c)
  PROVE  /\ KInv' /\ k'.wait = k.wait /\ k'.timers = k.timers /\ BeingDeleted' = BeingDeleted
         /\ k'.stat = [k.stat EXCEPT ![u] = "SUSPEND"]
<1>1. /\ t \in Threads \ {Idle} /\ k.stat[t] = "READY" /\ ~Deleting(t) /\ t = k.current
      /\ k \in Good(BeingDeleted, Reaped, 1) /\ k.current \notin BeingDeleted
      /\ k \in KernelData /\ CallsOK
  BY Calling_, SaneData
<1>2. u \in Threads \ {Idle} /\ u # t
  BY <1>1, KernelAssumption
<1>3. /\ k' \in Good(BeingDeleted, Reaped, 1) /\ k'.wait = k.wait /\ k'.timers = k.timers
      /\ k'.static = k.static /\ k'.nest = k.nest /\ k'.current = k.current
      /\ k'.stat = [k.stat EXCEPT ![u] = "SUSPEND"]
  BY <1>1, <1>2, Startables
<1>4. StaysReady(k, k') /\ k' \in Sane /\ Spared(k')
  BY <1>1, <1>2, <1>3, WaitingSpares, Typed DEF StaysReady, Sane
<1>5. Shaped(c) /\ c.at = "startup"
  BY KernelAssumption DEF Shaped, Amid, Times, FOREVER
<1>6. BeingDeleted' = BeingDeleted
  BY <1>1, <1>4, <1>5, CallChanges
<1> QED BY <1>1, <1>3, <1>4, <1>5, <1>6, ReturnStep

(* A thread that is being deleted, or exits, ends dead: on the list of the  *)
(* dead if its memory came from the heap.                                   *)
LEMMA Buries ==
  ASSUME NEW gone, NEW reaped, NEW u \in gone \cap Threads, NEW kk \in Good(gone, reaped, 1),
         kk.stat[u] \in {"INIT", "READY", "SUSPEND"}, NEW r, r = buried(closed(kk, u), u)
  PROVE  /\ r \in Good(gone \ {u}, reaped, 1) /\ r.nest = kk.nest /\ r.current = kk.current
         /\ r.stat = [kk.stat EXCEPT ![u] = "CLOSE"] /\ r.prio = kk.prio
         /\ r.err = kk.err /\ r.wait = kk.wait /\ Owners(r.timers) \subseteq Owners(kk.timers)
<1> DEFINE z == rt_timer_stop(kk, u)
           stat == [kk.stat EXCEPT ![u] = "CLOSE"]
           b == [z EXCEPT !.stat = stat]
           dead == IF u \in kk.static THEN kk.defunct ELSE <<u>> \o kk.defunct
<1>1. /\ z \in Good(gone, reaped, 1) /\ u \notin Owners(z.timers)
      /\ z.static = kk.static /\ z.current = kk.current /\ z.nest = kk.nest
      /\ z.stat = kk.stat /\ z.err = kk.err /\ z.prio = kk.prio /\ z.slice = kk.slice
      /\ z.ready = kk.ready /\ z.wait = kk.wait /\ z.defunct = kk.defunct /\ z.group = kk.group
      /\ Owners(z.timers) \subseteq Owners(kk.timers)
  BY Stops
<1>2. kk \in KernelData /\ Linked(kk, gone, reaped, 1)
  BY GoodData
<1>3. z \in KernelData /\ Linked(z, gone, reaped, 1)
  BY <1>1, GoodData
<1>4. closed(kk, u) = b
  BY <1>2 DEF closed, rt_timer_stop, KernelData
<1>5. stat \in [Threads -> Stats] /\ \A t \in Threads : stat[t] = IF t = u THEN "CLOSE" ELSE kk.stat[t]
  BY <1>2, Typed DEF Stats
<1> HIDE DEF z, stat
<1>6. /\ b \in KernelData /\ b.ready = kk.ready /\ b.wait = kk.wait
      /\ b.defunct = kk.defunct /\ b.static = kk.static /\ b.current = kk.current
      /\ b.nest = kk.nest /\ b.timers = z.timers /\ b.stat = stat /\ b.prio = kk.prio
      /\ b.group = kk.group /\ b.err = kk.err
  BY <1>1, <1>3, <1>5 DEF KernelData
<1> HIDE DEF b
<1>7. u \notin ToSet(kk.defunct) /\ u \notin reaped /\ IsInjective(kk.defunct)
  BY <1>2 DEF Linked, DeadLinked
<1>8. kk.defunct \in Seq(Threads)
  BY <1>2, Typed
<1>9. /\ dead \in Seq(Threads) /\ IsInjective(dead)
      /\ ToSet(dead) = ToSet(kk.defunct) \cup IF u \in kk.static THEN {} ELSE {u}
  BY <1>7, <1>8, JoinsFront
<1>10. r = IF u \in kk.static THEN b ELSE [b EXCEPT !.defunct = dead]
  BY <1>4, <1>6 DEF buried
<1>11. dead = IF u \in kk.static THEN kk.defunct ELSE dead
  OBVIOUS
<1> HIDE DEF dead
<1>12. /\ r \in KernelData /\ r.ready = kk.ready /\ r.wait = kk.wait
       /\ r.defunct = dead /\ r.static = kk.static /\ r.current = kk.current
       /\ r.nest = kk.nest /\ r.timers = z.timers /\ r.stat = stat /\ r.prio = kk.prio
       /\ r.group = kk.group /\ r.err = kk.err
  <2>1. CASE u \in kk.static
    <3>1. r = b /\ dead = kk.defunct
      BY <1>10, <1>11, <2>1
    <3> QED BY <1>6, <3>1
  <2>2. CASE u \notin kk.static
    <3>1. r = [b EXCEPT !.defunct = dead]
      BY <1>10, <2>2
    <3> QED BY <1>6, <1>9, <3>1 DEF KernelData
  <2> QED BY <2>1, <2>2
<1>13. ReadyLinked(r, gone \ {u})
  BY <1>2, <1>5, <1>12 DEF Linked, ReadyLinked
<1>14. WaitLinked(r, gone \ {u})
  BY <1>2, <1>5, <1>12 DEF Linked, WaitLinked
<1>15. DeadLinked(r, reaped)
  BY <1>2, <1>5, <1>7, <1>9, <1>12 DEF Linked, DeadLinked
<1>16. TimersLinked(r, 1)
  <2>1. \A i \in DOMAIN z.timers : z.timers[i].thread \in Threads /\ z.timers[i].thread # u
    <3>1. \A i \in DOMAIN z.timers : z.timers[i] \in Running
      BY <1>3, Typed
    <3>2. \A y \in Running : y.thread \in Threads
      BY DEF Running
    <3> QED BY <1>1, <3>1, <3>2 DEF Owners
  <2> QED BY <1>1, <1>3, <1>5, <1>12, <2>1 DEF Linked, TimersLinked
<1>17. GroupLinked(r) /\ IdleLinked(r, gone \ {u})
  BY <1>2, <1>5, <1>12, KernelAssumption DEF Linked, GroupLinked, IdleLinked
<1>18. r \in Good(gone \ {u}, reaped, 1)
  BY <1>12, <1>13, <1>14, <1>15, <1>16, <1>17 DEF Good, Linked
<1> QED BY <1>1, <1>12, <1>18 DEF stat

LEMMA ExitKeeps ==
  ASSUME KInv, NEW t \in Threads, Exit(t)
  PROVE  /\ KInv' /\ BeingDeleted' = BeingDeleted /\ k'.stat = [k.stat EXCEPT ![t] = "CLOSE"]
         /\ \A q \in Queues : ToSet(k'.wait[q]) \subseteq ToSet(k.wait[q])
         /\ Owners(k'.timers) \subseteq Owners(k.timers)
<1>1. /\ Calls(t) /\ k.nest = 0
      /\ k' = buried(closed(rt_schedule_remove_thread(k, t), t), t)
      /\ Goes(t, [NoCall EXCEPT !.at = "resched"])
  BY DEF Exit, unlinked_self
<1>2. /\ t \in Threads \ {Idle} /\ k.stat[t] = "READY" /\ ~Deleting(t) /\ t = k.current
      /\ k \in Good(BeingDeleted, Reaped, 1) /\ k \in KernelData /\ t \notin BeingDeleted /\ CallsOK
  BY <1>1, Calling_, SaneData
<1> DEFINE z == rt_schedule_remove_thread(k, t)
<1>3. /\ z \in Good(BeingDeleted \cup {t}, Reaped, 1) /\ z.nest = k.nest /\ z.current = k.current
      /\ z.stat = k.stat /\ z.timers = k.timers
      /\ \A q \in Queues : ToSet(z.wait[q]) = ToSet(k.wait[q]) \ {t}
  <2>1. /\ t \in Threads \ {Idle} /\ k.stat[t] \in {"INIT", "READY", "SUSPEND"}
        /\ k \in Good(BeingDeleted, Reaped, 1)
    BY <1>2
  <2> QED BY <2>1, Unlinks
<1>4. k' = buried(closed(z, t), t)
  BY <1>1
<1> HIDE DEF z
<1>5. /\ k' \in Good((BeingDeleted \cup {t}) \ {t}, Reaped, 1)
      /\ k'.nest = z.nest /\ k'.current = z.current
      /\ k'.stat = [z.stat EXCEPT ![t] = "CLOSE"]
      /\ k'.wait = z.wait /\ Owners(k'.timers) \subseteq Owners(z.timers)
  <2>1. t \in (BeingDeleted \cup {t}) \cap Threads /\ z.stat[t] \in {"INIT", "READY", "SUSPEND"}
    BY <1>2, <1>3
  <2> QED BY <1>3, <1>4, <2>1, Buries
<1>6. (BeingDeleted \cup {t}) \ {t} = BeingDeleted
  BY <1>2
<1>7. \A v \in Threads : k'.stat[v] = IF v = t THEN "CLOSE" ELSE k.stat[v]
  BY <1>2, <1>3, <1>5, Typed
<1>8. Spared(k')
  BY <1>2, <1>7, DeletedAre DEF Spared, Involved
<1> DEFINE c == [NoCall EXCEPT !.at = "resched"]
<1>9. Goes(t, c) /\ Shaped(c) /\ c.at = "resched"
  BY <1>1, NoCallShaped
<1> HIDE DEF c
<1>10. CallsOK' /\ Reaped' = Reaped /\ BeingDeleted' = BeingDeleted /\ call'[t] = c
  BY <1>2, <1>8, <1>9, CallChanges
<1>11. RunsWell(k, call)'
  BY <1>1, <1>2, <1>3, <1>5, <1>7, <1>9, <1>10 DEF RunsWell
<1>12. KInv'
  BY <1>2, <1>3, <1>5, <1>6, <1>10, <1>11 DEF KInv, Sane
<1> QED BY <1>3, <1>5, <1>10, <1>12

(* The idle thread takes the dead off their list and frees them.            *)
LEMMA LeavesFront ==
  ASSUME NEW S, NEW l \in Seq(S), l # <<>>, IsInjective(l)
  PROVE  /\ Head(l) \in ToSet(l) /\ Head(l) \in S /\ Tail(l) \in Seq(S)
         /\ ToSet(Tail(l)) = ToSet(l) \ {Head(l)} /\ IsInjective(Tail(l))
<1>1. /\ Len(l) \in Nat /\ Len(l) >= 1 /\ DOMAIN l = 1 .. Len(l) /\ Head(l) = l[1]
      /\ Tail(l) \in Seq(S) /\ DOMAIN Tail(l) = 1 .. (Len(l) - 1) /\ l[1] \in S
      /\ \A i \in 1 .. (Len(l) - 1) : Tail(l)[i] = l[i + 1]
  OBVIOUS
<1> DEFINE h == Head(l)
           m == Tail(l)
<1> HIDE DEF h, m
<1>2. /\ h = l[1] /\ m \in Seq(S) /\ DOMAIN m = 1 .. (Len(l) - 1)
      /\ \A i \in DOMAIN m : i + 1 \in DOMAIN l /\ i + 1 # 1 /\ m[i] = l[i + 1]
  BY <1>1 DEF h, m
<1>3. \A i \in DOMAIN l : i = 1 \/ (i - 1 \in DOMAIN m /\ m[i - 1] = l[i])
  <2> SUFFICES ASSUME NEW i \in DOMAIN l, i # 1 PROVE i - 1 \in DOMAIN m /\ m[i - 1] = l[i]
    OBVIOUS
  <2>1. i - 1 \in DOMAIN m /\ (i - 1) + 1 = i
    BY <1>1, <1>2
  <2> QED BY <1>2, <2>1
<1>4. ToSet(m) = ToSet(l) \ {h}
  <2>1. ASSUME NEW y \in ToSet(m) PROVE y \in ToSet(l) \ {h}
    <3>1. PICK i \in DOMAIN m : m[i] = y
      BY <2>1 DEF ToSet
    <3>2. 1 \in DOMAIN l /\ i + 1 \in DOMAIN l /\ i + 1 # 1 /\ l[i + 1] = y
      BY <1>1, <1>2, <3>1
    <3>3. l[i + 1] # l[1]
      BY <3>2 DEF IsInjective
    <3> QED BY <1>2, <3>2, <3>3 DEF ToSet
  <2>2. ASSUME NEW y \in ToSet(l), y # h PROVE y \in ToSet(m)
    <3>1. PICK i \in DOMAIN l : l[i] = y
      BY <2>2 DEF ToSet
    <3>2. i - 1 \in DOMAIN m /\ m[i - 1] = y
      BY <1>2, <1>3, <2>2, <3>1
    <3> QED BY <3>2 DEF ToSet
  <2> QED BY <2>1, <2>2
<1>5. IsInjective(m)
  <2> SUFFICES ASSUME NEW i \in DOMAIN m, NEW j \in DOMAIN m, m[i] = m[j] PROVE i = j
    BY DEF IsInjective
  <2>1. i + 1 = j + 1
    BY <1>2 DEF IsInjective
  <2> QED BY <1>1, <1>2, <2>1
<1>6. Head(l) \in ToSet(l) /\ Head(l) \in S
  BY <1>1 DEF ToSet
<1> QED BY <1>2, <1>4, <1>5, <1>6 DEF h, m

LEMMA Reaps ==
  ASSUME NEW gone, NEW kk \in Good(gone, {}, 1), kk.defunct # <<>>,
         NEW r, r = [kk EXCEPT !.defunct = Tail(kk.defunct)]
  PROVE  /\ Head(kk.defunct) \in Threads /\ r \in Good(gone, {Head(kk.defunct)}, 1)
         /\ r.nest = kk.nest /\ r.current = kk.current /\ r.stat = kk.stat
         /\ r.wait = kk.wait /\ r.timers = kk.timers
<1> DEFINE u == Head(kk.defunct)
           dead == Tail(kk.defunct)
<1>1. kk \in KernelData /\ Linked(kk, gone, {}, 1)
  BY GoodData
<1>2. kk.defunct \in Seq(Threads) /\ IsInjective(kk.defunct)
  BY <1>1, Typed DEF Linked, DeadLinked
<1>3. /\ u \in ToSet(kk.defunct) /\ u \in Threads /\ dead \in Seq(Threads)
      /\ ToSet(dead) = ToSet(kk.defunct) \ {u} /\ IsInjective(dead)
  BY <1>2, LeavesFront
<1>4. r = [kk EXCEPT !.defunct = dead]
  OBVIOUS
<1> HIDE DEF u, dead
<1>5. /\ r \in KernelData /\ r.ready = kk.ready /\ r.wait = kk.wait
      /\ r.defunct = dead /\ r.static = kk.static /\ r.current = kk.current
      /\ r.nest = kk.nest /\ r.timers = kk.timers /\ r.stat = kk.stat /\ r.prio = kk.prio
      /\ r.group = kk.group
  BY <1>1, <1>3, <1>4 DEF KernelData
<1>6. ReadyLinked(r, gone) /\ WaitLinked(r, gone)
  BY <1>1, <1>5 DEF Linked, ReadyLinked, WaitLinked
<1>7. DeadLinked(r, {u})
  BY <1>1, <1>3, <1>5 DEF Linked, DeadLinked
<1>8. TimersLinked(r, 1) /\ GroupLinked(r) /\ IdleLinked(r, gone)
  BY <1>1, <1>5 DEF Linked, TimersLinked, GroupLinked, IdleLinked
<1>9. r \in Good(gone, {u}, 1)
  BY <1>5, <1>6, <1>7, <1>8 DEF Good, Linked
<1> QED BY <1>3, <1>5, <1>9 DEF u

LEMMA Frees ==
  ASSUME NEW gone, NEW u \in Threads, NEW kk \in Good(gone, {u}, 1),
         NEW r, r = [kk EXCEPT !.stat[u] = "GONE"]
  PROVE  /\ r \in Good(gone, {}, 1) /\ r.nest = kk.nest /\ r.current = kk.current
         /\ r.stat[Idle] = "READY" /\ r.prio = kk.prio
         /\ r.stat = [kk.stat EXCEPT ![u] = "GONE"] /\ r.wait = kk.wait /\ r.timers = kk.timers
<1> DEFINE stat == [kk.stat EXCEPT ![u] = "GONE"]
<1>1. kk \in KernelData /\ Linked(kk, gone, {u}, 1)
  BY GoodData
<1>2. stat \in [Threads -> Stats] /\ \A t \in Threads : stat[t] = IF t = u THEN "GONE" ELSE kk.stat[t]
  BY <1>1, Typed DEF Stats
<1>3. r = [kk EXCEPT !.stat = stat]
  OBVIOUS
<1> HIDE DEF stat
<1>4. /\ r \in KernelData /\ r.ready = kk.ready /\ r.wait = kk.wait
      /\ r.defunct = kk.defunct /\ r.static = kk.static /\ r.current = kk.current
      /\ r.nest = kk.nest /\ r.timers = kk.timers /\ r.stat = stat /\ r.prio = kk.prio
      /\ r.group = kk.group
  BY <1>1, <1>2, <1>3 DEF KernelData
<1>5. kk.stat[u] = "CLOSE"
  BY <1>1 DEF Linked, DeadLinked
<1>6. ReadyLinked(r, gone)
  BY <1>1, <1>2, <1>4, <1>5 DEF Linked, ReadyLinked
<1>7. WaitLinked(r, gone)
  BY <1>1, <1>2, <1>4, <1>5 DEF Linked, WaitLinked
<1>8. DeadLinked(r, {})
  BY <1>1, <1>2, <1>4 DEF Linked, DeadLinked
<1>9. TimersLinked(r, 1)
  <2>1. \A i \in DOMAIN kk.timers : kk.timers[i].thread \in Threads
    <3>1. \A i \in DOMAIN kk.timers : kk.timers[i] \in Running
      BY <1>1, Typed
    <3>2. \A y \in Running : y.thread \in Threads
      BY DEF Running
    <3> QED BY <3>1, <3>2
  <2> QED BY <1>1, <1>2, <1>4, <1>5, <2>1 DEF Linked, TimersLinked
<1>10. r.stat[Idle] = "READY"
  BY <1>1, <1>2, <1>4, <1>5, KernelAssumption DEF Linked, IdleLinked
<1>11. GroupLinked(r) /\ IdleLinked(r, gone)
  BY <1>1, <1>4, <1>10 DEF Linked, GroupLinked, IdleLinked
<1>12. r \in Good(gone, {}, 1)
  BY <1>4, <1>6, <1>7, <1>8, <1>9, <1>11 DEF Good, Linked
<1> QED BY <1>4, <1>10, <1>12 DEF stat

LEMMA IdleChanges ==
  ASSUME CallsOK, Spared(k'), NEW c, Goes(Idle, c), Shaped(c), c.at \in {"run", "reap"},
         c.at = "reap" => c.arg \in Threads
  PROVE  /\ CallsOK' /\ BeingDeleted' = BeingDeleted /\ call'[Idle] = c
         /\ Reaped' = IF c.at = "reap" THEN {c.arg} ELSE {}
         /\ \A u \in Threads \ {Idle} : call'[u] = call[u]
<1>0. Idle \in Threads /\ ~Deleting(Idle)
  BY KernelAssumption DEF CallsOK, Deleting
<1>1. /\ call'[Idle] = c /\ \A u \in Threads \ {Idle} : call'[u] = call[u]
      /\ call' = [u \in Threads |-> [at |-> call'[u].at, op |-> call'[u].op,
                                     left |-> call'[u].left, arg |-> call'[u].arg]]
      /\ \A u \in Threads : call'[u].left \in Times
  BY <1>0, OneCall
<1>2. Reaped' = IF c.at = "reap" THEN {c.arg} ELSE {}
  BY <1>1 DEF Reaped, Reaping
<1>3. /\ BeingDeleted' = BeingDeleted
      /\ \A v \in Threads : Deleting(v)' =>
           /\ call'[v].arg \in Mortal /\ {k'.stat[v], k'.stat[call'[v].arg]} \subseteq Living
           /\ \A u \in Threads : Deleting(u)' =>
                call'[v].arg # u /\ (call'[u].arg = call'[v].arg => u = v)
  BY <1>0, <1>1, DeletesOn
<1>4. CallsOK'
  BY <1>1, <1>3 DEF CallsOK, Times, FOREVER
<1> QED BY <1>1, <1>2, <1>3, <1>4

LEMMA ReapKeeps ==
  ASSUME KInv, Reap \/ ReapFree
  PROVE  /\ KInv' /\ BeingDeleted' = BeingDeleted
         /\ \A u \in Threads : k.stat[u] \in Living => k'.stat[u] = k.stat[u]
         /\ \A q \in Queues : ToSet(k'.wait[q]) \subseteq ToSet(k.wait[q])
         /\ k'.timers = k.timers
         /\ \A u \in Threads \ {Idle} : call'[u] = call[u]
         /\ call'[Idle].at \in {"run", "reap"} /\ call'[Idle].op = "none"
<1>0. Idle \in Threads /\ Runs(Idle) /\ call[Idle].at \in {"run", "reap"}
  BY KernelAssumption DEF Reap, ReapFree
<1>1. /\ k.stat[Idle] = "READY" /\ k \in Good(BeingDeleted, Reaped, 1) /\ k.current \notin BeingDeleted
      /\ k \in KernelData /\ Idle = k.current /\ CallsOK
  BY <1>0, Active, SaneData
<1>2. CASE Reap
  <2> DEFINE z == [k EXCEPT !.defunct = Tail(k.defunct)]
             u == Head(k.defunct)
             c == Amid("reap", u)
  <2>1. Reaped = {}
    BY <1>2 DEF Reap, Reaped, Reaping
  <2>2. k.defunct # <<>> /\ k' = rt_schedule(z) /\ Goes(Idle, c)
    BY <1>2 DEF Reap
  <2>3. /\ u \in Threads /\ z \in Good(BeingDeleted, {u}, 1)
        /\ z.nest = k.nest /\ z.current = k.current /\ z.stat = k.stat
        /\ z.wait = k.wait /\ z.timers = k.timers
    BY <1>1, <2>1, <2>2, Reaps
  <2> HIDE DEF z, u
  <2>4. Shaped(c) /\ c.at = "reap" /\ c.arg = u /\ c.op = "none"
    BY AmidShaped DEF Amid
  <2> HIDE DEF c
  <2>5. /\ k' \in Good(BeingDeleted, {u}, 1) /\ OnlyWakes(z, k') /\ k'.current \notin BeingDeleted
        /\ k'.stat = z.stat /\ k'.timers = z.timers /\ Refuses(z, k')
    BY <1>1, <2>2, <2>3, Schedules
  <2>6. /\ CallsOK' /\ BeingDeleted' = BeingDeleted /\ call'[Idle] = c /\ Reaped' = {u}
        /\ \A v \in Threads \ {Idle} : call'[v] = call[v]
    BY <1>1, <2>2, <2>3, <2>4, <2>5, SameSpares, IdleChanges
  <2>7. StaysReady(z, k')
    <3>1. z \in KernelData /\ k' \in KernelData
      BY <2>3, <2>5, GoodData
    <3> QED BY <1>1, <2>3, <2>5, <3>1, WokenReady
  <2>8. RunsWell(k, call)'
    BY <1>1, <2>3, <2>4, <2>6, <2>7 DEF RunsWell, StaysReady
  <2>9. KInv'
    BY <2>5, <2>6, <2>8 DEF KInv, Sane
  <2>10. \A q \in Queues : ToSet(k'.wait[q]) \subseteq ToSet(k.wait[q])
    BY <2>3, <2>5 DEF Refuses, Thinner
  <2> QED BY <2>3, <2>4, <2>5, <2>6, <2>9, <2>10
<1>3. CASE ReapFree
  <2> DEFINE u == call[Idle].arg
  <2>1. call[Idle].at = "reap" /\ k' = [k EXCEPT !.stat[u] = "GONE"] /\ Goes(Idle, NoCall)
    BY <1>3 DEF ReapFree
  <2>2. u \in Threads /\ Reaped = {u}
    BY <2>1 DEF KInv, CallsOK, Reaped, Reaping
  <2> HIDE DEF u
  <2>3. /\ k' \in Good(BeingDeleted, {}, 1) /\ k'.nest = k.nest /\ k'.current = k.current
        /\ k'.stat[Idle] = "READY" /\ k'.stat = [k.stat EXCEPT ![u] = "GONE"]
        /\ k'.wait = k.wait /\ k'.timers = k.timers
    <3>1. k \in Good(BeingDeleted, {u}, 1)
      BY <1>1, <2>2
    <3> DEFINE r == [k EXCEPT !.stat[u] = "GONE"]
    <3>2. /\ r \in Good(BeingDeleted, {}, 1) /\ r.nest = k.nest /\ r.current = k.current
          /\ r.stat[Idle] = "READY" /\ r.stat = [k.stat EXCEPT ![u] = "GONE"]
          /\ r.wait = k.wait /\ r.timers = k.timers
      <4>1. u \in Threads /\ \A z : z = r => z = [k EXCEPT !.stat[u] = "GONE"]
        BY <2>2
      <4> HIDE DEF r
      <4> QED BY <3>1, <4>1, Frees
    <3> HIDE DEF r
    <3>3. k' = r
      BY <2>1 DEF r
    <3> QED BY <3>2, <3>3
  <2>4. k.stat[u] = "CLOSE" /\ \A v \in Threads : k'.stat[v] = IF v = u THEN "GONE" ELSE k.stat[v]
    BY <1>1, <2>2, <2>3, GoodData, Typed DEF Linked, DeadLinked
  <2>5. Spared(k')
    BY <1>1, <2>4, DeletedAre DEF Spared, Living
  <2>6. /\ CallsOK' /\ BeingDeleted' = BeingDeleted /\ call'[Idle] = NoCall /\ Reaped' = {}
        /\ \A v \in Threads \ {Idle} : call'[v] = call[v]
    BY <1>1, <2>1, <2>5, NoCallShaped, IdleChanges
  <2>7. RunsWell(k, call)'
    BY <1>1, <2>3, <2>6, NoCallShaped DEF RunsWell
  <2>8. KInv'
    BY <1>1, <2>3, <2>6, <2>7 DEF KInv, Sane
  <2>9. NoCall.op = "none"
    BY DEF NoCall
  <2> QED BY <2>3, <2>4, <2>6, <2>8, <2>9, NoCallShaped DEF Living
<1> QED BY <1>2, <1>3

(* A deletion is two steps; no two threads delete the same one, and none of *)
(* them is deleted meanwhile.                                               *)
LEMMA DeleteKeeps ==
  ASSUME KInv, NEW t \in Threads, NEW u \in Mortal \ {t}, Calls(t), k.stat[u] \in Living,
         u \notin Handled, t \notin Handled, ~Handling(u),
         k' = IF k.stat[u] = "INIT" THEN k ELSE rt_schedule_remove_thread(k, u),
         Goes(t, Amid("delete", u))
  PROVE  /\ KInv' /\ BeingDeleted' = BeingDeleted \cup {u} /\ k'.stat = k.stat /\ k'.timers = k.timers
         /\ \A q \in Queues : ToSet(k'.wait[q]) \subseteq ToSet(k.wait[q])
<1>1. /\ t \in Threads \ {Idle} /\ k.stat[t] = "READY" /\ ~Deleting(t) /\ t = k.current
      /\ k \in Good(BeingDeleted, Reaped, 1) /\ t \notin BeingDeleted /\ CallsOK
  BY Calling_, SaneData
<1>2. u \in Threads \ {Idle} /\ u # t
  BY KernelAssumption
<1>3. /\ k' \in Good(BeingDeleted \cup {u}, Reaped, 1) /\ k'.stat = k.stat
      /\ k'.current = k.current /\ k'.nest = k.nest /\ k'.timers = k.timers
      /\ \A q \in Queues : ToSet(k'.wait[q]) \subseteq ToSet(k.wait[q])
  <2>1. CASE k.stat[u] = "INIT"
    <3> DEFINE g == BeingDeleted \cup {u}
    <3>1. k' = k /\ k \in KernelData /\ Linked(k, BeingDeleted, Reaped, 1)
      BY <1>1, <2>1, GoodData
    <3>2. ReadyLinked(k, g) /\ WaitLinked(k, g) /\ IdleLinked(k, g)
      BY <1>2, <2>1, <3>1 DEF Linked, ReadyLinked, WaitLinked, IdleLinked
    <3>3. k \in Good(g, Reaped, 1)
      BY <3>1, <3>2 DEF Good, Linked
    <3> QED BY <3>1, <3>3
  <2>2. CASE k.stat[u] # "INIT"
    <3>1. u \in Threads \ {Idle} /\ k.stat[u] \in {"INIT", "READY", "SUSPEND"}
      BY <1>2 DEF Living
    <3> DEFINE z == rt_schedule_remove_thread(k, u)
    <3>2. /\ z \in Good(BeingDeleted \cup {u}, Reaped, 1) /\ z.stat = k.stat
          /\ z.current = k.current /\ z.nest = k.nest /\ z.timers = k.timers
          /\ \A q \in Queues : ToSet(z.wait[q]) = ToSet(k.wait[q]) \ {u}
      BY <1>1, <3>1, Unlinks
    <3> HIDE DEF z
    <3>3. k' = z
      BY <2>2 DEF z
    <3> QED BY <3>2, <3>3
  <2> QED BY <2>1, <2>2
<1> DEFINE c == Amid("delete", u)
<1>4. Shaped(c) /\ c.at = "delete" /\ c.arg = u /\ Goes(t, c)
  BY AmidShaped
<1> HIDE DEF c
<1>5. /\ call'[t] = c /\ \A v \in Threads \ {t} : call'[v] = call[v]
      /\ call' = [v \in Threads |-> [at |-> call'[v].at, op |-> call'[v].op,
                                     left |-> call'[v].left, arg |-> call'[v].arg]]
      /\ \A v \in Threads : call'[v].left \in Times
  BY <1>1, <1>4, OneCall
<1>6. \A v \in Threads : Deleting(v)' <=> (v = t \/ Deleting(v))
  BY <1>4, <1>5 DEF Deleting
<1>7. \A v \in Threads : Deleting(v) => v # t /\ v # u /\ call'[v] = call[v] /\ call[v].arg \notin {t, u}
  BY <1>1, <1>5 DEF Handled, Handling, Deleting
<1>8. BeingDeleted' = BeingDeleted \cup {u}
  <2>1. \A x : x \in BeingDeleted' <=> \E v \in Threads : Deleting(v)' /\ x = call'[v].arg
    BY DEF BeingDeleted
  <2>2. \A x : x \in BeingDeleted <=> \E v \in Threads : Deleting(v) /\ x = call[v].arg
    BY DEF BeingDeleted
  <2> QED BY <1>4, <1>5, <1>6, <1>7, <2>1, <2>2
<1>9. call'[Idle] = call[Idle]
  BY <1>1, <1>5, KernelAssumption
<1>10. Reaped' = Reaped
  BY <1>9 DEF Reaped, Reaping
<1>11. \A v \in Threads : Deleting(v)' =>
         /\ call'[v].arg \in Mortal /\ {k'.stat[v], k'.stat[call'[v].arg]} \subseteq Living
         /\ \A w \in Threads : Deleting(w)' =>
              call'[v].arg # w /\ (call'[w].arg = call'[v].arg => w = v)
  <2> SUFFICES ASSUME NEW v \in Threads, Deleting(v)'
               PROVE  /\ call'[v].arg \in Mortal
                      /\ {k'.stat[v], k'.stat[call'[v].arg]} \subseteq Living
                      /\ \A w \in Threads : Deleting(w)' =>
                           call'[v].arg # w /\ (call'[w].arg = call'[v].arg => w = v)
    OBVIOUS
  <2>1. CASE v = t
    BY <1>1, <1>3, <1>4, <1>5, <1>6, <1>7, <2>1 DEF Living
  <2>2. CASE v # t
    <3>1. /\ Deleting(v) /\ call'[v] = call[v] /\ call[v].arg \notin {t, u}
          /\ call[v].arg \in Mortal /\ {k.stat[v], k.stat[call[v].arg]} \subseteq Living
          /\ \A w \in Threads : Deleting(w) =>
               call[v].arg # w /\ (call[w].arg = call[v].arg => w = v)
      BY <1>1, <1>6, <1>7, <2>2 DEF CallsOK
    <3> QED BY <1>3, <1>4, <1>5, <1>6, <1>7, <2>2, <3>1
  <2> QED BY <2>1, <2>2
<1>12. CallsOK'
  BY <1>1, <1>5, <1>9, <1>11 DEF CallsOK, Times, FOREVER
<1>13. RunsWell(k, call)'
  BY <1>1, <1>3, <1>4, <1>5 DEF RunsWell
<1>14. k'.current \notin BeingDeleted'
  BY <1>1, <1>2, <1>3, <1>8
<1>15. KInv'
  BY <1>3, <1>8, <1>10, <1>12, <1>13, <1>14 DEF KInv, Sane
<1> QED BY <1>3, <1>8, <1>15

LEMMA DeletedKeeps ==
  ASSUME KInv, NEW t \in Threads, DeleteDone(t)
  PROVE  LET u == call[t].arg IN
         /\ KInv' /\ BeingDeleted' = BeingDeleted \ {u} /\ u \in BeingDeleted
         /\ \A v \in Threads \ {u} : k'.stat[v] = k.stat[v]
         /\ k'.wait = k.wait /\ Owners(k'.timers) \subseteq Owners(k.timers)
<1> DEFINE u == call[t].arg
<1>1. /\ t = k.current /\ Deleting(t) /\ Goes(t, NoCall) /\ k' = buried(closed(k, u), u)
  BY DEF DeleteDone, Runs
<1>2. /\ CallsOK /\ RunsWell(k, call) /\ k \in Good(BeingDeleted, Reaped, 1)
      /\ k \in KernelData /\ k.current \notin BeingDeleted
  BY SaneData DEF KInv
<1>3. /\ u \in Mortal /\ {k.stat[t], k.stat[u]} \subseteq Living
      /\ \A v \in Threads : Deleting(v) => u # v /\ (call[v].arg = u => v = t)
  BY <1>1, <1>2 DEF CallsOK
<1>4. u \in BeingDeleted
  BY <1>1 DEF BeingDeleted
<1>5. u \in Threads \ {Idle} /\ t # Idle /\ k.stat[t] = "READY" /\ u # t
  BY <1>1, <1>2, <1>3, KernelAssumption DEF RunsWell, CallsOK, Deleting
<1> HIDE DEF u
<1>6. /\ k' \in Good(BeingDeleted \ {u}, Reaped, 1) /\ k'.nest = k.nest /\ k'.current = k.current
      /\ k'.stat = [k.stat EXCEPT ![u] = "CLOSE"]
      /\ k'.wait = k.wait /\ Owners(k'.timers) \subseteq Owners(k.timers)
  <2>1. u \in BeingDeleted \cap Threads /\ k.stat[u] \in {"INIT", "READY", "SUSPEND"}
    BY <1>3, <1>4, <1>5 DEF Living
  <2> QED BY <1>1, <1>2, <2>1, Buries
<1>7. \A v \in Threads : k'.stat[v] = IF v = u THEN "CLOSE" ELSE k.stat[v]
  BY <1>2, <1>6, Typed
<1>8. /\ call'[t] = NoCall /\ \A v \in Threads \ {t} : call'[v] = call[v]
      /\ call' = [v \in Threads |-> [at |-> call'[v].at, op |-> call'[v].op,
                                     left |-> call'[v].left, arg |-> call'[v].arg]]
      /\ \A v \in Threads : call'[v].left \in Times
  BY <1>1, <1>2, NoCallShaped, OneCall
<1>9. \A v \in Threads : Deleting(v)' <=> v # t /\ Deleting(v)
  BY <1>8, NoCallShaped DEF Deleting
<1>10. BeingDeleted' = BeingDeleted \ {u}
  <2>1. \A x : x \in BeingDeleted' <=> \E v \in Threads : Deleting(v)' /\ x = call'[v].arg
    BY DEF BeingDeleted
  <2>2. \A x : x \in BeingDeleted <=> \E v \in Threads : Deleting(v) /\ x = call[v].arg
    BY DEF BeingDeleted
  <2>3. \A v \in Threads : Deleting(v)' => Deleting(v) /\ call'[v] = call[v] /\ call[v].arg # u
    BY <1>3, <1>8, <1>9
  <2>4. \A v \in Threads : Deleting(v) /\ call[v].arg # u => Deleting(v)' /\ call'[v] = call[v]
    BY <1>8, <1>9 DEF u
  <2> QED BY <2>1, <2>2, <2>3, <2>4
<1>11. call'[Idle] = call[Idle]
  BY <1>5, <1>8, KernelAssumption
<1>12. Reaped' = Reaped
  BY <1>11 DEF Reaped, Reaping
<1>13. \A v \in Threads : Deleting(v)' =>
         /\ call'[v].arg \in Mortal /\ {k'.stat[v], k'.stat[call'[v].arg]} \subseteq Living
         /\ \A w \in Threads : Deleting(w)' =>
              call'[v].arg # w /\ (call'[w].arg = call'[v].arg => w = v)
  <2> SUFFICES ASSUME NEW v \in Threads, Deleting(v)'
               PROVE  /\ call'[v].arg \in Mortal
                      /\ {k'.stat[v], k'.stat[call'[v].arg]} \subseteq Living
                      /\ \A w \in Threads : Deleting(w)' =>
                           call'[v].arg # w /\ (call'[w].arg = call'[v].arg => w = v)
    OBVIOUS
  <2>1. v # t /\ Deleting(v) /\ call'[v] = call[v] /\ v # u /\ call[v].arg # u
    BY <1>3, <1>8, <1>9
  <2>2. /\ call[v].arg \in Mortal /\ {k.stat[v], k.stat[call[v].arg]} \subseteq Living
        /\ \A w \in Threads : Deleting(w) =>
             call[v].arg # w /\ (call[w].arg = call[v].arg => w = v)
    BY <1>2, <2>1 DEF CallsOK
  <2>3. call[v].arg \in Threads
    BY <2>2, KernelAssumption
  <2> QED BY <1>7, <1>8, <1>9, <2>1, <2>2, <2>3
<1>14. CallsOK'
  BY <1>2, <1>8, <1>11, <1>13 DEF CallsOK, Times, FOREVER
<1>15. RunsWell(k, call)'
  BY <1>1, <1>5, <1>6, <1>7, <1>8, NoCallShaped DEF RunsWell
<1>16. KInv'
  BY <1>2, <1>6, <1>10, <1>12, <1>14, <1>15 DEF KInv, Sane
<1> QED BY <1>4, <1>6, <1>7, <1>10, <1>16 DEF u

(***************************************************************************)
(* Where one thread handles another in more than one step.                 *)
(***************************************************************************)
Steady(u) ==
  /\ k.stat[u] \in {"READY", "SUSPEND"} => k'.stat[u] \in {"READY", "SUSPEND"}
  /\ k.stat[u] = "SUSPEND" =>
       /\ k'.stat[u] = "SUSPEND"
       /\ u \in Owners(k'.timers) => u \in Owners(k.timers)
       /\ \A q \in Queues : u \in ToSet(k'.wait[q]) => u \in ToSet(k.wait[q])

LEMMA SteadySame ==
  ASSUME NEW u, k'.stat[u] = k.stat[u], Owners(k'.timers) \subseteq Owners(k.timers),
         \A q \in Queues : ToSet(k'.wait[q]) \subseteq ToSet(k.wait[q])
  PROVE  Steady(u)
BY DEF Steady

LEMMA HandlesOn ==
  ASSUME NEW v \in Threads, Handles(v), UNCHANGED kind, call'[v].at = call[v].at, call'[v].arg = call[v].arg,
         call[v].at \in Windows, Steady(call[v].arg), call[v].arg \notin BeingDeleted'
  PROVE  Handles(v)'
BY DEF Handles, Steady

LEMMA WindowsKept ==
  ASSUME WInv, UNCHANGED kind, NEW t \in Threads,
         call'[t].at \in Windows =>
           /\ Handles(t)'
           /\ \A v \in Threads \ {t} : call[v].at \in Windows => call[v].arg # call'[t].arg,
         \A v \in Threads \ {t} : call'[v] = call[v],
         \A v \in Threads \ {t} : call[v].at \in Windows =>
           Steady(call[v].arg) /\ call[v].arg \notin BeingDeleted',
         kind = "thread" => call'[t].op \in ThreadOps /\ call'[t].at \notin {"copy", "detach"}
  PROVE  WInv'
<1>1. ASSUME NEW v \in Threads, call'[v].at \in Windows PROVE Handles(v)'
  <2>1. CASE v = t
    BY <1>1, <2>1
  <2>2. CASE v # t
    <3>1. call'[v] = call[v] /\ call[v].at \in Windows /\ Handles(v)
      BY <1>1, <2>2 DEF WInv
    <3>2. Steady(call[v].arg) /\ call[v].arg \notin BeingDeleted'
      BY <2>2, <3>1
    <3> QED BY <3>1, <3>2, HandlesOn
  <2> QED BY <2>1, <2>2
<1>2. ASSUME NEW v \in Threads, NEW w \in Threads, call'[v].at \in Windows, call'[w].at \in Windows,
             call'[v].arg = call'[w].arg
      PROVE  v = w
  BY <1>2 DEF WInv
<1>3. kind' = "thread" => \A v \in Threads : call'[v].op \in ThreadOps /\ call'[v].at \notin {"copy", "detach"}
  BY DEF WInv
<1> QED BY <1>1, <1>2, <1>3 DEF WInv

LEMMA Went ==
  ASSUME CallsOK, NEW t \in Threads, NEW c, Goes(t, c)
  PROVE  call'[t] = c /\ \A v \in Threads \ {t} : call'[v] = call[v]
BY DEF Goes, CallsOK

(* A step after which the thread that made it handles nobody.               *)
LEMMA QuietWindows ==
  ASSUME WInv, UNCHANGED kind, CallsOK, NEW t \in Threads, NEW c, Goes(t, c),
         c.at \notin Windows, c.at \notin {"copy", "detach"}, c.op \in ThreadOps \cup {call[t].op},
         \A v \in Threads \ {t} : call[v].at \in Windows =>
           Steady(call[v].arg) /\ call[v].arg \notin BeingDeleted'
  PROVE  WInv'
<1>1. call'[t] = c /\ \A v \in Threads \ {t} : call'[v] = call[v]
  BY Went
<1>2. kind = "thread" => c.op \in ThreadOps
  BY DEF WInv
<1> QED BY <1>1, <1>2, WindowsKept

(* A step that leaves all statuses, and adds nobody to a list of waiters or *)
(* to the timers.                                                           *)
Calm == /\ k'.stat = k.stat /\ Owners(k'.timers) \subseteq Owners(k.timers)
        /\ \A q \in Queues : ToSet(k'.wait[q]) \subseteq ToSet(k.wait[q])
        /\ BeingDeleted' = BeingDeleted
LEMMA CalmWindows ==
  ASSUME WInv, Calm
  PROVE  \A v \in Threads : call[v].at \in Windows => Steady(call[v].arg) /\ call[v].arg \notin BeingDeleted'
<1> SUFFICES ASSUME NEW v \in Threads, call[v].at \in Windows
             PROVE  Steady(call[v].arg) /\ call[v].arg \notin BeingDeleted'
  OBVIOUS
<1>1. call[v].arg \notin BeingDeleted
  BY DEF WInv, Handles
<1>2. Steady(call[v].arg)
  BY SteadySame DEF Calm
<1> QED BY <1>1, <1>2 DEF Calm

LEMMA StayWindows ==
  ASSUME WInv, Calm, UNCHANGED <<kind, call>>
  PROVE  WInv'
<1>1. \A v \in Threads : call[v].at \in Windows => Handles(v)'
  BY CalmWindows, HandlesOn DEF WInv
<1> QED BY <1>1 DEF WInv

LEMMA AloneFacts ==
  ASSUME Disciplined, NEW t \in Threads, NEW u \in Threads, LeftAlone(t, u)
  PROVE  /\ t \notin Handled /\ u \notin Handled /\ ~Handling(u) /\ u \notin BeingDeleted
         /\ \A v \in Threads : call[v].at \in Windows => call[v].arg # u /\ call[v].arg # t
BY DEF Disciplined, LeftAlone, Handled, Handling, BeingDeleted, Deleting, Windows

Places == {"run", "resched", "suspending", "woken", "reap", "delete"}
LEMMA PlacesQuiet ==
  /\ Windows \cap Places = {} /\ Places \cap {"copy", "detach"} = {}
  /\ NoCall.at \in Places /\ NoCall.op \in ThreadOps
  /\ \A at \in Places : [NoCall EXCEPT !.at = at].at \in Places /\ [NoCall EXCEPT !.at = at].op \in ThreadOps
  /\ \A op, time, arg : Blocked(op, time, arg).at \in Places /\ Blocked(op, time, arg).op = op
  /\ \A u : Amid("delete", u).at \in Places /\ Amid("delete", u).op \in ThreadOps
BY DEF Windows, Places, NoCall, Blocked, Amid, ThreadOps

LEMMA TickWindows ==
  ASSUME KInv, WInv, Disciplined, Tick, UNCHANGED kind
  PROVE  WInv'
<1> DEFINE held == {call[v].arg : v \in {w \in Threads : call[w].at = "insert"}}
           kept == Taken_off \cup held
<1>1. /\ \A v \in Threads : call'[v].at = call[v].at /\ call'[v].op = call[v].op
                            /\ call'[v].arg = call[v].arg
      /\ KInv'
  BY TickKeeps
<1>2. k \in Good(BeingDeleted, Reaped, 1) /\ k.current \notin BeingDeleted
  BY SaneData DEF KInv
<1>3. NotDue(k, 1, kept)
  <2>1. \A u \in held : u \notin Owners(k.timers)
    BY DEF WInv, Handles, Windows
  <2>2. \A i \in DOMAIN k.timers : k.timers[i].thread \notin held
    BY <2>1 DEF Owners
  <2>3. NotDue(k, 1, Taken_off)
    BY DEF Tick, Disciplined, NotDue
  <2> QED BY <2>2, <2>3 DEF NotDue
<1>4. BeingDeleted \subseteq kept
  BY DEF BeingDeleted, Taken_off, Deleting
<1> HIDE DEF kept
<1>5. OnlyWakes(k, k') /\ Refuses(k, k') /\ Spares(k, k', kept)
  BY <1>2, <1>3, <1>4, Ticks DEF Tick
<1>6. BeingDeleted' = BeingDeleted
  <2>1. \A v \in Threads : Deleting(v)' <=> Deleting(v)
    BY <1>1 DEF Deleting
  <2>2. BeingDeleted' = {call'[v].arg : v \in {w \in Threads : Deleting(w)}}
    BY <2>1 DEF BeingDeleted
  <2> QED BY <1>1, <2>2 DEF BeingDeleted
<1>7. ASSUME NEW v \in Threads, call[v].at \in Windows PROVE Handles(v)'
  <2> DEFINE u == call[v].arg
  <2>1. /\ kind = "thread" /\ u \in Threads \ {Idle} /\ u \notin BeingDeleted
        /\ k.stat[u] \in {"READY", "SUSPEND"}
        /\ call[v].at \in {"resume", "insert"} => k.stat[u] = "SUSPEND"
        /\ call[v].at = "insert" =>
             u \notin Owners(k.timers) /\ \A q \in Queues : u \notin ToSet(k.wait[q])
    BY <1>7 DEF WInv, Handles
  <2>2. call[v].at \in {"resume", "insert"} => u \in kept
    BY DEF kept, Taken_off
  <2> HIDE DEF u
  <2>3. k'.stat[u] \in {"READY", "SUSPEND"}
    BY <1>5, <2>1 DEF OnlyWakes
  <2>4. call[v].at \in {"resume", "insert"} => k'.stat[u] = "SUSPEND"
    BY <1>5, <2>1, <2>2 DEF Spares
  <2>5. u \notin Owners(k.timers) => u \notin Owners(k'.timers)
    BY <1>5 DEF Spares
  <2>6. \A q \in Queues : u \notin ToSet(k.wait[q]) => u \notin ToSet(k'.wait[q])
    BY <1>5 DEF Refuses, Thinner
  <2>7. call'[v].arg = u
    BY <1>1 DEF u
  <2> QED BY <1>1, <1>6, <2>1, <2>3, <2>4, <2>5, <2>6, <2>7 DEF Handles
<1> QED BY <1>1, <1>7 DEF WInv

(* A thread that has nobody in hand and takes nobody in hand.               *)
LEMMA IdleHands ==
  ASSUME WInv, UNCHANGED kind, CallsOK, Spared(k'), NEW t \in Threads, ~Deleting(t),
         NEW c, Goes(t, c), c.at \in Places \ {"delete"}, c.op \in ThreadOps \cup {call[t].op},
         \A v \in Threads \ {t} : call[v].at \in Windows => Steady(call[v].arg)
  PROVE  WInv'
<1>1. call'[t] = c /\ \A v \in Threads \ {t} : call'[v] = call[v]
  BY Went
<1>2. BeingDeleted' = BeingDeleted
  BY <1>1, DeletesOn
<1>3. \A v \in Threads : call[v].at \in Windows => call[v].arg \notin BeingDeleted'
  BY <1>2 DEF WInv, Handles
<1> QED BY <1>3, PlacesQuiet, QuietWindows

LEMMA ReschedWindows ==
  ASSUME KInv, WInv, UNCHANGED kind, NEW t \in Threads, Resched(t) \/ SwitchAway(t)
  PROVE  WInv'
<1> DEFINE c == IF call[t].at = "resched" THEN NoCall ELSE [call[t] EXCEPT !.at = "woken"]
<1>1. /\ k' = rt_schedule(k) /\ Goes(t, c) /\ call[t].at \in {"resched", "suspending"}
  BY DEF Resched, SwitchAway, Continues, Runs
<1>2. k \in Good(BeingDeleted, Reaped, 1) /\ CallsOK /\ ~Deleting(t)
  BY <1>1, SaneData DEF KInv, Deleting
<1>3. k'.stat = k.stat /\ k'.timers = k.timers /\ Refuses(k, k')
  BY <1>1, <1>2, Schedules
<1>4. c.at \in Places \ {"delete"} /\ c.op \in ThreadOps \cup {call[t].op}
  <2>1. CASE call[t].at = "resched"
    BY <2>1 DEF NoCall, Places, ThreadOps
  <2>2. CASE call[t].at # "resched"
    BY <1>2, <2>2, GoesOn DEF Places
  <2> QED BY <2>1, <2>2
<1> HIDE DEF c
<1>5. Spared(k')
  BY <1>2, <1>3, SameSpares
<1>6. \A u \in Threads : Steady(u)
  BY <1>3, SteadySame DEF Refuses, Thinner
<1>7. \A v \in Threads : call[v].at \in Windows => call[v].arg \in Threads
  BY DEF WInv, Handles
<1> QED BY <1>1, <1>2, <1>4, <1>5, <1>6, <1>7, IdleHands

LEMMA SleepWindows ==
  ASSUME KInv, WInv, UNCHANGED kind, NEW t \in Threads, NEW times \in SUBSET (1 .. MaxWait), Sleep(t, times)
  PROVE  WInv'
<1>1. PICK time \in times : Calls(t) /\ Goes(t, Blocked("sleep", time, NULL))
  BY DEF Sleep
<1>2. /\ k'.stat = [k.stat EXCEPT ![t] = "SUSPEND"]
      /\ \A q \in Queues : ToSet(k'.wait[q]) \subseteq ToSet(k.wait[q])
      /\ Owners(k'.timers) \subseteq Owners(k.timers) \cup {t}
  BY SleepKeeps
<1>3. k.stat[t] = "READY" /\ ~Deleting(t) /\ CallsOK /\ k \in KernelData /\ k.stat \in [Threads -> Stats]
  BY <1>1, Calling_, Typed
<1>4. Spared(k')
  BY <1>2, <1>3, WaitingSpares
<1>5. \A u \in Threads : Steady(u)
  BY <1>2, <1>3 DEF Steady
<1>6. \A v \in Threads : call[v].at \in Windows => call[v].arg \in Threads
  BY DEF WInv, Handles
<1>7. Blocked("sleep", time, NULL).at \in Places \ {"delete"} /\ Blocked("sleep", time, NULL).op \in ThreadOps
  BY DEF Blocked, Places, ThreadOps
<1> QED BY <1>1, <1>3, <1>4, <1>5, <1>6, <1>7, IdleHands

LEMMA SuspendNowWindows ==
  ASSUME KInv, WInv, UNCHANGED kind, NEW t \in Threads, SuspendNow(t)
  PROVE  WInv'
<1> DEFINE u == call[t].arg
           c == IF u = t THEN Blocked("suspend", FOREVER, {}) ELSE NoCall
<1>1. Runs(t) /\ call[t].at = "suspend" /\ Goes(t, c)
  BY DEF SuspendNow
<1>2. /\ u \in Threads /\ k'.stat = [k.stat EXCEPT ![u] = "SUSPEND"]
      /\ \A q \in Queues : ToSet(k'.wait[q]) \subseteq ToSet(k.wait[q])
      /\ Owners(k'.timers) \subseteq Owners(k.timers)
  BY SuspendNowKeeps
<1>3. ~Deleting(t) /\ CallsOK /\ k \in KernelData /\ k.stat \in [Threads -> Stats]
  BY <1>1, Active, Typed DEF Deleting
<1>4. \A v \in Threads \ {t} : call[v].at \in Windows => call[v].arg # u /\ call[v].arg \in Threads
  BY <1>1 DEF WInv, Windows, Handles
<1>5. c.at \in Places \ {"delete"} /\ c.op \in ThreadOps
  BY DEF Blocked, NoCall, Places, ThreadOps
<1> HIDE DEF u, c
<1>6. \A v \in Threads \ {u} : Steady(v)
  BY <1>2, <1>3 DEF Steady
<1>7. Spared(k')
  BY <1>2, <1>3, WaitingSpares
<1> QED BY <1>1, <1>3, <1>4, <1>5, <1>6, <1>7, IdleHands

(* A thread takes another one in hand that was left alone, or goes on with  *)
(* the one it has.                                                          *)
LEMMA HandsOn ==
  ASSUME WInv, UNCHANGED kind, CallsOK, Spared(k'), NEW t \in Threads, ~Deleting(t), NEW c, Goes(t, c),
         c.at \in Windows, c.op \in ThreadOps, kind = "thread", c.arg \in Threads \ {Idle},
         c.arg \notin BeingDeleted,
         k'.stat[c.arg] \in {"READY", "SUSPEND"},
         c.at \in {"resume", "insert"} => k'.stat[c.arg] = "SUSPEND",
         c.at = "insert" =>
           c.arg \notin Owners(k'.timers) /\ \A q \in Queues : c.arg \notin ToSet(k'.wait[q]),
         \A v \in Threads \ {t} : call[v].at \in Windows => Steady(call[v].arg) /\ call[v].arg # c.arg
  PROVE  WInv'
<1>1. call'[t] = c /\ \A v \in Threads \ {t} : call'[v] = call[v]
  BY Went
<1>2. BeingDeleted' = BeingDeleted
  BY <1>1, DeletesOn DEF Windows
<1>3. Handles(t)'
  BY <1>1, <1>2 DEF Handles
<1>4. \A v \in Threads : call[v].at \in Windows => call[v].arg \notin BeingDeleted'
  BY <1>2 DEF WInv, Handles
<1>5. c.at \notin {"copy", "detach"}
  BY DEF Windows
<1> QED BY <1>1, <1>3, <1>4, <1>5, WindowsKept

LEMMA SuspendWindows ==
  ASSUME KInv, WInv, Disciplined, kind = "thread", UNCHANGED kind, NEW t \in Threads, Suspend(t) \/ Resume(t)
  PROVE  WInv'
<1>1. PICK u \in Threads, at \in {"suspend", "resume"} :
        /\ Calls(t) /\ LeftAlone(t, u) /\ k.stat[u] = (IF at = "suspend" THEN "READY" ELSE "SUSPEND")
        /\ u # Idle \/ at = "resume"
        /\ UNCHANGED k /\ Goes(t, Amid(at, u))
  BY DEF Suspend, Resume
<1>2. /\ ~Deleting(t) /\ k \in Good(BeingDeleted, Reaped, 1) /\ CallsOK
      /\ Linked(k, BeingDeleted, Reaped, 1)
  BY <1>1, Calling_, SaneData
<1>3. u # Idle
  BY <1>1, <1>2 DEF Linked, IdleLinked
<1> DEFINE c == Amid(at, u)
<1>4. c.at = at /\ c.arg = u /\ c.op \in ThreadOps /\ Goes(t, c)
  BY <1>1 DEF Amid, ThreadOps
<1> HIDE DEF c
<1>5. u \notin BeingDeleted /\ \A v \in Threads : call[v].at \in Windows => call[v].arg # u
  BY <1>1, AloneFacts
<1>6. Spared(k') /\ \A v : Steady(v)
  BY <1>1, <1>2, SameSpares DEF Steady
<1>7. c.at \in Windows /\ c.at # "insert"
  BY <1>1, <1>4 DEF Windows
<1>8. k'.stat[u] = (IF at = "suspend" THEN "READY" ELSE "SUSPEND")
  BY <1>1
<1> QED BY <1>2, <1>3, <1>4, <1>5, <1>6, <1>7, <1>8, HandsOn

LEMMA ResumeTakeWindows ==
  ASSUME KInv, WInv, UNCHANGED kind, NEW t \in Threads, ResumeTake(t)
  PROVE  WInv'
<1> DEFINE u == call[t].arg
           c == [call[t] EXCEPT !.at = "insert"]
<1>1. Runs(t) /\ call[t].at = "resume" /\ Goes(t, c)
  BY DEF ResumeTake, Continues
<1>2. ~Deleting(t) /\ CallsOK
  BY <1>1, Active DEF Deleting
<1>3. c.at = "insert" /\ c.arg = u /\ c.op = call[t].op
  BY <1>2, GoesOn
<1> HIDE DEF c
<1>4. /\ k'.stat = k.stat
      /\ \A q \in Queues : ToSet(k'.wait[q]) \subseteq ToSet(k.wait[q]) /\ u \notin ToSet(k'.wait[q])
      /\ Owners(k'.timers) \subseteq Owners(k.timers) /\ u \notin Owners(k'.timers)
  BY ResumeTakeKeeps
<1>5. call[t].at \in Windows
  BY <1>1 DEF Windows
<1>6. /\ kind = "thread" /\ u \in Threads \ {Idle} /\ u \notin BeingDeleted /\ k.stat[u] = "SUSPEND"
      /\ c.op \in ThreadOps
      /\ \A v \in Threads \ {t} : call[v].at \in Windows => call[v].arg # u
  BY <1>1, <1>3, <1>5 DEF WInv, Handles
<1> HIDE DEF u
<1>7. Spared(k') /\ \A v : Steady(v)
  BY <1>2, <1>4, SameSpares, SteadySame
<1>8. c.at \in Windows
  BY <1>3 DEF Windows
<1> QED BY <1>1, <1>2, <1>3, <1>4, <1>6, <1>7, <1>8, HandsOn

LEMMA StartupResumeWindows ==
  ASSUME KInv, WInv, UNCHANGED kind, NEW t \in Threads, StartupResume(t)
  PROVE  WInv'
<1> DEFINE u == call[t].arg
           at == IF k.stat[u] = "SUSPEND" THEN "resume" ELSE "resched"
           c == [call[t] EXCEPT !.at = at]
<1>1. Runs(t) /\ call[t].at = "startup" /\ Goes(t, c) /\ UNCHANGED k
  BY DEF StartupResume, Continues
<1>2. ~Deleting(t) /\ CallsOK
  BY <1>1, Active DEF Deleting
<1>3. c.at = at /\ c.arg = u /\ c.op = call[t].op
  BY <1>2, GoesOn
<1> HIDE DEF c
<1>4. call[t].at \in Windows
  BY <1>1 DEF Windows
<1>5. /\ kind = "thread" /\ u \in Threads \ {Idle} /\ u \notin BeingDeleted
      /\ k.stat[u] \in {"READY", "SUSPEND"} /\ c.op \in ThreadOps
      /\ \A v \in Threads \ {t} : call[v].at \in Windows => call[v].arg # u
  BY <1>1, <1>3, <1>4 DEF WInv, Handles
<1>6. Spared(k') /\ \A v : Steady(v)
  BY <1>1, <1>2, SameSpares DEF Steady
<1>7. CASE at = "resume"
  <2>1. k'.stat[u] = "SUSPEND" /\ c.at = "resume" /\ c.at \in Windows
    BY <1>1, <1>3, <1>7 DEF Windows
  <2> HIDE DEF at, u
  <2> QED BY <1>1, <1>2, <1>3, <1>5, <1>6, <2>1, HandsOn
<1>8. CASE at = "resched"
  <2>1. c.at \in Places \ {"delete"}
    BY <1>3, <1>8 DEF Places
  <2> QED BY <1>1, <1>2, <1>3, <1>5, <1>6, <2>1, IdleHands
<1> QED BY <1>7, <1>8

LEMMA ResumeInsertWindows ==
  ASSUME KInv, WInv, UNCHANGED kind, NEW t \in Threads, ResumeInsert(t)
  PROVE  WInv'
<1> DEFINE u == call[t].arg
           c == [NoCall EXCEPT !.at = IF call[t].op = "startup" THEN "resched" ELSE "run"]
<1>1. Runs(t) /\ call[t].at = "insert" /\ Goes(t, c)
  BY DEF ResumeInsert
<1>2. /\ k'.stat = [k.stat EXCEPT ![u] = "READY"] /\ u \in Threads
      /\ k'.wait = k.wait /\ k'.timers = k.timers
  BY ResumeInsertKeeps
<1>3. ~Deleting(t) /\ CallsOK /\ k \in KernelData /\ k.stat \in [Threads -> Stats]
  BY <1>1, Active, Typed DEF Deleting
<1>4. \A v \in Threads \ {t} : call[v].at \in Windows => call[v].arg # u /\ call[v].arg \in Threads
  BY <1>1 DEF WInv, Windows, Handles
<1>5. c.at \in Places \ {"delete"} /\ c.op \in ThreadOps
  BY DEF NoCall, Places, ThreadOps
<1> HIDE DEF u, c
<1>6. \A v \in Threads : k'.stat[v] = IF v = u THEN "READY" ELSE k.stat[v]
  BY <1>2, <1>3
<1>7. \A v \in Threads \ {u} : Steady(v)
  BY <1>2, <1>6 DEF Steady
<1>8. Spared(k')
  BY <1>3, <1>6, DeletedAre DEF Spared, Living
<1> QED BY <1>1, <1>3, <1>4, <1>5, <1>7, <1>8, IdleHands

(* Steps that leave all statuses.                                           *)
LEMMA CalmHands ==
  ASSUME WInv, UNCHANGED kind, CallsOK, NEW t \in Threads, ~Deleting(t),
         NEW c, Goes(t, c), c.at \in Places \ {"delete"}, c.op \in ThreadOps,
         k'.stat = k.stat, k'.wait = k.wait, k'.timers = k.timers
  PROVE  WInv'
<1>1. Spared(k') /\ \A v : Steady(v)
  BY SameSpares, SteadySame
<1> QED BY <1>1, IdleHands

LEMMA CalmCalls ==
  ASSUME WInv, UNCHANGED <<kind, call>>, k'.stat = k.stat, k'.wait = k.wait, k'.timers = k.timers
  PROVE  WInv'
<1>1. \A v \in Threads : Deleting(v)' <=> Deleting(v)
  BY DEF Deleting
<1>2. BeingDeleted' = BeingDeleted
  BY <1>1 DEF BeingDeleted
<1>3. Calm
  BY <1>2 DEF Calm
<1> QED BY <1>3, StayWindows

LEMMA WokenWindows ==
  ASSUME KInv, WInv, UNCHANGED kind, NEW t \in Threads, SleepDone(t) \/ SuspendDone(t)
  PROVE  WInv'
<1>1. Runs(t) /\ call[t].at = "woken" /\ Goes(t, NoCall)
  BY DEF SleepDone, SuspendDone
<1>2. ~Deleting(t) /\ CallsOK
  BY <1>1, Active DEF Deleting
<1>3. NoCall.at \in Places \ {"delete"} /\ NoCall.op \in ThreadOps
  BY DEF NoCall, Places, ThreadOps
<1> QED BY <1>1, <1>2, <1>3, WokenKeeps, CalmHands

LEMMA YieldWindows ==
  ASSUME KInv, WInv, UNCHANGED kind, NEW t \in Threads, Yield(t)
  PROVE  WInv'
<1> DEFINE c == [NoCall EXCEPT !.at = "resched"]
<1>1. Calls(t) /\ Goes(t, c)
  BY DEF Yield
<1>2. ~Deleting(t) /\ CallsOK
  BY <1>1, Calling_
<1>3. c.at \in Places \ {"delete"} /\ c.op \in ThreadOps
  BY DEF NoCall, Places, ThreadOps
<1> HIDE DEF c
<1> QED BY <1>1, <1>2, <1>3, YieldKeeps, CalmHands

LEMMA CriticalWindows ==
  ASSUME KInv, WInv, UNCHANGED kind, NEW t \in Threads, EnterCritical(t) \/ ExitCritical(t)
  PROVE  WInv'
<1>1. k'.stat = k.stat /\ k'.wait = k.wait /\ k'.timers = k.timers
  BY CriticalKeeps
<1>2. CASE EnterCritical(t)
  BY <1>1, <1>2, CalmCalls DEF EnterCritical
<1>3. CASE ExitCritical(t)
  <2> DEFINE c == [NoCall EXCEPT !.at = IF k.nest = 1 THEN "resched" ELSE "run"]
  <2>1. Calls(t) /\ Goes(t, c)
    BY <1>3 DEF ExitCritical, rt_exit_schedules
  <2>2. ~Deleting(t) /\ CallsOK
    BY <2>1, Calling_
  <2>3. c.at \in Places \ {"delete"} /\ c.op \in ThreadOps
    BY DEF NoCall, Places, ThreadOps
  <2> HIDE DEF c
  <2> QED BY <1>1, <2>1, <2>2, <2>3, CalmHands
<1> QED BY <1>2, <1>3

LEMMA PriorityWindows ==
  ASSUME KInv, WInv, Disciplined, UNCHANGED kind, NEW t \in Threads, ChangePriority(t)
  PROVE  WInv'
<1>1. UNCHANGED call
  BY DEF ChangePriority
<1> QED BY <1>1, PriorityKeeps, CalmCalls

LEMMA NewWindows ==
  ASSUME KInv, WInv, UNCHANGED kind, NEW t \in Threads, InitThread(t) \/ Create(t)
  PROVE  WInv'
<1>1. PICK u \in Threads :
        /\ k'.wait = k.wait /\ k'.timers = k.timers /\ BeingDeleted' = BeingDeleted
        /\ k.stat[u] \in {"CLOSE", "GONE"} /\ \A v \in Threads \ {u} : k'.stat[v] = k.stat[v]
        /\ call'[u] = NoCall /\ \A v \in Threads \ {u} : call'[v] = call[v]
  BY NewKeeps
<1>2. ASSUME NEW v \in Threads, call[v].at \in Windows
      PROVE  Steady(call[v].arg) /\ call[v].arg \notin BeingDeleted'
  <2>1. call[v].arg \in Threads \ {u} /\ call[v].arg \notin BeingDeleted
    BY <1>1, <1>2 DEF WInv, Handles
  <2> QED BY <1>1, <2>1, SteadySame
<1>3. NoCall.at \notin Windows /\ NoCall.op \in ThreadOps /\ NoCall.at \notin {"copy", "detach"}
  BY DEF NoCall, Windows, ThreadOps
<1> QED BY <1>1, <1>2, <1>3, WindowsKept

LEMMA StartupWindows ==
  ASSUME KInv, WInv, Disciplined, kind = "thread", UNCHANGED kind, NEW t \in Threads, Startup(t)
  PROVE  KInv' /\ WInv'
<1>1. PICK u \in Mortal :
        /\ Calls(t) /\ k.stat[u] = "INIT" /\ LeftAlone(t, u)
        /\ k' = startable(k, u) /\ Goes(t, [Amid("startup", u) EXCEPT !.op = "startup"])
  BY DEF Startup
<1> DEFINE c == [Amid("startup", u) EXCEPT !.op = "startup"]
<1>2. c.at = "startup" /\ c.op = "startup" /\ c.arg = u /\ Goes(t, c)
  BY <1>1 DEF Amid
<1>3. /\ KInv' /\ k'.wait = k.wait /\ k'.timers = k.timers
      /\ k'.stat = [k.stat EXCEPT ![u] = "SUSPEND"]
  BY <1>1, StartupKeeps
<1> HIDE DEF c
<1>4. ~Deleting(t) /\ CallsOK /\ k \in KernelData /\ k.stat \in [Threads -> Stats]
  BY <1>1, Calling_, Typed
<1>5. u \in Threads \ {Idle}
  BY KernelAssumption
<1>6. u \notin BeingDeleted /\ \A v \in Threads : call[v].at \in Windows => call[v].arg # u
  BY <1>1, <1>5, AloneFacts
<1>7. Spared(k') /\ k'.stat[u] = "SUSPEND" /\ \A v \in Threads : Steady(v)
  BY <1>3, <1>4, <1>5, WaitingSpares DEF Steady
<1>8. \A v \in Threads : call[v].at \in Windows => call[v].arg \in Threads
  BY DEF WInv, Handles
<1>9. c.at \in Windows /\ c.op \in ThreadOps /\ c.at \notin {"resume", "insert"}
  BY <1>2 DEF Windows, ThreadOps
<1>10. WInv'
  BY <1>2, <1>4, <1>5, <1>6, <1>7, <1>8, <1>9, HandsOn
<1> QED BY <1>3, <1>10

LEMMA ExitWindows ==
  ASSUME KInv, WInv, Disciplined, UNCHANGED kind, NEW t \in Threads, Exit(t)
  PROVE  WInv'
<1> DEFINE c == [NoCall EXCEPT !.at = "resched"]
<1>1. Calls(t) /\ LeftAlone(t, t) /\ Goes(t, c)
  BY DEF Exit
<1>2. c.at \notin Windows /\ c.at \notin {"copy", "detach"} /\ c.op \in ThreadOps
  BY DEF NoCall, Windows, ThreadOps
<1> HIDE DEF c
<1>3. /\ BeingDeleted' = BeingDeleted /\ k'.stat = [k.stat EXCEPT ![t] = "CLOSE"]
      /\ \A q \in Queues : ToSet(k'.wait[q]) \subseteq ToSet(k.wait[q])
      /\ Owners(k'.timers) \subseteq Owners(k.timers)
  BY ExitKeeps
<1>4. CallsOK /\ k \in KernelData /\ k.stat \in [Threads -> Stats]
  BY <1>1, Calling_, Typed
<1>5. ASSUME NEW v \in Threads, call[v].at \in Windows
      PROVE  Steady(call[v].arg) /\ call[v].arg \notin BeingDeleted'
  <2>1. call[v].arg # t
    BY <1>1, <1>5, AloneFacts
  <2>2. call[v].arg \in Threads \ {t} /\ call[v].arg \notin BeingDeleted
    BY <1>5, <2>1 DEF WInv, Handles
  <2> QED BY <1>3, <1>4, <2>2, SteadySame
<1> QED BY <1>1, <1>2, <1>4, <1>5, QuietWindows

LEMMA ReapWindows ==
  ASSUME KInv, WInv, UNCHANGED kind, Reap \/ ReapFree
  PROVE  WInv'
<1>1. /\ BeingDeleted' = BeingDeleted
      /\ \A u \in Threads : k.stat[u] \in Living => k'.stat[u] = k.stat[u]
      /\ \A q \in Queues : ToSet(k'.wait[q]) \subseteq ToSet(k.wait[q])
      /\ k'.timers = k.timers
      /\ \A u \in Threads \ {Idle} : call'[u] = call[u]
      /\ call'[Idle].at \in {"run", "reap"} /\ call'[Idle].op = "none"
  BY ReapKeeps
<1>2. ASSUME NEW v \in Threads, call[v].at \in Windows
      PROVE  Steady(call[v].arg) /\ call[v].arg \notin BeingDeleted'
  <2>1. /\ call[v].arg \in Threads /\ call[v].arg \notin BeingDeleted
        /\ k.stat[call[v].arg] \in Living
    BY <1>2 DEF WInv, Handles, Living
  <2> QED BY <1>1, <2>1, SteadySame
<1>3. Idle \in Threads /\ call'[Idle].at \notin Windows /\ call'[Idle].op \in ThreadOps
      /\ call'[Idle].at \notin {"copy", "detach"}
  BY <1>1, KernelAssumption DEF Windows, ThreadOps
<1> QED BY <1>1, <1>2, <1>3, WindowsKept

LEMMA DeleteWindows ==
  ASSUME KInv, WInv, Disciplined, UNCHANGED kind, NEW t \in Threads, Delete(t)
  PROVE  KInv' /\ WInv'
<1>1. PICK u \in Mortal \ {t} :
        /\ Calls(t) /\ k.stat[u] \in Living /\ LeftAlone(t, u)
        /\ k' = IF k.stat[u] = "INIT" THEN k ELSE rt_schedule_remove_thread(k, u)
        /\ Goes(t, Amid("delete", u))
  BY DEF Delete, Living
<1>2. u \in Threads
  BY KernelAssumption
<1>3. /\ t \notin Handled /\ u \notin Handled /\ ~Handling(u)
      /\ \A v \in Threads : call[v].at \in Windows => call[v].arg # u
  BY <1>1, <1>2, AloneFacts
<1>4. /\ KInv' /\ BeingDeleted' = BeingDeleted \cup {u} /\ k'.stat = k.stat /\ k'.timers = k.timers
      /\ \A q \in Queues : ToSet(k'.wait[q]) \subseteq ToSet(k.wait[q])
  BY <1>1, <1>3, DeleteKeeps
<1>5. ASSUME NEW v \in Threads, call[v].at \in Windows
      PROVE  Steady(call[v].arg) /\ call[v].arg \notin BeingDeleted'
  <2>1. call[v].arg # u /\ call[v].arg \notin BeingDeleted
    BY <1>3, <1>5 DEF WInv, Handles
  <2> QED BY <1>4, <2>1, SteadySame
<1> DEFINE c == Amid("delete", u)
<1>6. Goes(t, c) /\ c.at \notin Windows /\ c.at \notin {"copy", "detach"} /\ c.op \in ThreadOps
  BY <1>1 DEF Amid, Windows, ThreadOps
<1> HIDE DEF c
<1>7. CallsOK
  BY DEF KInv
<1>8. WInv'
  BY <1>5, <1>6, <1>7, QuietWindows
<1> QED BY <1>4, <1>8

LEMMA DeletedWindows ==
  ASSUME KInv, WInv, UNCHANGED kind, NEW t \in Threads, DeleteDone(t)
  PROVE  WInv'
<1> DEFINE u == call[t].arg
<1>1. Goes(t, NoCall) /\ CallsOK
  BY DEF DeleteDone, KInv
<1>2. /\ BeingDeleted' = BeingDeleted \ {u} /\ u \in BeingDeleted
      /\ \A v \in Threads \ {u} : k'.stat[v] = k.stat[v]
      /\ k'.wait = k.wait /\ Owners(k'.timers) \subseteq Owners(k.timers)
  BY DeletedKeeps
<1> HIDE DEF u
<1>3. ASSUME NEW v \in Threads, call[v].at \in Windows
      PROVE  Steady(call[v].arg) /\ call[v].arg \notin BeingDeleted'
  <2>1. call[v].arg \in Threads \ {u} /\ call[v].arg \notin BeingDeleted
    BY <1>2, <1>3 DEF WInv, Handles
  <2> QED BY <1>2, <2>1, SteadySame
<1>4. NoCall.at \notin Windows /\ NoCall.op \in ThreadOps /\ NoCall.at \notin {"copy", "detach"}
  BY DEF NoCall, Windows, ThreadOps
<1> QED BY <1>1, <1>3, <1>4, QuietWindows

LEMMA ThreadCallKeeps ==
  ASSUME KInv, WInv, Disciplined, kind = "thread", UNCHANGED kind, NEW t \in Threads, ThreadCalls(t)
  PROVE  KInv' /\ WInv'
<1>0. 1 .. MaxWait \in SUBSET (1 .. MaxWait)
  OBVIOUS
<1>1. CASE Yield(t)
  BY <1>1, YieldKeeps, YieldWindows
<1>2. CASE Sleep(t, 1 .. MaxWait)
  BY <1>0, <1>2, SleepKeeps, SleepWindows
<1>3. CASE Suspend(t) \/ Resume(t)
  BY <1>3, SuspendKeeps, ResumeKeeps, SuspendWindows
<1>4. CASE EnterCritical(t) \/ ExitCritical(t)
  BY <1>4, CriticalKeeps, CriticalWindows
<1>5. CASE ChangePriority(t)
  BY <1>5, PriorityKeeps, PriorityWindows
<1>6. CASE InitThread(t) \/ Create(t)
  BY <1>6, NewKeeps, NewWindows
<1>7. CASE Startup(t)
  BY <1>7, StartupWindows
<1>8. CASE Delete(t)
  BY <1>8, DeleteWindows
<1>9. CASE Exit(t)
  BY <1>9, ExitKeeps, ExitWindows
<1> QED BY <1>1, <1>2, <1>3, <1>4, <1>5, <1>6, <1>7, <1>8, <1>9 DEF ThreadCalls

LEMMA KernelStepKeeps ==
  ASSUME KInv, WInv, Disciplined, UNCHANGED kind, KernelStep
  PROVE  KInv' /\ WInv'
<1>1. CASE Tick
  BY <1>1, TickKeeps, TickWindows
<1>2. CASE Reap \/ ReapFree
  BY <1>2, ReapKeeps, ReapWindows
<1>3. ASSUME NEW t \in Threads, Resched(t) \/ SwitchAway(t) PROVE KInv' /\ WInv'
  BY <1>3, ReschedKeeps, ReschedWindows
<1>4. ASSUME NEW t \in Threads, SleepDone(t) \/ SuspendDone(t) PROVE KInv' /\ WInv'
  BY <1>4, WokenKeeps, WokenWindows
<1>5. ASSUME NEW t \in Threads, SuspendNow(t) PROVE KInv' /\ WInv'
  BY <1>5, SuspendNowKeeps, SuspendNowWindows
<1>6. ASSUME NEW t \in Threads, ResumeTake(t) PROVE KInv' /\ WInv'
  BY <1>6, ResumeTakeKeeps, ResumeTakeWindows
<1>7. ASSUME NEW t \in Threads, ResumeInsert(t) PROVE KInv' /\ WInv'
  BY <1>7, ResumeInsertKeeps, ResumeInsertWindows
<1>8. ASSUME NEW t \in Threads, StartupResume(t) PROVE KInv' /\ WInv'
  BY <1>8, StartupResumeKeeps, StartupResumeWindows
<1>9. ASSUME NEW t \in Threads, DeleteDone(t) PROVE KInv' /\ WInv'
  BY <1>9, DeletedKeeps, DeletedWindows
<1> QED BY <1>1, <1>2, <1>3, <1>4, <1>5, <1>6, <1>7, <1>8, <1>9 DEF KernelStep

(***************************************************************************)
(* The calls about objects.                                                *)
(***************************************************************************)
KindsOK == kind \in Kinds
LEMMA ObjectFacts ==
  /\ "recv" \in Queues /\ "send" \in Queues /\ Mutexes \subseteq Queues
  /\ NULL \notin Threads /\ 0 \in Times
  /\ KindsOK => Waits[kind] \subseteq Times
<1>1. "recv" \in Queues /\ "send" \in Queues /\ Mutexes \subseteq Queues /\ NULL \notin Threads
  BY IpcAssumption
<1>2. 0 \in Times
  BY KernelAssumption DEF Times, FOREVER
<1>3. KindsOK => Waits[kind] \subseteq Times
  BY IpcAssumption DEF KindsOK
<1> QED BY <1>1, <1>2, <1>3

LEMMA Busy ==
  ASSUME KInv, NEW t \in Threads, NEW x, NEW op, Uses(t, x) \/ Woken(t, op)
  PROVE  /\ t \in Threads \ {Idle} /\ k.stat[t] = "READY" /\ t \notin BeingDeleted
         /\ ~Deleting(t) /\ CallsOK
         /\ k \in Sane /\ k \in KernelData /\ t = k.current /\ OnlyWakes(k, k)
         /\ Woken(t, op) => k.nest = 0
<1>1. Runs(t) /\ call[t].at \in {"run", "woken"}
  BY DEF Uses, Calls, Woken
<1>2. call[t].at = "run" => t # Idle
  BY DEF Uses, Calls, Woken
<1> QED BY <1>1, <1>2, Active DEF Woken, Deleting

(* Whoever is busy in a call: the premises of the lemmas below.             *)
InCall(t) ==
  /\ t \in Threads \ {Idle} /\ k.stat[t] = "READY" /\ t \notin BeingDeleted
  /\ ~Deleting(t) /\ CallsOK /\ k \in Sane /\ k \in KernelData /\ t = k.current /\ OnlyWakes(k, k)
LEMMA BusyInCall ==
  ASSUME KInv, NEW t \in Threads, NEW x, NEW op, Uses(t, x) \/ Woken(t, op)
  PROVE  InCall(t) /\ (Woken(t, op) => k.nest = 0)
BY Busy DEF InCall

LEMMA Ends ==
  ASSUME KInv, NEW t, InCall(t), k' \in Sane, OnlyWakes(k, k'), Goes(t, NoCall)
  PROVE  KInv'
BY NoCallShaped, WakesReturns DEF InCall

LEMMA EndsRescheduling ==
  ASSUME KInv, NEW t, InCall(t), k' \in Sane, OnlyWakes(k, k'), Reschedules(t)
  PROVE  KInv'
<1> DEFINE c == [NoCall EXCEPT !.at = "resched"]
<1>1. Goes(t, c) /\ Shaped(c) /\ c.at = "resched"
  BY NoCallShaped DEF Reschedules
<1> HIDE DEF c
<1> QED BY <1>1, WakesReturns DEF InCall

LEMMA EndsUnchanged ==
  ASSUME KInv, NEW t, InCall(t), UNCHANGED k, Goes(t, NoCall)
  PROVE  KInv'
BY Ends DEF InCall

LEMMA FailsKeeps ==
  ASSUME KInv, NEW t, InCall(t), NEW e \in {"EOK", "ERROR", "ETIMEOUT"}, Fails(t, e)
  PROVE  KInv'
<1>1. k' = [k EXCEPT !.err[t] = e] /\ Goes(t, NoCall)
  BY DEF Fails
<1>2. k' \in Sane /\ OnlyWakes(k, k')
  <2>1. t \in Threads /\ k \in Sane
    BY DEF InCall
  <2> QED BY <1>1, <2>1, SaneData, SetsError DEF Sane
<1> QED BY <1>1, <1>2, Ends

LEMMA Unmoved ==
  ASSUME KInv, NEW t, InCall(t), UNCHANGED kernel_vars
  PROVE  KInv'
BY WakesStep DEF InCall, kernel_vars

LEMMA BlocksKeeps ==
  ASSUME KInv, NEW t, InCall(t), k.nest = 0, NEW q \in Queues, NEW time \in Times \ {0},
         NEW kk \in Good(BeingDeleted, Reaped, 1), kk.static = k.static, kk.current = k.current,
         kk.nest = k.nest, kk.stat = k.stat, NEW op, NEW arg,
         k' = rt_ipc_list_suspend(kk, t, q, time), Goes(t, Blocked(op, time, arg))
  PROVE  KInv'
<1>1. t \in Threads \ {Idle} /\ kk.stat[t] = "READY" /\ t = k.current /\ t \notin BeingDeleted
  BY DEF InCall
<1>2. k' \in Good(BeingDeleted, Reaped, 1) /\ WaitsOn(kk, k', t)
  BY <1>1, ListSuspends
<1>3. WaitsOn(k, k', t)
  BY <1>2 DEF WaitsOn
<1>4. Shaped(Blocked(op, time, arg)) /\ Blocked(op, time, arg).at = "suspending"
  BY BlockedShaped
<1> QED BY <1>1, <1>2, <1>3, <1>4, WaitStep DEF InCall

LEMMA BlocksHere ==
  ASSUME KInv, NEW t, InCall(t), k.nest = 0, NEW q \in Queues, NEW time \in Times \ {0},
         NEW op, NEW arg, k' = rt_ipc_list_suspend(k, t, q, time), Goes(t, Blocked(op, time, arg))
  PROVE  KInv'
BY BlocksKeeps, SaneData DEF InCall

(* A waiter is resumed: by a thread that will reschedule, or by an          *)
(* interrupt handler, after which the scheduler runs.                       *)
LEMMA ListResumes ==
  ASSUME NEW gone, NEW reaped, NEW kk \in Good(gone, reaped, 1), NEW q \in Queues, kk.wait[q] # <<>>,
         NEW r, r = rt_ipc_list_resume(kk, q)
  PROVE  /\ r \in Good(gone, reaped, 1) /\ OnlyWakes(kk, r) /\ r.current = kk.current
         /\ Head(kk.wait[q]) \in Threads \ gone
<1>1. kk.wait[q] \in Seq(Threads) /\ WaitLinked(kk, gone)
  BY GoodData, Typed DEF Linked
<1>2. Head(kk.wait[q]) \in Threads \ gone
  <2>1. Head(kk.wait[q]) \in ToSet(kk.wait[q]) /\ ToSet(kk.wait[q]) \subseteq Threads
    BY <1>1, Positions
  <2> QED BY <1>1, <2>1 DEF WaitLinked
<1> QED BY <1>2, Resumes DEF rt_ipc_list_resume

LEMMA HandlerKeeps ==
  ASSUME KInv, NEW up \in Sane, OnlyWakes(k, up),
         k' = rt_schedule(up), UNCHANGED call
  PROVE  KInv'
<1>1. k' \in Sane /\ OnlyWakes(up, k')
  BY SaneData, Schedules DEF Sane
<1>2. OnlyWakes(k, k')
  <2>1. k \in KernelData /\ up \in KernelData /\ k' \in KernelData
    BY <1>1, SaneData DEF KInv
  <2> QED BY <1>1, <2>1, WakesAgain
<1> QED BY <1>1, <1>2, WakesStep

LEMMA WakesKeeps ==
  ASSUME KInv, NEW by, InCall(by) \/ by = NULL, NEW q \in Queues, Wakes(by, q)
  PROVE  KInv'
<1>1. k \in Sane /\ OnlyWakes(k, k)
  BY DEF KInv, OnlyWakes
<1>2. CASE ~wakes_when(q)
  <2>1. CASE by = NULL
    BY <1>1, <1>2, <2>1, WakesStep DEF Wakes, kernel_vars
  <2>2. CASE by # NULL
    <3>1. InCall(by) /\ UNCHANGED k /\ Goes(by, NoCall)
      BY <1>2, <2>2 DEF Wakes
    <3> QED BY <3>1, EndsUnchanged
  <2> QED BY <2>1, <2>2
<1>3. CASE wakes_when(q)
  <2> DEFINE up == rt_ipc_list_resume(k, q)
  <2>1. up \in Sane /\ OnlyWakes(k, up)
    BY <1>1, <1>3, SaneData, ListResumes DEF wakes_when, Sane
  <2>2. \/ by = NULL /\ k' = rt_schedule(up) /\ UNCHANGED call
        \/ by # NULL /\ k' = up /\ Reschedules(by)
    BY <1>3 DEF Wakes
  <2> HIDE DEF up
  <2>3. CASE by = NULL
    BY <1>1, <2>1, <2>2, <2>3, HandlerKeeps
  <2>4. CASE by # NULL
    <3>1. InCall(by) /\ k' = up /\ Reschedules(by)
      BY <2>2, <2>4
    <3> QED BY <2>1, <3>1, EndsRescheduling
  <2> QED BY <2>3, <2>4
<1> QED BY <1>2, <1>3

LEMMA SemKeeps ==
  ASSUME KInv, KindsOK, NEW t \in Threads, SemTake(t) \/ SemTaken(t)
  PROVE  KInv'
<1>1. CASE SemTake(t)
  <2>1. InCall(t) /\ k.nest = 0
    BY <1>1, BusyInCall DEF SemTake
  <2>2. CASE UNCHANGED kernel_vars
    BY <2>1, <2>2, Unmoved
  <2>3. CASE ~UNCHANGED kernel_vars
    <3>1. PICK time \in Waits[kind] \ {0} :
            /\ k' = rt_ipc_list_suspend(k, t, "recv", time)
            /\ Goes(t, Blocked("sem", time, NULL))
      BY <1>1, <2>3 DEF SemTake
    <3> QED BY <2>1, <3>1, ObjectFacts, BlocksHere
  <2> QED BY <2>2, <2>3
<1>2. CASE SemTaken(t)
  <2>1. Woken(t, "sem") /\ UNCHANGED k /\ Goes(t, NoCall)
    BY <1>2 DEF SemTaken, GivesUp
  <2> QED BY <2>1, BusyInCall, EndsUnchanged
<1> QED BY <1>1, <1>2

LEMMA SemReleaseKeeps ==
  ASSUME KInv, NEW by, InCall(by) \/ by = NULL, SemRelease(by)
  PROVE  KInv'
<1>1. k \in Sane /\ OnlyWakes(k, k)
  BY DEF KInv, OnlyWakes
<1>2. CASE ~sem_waiting
  BY <1>1, <1>2, WakesStep DEF SemRelease, kernel_vars
<1>3. CASE sem_waiting
  <2> DEFINE up == rt_ipc_list_resume(k, "recv")
  <2>1. up \in Sane /\ OnlyWakes(k, up)
    BY <1>1, <1>3, ObjectFacts, SaneData, ListResumes DEF sem_waiting, Sane
  <2>2. \/ by = NULL /\ k' = rt_schedule(up) /\ UNCHANGED call
        \/ by # NULL /\ k' = up /\ Reschedules(by)
    BY <1>3 DEF SemRelease
  <2> HIDE DEF up
  <2>3. CASE by = NULL
    BY <1>1, <2>1, <2>2, <2>3, HandlerKeeps
  <2>4. CASE by # NULL
    <3>1. InCall(by) /\ k' = up /\ Reschedules(by)
      BY <2>2, <2>4
    <3> QED BY <2>1, <3>1, EndsRescheduling
  <2> QED BY <2>3, <2>4
<1> QED BY <1>2, <1>3

LEMMA GivesUpKeeps ==
  ASSUME KInv, NEW t \in Threads, NEW op, GivesUp(t, op)
  PROVE  KInv'
<1>1. Woken(t, op) /\ UNCHANGED k /\ Goes(t, NoCall)
  BY DEF GivesUp
<1> QED BY <1>1, BusyInCall, EndsUnchanged

LEMMA SameObjects ==
  ASSUME ObjectsOK, UNCHANGED <<kind, event, mutex>>
  PROVE  ObjectsOK'
BY DEF ObjectsOK, EventData, MutexData, Wish, Prios

(* A mutex changes hands.                                                   *)
HeldBy(o, p, n) == [value |-> 0, owner |-> o, hold |-> n, original_priority |-> p]
LEMMA HeldIsFine ==
  ASSUME ObjectsOK, UNCHANGED <<kind, event>>, NEW m \in Mutexes, NEW x \in MutexData,
         mutex' = [mutex EXCEPT ![m] = x], x.value = 0 <=> x.owner # NULL,
         x.owner # NULL => x.owner # Idle /\ x.original_priority \in Prios
  PROVE  ObjectsOK'
<1>1. mutex \in [Mutexes -> MutexData]
  BY DEF ObjectsOK
<1>2. mutex' \in [Mutexes -> MutexData] /\ \A y \in Mutexes : mutex'[y] = IF y = m THEN x ELSE mutex[y]
  BY <1>1
<1>3. \A y \in Mutexes : /\ mutex'[y].value = 0 <=> mutex'[y].owner # NULL
                         /\ mutex'[y].owner # NULL => /\ mutex'[y].owner # Idle
                                                      /\ mutex'[y].original_priority \in Prios
  BY <1>2 DEF ObjectsOK
<1> QED BY <1>2, <1>3 DEF ObjectsOK, EventData, MutexData, Wish, Prios

LEMMA PriosAreNumbers == Prios \subseteq Nat
BY KernelAssumption DEF Prios

LEMMA ReholdIsFine ==
  ASSUME ObjectsOK, UNCHANGED <<kind, event>>, NEW m \in Mutexes, NEW n \in Nat,
         mutex' = [mutex EXCEPT ![m].hold = n]
  PROVE  ObjectsOK'
<1> DEFINE x == [mutex[m] EXCEPT !.hold = n]
<1>1. mutex \in [Mutexes -> MutexData] /\ mutex[m] \in MutexData
  BY DEF ObjectsOK
<1>2. /\ x \in MutexData /\ x.value = mutex[m].value /\ x.owner = mutex[m].owner
      /\ x.original_priority = mutex[m].original_priority
  BY <1>1 DEF MutexData
<1>3. mutex' = [mutex EXCEPT ![m] = x]
  BY <1>1
<1> HIDE DEF x
<1>4. /\ x.value = 0 <=> x.owner # NULL
      /\ x.owner # NULL => x.owner # Idle /\ x.original_priority \in Prios
  BY <1>2 DEF ObjectsOK
<1> QED BY <1>2, <1>3, <1>4, HeldIsFine

LEMMA MutexTakeKeeps ==
  ASSUME KInv, ObjectsOK, Disciplined, NEW t \in Threads, MutexTake(t)
  PROVE  KInv' /\ ObjectsOK'
<1>1. PICK m \in Mutexes, time \in Waits[kind] :
        LET x == mutex[m] IN
        /\ Uses(t, "mutex") /\ k.nest = 0
        /\ \/ /\ x.owner = t /\ x.hold < MaxHold
              /\ mutex' = [mutex EXCEPT ![m].hold = @ + 1]
              /\ k' = [k EXCEPT !.err[t] = "EOK"] /\ UNCHANGED call
           \/ /\ x.owner # t /\ x.value > 0
              /\ mutex' = [mutex EXCEPT ![m] = [value |-> x.value - 1, owner |-> t, hold |-> 1,
                                                original_priority |-> k.prio[t]]]
              /\ k' = [k EXCEPT !.err[t] = "EOK"] /\ UNCHANGED call
           \/ Fails(t, "ETIMEOUT") /\ UNCHANGED mutex
           \/ /\ x.value = 0 /\ time # 0 /\ x.owner \notin Handled
              /\ k' = rt_ipc_list_suspend(boosted(k, t, x.owner), t, m, time)
              /\ Goes(t, Blocked("mutex", time, m))
              /\ UNCHANGED mutex
  BY DEF MutexTake, Disciplined
<1>2. UNCHANGED <<kind, event>>
  BY DEF MutexTake
<1>3. InCall(t) /\ k.nest = 0 /\ t \in Threads \ {Idle}
  BY <1>1, BusyInCall DEF InCall
<1> DEFINE x == mutex[m]
<1>4. x \in MutexData /\ x.hold \in Nat /\ x.value \in {0, 1} /\ x.owner \in Threads \cup {NULL}
  BY DEF ObjectsOK, MutexData
<1>5. k.prio[t] \in Prios /\ k.prio[t] \in Nat
  BY <1>3, Typed, PriosAreNumbers DEF InCall
<1>6. ASSUME k' = [k EXCEPT !.err[t] = "EOK"], UNCHANGED call
      PROVE  KInv'
  <2>1. k \in Sane 
    BY <1>3 DEF InCall
  <2>2. k' \in Sane /\ OnlyWakes(k, k')
    BY <1>6, <2>1, SaneData, SetsError DEF Sane
  <2> QED BY <1>6, <2>1, <2>2, WakesStep
<1>7. ASSUME x.owner = t, mutex' = [mutex EXCEPT ![m].hold = @ + 1]
      PROVE  ObjectsOK'
  <2> DEFINE n == x.hold + 1
  <2>1. n \in Nat /\ mutex' = [mutex EXCEPT ![m].hold = n]
    BY <1>4, <1>7
  <2> HIDE DEF n
  <2> QED BY <1>2, <2>1, ReholdIsFine
<1>8. ASSUME x.owner # t, x.value > 0,
             mutex' = [mutex EXCEPT ![m] = [value |-> x.value - 1, owner |-> t, hold |-> 1,
                                            original_priority |-> k.prio[t]]]
      PROVE  ObjectsOK'
  <2> DEFINE y == HeldBy(t, k.prio[t], 1)
  <2>1. x.value - 1 = 0
    BY <1>4, <1>8
  <2>2. mutex' = [mutex EXCEPT ![m] = y]
    BY <1>8, <2>1 DEF HeldBy
  <2>3. y \in MutexData /\ y.value = 0 /\ y.owner = t /\ y.original_priority \in Prios
    BY <1>3, <1>5 DEF HeldBy, MutexData
  <2> HIDE DEF y
  <2> QED BY <1>2, <1>3, <2>2, <2>3, ObjectFacts, HeldIsFine
<1>9. CASE Fails(t, "ETIMEOUT") /\ UNCHANGED mutex
  BY <1>2, <1>3, <1>9, FailsKeeps, SameObjects
<1>10. CASE /\ x.value = 0 /\ time # 0 /\ x.owner \notin Handled
            /\ k' = rt_ipc_list_suspend(boosted(k, t, x.owner), t, m, time)
            /\ Goes(t, Blocked("mutex", time, m))
            /\ UNCHANGED mutex
  <2>1. x.owner \in Threads \ {Idle} /\ x.owner \notin BeingDeleted
    BY <1>4, <1>10 DEF ObjectsOK, Handled, Handling, BeingDeleted, Deleting
  <2> DEFINE kk == boosted(k, t, x.owner)
  <2>2. /\ kk \in Good(BeingDeleted, Reaped, 1) /\ kk.static = k.static /\ kk.current = k.current
        /\ kk.nest = k.nest /\ kk.stat = k.stat
    <3>1. k \in Good(BeingDeleted, Reaped, 1)
      BY <1>3, SaneData DEF InCall
    <3>2. CASE k.prio[t] < k.prio[x.owner]
      <4>1. kk = rt_thread_change_priority(k, x.owner, k.prio[t])
        BY <3>2 DEF boosted
      <4> HIDE DEF kk
      <4> QED BY <1>5, <2>1, <3>1, <4>1, ChangesPriority DEF OnlyWakes
    <3>3. CASE ~(k.prio[t] < k.prio[x.owner])
      BY <3>1, <3>3 DEF boosted
    <3> QED BY <3>2, <3>3
  <2>3. time \in Times \ {0} /\ m \in Queues
    BY <1>10, ObjectFacts DEF ObjectsOK, KindsOK
  <2>4. k' = rt_ipc_list_suspend(kk, t, m, time) /\ Goes(t, Blocked("mutex", time, m))
    BY <1>10
  <2> HIDE DEF kk
  <2>5. KInv'
    BY <1>3, <2>2, <2>3, <2>4, BlocksKeeps
  <2> QED BY <1>2, <1>10, <2>5, SameObjects
<1> QED BY <1>1, <1>6, <1>7, <1>8, <1>9, <1>10

LEMMA MutexTakenKeeps ==
  ASSUME KInv, NEW t \in Threads, MutexTaken(t)
  PROVE  KInv'
<1>1. Woken(t, "mutex") /\ UNCHANGED k /\ Goes(t, NoCall)
  BY DEF MutexTaken, GivesUp
<1> QED BY <1>1, BusyInCall, EndsUnchanged

LEMMA MutexReleaseKeeps ==
  ASSUME KInv, ObjectsOK, NEW t \in Threads, MutexRelease(t)
  PROVE  KInv' /\ ObjectsOK'
<1>1. PICK m \in Mutexes :
        LET x == mutex[m]
            down == restored(k, t, x.original_priority)
        IN
        /\ Uses(t, "mutex")
        /\ \/ Fails(t, "ERROR") /\ UNCHANGED mutex
           \/ /\ x.owner = t /\ x.hold > 1
              /\ mutex' = [mutex EXCEPT ![m].hold = @ - 1] /\ UNCHANGED kernel_vars
           \/ /\ x.owner = t
              /\ mutex' = [mutex EXCEPT ![m] = FreeMutex]
              /\ k' = down /\ UNCHANGED call
           \/ /\ x.owner = t /\ k.wait[m] # <<>>
              /\ mutex' = [mutex EXCEPT ![m] = heir_state(down, m, Head(down.wait[m]))]
              /\ k' = rt_ipc_list_resume(down, m) /\ Reschedules(t)
  BY DEF MutexRelease
<1>2. UNCHANGED <<kind, event>>
  BY DEF MutexRelease
<1>3. InCall(t) /\ t \in Threads \ {Idle} /\ t \notin BeingDeleted /\ k \in Sane
  BY <1>1, BusyInCall DEF InCall
<1> DEFINE x == mutex[m]
           down == restored(k, t, x.original_priority)
<1>4. x \in MutexData /\ x.hold \in Nat
  BY DEF ObjectsOK, MutexData
<1>5. CASE Fails(t, "ERROR") /\ UNCHANGED mutex
  BY <1>2, <1>3, <1>5, FailsKeeps, SameObjects
<1>6. CASE /\ x.owner = t /\ x.hold > 1
           /\ mutex' = [mutex EXCEPT ![m].hold = @ - 1] /\ UNCHANGED kernel_vars
  <2> DEFINE n == x.hold - 1
  <2>1. n \in Nat /\ mutex' = [mutex EXCEPT ![m].hold = n]
    BY <1>4, <1>6
  <2> HIDE DEF n
  <2>2. ObjectsOK'
    BY <1>2, <2>1, ReholdIsFine
  <2> QED BY <1>3, <1>6, <2>2, Unmoved
<1>7. ASSUME x.owner = t
      PROVE  /\ down \in Sane /\ OnlyWakes(k, down) /\ down.stat = k.stat
             /\ \A q \in Queues : ToSet(down.wait[q]) = ToSet(k.wait[q])
  <2>1. x.original_priority \in Prios
    BY <1>7, ObjectFacts DEF ObjectsOK
  <2> DEFINE p == x.original_priority
  <2>2. CASE p # k.prio[t]
    <3>1. down = rt_thread_change_priority(k, t, p)
      BY <2>2 DEF restored
    <3> HIDE DEF down, p
    <3> QED BY <1>3, <2>1, <3>1, SaneData, ChangesPriority DEF p, Sane
  <2>3. CASE p = k.prio[t]
    <3>1. down = k
      BY <2>3 DEF restored
    <3> QED BY <1>3, <3>1 DEF InCall
  <2> QED BY <2>2, <2>3
<1>8. CASE /\ x.owner = t
           /\ mutex' = [mutex EXCEPT ![m] = FreeMutex]
           /\ k' = down /\ UNCHANGED call
  <2>1. KInv'
    BY <1>3, <1>7, <1>8, WakesStep
  <2>2. /\ FreeMutex \in MutexData
        /\ FreeMutex.value = 0 <=> FreeMutex.owner # NULL
        /\ FreeMutex.owner # NULL => FreeMutex.owner # Idle /\ FreeMutex.original_priority \in Prios
    BY DEF FreeMutex, MutexData
  <2>3. ObjectsOK'
    BY <1>2, <1>8, <2>2, HeldIsFine
  <2> QED BY <2>1, <2>3
<1>9. CASE /\ x.owner = t /\ k.wait[m] # <<>>
           /\ mutex' = [mutex EXCEPT ![m] = heir_state(down, m, Head(down.wait[m]))]
           /\ k' = rt_ipc_list_resume(down, m) /\ Reschedules(t)
  <2> DEFINE w == Head(down.wait[m])
             y == HeldBy(w, down.prio[w], 1)
  <2>1. m \in Queues
    BY ObjectFacts
  <2>2. down \in KernelData /\ k \in KernelData
    BY <1>3, <1>7, <1>9, SaneData DEF InCall
  <2>3. /\ down.wait[m] \in Seq(Threads) /\ k.wait[m] \in Seq(Threads)
        /\ ToSet(down.wait[m]) = ToSet(k.wait[m])
    BY <1>7, <1>9, <2>1, <2>2, Typed
  <2>4. down.wait[m] # <<>> /\ w \in ToSet(k.wait[m]) /\ w \in Threads
    <3> DEFINE l == down.wait[m]
               o == k.wait[m]
    <3>1. o # <<>> /\ l \in Seq(Threads) /\ o \in Seq(Threads) /\ ToSet(l) = ToSet(o)
      BY <1>9, <2>3
    <3>2. Head(l) = w
      OBVIOUS
    <3> HIDE DEF l, o, w
    <3>3. l # <<>> /\ Head(l) \in ToSet(l) /\ ToSet(l) \subseteq Threads
      BY <3>1, Positions
    <3> QED BY <3>1, <3>2, <3>3 DEF l, o
  <2>5. w # Idle
    BY <1>3, <2>1, <2>4, SaneData DEF Linked, WaitLinked, IdleLinked
  <2>6. k' \in Sane /\ OnlyWakes(k, k')
    <3>1. k' \in Sane /\ OnlyWakes(down, k')
      <4>1. down \in Sane /\ k' = rt_ipc_list_resume(down, m)
        BY <1>7, <1>9
      <4> HIDE DEF down
      <4> QED BY <2>1, <2>4, <4>1, SaneData, ListResumes DEF Sane
    <3>2. k' \in KernelData
      BY <3>1, SaneData
    <3> QED BY <1>7, <1>9, <2>2, <3>1, <3>2, WakesAgain
  <2>7. KInv'
    BY <1>3, <1>9, <2>6, EndsRescheduling
  <2>8. down.prio[w] \in Prios /\ down.prio[w] \in Nat
    BY <2>2, <2>4, Typed, PriosAreNumbers
  <2>9. mutex' = [mutex EXCEPT ![m] = y]
    BY <1>9 DEF heir_state, HeldBy
  <2>10. y \in MutexData /\ y.value = 0 /\ y.owner = w /\ y.original_priority \in Prios
    BY <2>4, <2>8 DEF HeldBy, MutexData
  <2> HIDE DEF y, w, down
  <2>11. ObjectsOK'
    BY <1>2, <2>4, <2>5, <2>9, <2>10, ObjectFacts, HeldIsFine
  <2> QED BY <2>7, <2>11
<1> QED BY <1>1, <1>5, <1>6, <1>8, <1>9

(* Events.                                                                  *)
LEMMA NewEventIsFine ==
  ASSUME ObjectsOK, UNCHANGED <<kind, mutex>>, event' \in EventData
  PROVE  ObjectsOK'
BY DEF ObjectsOK, EventData, MutexData, Wish, Prios

LEMMA EventRecvKeeps ==
  ASSUME KInv, ObjectsOK, NEW t \in Threads, EventRecv(t)
  PROVE  KInv' /\ ObjectsOK'
<1>1. PICK w \in Wishes, time \in Waits[kind] :
        /\ Uses(t, "event") /\ k.nest = 0
        /\ \/ /\ event' = IF w.clear THEN [event EXCEPT !.set = @ \ w.set] ELSE event
              /\ k' = [k EXCEPT !.err[t] = "EOK"] /\ UNCHANGED call
           \/ Fails(t, "ETIMEOUT") /\ UNCHANGED event
           \/ /\ time # 0
              /\ k' = rt_ipc_list_suspend(k, t, "recv", time)
              /\ Goes(t, Blocked("event", time, NULL))
              /\ event' = [event EXCEPT !.wish[t] = w]
  BY DEF EventRecv
<1>2. UNCHANGED <<kind, mutex>>
  BY DEF EventRecv
<1>3. InCall(t) /\ k.nest = 0 /\ t \in Threads \ {Idle} /\ k \in Sane
  BY <1>1, BusyInCall DEF InCall
<1>4. event \in EventData /\ w \in Wish
  BY DEF ObjectsOK, Wishes, Wish
<1>5. event' \in EventData
  <2>1. CASE event' = IF w.clear THEN [event EXCEPT !.set = @ \ w.set] ELSE event
    BY <1>4, <2>1 DEF EventData
  <2>2. CASE event' = [event EXCEPT !.wish[t] = w]
    BY <1>4, <2>2 DEF EventData
  <2>3. CASE UNCHANGED event
    BY <1>4, <2>3
  <2> QED BY <1>1, <2>1, <2>2, <2>3
<1>6. ObjectsOK'
  BY <1>2, <1>5, NewEventIsFine
<1>7. CASE k' = [k EXCEPT !.err[t] = "EOK"] /\ UNCHANGED call
  <2>1. k' \in Sane /\ OnlyWakes(k, k')
    BY <1>3, <1>7, SaneData, SetsError DEF Sane
  <2>2. KInv'
    BY <1>3, <1>7, <2>1, WakesStep
  <2> QED BY <1>6, <2>2
<1>8. CASE Fails(t, "ETIMEOUT")
  BY <1>3, <1>6, <1>8, FailsKeeps
<1>9. CASE /\ time # 0 /\ k' = rt_ipc_list_suspend(k, t, "recv", time)
           /\ Goes(t, Blocked("event", time, NULL))
  <2>1. time \in Times \ {0} /\ "recv" \in Queues
    BY <1>9, ObjectFacts DEF ObjectsOK, KindsOK
  <2> QED BY <1>3, <1>6, <1>9, <2>1, BlocksHere
<1> QED BY <1>1, <1>7, <1>8, <1>9

LEMMA EventReceivedKeeps ==
  ASSUME KInv, ObjectsOK, NEW t \in Threads, EventReceived(t)
  PROVE  KInv' /\ ObjectsOK'
<1>1. Woken(t, "event") /\ UNCHANGED k /\ Goes(t, NoCall)
  BY DEF EventReceived
<1>2. KInv'
  BY <1>1, BusyInCall, EndsUnchanged
<1>3. NoWish \in Wish /\ event \in EventData
  BY DEF NoWish, Wish, ObjectsOK
<1>4. event' = [event EXCEPT !.wish[t] = NoWish] /\ UNCHANGED <<kind, mutex>>
  BY DEF EventReceived
<1>5. event' \in EventData
  BY <1>3, <1>4 DEF EventData
<1> QED BY <1>2, <1>4, <1>5, NewEventIsFine

LEMMA EventSendKeeps ==
  ASSUME KInv, ObjectsOK, NEW by, InCall(by) \/ by = NULL, EventSend(by)
  PROVE  KInv' /\ ObjectsOK'
<1>1. k \in Sane /\ OnlyWakes(k, k)
  BY DEF KInv, OnlyWakes
<1>2. PICK set \in SUBSET Bits \ {{}} :
        LET s == served(set) IN
        /\ event' = [set |-> s.set, wish |-> s.wish]
        /\ \/ UNCHANGED kernel_vars
           \/ by = NULL /\ k' = rt_schedule(s.k) /\ UNCHANGED call
           \/ by # NULL /\ k' = s.k /\ Reschedules(by)
  BY DEF EventSend
<1>3. UNCHANGED <<kind, mutex>>
  BY DEF EventSend
<1> DEFINE s == served(set)
<1>4. /\ s.k \in Sane /\ OnlyWakes(k, s.k)
      /\ [set |-> s.set, wish |-> s.wish] \in EventData
  <2>1. event \in EventData /\ set \in SUBSET Bits /\ "recv" \in Queues
    BY ObjectFacts DEF ObjectsOK
  <2> QED BY <1>1, <2>1, SaneData, Serves DEF Sane
<1>5. /\ event' = [set |-> s.set, wish |-> s.wish]
      /\ \/ UNCHANGED kernel_vars
         \/ by = NULL /\ k' = rt_schedule(s.k) /\ UNCHANGED call
         \/ by # NULL /\ k' = s.k /\ Reschedules(by)
  BY <1>2
<1> HIDE DEF s
<1>6. ObjectsOK'
  BY <1>3, <1>4, <1>5, NewEventIsFine
<1>7. CASE UNCHANGED kernel_vars
  <2>1. KInv'
    BY <1>1, <1>7, WakesStep DEF kernel_vars
  <2> QED BY <1>6, <2>1
<1>8. CASE by = NULL /\ k' = rt_schedule(s.k) /\ UNCHANGED call
  <2> DEFINE up == s.k
  <2>1. up \in Sane /\ OnlyWakes(k, up) /\ k' = rt_schedule(up)
    BY <1>4, <1>8
  <2> HIDE DEF up
  <2>2. KInv'
    BY <1>1, <1>8, <2>1, HandlerKeeps
  <2> QED BY <1>6, <2>2
<1>9. CASE by # NULL /\ k' = s.k /\ Reschedules(by)
  <2>1. InCall(by) /\ k' \in Sane /\ OnlyWakes(k, k')
    BY <1>4, <1>9
  <2>2. KInv'
    BY <1>9, <2>1, EndsRescheduling
  <2> QED BY <1>6, <2>2
<1> QED BY <1>5, <1>7, <1>8, <1>9

(***************************************************************************)
(* Mailbox, message queue and memory pool: none touches a mutex or an      *)
(* event.                                                                  *)
(***************************************************************************)
LEMMA TriesInCall ==
  ASSUME KInv, NEW t \in Threads, NEW x, NEW op, NEW arg, NEW time, Tries(t, x, op, arg, time)
  PROVE  InCall(t) /\ k.nest = 0
<1>1. (Uses(t, x) /\ k.nest = 0) \/ Woken(t, op)
  BY DEF Tries
<1> QED BY <1>1, BusyInCall

LEMMA MbKeeps ==
  ASSUME KInv, KindsOK, NEW t \in Threads, MbSend(t) \/ MbRecv(t) \/ MbGivesUp(t)
  PROVE  KInv'
<1>1. CASE MbSend(t)
  <2>1. PICK v \in Values, time \in Waits[kind] :
          /\ Tries(t, "mb", "mb_send", v, time)
          /\ \/ Wakes(t, "recv")
             \/ UNCHANGED k /\ Goes(t, NoCall)
             \/ /\ time # 0 /\ k' = rt_ipc_list_suspend(k, t, "send", time)
                /\ Goes(t, Blocked("mb_send", time, v))
    BY <1>1 DEF MbSend
  <2>2. InCall(t) /\ k.nest = 0
    BY <2>1, TriesInCall
  <2>3. CASE Wakes(t, "recv")
    BY <2>2, <2>3, ObjectFacts, WakesKeeps
  <2>4. CASE UNCHANGED k /\ Goes(t, NoCall)
    BY <2>2, <2>4, EndsUnchanged
  <2>5. CASE /\ time # 0 /\ k' = rt_ipc_list_suspend(k, t, "send", time)
             /\ Goes(t, Blocked("mb_send", time, v))
    <3>1. time \in Times \ {0} /\ "send" \in Queues
      BY <2>5, ObjectFacts
    <3> QED BY <2>2, <2>5, <3>1, BlocksHere
  <2> QED BY <2>1, <2>3, <2>4, <2>5
<1>2. CASE MbRecv(t)
  <2>1. PICK time \in Waits[kind] :
          /\ Tries(t, "mb", "mb_recv", NULL, time)
          /\ \/ Wakes(t, "send")
             \/ UNCHANGED k /\ Goes(t, NoCall)
             \/ /\ time # 0 /\ k' = rt_ipc_list_suspend(k, t, "recv", time)
                /\ Goes(t, Blocked("mb_recv", time, NULL))
    BY <1>2 DEF MbRecv
  <2>2. InCall(t) /\ k.nest = 0
    BY <2>1, TriesInCall
  <2>3. CASE Wakes(t, "send")
    BY <2>2, <2>3, ObjectFacts, WakesKeeps
  <2>4. CASE UNCHANGED k /\ Goes(t, NoCall)
    BY <2>2, <2>4, EndsUnchanged
  <2>5. CASE /\ time # 0 /\ k' = rt_ipc_list_suspend(k, t, "recv", time)
             /\ Goes(t, Blocked("mb_recv", time, NULL))
    <3>1. time \in Times \ {0} /\ "recv" \in Queues
      BY <2>5, ObjectFacts
    <3> QED BY <2>2, <2>5, <3>1, BlocksHere
  <2> QED BY <2>1, <2>3, <2>4, <2>5
<1>3. CASE MbGivesUp(t)
  BY <1>3, GivesUpKeeps DEF MbGivesUp
<1> QED BY <1>1, <1>2, <1>3

(* A thread that copies a message is between two sections.                  *)
Copies(op, b) == [at |-> "copy", op |-> op, left |-> 0, arg |-> b]
LEMMA CopiesKeeps ==
  ASSUME KInv, NEW t, InCall(t), UNCHANGED k, NEW op, NEW b, Goes(t, Copies(op, b))
  PROVE  KInv'
<1> DEFINE c == Copies(op, b)
<1>1. Shaped(c) /\ c.at = "copy" /\ Goes(t, c)
  BY ObjectFacts DEF Shaped, Copies
<1> HIDE DEF c
<1>2. k' \in Sane /\ OnlyWakes(k, k')
  BY DEF InCall
<1> QED BY <1>1, <1>2, WakesReturns DEF InCall

LEMMA CopyingInCall ==
  ASSUME KInv, NEW t \in Threads, Runs(t), call[t].at = "copy"
  PROVE  InCall(t)
BY Active DEF InCall, Deleting

LEMMA MqKeeps ==
  ASSUME KInv, KindsOK, NEW t \in Threads,
         MqSend(t) \/ MqLink(t) \/ MqRecv(t) \/ MqFree(t) \/ MqGivesUp(t)
  PROVE  KInv'
<1>1. CASE MqSend(t)
  <2>1. PICK op \in {"mq_send", "mq_urgent"} :
          /\ Uses(t, "mq") /\ UNCHANGED k /\ Goes(t, Copies(op, mq.free))
    BY <1>1 DEF MqSend, Copies
  <2>2. InCall(t)
    BY <2>1, BusyInCall
  <2> QED BY <2>1, <2>2, CopiesKeeps
<1>2. CASE MqLink(t)
  <2>1. InCall(t) /\ Wakes(t, "recv")
    BY <1>2, CopyingInCall DEF MqLink
  <2> QED BY <2>1, ObjectFacts, WakesKeeps
<1>3. CASE MqRecv(t)
  <2>1. PICK time \in Waits[kind] :
          /\ Tries(t, "mq", "mq_recv", NULL, time)
          /\ \/ UNCHANGED k /\ Goes(t, Copies("mq_recv", mq.head))
             \/ UNCHANGED k /\ Goes(t, NoCall)
             \/ /\ time # 0 /\ k' = rt_ipc_list_suspend(k, t, "recv", time)
                /\ Goes(t, Blocked("mq_recv", time, NULL))
    BY <1>3 DEF MqRecv, Copies
  <2>2. InCall(t) /\ k.nest = 0
    BY <2>1, TriesInCall
  <2>3. CASE UNCHANGED k /\ Goes(t, Copies("mq_recv", mq.head))
    BY <2>2, <2>3, CopiesKeeps
  <2>4. CASE UNCHANGED k /\ Goes(t, NoCall)
    BY <2>2, <2>4, EndsUnchanged
  <2>5. CASE /\ time # 0 /\ k' = rt_ipc_list_suspend(k, t, "recv", time)
             /\ Goes(t, Blocked("mq_recv", time, NULL))
    <3>1. time \in Times \ {0} /\ "recv" \in Queues
      BY <2>5, ObjectFacts
    <3> QED BY <2>2, <2>5, <3>1, BlocksHere
  <2> QED BY <2>1, <2>3, <2>4, <2>5
<1>4. CASE MqFree(t)
  <2>1. InCall(t) /\ UNCHANGED k /\ Goes(t, NoCall)
    BY <1>4, CopyingInCall DEF MqFree
  <2> QED BY <2>1, EndsUnchanged
<1>5. CASE MqGivesUp(t)
  BY <1>5, GivesUpKeeps DEF MqGivesUp
<1> QED BY <1>1, <1>2, <1>3, <1>4, <1>5

LEMMA MpKeeps ==
  ASSUME KInv, KindsOK, NEW t \in Threads, MpAlloc(t) \/ MpGivesUp(t)
  PROVE  KInv'
<1>1. CASE MpAlloc(t)
  <2>1. PICK time \in Waits[kind] :
          /\ Tries(t, "mp", "mp", NULL, time)
          /\ \/ UNCHANGED k /\ Goes(t, NoCall)
             \/ /\ time # 0 /\ k' = mp_waits(k, t, time) /\ Goes(t, Blocked("mp", time, NULL))
    BY <1>1 DEF MpAlloc
  <2>2. InCall(t) /\ k.nest = 0
    BY <2>1, TriesInCall
  <2>3. CASE UNCHANGED k /\ Goes(t, NoCall)
    BY <2>2, <2>3, EndsUnchanged
  <2>4. CASE time # 0 /\ k' = mp_waits(k, t, time) /\ Goes(t, Blocked("mp", time, NULL))
    <3>1. time \in Times \ {0} /\ "recv" \in Queues
      BY <2>4, ObjectFacts
    <3>2. k' \in Good(BeingDeleted, Reaped, 1) /\ WaitsOn(k, k', t)
      BY <2>2, <2>4, <3>1, SaneData, PoolSuspends DEF InCall
    <3>3. Shaped(Blocked("mp", time, NULL)) /\ Blocked("mp", time, NULL).at = "suspending"
      BY <3>1, BlockedShaped
    <3> QED BY <2>2, <2>4, <3>2, <3>3, WaitStep DEF InCall
  <2> QED BY <2>1, <2>3, <2>4
<1>2. CASE MpGivesUp(t)
  BY <1>2, GivesUpKeeps DEF MpGivesUp
<1> QED BY <1>1, <1>2

LEMMA MpFreeKeeps ==
  ASSUME KInv, Disciplined, NEW by, InCall(by) \/ by = NULL, MpFree(by)
  PROVE  KInv'
<1>1. \/ UNCHANGED kernel_vars \/ Wakes(by, "recv")
      \/ by = NULL /\ k' = rt_schedule(k) /\ UNCHANGED call
      \/ by # NULL /\ k' = k /\ Reschedules(by)
  <2>1. head_resumed = {k}
    BY DEF head_resumed, Disciplined
  <2> QED BY <2>1 DEF MpFree
<1>2. k \in Sane /\ OnlyWakes(k, k)
  BY DEF KInv, OnlyWakes
<1>3. CASE UNCHANGED kernel_vars
  BY <1>2, <1>3, WakesStep DEF kernel_vars
<1>4. CASE Wakes(by, "recv")
  BY <1>4, ObjectFacts, WakesKeeps
<1>5. CASE by = NULL /\ k' = rt_schedule(k) /\ UNCHANGED call
  BY <1>2, <1>5, HandlerKeeps
<1>6. CASE by # NULL /\ k' = k /\ Reschedules(by)
  BY <1>2, <1>6, EndsRescheduling
<1> QED BY <1>1, <1>3, <1>4, <1>5, <1>6

(***************************************************************************)
(* Reset and detach, and what a handler does.                              *)
(***************************************************************************)
LEMMA ResetKeeps ==
  ASSUME KInv, NEW t \in Threads, Reset(t)
  PROVE  KInv'
<1> DEFINE one == rt_ipc_list_resume_all(k, "recv")
<1>1. /\ Uses(t, kind) /\ Reschedules(t) /\ k' = rt_ipc_list_resume_all(one, "send")
  BY DEF Reset
<1>2. InCall(t) /\ k \in Sane /\ k \in KernelData
  BY <1>1, BusyInCall DEF InCall
<1>3. one \in Sane /\ OnlyWakes(k, one)
  BY <1>2, ObjectFacts, SaneData, ResumesAll DEF Sane
<1> HIDE DEF one
<1>4. k' \in Sane /\ OnlyWakes(one, k')
  BY <1>1, <1>3, ObjectFacts, SaneData, ResumesAll DEF Sane
<1>5. OnlyWakes(k, k')
  <2>1. one \in KernelData /\ k' \in KernelData
    BY <1>3, <1>4, SaneData
  <2> QED BY <1>2, <1>3, <1>4, <2>1, WakesAgain
<1> QED BY <1>1, <1>2, <1>4, <1>5, EndsRescheduling

LEMMA DetachKeeps ==
  ASSUME KInv, NEW t \in Threads, Detach(t) \/ DetachStep(t)
  PROVE  KInv'
<1>1. CASE Detach(t)
  <2> DEFINE c == [NoCall EXCEPT !.at = "detach"]
  <2>1. Uses(t, kind) /\ UNCHANGED k /\ Goes(t, c) /\ Shaped(c) /\ c.at = "detach"
    BY <1>1, NoCallShaped DEF Detach
  <2> HIDE DEF c
  <2>2. InCall(t)
    BY <2>1, BusyInCall
  <2>3. k' \in Sane /\ OnlyWakes(k, k')
    BY <2>1, <2>2 DEF InCall
  <2> QED BY <2>1, <2>2, <2>3, WakesReturns DEF InCall
<1>2. CASE DetachStep(t)
  <2>1. InCall(t)
    BY <1>2, Active DEF DetachStep, InCall, Deleting
  <2>2. CASE waiting # {}
    <3>1. PICK q \in waiting : k' = resumed_bad(k, Head(k.wait[q])) /\ UNCHANGED call
      BY <1>2, <2>2 DEF DetachStep
    <3>2. q \in Queues /\ k.wait[q] # <<>>
      BY <3>1 DEF waiting
    <3>3. k.wait[q] \in Seq(Threads)
      BY <2>1, <3>2, Typed DEF InCall
    <3>4. Head(k.wait[q]) \in Threads \ BeingDeleted
      BY <2>1, <3>2, SaneData, ListResumes DEF InCall
    <3>5. k' \in Sane /\ OnlyWakes(k, k')
      BY <2>1, <3>1, <3>4, SaneData, ResumesBad DEF InCall, Sane
    <3> QED BY <2>1, <3>1, <3>5, WakesStep DEF InCall
  <2>3. CASE waiting = {}
    <3>1. UNCHANGED k /\ Goes(t, NoCall)
      BY <1>2, <2>3 DEF DetachStep
    <3> QED BY <2>1, <3>1, EndsUnchanged
  <2> QED BY <2>2, <2>3
<1> QED BY <1>1, <1>2

LEMMA HandlerStepKeeps ==
  ASSUME KInv, ObjectsOK, Disciplined, Handler
  PROVE  KInv' /\ ObjectsOK'
<1>2. CASE SemRelease(NULL)
  <2>1. UNCHANGED <<kind, event, mutex>>
    BY <1>2 DEF SemRelease
  <2>2. KInv'
    BY <1>2, SemReleaseKeeps
  <2> QED BY <2>1, <2>2, SameObjects
<1>3. CASE EventSend(NULL)
  BY <1>3, EventSendKeeps
<1>4. CASE Wakes(NULL, "recv") /\ UNCHANGED <<kind, event, mutex>>
  <2>1. KInv'
    BY <1>4, ObjectFacts, WakesKeeps
  <2> QED BY <1>4, <2>1, SameObjects
<1>5. CASE MpFree(NULL)
  <2>1. UNCHANGED <<kind, event, mutex>>
    BY <1>5 DEF MpFree
  <2>2. KInv'
    BY <1>5, MpFreeKeeps
  <2> QED BY <2>1, <2>2, SameObjects
<1> QED BY <1>2, <1>3, <1>4, <1>5 DEF Handler, MqSendIsr

(***************************************************************************)
(* Calls about objects open no window: behaviours with windows are about   *)
(* no object.                                                              *)
(***************************************************************************)
Elsewhere(t) == UNCHANGED call \/ \E c : Goes(t, c) /\ c.at \notin Windows

LEMMA ObjectWindows ==
  ASSUME WInv, CallsOK, kind # "thread", UNCHANGED kind, NEW t \in Threads, Elsewhere(t)
  PROVE  WInv'
<1>1. \A v \in Threads : call[v].at \notin Windows
  BY DEF WInv, Handles
<1>2. CASE UNCHANGED call
  BY <1>1, <1>2 DEF WInv
<1>3. CASE ~UNCHANGED call
  <2>1. PICK c : Goes(t, c) /\ c.at \notin Windows
    BY <1>3 DEF Elsewhere
  <2>2. call'[t] = c /\ \A v \in Threads \ {t} : call'[v] = call[v]
    BY <2>1, Went
  <2>3. \A v \in Threads : call'[v].at \notin Windows
    BY <1>1, <2>1, <2>2
  <2> QED BY <2>3 DEF WInv
<1> QED BY <1>2, <1>3

LEMMA Elsewheres ==
  ASSUME NEW t
  PROVE  /\ Goes(t, NoCall) => Elsewhere(t)
         /\ Reschedules(t) => Elsewhere(t)
         /\ \A op, time, arg : Goes(t, Blocked(op, time, arg)) => Elsewhere(t)
         /\ \A op, b : Goes(t, Copies(op, b)) => Elsewhere(t)
         /\ \A at \in {"detach"} : Goes(t, [NoCall EXCEPT !.at = at]) => Elsewhere(t)
         /\ \A q : Wakes(t, q) => Elsewhere(t)
         /\ \A e : Fails(t, e) => Elsewhere(t)
         /\ \A op : GivesUp(t, op) => Elsewhere(t)
<1>1. /\ NoCall.at \notin Windows /\ [NoCall EXCEPT !.at = "resched"].at \notin Windows
      /\ [NoCall EXCEPT !.at = "detach"].at \notin Windows
      /\ \A op, time, arg : Blocked(op, time, arg).at \notin Windows
      /\ \A op, b : Copies(op, b).at \notin Windows
  BY DEF NoCall, Blocked, Copies, Windows
<1>2. Goes(t, NoCall) => Elsewhere(t)
  BY <1>1 DEF Elsewhere
<1>3. Reschedules(t) => Elsewhere(t)
  BY <1>1 DEF Elsewhere, Reschedules
<1>4. \A op, time, arg : Goes(t, Blocked(op, time, arg)) => Elsewhere(t)
  BY <1>1 DEF Elsewhere
<1>5. \A op, b : Goes(t, Copies(op, b)) => Elsewhere(t)
  BY <1>1 DEF Elsewhere
<1>6. \A at \in {"detach"} : Goes(t, [NoCall EXCEPT !.at = at]) => Elsewhere(t)
  BY <1>1 DEF Elsewhere
<1>7. \A q : Wakes(t, q) => Elsewhere(t)
  BY <1>2, <1>3 DEF Wakes, Elsewhere, kernel_vars
<1>8. \A e : Fails(t, e) => Elsewhere(t)
  BY <1>2 DEF Fails
<1>9. \A op : GivesUp(t, op) => Elsewhere(t)
  BY <1>2 DEF GivesUp
<1> QED BY <1>2, <1>3, <1>4, <1>5, <1>6, <1>7, <1>8, <1>9

(* Who is in a call about an object is in one of a behaviour about objects. *)
LEMMA ObjectKinds ==
  ASSUME WInv, NEW t \in Threads
  PROVE  /\ \A x : Uses(t, x) => kind = x
         /\ \A op : Woken(t, op) /\ op \notin ThreadOps => kind # "thread"
         /\ call[t].at \in {"copy", "detach"} => kind # "thread"
BY DEF WInv, Uses, About, Woken

LEMMA CallingElsewhere ==
  ASSUME WInv, NEW t \in Threads, Calling(t)
  PROVE  kind # "thread" /\ UNCHANGED kind /\ Elsewhere(t)
<1>0. {"sem", "mutex", "event", "mb_send", "mb_recv", "mq_recv", "mp"} \cap ThreadOps = {}
  BY DEF ThreadOps
<1>1. CASE SemTake(t)
  <2>1. Uses(t, "sem") /\ UNCHANGED kind
    BY <1>1 DEF SemTake
  <2>2. UNCHANGED call \/ \E time : Goes(t, Blocked("sem", time, NULL))
    BY <1>1 DEF SemTake, kernel_vars
  <2> QED BY <2>1, <2>2, ObjectKinds, Elsewheres DEF Elsewhere
<1>2. CASE Uses(t, "sem") /\ SemRelease(t)
  <2>1. UNCHANGED kind /\ (UNCHANGED call \/ Reschedules(t))
    BY <1>2 DEF SemRelease, kernel_vars
  <2> QED BY <1>2, <2>1, ObjectKinds, Elsewheres DEF Elsewhere
<1>3. CASE MutexTake(t)
  <2>1. Uses(t, "mutex") /\ UNCHANGED kind
    BY <1>3 DEF MutexTake
  <2>2. \/ UNCHANGED call \/ Fails(t, "ETIMEOUT")
        \/ \E time, m : Goes(t, Blocked("mutex", time, m))
    BY <1>3 DEF MutexTake
  <2> QED BY <2>1, <2>2, ObjectKinds, Elsewheres DEF Elsewhere
<1>4. CASE MutexRelease(t)
  <2>1. Uses(t, "mutex") /\ UNCHANGED kind
    BY <1>4 DEF MutexRelease
  <2>2. UNCHANGED call \/ Fails(t, "ERROR") \/ Reschedules(t)
    BY <1>4 DEF MutexRelease, kernel_vars
  <2> QED BY <2>1, <2>2, ObjectKinds, Elsewheres DEF Elsewhere
<1>5. CASE EventRecv(t)
  <2>1. Uses(t, "event") /\ UNCHANGED kind
    BY <1>5 DEF EventRecv
  <2>2. \/ UNCHANGED call \/ Fails(t, "ETIMEOUT")
        \/ \E time : Goes(t, Blocked("event", time, NULL))
    BY <1>5 DEF EventRecv
  <2> QED BY <2>1, <2>2, ObjectKinds, Elsewheres DEF Elsewhere
<1>6. CASE Uses(t, "event") /\ EventSend(t)
  <2>1. UNCHANGED kind /\ (UNCHANGED call \/ Reschedules(t))
    BY <1>6 DEF EventSend, kernel_vars
  <2> QED BY <1>6, <2>1, ObjectKinds, Elsewheres DEF Elsewhere
<1>7. CASE MbSend(t) \/ MbRecv(t)
  <2>1. (Uses(t, "mb") \/ Woken(t, "mb_send") \/ Woken(t, "mb_recv")) /\ UNCHANGED kind
    BY <1>7 DEF MbSend, MbRecv, Tries
  <2>2. \/ Wakes(t, "recv") \/ Wakes(t, "send") \/ Goes(t, NoCall)
        \/ \E op, time, v : Goes(t, Blocked(op, time, v))
    BY <1>7 DEF MbSend, MbRecv
  <2> QED BY <1>0, <2>1, <2>2, ObjectKinds, Elsewheres
<1>8. CASE MqSend(t)
  <2>1. Uses(t, "mq") /\ UNCHANGED kind /\ \E op, b : Goes(t, Copies(op, b))
    BY <1>8 DEF MqSend, Copies
  <2> QED BY <2>1, ObjectKinds, Elsewheres
<1>9. CASE MqRecv(t)
  <2>1. (Uses(t, "mq") \/ Woken(t, "mq_recv")) /\ UNCHANGED kind
    BY <1>9 DEF MqRecv, Tries
  <2>2. \/ Goes(t, Copies("mq_recv", mq.head)) \/ Goes(t, NoCall)
        \/ \E time : Goes(t, Blocked("mq_recv", time, NULL))
    BY <1>9 DEF MqRecv, Copies
  <2> QED BY <1>0, <2>1, <2>2, ObjectKinds, Elsewheres
<1>10. CASE MpAlloc(t)
  <2>1. (Uses(t, "mp") \/ Woken(t, "mp")) /\ UNCHANGED kind
    BY <1>10 DEF MpAlloc, Tries
  <2>2. Goes(t, NoCall) \/ \E time : Goes(t, Blocked("mp", time, NULL))
    BY <1>10 DEF MpAlloc
  <2> QED BY <1>0, <2>1, <2>2, ObjectKinds, Elsewheres
<1>11. CASE Uses(t, "mp") /\ MpFree(t)
  <2>1. UNCHANGED kind /\ (UNCHANGED call \/ Wakes(t, "recv") \/ Reschedules(t))
    BY <1>11, ObjectFacts DEF MpFree, kernel_vars
  <2> QED BY <1>11, <2>1, ObjectKinds, Elsewheres DEF Elsewhere
<1>12. CASE Reset(t)
  BY <1>12, Elsewheres DEF Reset
<1>13. CASE Detach(t)
  BY <1>13, Elsewheres DEF Detach
<1> QED BY <1>1, <1>2, <1>3, <1>4, <1>5, <1>6, <1>7, <1>8, <1>9, <1>10, <1>11, <1>12, <1>13 DEF Calling

LEMMA FinishingElsewhere ==
  ASSUME WInv, NEW t \in Threads, Finishing(t)
  PROVE  kind # "thread" /\ UNCHANGED kind /\ Elsewhere(t)
<1>0. {"sem", "mutex", "event", "mb_send", "mb_recv", "mq_recv", "mp"} \cap ThreadOps = {}
  BY DEF ThreadOps
<1>1. CASE SemTaken(t)
  <2>1. Woken(t, "sem") /\ UNCHANGED kind /\ Goes(t, NoCall)
    BY <1>1 DEF SemTaken, GivesUp
  <2> QED BY <1>0, <2>1, ObjectKinds, Elsewheres
<1>2. CASE MutexTaken(t)
  <2>1. Woken(t, "mutex") /\ UNCHANGED kind /\ Goes(t, NoCall)
    BY <1>2 DEF MutexTaken, GivesUp
  <2> QED BY <1>0, <2>1, ObjectKinds, Elsewheres
<1>3. CASE EventReceived(t)
  <2>1. Woken(t, "event") /\ UNCHANGED kind /\ Goes(t, NoCall)
    BY <1>3 DEF EventReceived
  <2> QED BY <1>0, <2>1, ObjectKinds, Elsewheres
<1>4. CASE MbGivesUp(t)
  <2>1. (Woken(t, "mb_send") \/ Woken(t, "mb_recv")) /\ UNCHANGED kind /\ Goes(t, NoCall)
    BY <1>4 DEF MbGivesUp, GivesUp
  <2> QED BY <1>0, <2>1, ObjectKinds, Elsewheres
<1>5. CASE MqGivesUp(t)
  <2>1. Woken(t, "mq_recv") /\ UNCHANGED kind /\ Goes(t, NoCall)
    BY <1>5 DEF MqGivesUp, GivesUp
  <2> QED BY <1>0, <2>1, ObjectKinds, Elsewheres
<1>6. CASE MpGivesUp(t)
  <2>1. Woken(t, "mp") /\ UNCHANGED kind /\ Goes(t, NoCall)
    BY <1>6 DEF MpGivesUp, GivesUp
  <2> QED BY <1>0, <2>1, ObjectKinds, Elsewheres
<1>7. CASE MqLink(t)
  <2>1. call[t].at = "copy" /\ UNCHANGED kind /\ Wakes(t, "recv")
    BY <1>7 DEF MqLink
  <2> QED BY <2>1, ObjectKinds, Elsewheres
<1>8. CASE MqFree(t)
  <2>1. call[t].at = "copy" /\ UNCHANGED kind /\ Goes(t, NoCall)
    BY <1>8 DEF MqFree
  <2> QED BY <2>1, ObjectKinds, Elsewheres
<1>9. CASE DetachStep(t)
  <2>1. call[t].at = "detach" /\ UNCHANGED kind /\ (UNCHANGED call \/ Goes(t, NoCall))
    BY <1>9 DEF DetachStep
  <2> QED BY <2>1, ObjectKinds, Elsewheres DEF Elsewhere
<1> QED BY <1>1, <1>2, <1>3, <1>4, <1>5, <1>6, <1>7, <1>8, <1>9 DEF Finishing

LEMMA HandlerElsewhere ==
  ASSUME Handler
  PROVE  kind # "thread" /\ UNCHANGED <<kind, call>>
<1>1. \A q : Wakes(NULL, q) => UNCHANGED call
  BY DEF Wakes, kernel_vars
<1>2. CASE About("sem") /\ SemRelease(NULL)
  BY <1>2 DEF About, SemRelease, kernel_vars
<1>3. CASE About("event") /\ EventSend(NULL)
  BY <1>3 DEF About, EventSend, kernel_vars
<1>4. CASE About("mp") /\ MpFree(NULL)
  BY <1>1, <1>4 DEF About, MpFree, kernel_vars
<1>5. CASE About("mb") /\ Wakes(NULL, "recv") /\ UNCHANGED kind
  BY <1>1, <1>5 DEF About
<1>6. CASE About("mq") /\ MqSendIsr
  BY <1>1, <1>6 DEF About, MqSendIsr
<1> QED BY <1>2, <1>3, <1>4, <1>5, <1>6 DEF Handler

(***************************************************************************)
(* The first state.                                                        *)
(***************************************************************************)
LEMMA ListsSet ==
  ASSUME NEW S, IsFiniteSet(S)
  PROVE  /\ SetToSeq(S) \in Seq(S) /\ IsInjective(SetToSeq(S))
         /\ ToSet(SetToSeq(S)) = S /\ Len(SetToSeq(S)) = Cardinality(S)
<1>1. IsFiniteSet(S)
  OBVIOUS
<1> DEFINE n == Cardinality(S)
<1>2. n \in Nat /\ ExistsBijection(1 .. n, S)
  BY <1>1, FS_CardinalityType
<1>3. PICK g : g \in [1 .. n -> S] /\ IsInjective(g)
  BY <1>2 DEF ExistsBijection, Bijection, Injection, IsInjective
<1> DEFINE f == SetToSeq(S)
<1>4. f = CHOOSE h \in [1 .. n -> S] : IsInjective(h)
  BY DEF SetToSeq
<1> HIDE DEF f
<1>5. f \in [1 .. n -> S] /\ IsInjective(f)
  BY <1>3, <1>4
<1>6. f \in Injection(1 .. n, S)
  BY <1>5 DEF Injection, IsInjective
<1>7. IsFiniteSet(1 .. n) /\ Cardinality(1 .. n) = n
  <2> HIDE DEF n
  <2>1. 1 \in Int /\ n \in Int /\ (1 > n => n = 0)
    BY <1>2
  <2>2. /\ IsFiniteSet(1 .. n)
        /\ Cardinality(1 .. n) = IF 1 > n THEN 0 ELSE n - 1 + 1
    BY <2>1, FS_Interval
  <2>3. n - 1 + 1 = n
    BY <1>2
  <2> QED BY <2>1, <2>2, <2>3
<1>8. f \in Surjection(1 .. n, S)
  BY <1>1, <1>6, <1>7, FS_Injection
<1>9. ToSet(f) = S
  BY <1>5, <1>8 DEF Surjection, ToSet
<1>10. f \in Seq(S) /\ Len(f) = n
  <2> HIDE DEF n
  <2> QED BY <1>2, <1>5
<1> QED BY <1>5, <1>9, <1>10 DEF f

LEMMA Enumerates ==
  ASSUME NEW S \in SUBSET Threads
  PROVE  /\ SetToSeq(S) \in Seq(Threads) /\ IsInjective(SetToSeq(S))
         /\ ToSet(SetToSeq(S)) = S
<1>1. IsFiniteSet(S)
  BY KernelAssumption, FS_Subset
<1>2. SetToSeq(S) \in Seq(S)
  BY <1>1, ListsSet
<1>3. SetToSeq(S) \in Seq(Threads)
  BY <1>2
<1> QED BY <1>1, <1>3, ListsSet

LEMMA SomebodyFirst ==
  ASSUME NEW S \in SUBSET Threads, S # {}
  PROVE  FirstThread(S) \in S /\ \A u \in S : Priority[FirstThread(S)] <= Priority[u]
<1> DEFINE P == {Priority[t] : t \in S}
<1>1. P \in SUBSET Nat /\ P # {}
  BY KernelAssumption
<1>2. PICK n \in P : \A m \in P : n <= m
  BY <1>1, Least
<1>3. PICK t \in S : \A u \in S : Priority[t] <= Priority[u]
  BY <1>2
<1> QED BY <1>3 DEF FirstThread

LEMMA FirstState ==
  ASSUME IpcInit
  PROVE  IInv
<1> DEFINE S == IF kind \in {"thread", "mutex"} THEN Threads ELSE Threads \ Spare
           list == [p \in Prios |-> SetToSeq({t \in S : Priority[t] = p})]
           group == {Priority[t] : t \in S}
           stat == [t \in Threads |-> IF t \in S THEN "READY" ELSE "INIT"]
<1>1. KernelInit(S)
  BY DEF IpcInit
<1>2. S \in SUBSET Threads /\ Idle \in S
  BY KernelAssumption, IpcAssumption
<1>3. FirstThread(S) \in S
  BY <1>2, SomebodyFirst
<1>4. /\ k = [static |-> {}, current |-> FirstThread(S),
              nest |-> 0, defunct |-> <<>>, timers |-> <<>>,
              stat |-> stat, err |-> [t \in Threads |-> "EOK"],
              prio |-> Priority, slice |-> [t \in Threads |-> Slice],
              group |-> group, ready |-> list, wait |-> [q \in Queues |-> <<>>]]
      /\ call = [t \in Threads |-> NoCall]
  BY <1>1 DEF KernelInit
<1> HIDE DEF S
<1>5. \A p \in Prios : /\ list[p] \in Seq(Threads) /\ IsInjective(list[p])
                       /\ ToSet(list[p]) = {t \in S : Priority[t] = p}
  <2> SUFFICES ASSUME NEW p \in Prios
               PROVE  /\ list[p] \in Seq(Threads) /\ IsInjective(list[p])
                      /\ ToSet(list[p]) = {t \in S : Priority[t] = p}
    OBVIOUS
  <2> DEFINE T == {t \in S : Priority[t] = p}
  <2>1. T \in SUBSET Threads /\ list[p] = SetToSeq(T)
    BY <1>2
  <2> HIDE DEF T, list
  <2>2. list[p] \in Seq(Threads) /\ IsInjective(list[p]) /\ ToSet(list[p]) = T
    BY <2>1, Enumerates
  <2> QED BY <2>2 DEF T
<1>6. list \in [Prios -> Seq(Threads)]
  BY <1>5
<1>7. group \in SUBSET Prios /\ stat \in [Threads -> Stats] /\ Priority \in [Threads -> Prios]
  BY <1>2, KernelAssumption DEF Prios, Stats
<1>8. \A t \in Threads : stat[t] = IF t \in S THEN "READY" ELSE "INIT"
  OBVIOUS
<1>9. \A p \in Prios : p \in group <=> \E t \in S : Priority[t] = p
  OBVIOUS
<1> HIDE DEF list, group, stat
<1>10. k \in KernelData
  <2>1. 0 \in 0 .. MaxNest /\ Slice \in 1 .. Slice
    BY KernelAssumption
  <2>2. [t \in Threads |-> Slice] \in [Threads -> 1 .. Slice]
    BY <2>1
  <2>3. [t \in Threads |-> "EOK"] \in [Threads -> {"EOK", "ERROR", "ETIMEOUT"}]
    OBVIOUS
  <2>4. [q \in Queues |-> <<>>] \in [Queues -> Seq(Threads)]
    OBVIOUS
  <2>5. <<>> \in Seq(Threads) /\ <<>> \in Seq(Running) /\ {} \in SUBSET Threads
    OBVIOUS
  <2>6. FirstThread(S) \in Threads
    BY <1>2, <1>3
  <2> QED BY <1>4, <1>6, <1>7, <2>1, <2>2, <2>3, <2>4, <2>5, <2>6 DEF KernelData
<1>11. /\ k.static = {} /\ k.current \in S /\ k.nest = 0 /\ k.defunct = <<>> /\ k.timers = <<>>
       /\ k.stat = stat /\ k.prio = Priority /\ k.group = group /\ k.ready = list
       /\ \A q \in Queues : k.wait[q] = <<>>
  BY <1>3, <1>4
<1>12. ToSet(<<>>) = {} /\ IsInjective(<<>>) /\ DOMAIN <<>> = {}
  BY DEF ToSet, IsInjective
<1>13. ReadyLinked(k, {})
  BY <1>2, <1>5, <1>8, <1>11 DEF ReadyLinked
<1>14. WaitLinked(k, {}) /\ DeadLinked(k, {})
  BY <1>8, <1>11, <1>12 DEF WaitLinked, DeadLinked
<1>15. TimersLinked(k, 1)
  BY <1>11, <1>12 DEF TimersLinked, InOrder
<1>16. GroupLinked(k)
  <2> SUFFICES ASSUME NEW p \in Prios PROVE p \in group <=> list[p] # <<>>
    BY <1>11 DEF GroupLinked
  <2>1. list[p] = <<>> <=> ToSet(list[p]) = {}
    BY <1>5, Positions
  <2> QED BY <1>5, <1>9, <2>1
<1>17. IdleLinked(k, {})
  BY <1>2, <1>8, <1>11 DEF IdleLinked
<1>18. k \in Good({}, {}, 1)
  BY <1>10, <1>13, <1>14, <1>15, <1>16, <1>17 DEF Good, Linked
<1>19. \A t \in Threads : call[t] = NoCall /\ call[t].at = "run"
  BY <1>4, NoCallShaped
<1>20. BeingDeleted = {} /\ Reaped = {}
  BY <1>19, KernelAssumption DEF BeingDeleted, Deleting, Reaped, Reaping
<1>21. CallsOK
  <2>1. call = [t \in Threads |-> call[t]] /\ \A t \in Threads : Shaped(call[t])
    BY <1>4, NoCallShaped
  <2>2. call = [t \in Threads |-> [at |-> call[t].at, op |-> call[t].op,
                                   left |-> call[t].left, arg |-> call[t].arg]]
    BY <2>1 DEF Shaped
  <2>3. \A t \in Threads : call[t].left \in Times
    BY <2>1 DEF Shaped
  <2> QED BY <1>19, <2>2, <2>3, KernelAssumption DEF CallsOK, Deleting
<1>22. RunsWell(k, call)
  BY <1>2, <1>8, <1>11 DEF RunsWell
<1>23. ObjectsOK
  <2>1. kind \in Kinds /\ event = NewEvent /\ mutex = [m \in Mutexes |-> FreeMutex]
    BY DEF IpcInit
  <2>2. NewEvent \in EventData
    BY DEF NewEvent, EventData, NoWish, Wish
  <2>3. FreeMutex \in MutexData /\ FreeMutex.value = 1 /\ FreeMutex.owner = NULL
    BY DEF FreeMutex, MutexData
  <2>4. \A m \in Mutexes : mutex[m].value = 1 /\ mutex[m].owner = NULL
    BY <2>1, <2>3
  <2>5. mutex \in [Mutexes -> MutexData]
    BY <2>1, <2>3
  <2>6. \A m \in Mutexes : mutex[m].value = 0 <=> mutex[m].owner # NULL
    BY <2>4
  <2> QED BY <2>1, <2>2, <2>4, <2>5, <2>6 DEF ObjectsOK
<1>24. WInv
  <2>1. NoCall.op \in ThreadOps /\ NoCall.at \notin Windows /\ NoCall.at \notin {"copy", "detach"}
    BY DEF NoCall, ThreadOps, Windows
  <2> QED BY <1>19, <2>1 DEF WInv
<1>25. k \in Sane
  BY <1>18, <1>20 DEF Sane
<1> QED BY <1>21, <1>22, <1>23, <1>24, <1>25 DEF IInv, KInv

(***************************************************************************)
(* Every step.                                                             *)
(***************************************************************************)
LEMMA KernelKeeps ==
  ASSUME KInv, WInv, Disciplined, Kernel
  PROVE  KInv' /\ WInv'
<1>0. UNCHANGED kind
  BY DEF Kernel
<1>1. CASE KernelStep
  BY <1>0, <1>1, KernelStepKeeps
<1>2. ASSUME NEW t \in Threads, kind = "thread", ThreadCalls(t)
      PROVE  KInv' /\ WInv'
  BY <1>0, <1>2, ThreadCallKeeps
<1>3. ASSUME NEW t \in Threads, Delete(t)
      PROVE  KInv' /\ WInv'
  BY <1>0, <1>3, DeleteWindows
<1>4. ASSUME NEW t \in Threads, Sleep(t, {1})
      PROVE  KInv' /\ WInv'
  <2>1. {1} \in SUBSET (1 .. MaxWait)
    BY KernelAssumption
  <2> QED BY <1>0, <1>4, <2>1, SleepKeeps, SleepWindows
<1> QED BY <1>1, <1>2, <1>3, <1>4 DEF Kernel

LEMMA CallingKeeps ==
  ASSUME KInv, ObjectsOK, Disciplined, NEW t \in Threads, Calling(t)
  PROVE  KInv' /\ ObjectsOK'
<1>0. KindsOK
  BY DEF ObjectsOK, KindsOK
<1>1. CASE SemTake(t)
  <2>1. KInv' /\ UNCHANGED <<kind, event, mutex>>
    BY <1>0, <1>1, SemKeeps DEF SemTake
  <2> QED BY <2>1, SameObjects
<1>2. CASE Uses(t, "sem") /\ SemRelease(t)
  <2>1. KInv' /\ UNCHANGED <<kind, event, mutex>>
    BY <1>2, BusyInCall, SemReleaseKeeps DEF SemRelease
  <2> QED BY <2>1, SameObjects
<1>3. CASE MutexTake(t) \/ MutexRelease(t)
  BY <1>3, MutexTakeKeeps, MutexReleaseKeeps
<1>4. CASE EventRecv(t)
  BY <1>4, EventRecvKeeps
<1>5. CASE Uses(t, "event") /\ EventSend(t)
  BY <1>5, BusyInCall, EventSendKeeps
<1>6. CASE MbSend(t) \/ MbRecv(t)
  <2>1. KInv' /\ UNCHANGED <<kind, event, mutex>>
    BY <1>0, <1>6, MbKeeps DEF MbSend, MbRecv
  <2> QED BY <2>1, SameObjects
<1>7. CASE MqSend(t) \/ MqRecv(t)
  <2>1. KInv' /\ UNCHANGED <<kind, event, mutex>>
    BY <1>0, <1>7, MqKeeps DEF MqSend, MqRecv
  <2> QED BY <2>1, SameObjects
<1>8. CASE MpAlloc(t)
  <2>1. KInv' /\ UNCHANGED <<kind, event, mutex>>
    BY <1>0, <1>8, MpKeeps DEF MpAlloc
  <2> QED BY <2>1, SameObjects
<1>9. CASE Uses(t, "mp") /\ MpFree(t)
  <2>1. KInv' /\ UNCHANGED <<kind, event, mutex>>
    BY <1>9, BusyInCall, MpFreeKeeps DEF MpFree
  <2> QED BY <2>1, SameObjects
<1>10. CASE Reset(t)
  <2>1. KInv' /\ UNCHANGED <<kind, mutex>>
    BY <1>10, ResetKeeps DEF Reset
  <2>2. event' \in EventData
    <3>1. event' = event \/ event' = [event EXCEPT !.set = {}]
      BY <1>10 DEF Reset, sem_reset, event_reset, mb_reset, mq_reset
    <3>2. event \in EventData
      BY DEF ObjectsOK
    <3> QED BY <3>1, <3>2 DEF EventData
  <2> QED BY <2>1, <2>2, NewEventIsFine
<1>11. CASE Detach(t)
  <2>1. KInv' /\ UNCHANGED <<kind, event, mutex>>
    BY <1>11, DetachKeeps DEF Detach, objects
  <2> QED BY <2>1, SameObjects
<1> QED
  BY <1>1, <1>2, <1>3, <1>4, <1>5, <1>6, <1>7, <1>8, <1>9, <1>10, <1>11 DEF Calling

LEMMA FinishingKeeps ==
  ASSUME KInv, ObjectsOK, NEW t \in Threads, Finishing(t)
  PROVE  KInv' /\ ObjectsOK'
<1>0. KindsOK
  BY DEF ObjectsOK, KindsOK
<1>1. CASE SemTaken(t)
  <2>1. KInv' /\ UNCHANGED <<kind, event, mutex>>
    BY <1>0, <1>1, SemKeeps DEF SemTaken, objects
  <2> QED BY <2>1, SameObjects
<1>2. CASE MutexTaken(t)
  <2>1. KInv' /\ UNCHANGED <<kind, event, mutex>>
    BY <1>2, MutexTakenKeeps DEF MutexTaken, objects
  <2> QED BY <2>1, SameObjects
<1>3. CASE EventReceived(t)
  BY <1>3, EventReceivedKeeps
<1>4. CASE MbGivesUp(t)
  <2>1. KInv' /\ UNCHANGED <<kind, event, mutex>>
    BY <1>0, <1>4, MbKeeps DEF MbGivesUp, objects
  <2> QED BY <2>1, SameObjects
<1>5. CASE MqGivesUp(t) \/ MqLink(t) \/ MqFree(t)
  <2>1. KInv' /\ UNCHANGED <<kind, event, mutex>>
    BY <1>0, <1>5, MqKeeps DEF MqGivesUp, MqLink, MqFree, objects
  <2> QED BY <2>1, SameObjects
<1>6. CASE MpGivesUp(t)
  <2>1. KInv' /\ UNCHANGED <<kind, event, mutex>>
    BY <1>0, <1>6, MpKeeps DEF MpGivesUp, objects
  <2> QED BY <2>1, SameObjects
<1>7. CASE DetachStep(t)
  <2>1. KInv' /\ UNCHANGED <<kind, event, mutex>>
    BY <1>7, DetachKeeps DEF DetachStep
  <2> QED BY <2>1, SameObjects
<1> QED BY <1>1, <1>2, <1>3, <1>4, <1>5, <1>6, <1>7 DEF Finishing

LEMMA NextKeeps ==
  ASSUME IInv, Disciplined, [IpcNext]_ipc_vars
  PROVE  IInv'
<1>1. KInv /\ WInv /\ ObjectsOK /\ CallsOK
  BY DEF IInv, KInv
<1>2. KInv' /\ WInv' /\ ObjectsOK' => IInv'
  BY DEF IInv
<1>3. CASE Kernel
  <2>1. UNCHANGED <<kind, event, mutex>>
    BY <1>3 DEF Kernel, objects
  <2>2. KInv' /\ WInv'
    BY <1>1, <1>3, KernelKeeps
  <2> QED BY <1>1, <1>2, <2>1, <2>2, SameObjects
<1>4. CASE Handler
  <2>1. KInv' /\ ObjectsOK'
    BY <1>1, <1>4, HandlerStepKeeps
  <2>2. WInv'
    <3>1. kind # "thread" /\ UNCHANGED kind /\ Elsewhere(Idle)
      BY <1>4, HandlerElsewhere DEF Elsewhere
    <3> QED BY <1>1, <3>1, KernelAssumption, ObjectWindows
  <2> QED BY <1>2, <2>1, <2>2
<1>5. ASSUME NEW t \in Threads, Calling(t) \/ Finishing(t)
      PROVE  IInv'
  <2>1. KInv' /\ ObjectsOK'
    BY <1>1, <1>5, CallingKeeps, FinishingKeeps
  <2>2. WInv'
    BY <1>1, <1>5, CallingElsewhere, FinishingElsewhere, ObjectWindows
  <2> QED BY <1>2, <2>1, <2>2
<1>6. CASE UNCHANGED ipc_vars
  <2>1. UNCHANGED k /\ UNCHANGED call /\ UNCHANGED <<kind, event, mutex>>
    BY <1>6 DEF ipc_vars, kernel_vars, objects
  <2>2. ObjectsOK'
    BY <1>1, <2>1, SameObjects
  <2>3. KInv'
    <3>1. CallsOK'
      BY <1>1, <2>1 DEF KInv, CallsOK, Deleting, Times, FOREVER
    <3>2. BeingDeleted' = BeingDeleted /\ Reaped' = Reaped
      BY <2>1 DEF BeingDeleted, Deleting, Reaped, Reaping
    <3>3. RunsWell(k, call)'
      BY <1>1, <2>1 DEF KInv, RunsWell
    <3> QED BY <1>1, <2>1, <3>1, <3>2, <3>3 DEF KInv, Sane
  <2>4. WInv'
    <3>1. UNCHANGED <<kind, call>> /\ k'.stat = k.stat /\ k'.wait = k.wait /\ k'.timers = k.timers
      BY <2>1
    <3> QED BY <1>1, <3>1, CalmCalls
  <2> QED BY <1>2, <2>2, <2>3, <2>4
<1> QED BY <1>3, <1>4, <1>5, <1>6 DEF IpcNext

(***************************************************************************)
(* What the invariant says of the lists as they are counted.               *)
(***************************************************************************)
LEMMA Counted ==
  ASSUME NEW s \in Seq(Threads), IsInjective(s), NEW t
  PROVE  Count(s, t) = IF t \in ToSet(s) THEN 1 ELSE 0
<1> DEFINE at == {i \in DOMAIN s : s[i] = t}
<1>1. CASE t \in ToSet(s)
  <2>1. PICK i \in DOMAIN s : s[i] = t
    BY <1>1 DEF ToSet
  <2>2. at = {i}
    BY <2>1 DEF IsInjective
  <2>3. Cardinality({i}) = 1
    BY FS_Singleton
  <2> QED BY <1>1, <2>2, <2>3 DEF Count
<1>2. CASE t \notin ToSet(s)
  <2>1. at = {}
    BY <1>2 DEF ToSet
  <2>2. Cardinality({}) = 0
    BY FS_EmptySet
  <2> QED BY <1>2, <2>1, <2>2 DEF Count
<1> QED BY <1>1, <1>2

LEMMA OneListHolds == IInv => OneList
<1> SUFFICES ASSUME IInv, NEW t \in Threads
             PROVE  LET deleted == t \in BeingDeleted IN
               /\ OnReady(t) = IF k.stat[t] = "READY" /\ ~deleted THEN {k.prio[t]} ELSE {}
               /\ Cardinality(OnWait(t)) <= IF k.stat[t] = "SUSPEND" /\ ~deleted THEN 1 ELSE 0
               /\ \A p \in Prios : Count(k.ready[p], t) <= 1
               /\ \A q \in Queues : Count(k.wait[q], t) <= 1
               /\ Count(k.defunct, t) = IF k.stat[t] = "CLOSE" /\ ~Reaping(t) /\ t \notin k.static
                                        THEN 1 ELSE 0
  BY DEF OneList
<1>1. k \in KernelData /\ Linked(k, BeingDeleted, Reaped, 1)
  BY SaneData DEF IInv, KInv
<1>2. /\ k.ready \in [Prios -> Seq(Threads)] /\ k.wait \in [Queues -> Seq(Threads)]
      /\ k.defunct \in Seq(Threads) /\ k.prio[t] \in Prios
  BY <1>1, Typed
<1>3. /\ ReadyLinked(k, BeingDeleted) /\ WaitLinked(k, BeingDeleted) /\ DeadLinked(k, Reaped)
  BY <1>1 DEF Linked
<1>4. \A p \in Prios : Count(k.ready[p], t) = IF t \in ToSet(k.ready[p]) THEN 1 ELSE 0
  BY <1>2, <1>3, Counted DEF ReadyLinked
<1>5. \A q \in Queues : Count(k.wait[q], t) = IF t \in ToSet(k.wait[q]) THEN 1 ELSE 0
  BY <1>2, <1>3, Counted DEF WaitLinked
<1>6. Count(k.defunct, t) = IF t \in ToSet(k.defunct) THEN 1 ELSE 0
  BY <1>2, <1>3, Counted DEF DeadLinked
<1>7. OnReady(t) = {p \in Prios : t \in ToSet(k.ready[p])}
  BY <1>4 DEF OnReady
<1>8. OnReady(t) = IF k.stat[t] = "READY" /\ t \notin BeingDeleted THEN {k.prio[t]} ELSE {}
  BY <1>2, <1>3, <1>7 DEF ReadyLinked
<1>9. OnWait(t) = {q \in Queues : t \in ToSet(k.wait[q])}
  BY <1>5 DEF OnWait
<1>10. Cardinality(OnWait(t)) <= IF k.stat[t] = "SUSPEND" /\ t \notin BeingDeleted THEN 1 ELSE 0
  <2>1. CASE OnWait(t) = {}
    <3>1. Cardinality(OnWait(t)) = 0
      BY <2>1, FS_EmptySet
    <3> QED BY <3>1
  <2>2. CASE OnWait(t) # {}
    <3>1. PICK q \in Queues : t \in ToSet(k.wait[q])
      BY <1>9, <2>2
    <3>2. OnWait(t) = {q} /\ k.stat[t] = "SUSPEND" /\ t \notin BeingDeleted
      BY <1>3, <1>9, <3>1 DEF WaitLinked
    <3>3. Cardinality(OnWait(t)) = 1
      BY <3>2, FS_Singleton
    <3> QED BY <3>2, <3>3
  <2> QED BY <2>1, <2>2
<1>11. /\ \A p \in Prios : Count(k.ready[p], t) <= 1
       /\ \A q \in Queues : Count(k.wait[q], t) <= 1
  BY <1>4, <1>5
<1>12. Count(k.defunct, t) = IF k.stat[t] = "CLOSE" /\ ~Reaping(t) /\ t \notin k.static
                             THEN 1 ELSE 0
  BY <1>3, <1>6 DEF DeadLinked, Reaped
<1> QED BY <1>8, <1>10, <1>11, <1>12

LEMMA SoundHolds == IInv => ThreadsSound
<1> SUFFICES ASSUME IInv PROVE ThreadsSound
  OBVIOUS
<1>1. k \in KernelData /\ Linked(k, BeingDeleted, Reaped, 1)
  BY SaneData DEF IInv, KInv
<1>2. /\ k.current \in Threads /\ k.nest \in 0 .. MaxNest /\ k.timers \in Seq(Running)
      /\ k.stat \in [Threads -> Stats] /\ k.err \in [Threads -> {"EOK", "ERROR", "ETIMEOUT"}]
      /\ k.prio \in [Threads -> Prios] /\ k.slice \in [Threads -> 1 .. Slice]
      /\ k.group \in SUBSET Prios /\ k.ready \in [Prios -> Seq(Threads)]
  BY <1>1, Typed
<1>3. TimersLinked(k, 1) /\ GroupLinked(k)
  BY <1>1 DEF Linked
<1>4. \A i \in DOMAIN k.timers : k.timers[i].thread \in Threads
  <2>1. \A i \in DOMAIN k.timers : k.timers[i] \in Running
    BY <1>2
  <2>2. \A y \in Running : y.thread \in Threads
    BY DEF Running
  <2> QED BY <2>1, <2>2
<1>5. KTypeOK
  <2>1. \A t \in Threads : call[t].left \in Times
    BY DEF IInv, KInv, CallsOK
  <2>2. \A i \in DOMAIN k.timers : k.timers[i].left \in 1 .. MaxWait
    BY <1>3 DEF TimersLinked
  <2> QED BY <1>2, <1>4, <2>1, <2>2 DEF KTypeOK, Stats
<1>6. GroupMatches
  BY <1>2, <1>3 DEF GroupLinked, GroupMatches
<1>7. TimersWait
  BY <1>3 DEF TimersLinked, InOrder, TimersWait
<1>8. RunsAlive
  BY <1>2 DEF IInv, KInv, RunsWell, RunsAlive
<1> QED BY <1>5, <1>6, <1>7, <1>8, OneListHolds DEF ThreadsSound

(***************************************************************************)
(* Any number of threads of any priorities, on any objects, where the      *)
(* tick, a handler or a more urgent thread may come between the sections   *)
(* of every call: as long as no two threads handle one thread, no timeout  *)
(* of a thread runs out while it is off its list and another handles it    *)
(* (Careful), and what lies behind a pool does not read as a suspended     *)
(* thread (~Behind), every thread is on the one list its status says       *)
(* (scheduler.c, thread.c, ipc.c), the bitmap names the priorities with a  *)
(* ready thread, a timer belongs to one suspended thread, and the          *)
(* processor executes no thread that is gone.                              *)
(***************************************************************************)
THEOREM KernelIsSound ==
  ASSUME Disciplined
  PROVE  IpcSpec => []ThreadsSound
<1>1. IpcInit => IInv
  BY FirstState
<1>2. IInv /\ [IpcNext]_ipc_vars => IInv'
  BY NextKeeps
<1>3. IInv => ThreadsSound
  BY SoundHolds
<1> QED BY <1>1, <1>2, <1>3, PTL DEF IpcSpec

(***************************************************************************)
(* Who runs.  As long as an object other than a mutex is in use, the       *)
(* scheduler is not locked, and the processor executes a most urgent ready *)
(* thread, or one that is about to give way: it comes to its rt_schedule,  *)
(* or resumes the waiters of an object it takes away.                      *)
(***************************************************************************)
InService == kind \in {"sem", "event", "mb", "mq", "mp"} /\ alive
Leaving == {"resched", "suspending", "detach"}
Urgent(kk, c) == kk.nest = 0 /\ (c[kk.current].at \in Leaving \/ Top(kk))
HInv == InService => Urgent(k, call)

LEMMA UrgentStays ==
  ASSUME KInv, Urgent(k, call), Settled(k, k'), \A t \in Threads : call'[t].at = call[t].at
  PROVE  Urgent(k, call)'
<1>1. k.current \in Threads
  BY SaneData DEF KInv
<1> QED BY <1>1 DEF Urgent, Settled, Top

LEMMA UrgentReturns ==
  ASSUME Urgent(k, call), call[k.current].at \notin Leaving, Settled(k, k')
  PROVE  Urgent(k, call)'
<1>1. k.nest = 0 /\ Top(k)
  BY DEF Urgent
<1>2. Top(k') /\ k'.nest = 0
  BY <1>1, SettledTop DEF Settled
<1>3. Top(k)'
  BY <1>2 DEF Top
<1> QED BY <1>2, <1>3 DEF Urgent

LEMMA UrgentUnmoved ==
  ASSUME Urgent(k, call), UNCHANGED kernel_vars
  PROVE  Urgent(k, call)'
BY DEF Urgent, Top, kernel_vars

LEMMA UrgentLeaves ==
  ASSUME KInv, Urgent(k, call), NEW t \in Threads, t = k.current, k'.nest = k.nest,
         k'.current = k.current, NEW c, Goes(t, c), c.at \in Leaving
  PROVE  Urgent(k, call)'
<1>1. call' = [u \in Threads |-> IF u = t THEN c ELSE call[u]]
  BY DEF KInv, CallsOK, Goes
<1>2. call'[k'.current].at \in Leaving
  BY <1>1
<1> QED BY <1>2 DEF Urgent

LEMMA UrgentScheduled ==
  ASSUME NEW gone, NEW reaped, NEW up \in Good(gone, reaped, 1), up.nest = 0, k' = rt_schedule(up)
  PROVE  Urgent(k, call)'
<1>1. Top(k') /\ k'.nest = 0
  BY Schedules DEF OnlyWakes
<1>2. Top(k)'
  BY <1>1 DEF Top
<1> QED BY <1>1, <1>2 DEF Urgent

(* A thread in a call, neither leaving nor asleep.                          *)
Awake(t) == InCall(t) /\ call[t].at \notin Leaving
LEMMA AwakeFacts ==
  ASSUME KInv, NEW t \in Threads, NEW x, NEW op
  PROVE  /\ Uses(t, x) => Awake(t)
         /\ Woken(t, op) => Awake(t)
         /\ Runs(t) /\ call[t].at = "copy" => Awake(t)
<1>1. Uses(t, x) => Awake(t)
  BY BusyInCall DEF Awake, Uses, Calls, Leaving
<1>2. Woken(t, op) => Awake(t)
  BY BusyInCall DEF Awake, Woken, Leaving
<1>3. Runs(t) /\ call[t].at = "copy" => Awake(t)
  BY CopyingInCall DEF Awake, Leaving
<1> QED BY <1>1, <1>2, <1>3

LEMMA AwakeTries ==
  ASSUME KInv, NEW t \in Threads, NEW x, NEW op, NEW arg, NEW time, Tries(t, x, op, arg, time)
  PROVE  Awake(t)
BY AwakeFacts DEF Tries

LEMMA UrgentSame ==
  ASSUME Urgent(k, call), NEW t, Awake(t), UNCHANGED k
  PROVE  Urgent(k, call)'
BY UrgentReturns DEF Awake, InCall, Settled

LEMMA UrgentMarked ==
  ASSUME Urgent(k, call), NEW t, Awake(t), NEW e \in {"EOK", "ERROR", "ETIMEOUT"},
         k' = [k EXCEPT !.err[t] = e]
  PROVE  Urgent(k, call)'
<1>1. k \in KernelData /\ t = k.current /\ call[t].at \notin Leaving
  BY DEF Awake, InCall
<1>2. k'.nest = k.nest /\ k'.current = k.current /\ k'.group = k.group /\ k'.prio = k.prio
  BY <1>1 DEF KernelData
<1> QED BY <1>1, <1>2, UrgentReturns DEF Settled

LEMMA UrgentRaises ==
  ASSUME KInv, Urgent(k, call), NEW t, Awake(t), k'.nest = k.nest, k'.current = k.current,
         Reschedules(t)
  PROVE  Urgent(k, call)'
<1> DEFINE c == [NoCall EXCEPT !.at = "resched"]
<1>1. Goes(t, c) /\ c.at \in Leaving
  BY NoCallShaped DEF Reschedules, Leaving
<1>2. t \in Threads /\ t = k.current
  BY DEF Awake, InCall
<1> HIDE DEF c
<1> QED BY <1>1, <1>2, UrgentLeaves

LEMMA UrgentBlocks ==
  ASSUME KInv, Urgent(k, call), NEW t, Awake(t), WaitsOn(k, k', t), NEW op,
         NEW time \in Times, NEW arg, Goes(t, Blocked(op, time, arg))
  PROVE  Urgent(k, call)'
<1> DEFINE c == Blocked(op, time, arg)
<1>1. Goes(t, c) /\ c.at \in Leaving
  BY BlockedShaped DEF Leaving
<1>2. t \in Threads /\ t = k.current
  BY DEF Awake, InCall
<1> HIDE DEF c
<1> QED BY <1>1, <1>2, UrgentLeaves DEF WaitsOn

LEMMA UrgentListed ==
  ASSUME KInv, Urgent(k, call), NEW t, Awake(t), NEW q \in Queues, NEW time \in Times \ {0},
         NEW op, NEW arg, k' = rt_ipc_list_suspend(k, t, q, time), Goes(t, Blocked(op, time, arg))
  PROVE  Urgent(k, call)'
<1>1. t \in Threads \ {Idle} /\ k.stat[t] = "READY" /\ t \notin BeingDeleted
      /\ k \in Good(BeingDeleted, Reaped, 1)
  BY SaneData DEF Awake, InCall
<1>2. WaitsOn(k, k', t)
  BY <1>1, ListSuspends
<1> QED BY <1>2, UrgentBlocks

(* What wakes others gives way: at once in a handler, at the end of the     *)
(* call in a thread.                                                        *)
LEMMA UrgentAnswers ==
  ASSUME KInv, Urgent(k, call), NEW by, Awake(by) \/ by = NULL,
         NEW up \in Good(BeingDeleted, Reaped, 1), OnlyWakes(k, up), up.current = k.current,
         \/ by = NULL /\ k' = rt_schedule(up)
         \/ by # NULL /\ k' = up /\ Reschedules(by)
  PROVE  Urgent(k, call)'
<1>1. CASE by = NULL
  <2>1. up.nest = 0
    BY DEF Urgent, OnlyWakes
  <2> QED BY <1>1, <2>1, UrgentScheduled
<1>2. CASE by # NULL
  BY <1>2, UrgentRaises DEF OnlyWakes
<1> QED BY <1>1, <1>2

LEMMA UrgentWakes ==
  ASSUME KInv, Urgent(k, call), NEW by, Awake(by) \/ by = NULL,
         NEW q \in Queues, Wakes(by, q)
  PROVE  Urgent(k, call)'
<1>1. k \in Good(BeingDeleted, Reaped, 1)
  BY SaneData DEF KInv
<1>2. CASE ~wakes_when(q)
  <2>1. CASE by = NULL
    BY <1>2, <2>1, UrgentUnmoved DEF Wakes
  <2>2. CASE by # NULL
    <3>1. Awake(by) /\ UNCHANGED k
      BY <1>2, <2>2 DEF Wakes
    <3> QED BY <3>1, UrgentSame
  <2> QED BY <2>1, <2>2
<1>3. CASE wakes_when(q)
  <2> DEFINE up == rt_ipc_list_resume(k, q)
  <2>1. up \in Good(BeingDeleted, Reaped, 1) /\ OnlyWakes(k, up) /\ up.current = k.current
    BY <1>1, <1>3, ListResumes DEF wakes_when
  <2>2. \/ by = NULL /\ k' = rt_schedule(up)
        \/ by # NULL /\ k' = up /\ Reschedules(by)
    BY <1>3 DEF Wakes
  <2> HIDE DEF up
  <2> QED BY <2>1, <2>2, UrgentAnswers
<1> QED BY <1>2, <1>3

LEMMA UrgentReleases ==
  ASSUME KInv, Urgent(k, call), NEW by, Awake(by) \/ by = NULL, SemRelease(by)
  PROVE  Urgent(k, call)'
<1>1. k \in Good(BeingDeleted, Reaped, 1)
  BY SaneData DEF KInv
<1>2. CASE ~sem_waiting
  BY <1>2, UrgentUnmoved DEF SemRelease
<1>3. CASE sem_waiting
  <2> DEFINE up == rt_ipc_list_resume(k, "recv")
  <2>1. up \in Good(BeingDeleted, Reaped, 1) /\ OnlyWakes(k, up) /\ up.current = k.current
    BY <1>1, <1>3, ObjectFacts, ListResumes DEF sem_waiting
  <2>2. \/ by = NULL /\ k' = rt_schedule(up)
        \/ by # NULL /\ k' = up /\ Reschedules(by)
    BY <1>3 DEF SemRelease
  <2> HIDE DEF up
  <2> QED BY <2>1, <2>2, UrgentAnswers
<1> QED BY <1>2, <1>3

LEMMA UrgentSends ==
  ASSUME KInv, ObjectsOK, Urgent(k, call), NEW by, Awake(by) \/ by = NULL,
         EventSend(by)
  PROVE  Urgent(k, call)'
<1>1. k \in Good(BeingDeleted, Reaped, 1)
  BY SaneData DEF KInv
<1>2. PICK set \in SUBSET Bits \ {{}} :
        LET s == served(set) IN
        \/ UNCHANGED kernel_vars
        \/ by = NULL /\ k' = rt_schedule(s.k)
        \/ by # NULL /\ k' = s.k /\ Reschedules(by)
  BY DEF EventSend
<1> DEFINE s == served(set)
           up == s.k
<1>3. up \in Good(BeingDeleted, Reaped, 1) /\ OnlyWakes(k, up) /\ up.current = k.current
  <2>1. event \in EventData /\ set \in SUBSET Bits /\ "recv" \in Queues
    BY ObjectFacts DEF ObjectsOK
  <2> QED BY <1>1, <2>1, Serves
<1>4. \/ UNCHANGED kernel_vars
      \/ by = NULL /\ k' = rt_schedule(up)
      \/ by # NULL /\ k' = up /\ Reschedules(by)
  BY <1>2
<1> HIDE DEF s, up
<1>5. CASE UNCHANGED kernel_vars
  BY <1>5, UrgentUnmoved
<1>6. CASE ~UNCHANGED kernel_vars
  BY <1>3, <1>4, <1>6, UrgentAnswers
<1> QED BY <1>5, <1>6

LEMMA UrgentFrees ==
  ASSUME KInv, Disciplined, Urgent(k, call), NEW by, Awake(by) \/ by = NULL, MpFree(by)
  PROVE  Urgent(k, call)'
<1>1. \/ UNCHANGED kernel_vars \/ Wakes(by, "recv")
      \/ by = NULL /\ k' = rt_schedule(k)
      \/ by # NULL /\ k' = k /\ Reschedules(by)
  <2>1. head_resumed = {k}
    BY DEF head_resumed, Disciplined
  <2> QED BY <2>1 DEF MpFree
<1>2. CASE UNCHANGED kernel_vars
  BY <1>2, UrgentUnmoved
<1>3. CASE Wakes(by, "recv")
  BY <1>3, ObjectFacts, UrgentWakes
<1>4. CASE \/ by = NULL /\ k' = rt_schedule(k)
           \/ by # NULL /\ k' = k /\ Reschedules(by)
  <2>1. k \in Good(BeingDeleted, Reaped, 1) /\ OnlyWakes(k, k)
    BY SaneData DEF KInv, OnlyWakes
  <2> QED BY <1>4, <2>1, UrgentAnswers
<1> QED BY <1>1, <1>2, <1>3, <1>4

(* The kernel's own steps.  A deletion changes no priority and makes nobody *)
(* ready; the idle thread gives way when it reaps.                          *)
LEMMA UrgentTick ==
  ASSUME KInv, Disciplined, Urgent(k, call), Tick
  PROVE  Urgent(k, call)'
<1>2. Settled(k, k')
  BY TickSpares
<1>3. ASSUME NEW t \in Threads PROVE call'[t].at = call[t].at
  <2> DEFINE c == call[t]
  <2>1. c = [at |-> c.at, op |-> c.op, left |-> c.left, arg |-> c.arg]
    BY DEF KInv, CallsOK
  <2>2. call'[t] = elapsed(c)
    BY DEF Tick
  <2> HIDE DEF c
  <2>3. elapsed(c).at = c.at
    BY <2>1 DEF elapsed
  <2> QED BY <2>2, <2>3 DEF c
<1> QED BY <1>2, <1>3, UrgentStays

LEMMA UrgentReaps ==
  ASSUME KInv, Urgent(k, call), Reap \/ ReapFree
  PROVE  Urgent(k, call)'
<1>0. Idle \in Threads /\ Runs(Idle) /\ call[Idle].at \in {"run", "reap"}
  BY KernelAssumption DEF Reap, ReapFree
<1>1. /\ k \in Good(BeingDeleted, Reaped, 1) /\ k \in KernelData /\ Idle = k.current
      /\ call[k.current].at \notin Leaving
  BY <1>0, Active, SaneData DEF Leaving
<1>2. CASE Reap
  <2> DEFINE z == [k EXCEPT !.defunct = Tail(k.defunct)]
             u == Head(k.defunct)
  <2>1. Reaped = {}
    BY <1>2 DEF Reap, Reaped, Reaping
  <2>2. k.defunct # <<>> /\ k' = rt_schedule(z)
    BY <1>2 DEF Reap
  <2>3. z \in Good(BeingDeleted, {u}, 1) /\ z.nest = k.nest
    BY <1>1, <2>1, <2>2, Reaps
  <2> HIDE DEF z, u
  <2>4. z.nest = 0
    BY <2>3 DEF Urgent
  <2> QED BY <2>2, <2>3, <2>4, UrgentScheduled
<1>3. CASE ReapFree
  <2> DEFINE u == call[Idle].arg
  <2>1. call[Idle].at = "reap" /\ k' = [k EXCEPT !.stat[u] = "GONE"]
    BY <1>3 DEF ReapFree
  <2> HIDE DEF u
  <2>3. /\ k'.nest = k.nest /\ k'.current = k.current /\ k'.prio = k.prio
        /\ k'.group = k.group
    BY <1>1, <2>1 DEF KernelData
  <2>5. Settled(k, k')
    BY <2>3 DEF Settled
  <2> QED BY <1>1, <2>5, UrgentReturns
<1> QED BY <1>2, <1>3

LEMMA UrgentSwitches ==
  ASSUME KInv, Urgent(k, call), NEW t \in Threads, Resched(t) \/ SwitchAway(t)
  PROVE  Urgent(k, call)'
<1>1. t = k.current /\ call[t].at \in {"resched", "suspending"} /\ k' = rt_schedule(k)
  BY DEF Resched, SwitchAway, Runs
<1>3. k \in Good(BeingDeleted, Reaped, 1) /\ k.nest = 0
  BY SaneData DEF KInv, Urgent
<1> QED BY <1>1, <1>3, UrgentScheduled

LEMMA UrgentWoken ==
  ASSUME KInv, Urgent(k, call), NEW t \in Threads, SleepDone(t) \/ SuspendDone(t)
  PROVE  Urgent(k, call)'
<1>1. Runs(t) /\ call[t].at = "woken"
  BY DEF SleepDone, SuspendDone
<1>2. Awake(t)
  BY <1>1, AwakeFacts DEF Woken
<1>3. CASE SuspendDone(t)
  BY <1>2, <1>3, UrgentSame DEF SuspendDone
<1>4. CASE SleepDone(t)
  <2> DEFINE e == IF k.err[t] = "ETIMEOUT" THEN "EOK" ELSE k.err[t]
  <2>1. e \in {"EOK", "ERROR", "ETIMEOUT"}
    BY <1>2, Typed DEF Awake, InCall
  <2>2. k' = [k EXCEPT !.err[t] = e]
    BY <1>4 DEF SleepDone
  <2> HIDE DEF e
  <2> QED BY <1>2, <2>1, <2>2, UrgentMarked
<1> QED BY <1>3, <1>4

LEMMA UrgentDeletes ==
  ASSUME KInv, Urgent(k, call), NEW t \in Threads, Delete(t) \/ DeleteDone(t)
  PROVE  Urgent(k, call)'
<1>1. t = k.current /\ call[t].at \notin Leaving
  BY DEF Delete, DeleteDone, Calls, Deleting, Runs, Leaving
<1>0. k \in KernelData
  BY SaneData DEF KInv
<1>2. CASE Delete(t)
  <2>1. PICK u \in Mortal \ {t} : k' = IF k.stat[u] = "INIT" THEN k ELSE rt_schedule_remove_thread(k, u)
    BY <1>2 DEF Delete
  <2>2. /\ k'.nest = k.nest /\ k'.current = k.current /\ k'.prio = k.prio
        /\ k'.group \subseteq k.group
    BY <1>0, <2>1 DEF rt_schedule_remove_thread, list_remove, KernelData
  <2> QED BY <1>1, <2>2, UrgentReturns DEF Settled
<1>3. CASE DeleteDone(t)
  <2> DEFINE u == call[t].arg
  <2>1. k' = buried(closed(k, u), u)
    BY <1>3 DEF DeleteDone
  <2> HIDE DEF u
  <2>2. k'.nest = k.nest /\ k'.current = k.current /\ k'.prio = k.prio /\ k'.group = k.group
    BY <1>0, <2>1 DEF buried, closed, rt_timer_stop, KernelData
  <2> QED BY <1>1, <2>2, UrgentReturns DEF Settled
<1> QED BY <1>2, <1>3

LEMMA UrgentKernel ==
  ASSUME KInv, WInv, Disciplined, Urgent(k, call), InService, Kernel
  PROVE  Urgent(k, call)'
<1>1. KernelStep \/ \E t \in Threads : Delete(t)
  BY DEF Kernel, InService
<1>2. \A t \in Threads : ~(SuspendNow(t) \/ ResumeTake(t) \/ ResumeInsert(t) \/ StartupResume(t))
  <2>1. \A t \in Threads : call[t].at \notin Windows
    BY DEF WInv, Handles, InService
  <2> QED BY <2>1 DEF SuspendNow, ResumeTake, ResumeInsert, StartupResume, Windows
<1> QED
  BY <1>1, <1>2, UrgentTick, UrgentReaps, UrgentSwitches, UrgentWoken, UrgentDeletes DEF KernelStep

(* The calls about objects.                                                 *)
LEMMA UrgentHandler ==
  ASSUME KInv, ObjectsOK, Disciplined, Urgent(k, call), Handler
  PROVE  Urgent(k, call)'
<1>2. \/ SemRelease(NULL) \/ EventSend(NULL) \/ Wakes(NULL, "recv") \/ MpFree(NULL)
  BY DEF Handler, MqSendIsr
<1> QED
  BY <1>2, ObjectFacts, UrgentReleases, UrgentSends, UrgentWakes, UrgentFrees

LEMMA UrgentReceives ==
  ASSUME KInv, KindsOK, Urgent(k, call), NEW t \in Threads, SemTake(t) \/ EventRecv(t)
  PROVE  Urgent(k, call)'
<1>1. CASE SemTake(t)
  <2>1. Awake(t)
    BY <1>1, AwakeFacts DEF SemTake
  <2>2. CASE UNCHANGED kernel_vars
    BY <2>2, UrgentUnmoved
  <2>3. CASE ~UNCHANGED kernel_vars
    <3>1. PICK time \in Waits[kind] \ {0} :
            /\ k' = rt_ipc_list_suspend(k, t, "recv", time)
            /\ Goes(t, Blocked("sem", time, NULL))
      BY <1>1, <2>3 DEF SemTake
    <3> QED BY <2>1, <3>1, ObjectFacts, UrgentListed
  <2> QED BY <2>2, <2>3
<1>2. CASE EventRecv(t)
  <2>1. PICK time \in Waits[kind] :
          /\ Uses(t, "event")
          /\ \/ k' = [k EXCEPT !.err[t] = "EOK"]
             \/ k' = [k EXCEPT !.err[t] = "ETIMEOUT"]
             \/ /\ time # 0
                /\ k' = rt_ipc_list_suspend(k, t, "recv", time)
                /\ Goes(t, Blocked("event", time, NULL))
    BY <1>2 DEF EventRecv, Fails
  <2>2. Awake(t)
    BY <2>1, AwakeFacts
  <2>3. CASE k' = [k EXCEPT !.err[t] = "EOK"] \/ k' = [k EXCEPT !.err[t] = "ETIMEOUT"]
    BY <2>2, <2>3, UrgentMarked
  <2>4. CASE /\ time # 0 /\ k' = rt_ipc_list_suspend(k, t, "recv", time)
             /\ Goes(t, Blocked("event", time, NULL))
    <3>1. time \in Times \ {0} /\ "recv" \in Queues
      BY <2>4, ObjectFacts
    <3> QED BY <2>2, <2>4, <3>1, UrgentListed
  <2> QED BY <2>1, <2>3, <2>4
<1> QED BY <1>1, <1>2

LEMMA UrgentTransfers ==
  ASSUME KInv, KindsOK, Urgent(k, call), NEW t \in Threads, NEW op, NEW v, NEW q \in Queues,
         NEW p \in Queues, NEW time \in Waits[kind], Tries(t, "mb", op, v, time),
         \/ Wakes(t, q)
         \/ UNCHANGED k
         \/ /\ time # 0 /\ k' = rt_ipc_list_suspend(k, t, p, time)
            /\ Goes(t, Blocked(op, time, v))
  PROVE  Urgent(k, call)'
<1>1. Awake(t)
  BY AwakeTries
<1>2. CASE Wakes(t, q)
  BY <1>1, <1>2, UrgentWakes
<1>3. CASE UNCHANGED k
  BY <1>1, <1>3, UrgentSame
<1>4. CASE /\ time # 0 /\ k' = rt_ipc_list_suspend(k, t, p, time)
           /\ Goes(t, Blocked(op, time, v))
  <2>1. time \in Times \ {0}
    BY <1>4, ObjectFacts
  <2> QED BY <1>1, <1>4, <2>1, UrgentListed
<1> QED BY <1>2, <1>3, <1>4

LEMMA UrgentMails ==
  ASSUME KInv, KindsOK, Urgent(k, call), NEW t \in Threads, MbSend(t) \/ MbRecv(t)
  PROVE  Urgent(k, call)'
<1>1. CASE MbSend(t)
  <2>1. PICK v \in Values, time \in Waits[kind] :
          /\ Tries(t, "mb", "mb_send", v, time)
          /\ \/ Wakes(t, "recv")
             \/ UNCHANGED k
             \/ /\ time # 0 /\ k' = rt_ipc_list_suspend(k, t, "send", time)
                /\ Goes(t, Blocked("mb_send", time, v))
    BY <1>1 DEF MbSend
  <2> QED BY <2>1, ObjectFacts, UrgentTransfers
<1>2. CASE MbRecv(t)
  <2>1. PICK time \in Waits[kind] :
          /\ Tries(t, "mb", "mb_recv", NULL, time)
          /\ \/ Wakes(t, "send")
             \/ UNCHANGED k
             \/ /\ time # 0 /\ k' = rt_ipc_list_suspend(k, t, "recv", time)
                /\ Goes(t, Blocked("mb_recv", time, NULL))
    BY <1>2 DEF MbRecv
  <2> QED BY <2>1, ObjectFacts, UrgentTransfers
<1> QED BY <1>1, <1>2

LEMMA UrgentQueues ==
  ASSUME KInv, KindsOK, Urgent(k, call), NEW t \in Threads,
         MqSend(t) \/ MqRecv(t) \/ MqLink(t) \/ MqFree(t)
  PROVE  Urgent(k, call)'
<1>1. CASE MqSend(t)
  <2>1. Uses(t, "mq") /\ UNCHANGED k
    BY <1>1 DEF MqSend
  <2> QED BY <2>1, AwakeFacts, UrgentSame
<1>2. CASE MqRecv(t)
  <2>1. PICK time \in Waits[kind] :
          /\ Tries(t, "mq", "mq_recv", NULL, time)
          /\ \/ UNCHANGED k
             \/ /\ time # 0 /\ k' = rt_ipc_list_suspend(k, t, "recv", time)
                /\ Goes(t, Blocked("mq_recv", time, NULL))
    BY <1>2 DEF MqRecv
  <2>2. Awake(t)
    BY <2>1, AwakeTries
  <2>3. CASE UNCHANGED k
    BY <2>2, <2>3, UrgentSame
  <2>4. CASE /\ time # 0 /\ k' = rt_ipc_list_suspend(k, t, "recv", time)
             /\ Goes(t, Blocked("mq_recv", time, NULL))
    <3>1. time \in Times \ {0} /\ "recv" \in Queues
      BY <2>4, ObjectFacts
    <3> QED BY <2>2, <2>4, <3>1, UrgentListed
  <2> QED BY <2>1, <2>3, <2>4
<1>3. CASE MqLink(t)
  <2>1. Awake(t) /\ Wakes(t, "recv")
    BY <1>3, AwakeFacts DEF MqLink
  <2> QED BY <2>1, ObjectFacts, UrgentWakes
<1>4. CASE MqFree(t)
  <2>1. Awake(t) /\ UNCHANGED k
    BY <1>4, AwakeFacts DEF MqFree
  <2> QED BY <2>1, UrgentSame
<1> QED BY <1>1, <1>2, <1>3, <1>4

LEMMA UrgentAllocates ==
  ASSUME KInv, KindsOK, Urgent(k, call), NEW t \in Threads, MpAlloc(t)
  PROVE  Urgent(k, call)'
<1>1. PICK time \in Waits[kind] :
        /\ Tries(t, "mp", "mp", NULL, time)
        /\ \/ UNCHANGED k
           \/ time # 0 /\ k' = mp_waits(k, t, time) /\ Goes(t, Blocked("mp", time, NULL))
  BY DEF MpAlloc
<1>2. Awake(t)
  BY <1>1, AwakeTries
<1>3. CASE UNCHANGED k
  BY <1>2, <1>3, UrgentSame
<1>4. CASE time # 0 /\ k' = mp_waits(k, t, time) /\ Goes(t, Blocked("mp", time, NULL))
  <2>1. time \in Times \ {0} /\ "recv" \in Queues
    BY <1>4, ObjectFacts
  <2>2. WaitsOn(k, k', t)
    BY <1>2, <1>4, <2>1, SaneData, PoolSuspends DEF Awake, InCall
  <2> QED BY <1>2, <1>4, <2>1, <2>2, UrgentBlocks
<1> QED BY <1>1, <1>3, <1>4

LEMMA UrgentResets ==
  ASSUME KInv, Urgent(k, call), NEW t \in Threads, Reset(t)
  PROVE  Urgent(k, call)'
<1> DEFINE one == rt_ipc_list_resume_all(k, "recv")
<1>1. /\ Uses(t, kind) /\ Reschedules(t) /\ k' = rt_ipc_list_resume_all(one, "send")
  BY DEF Reset
<1>2. Awake(t) /\ k \in Good(BeingDeleted, Reaped, 1)
  BY <1>1, AwakeFacts, SaneData DEF KInv
<1>3. one \in Good(BeingDeleted, Reaped, 1) /\ one.nest = k.nest /\ one.current = k.current
  BY <1>2, ObjectFacts, ResumesAll DEF OnlyWakes
<1> HIDE DEF one
<1>4. k'.nest = one.nest /\ k'.current = one.current
  BY <1>1, <1>3, ObjectFacts, ResumesAll DEF OnlyWakes
<1> QED BY <1>1, <1>2, <1>3, <1>4, UrgentRaises

(* A thread that takes an object away does not give way to those it         *)
(* resumes; when it is done the object is out of service.                   *)
LEMMA UrgentDetaches ==
  ASSUME KInv, Urgent(k, call), NEW t \in Threads, Detach(t) \/ DetachStep(t), alive'
  PROVE  Urgent(k, call)'
<1>1. CASE Detach(t)
  <2> DEFINE c == [NoCall EXCEPT !.at = "detach"]
  <2>1. Uses(t, kind) /\ UNCHANGED k /\ Goes(t, c) /\ c.at \in Leaving
    BY <1>1, NoCallShaped DEF Detach, Leaving
  <2> HIDE DEF c
  <2>2. t = k.current
    BY <2>1 DEF Uses, Calls, Runs
  <2> QED BY <2>1, <2>2, UrgentLeaves
<1>2. CASE DetachStep(t)
  <2>1. waiting # {}
    BY <1>2 DEF DetachStep
  <2>2. PICK q \in waiting : k' = resumed_bad(k, Head(k.wait[q])) /\ UNCHANGED call
    BY <1>2, <2>1 DEF DetachStep
  <2>3. InCall(t) /\ call[t].at = "detach"
    BY <1>2, Active DEF DetachStep, InCall, Deleting
  <2>4. q \in Queues /\ k.wait[q] # <<>>
    BY <2>2 DEF waiting
  <2>5. k \in Good(BeingDeleted, Reaped, 1)
    BY SaneData DEF KInv
  <2>6. Head(k.wait[q]) \in Threads \ BeingDeleted
    BY <2>4, <2>5, ListResumes
  <2>7. k'.nest = k.nest /\ k'.current = k.current
    BY <2>2, <2>5, <2>6, ResumesBad DEF OnlyWakes
  <2> QED BY <2>2, <2>3, <2>7 DEF Urgent, InCall, Leaving
<1> QED BY <1>1, <1>2

LEMMA UrgentFinishes ==
  ASSUME KInv, Urgent(k, call), NEW t \in Threads,
         \/ SemTaken(t) \/ MutexTaken(t) \/ EventReceived(t) \/ MbGivesUp(t) \/ MqGivesUp(t)
         \/ MpGivesUp(t)
  PROVE  Urgent(k, call)'
<1>1. PICK op : Woken(t, op) /\ UNCHANGED k
  BY DEF SemTaken, MutexTaken, EventReceived, MbGivesUp, MqGivesUp, MpGivesUp, GivesUp
<1> QED BY <1>1, AwakeFacts, UrgentSame

LEMMA UrgentNext ==
  ASSUME IInv, HInv, Disciplined, [IpcNext]_ipc_vars
  PROVE  HInv'
<1>1. SUFFICES ASSUME InService' PROVE Urgent(k, call)'
  BY DEF HInv
<1>2. KInv /\ WInv /\ ObjectsOK /\ KindsOK
  BY DEF IInv, KInv, ObjectsOK, KindsOK
<1>3. CASE UNCHANGED ipc_vars
  <2>1. InService /\ UNCHANGED kernel_vars
    BY <1>1, <1>3 DEF ipc_vars, InService
  <2> QED BY <2>1, UrgentUnmoved DEF HInv
<1>4. CASE Kernel
  <2>1. InService
    BY <1>1, <1>4 DEF Kernel, InService
  <2>2. Urgent(k, call)
    BY <2>1 DEF HInv
  <2> QED BY <1>2, <1>4, <2>1, <2>2, UrgentKernel
<1>5. CASE Handler
  <2>1. InService
    BY <1>1, <1>5 DEF Handler, InService, SemRelease, EventSend, MqSendIsr, MpFree
  <2>2. Urgent(k, call)
    BY <2>1 DEF HInv
  <2> QED BY <1>2, <1>5, <2>2, UrgentHandler
<1>6. ASSUME NEW t \in Threads, Calling(t) PROVE Urgent(k, call)'
  <2>1. /\ InService /\ ~MutexTake(t) /\ ~MutexRelease(t)
    <3>1. kind' = kind /\ alive' = alive
      BY <1>6 DEF Calling, SemTake, SemRelease, MutexTake, MutexRelease, EventRecv, EventSend,
           MbSend, MbRecv, MqSend, MqRecv, MpAlloc, MpFree, Reset, Detach
    <3>2. InService
      BY <1>1, <3>1 DEF InService
    <3> QED BY <3>2 DEF InService, MutexTake, MutexRelease, Uses, About
  <2>2. Urgent(k, call) /\ alive'
    BY <1>1, <2>1 DEF HInv, InService
  <2>3. CASE SemTake(t) \/ EventRecv(t)
    BY <1>2, <2>2, <2>3, UrgentReceives
  <2>4. CASE Uses(t, "sem") /\ SemRelease(t)
    BY <1>2, <2>2, <2>4, AwakeFacts, UrgentReleases
  <2>5. CASE Uses(t, "event") /\ EventSend(t)
    BY <1>2, <2>2, <2>5, AwakeFacts, UrgentSends
  <2>6. CASE MbSend(t) \/ MbRecv(t)
    BY <1>2, <2>2, <2>6, UrgentMails
  <2>7. CASE MqSend(t) \/ MqRecv(t)
    BY <1>2, <2>2, <2>7, UrgentQueues
  <2>8. CASE MpAlloc(t)
    BY <1>2, <2>2, <2>8, UrgentAllocates
  <2>9. CASE Uses(t, "mp") /\ MpFree(t)
    BY <1>2, <2>2, <2>9, AwakeFacts, UrgentFrees
  <2>10. CASE Reset(t)
    BY <1>2, <2>2, <2>10, UrgentResets
  <2>11. CASE Detach(t)
    BY <1>2, <2>2, <2>11, UrgentDetaches
  <2> QED BY <1>6, <2>1, <2>3, <2>4, <2>5, <2>6, <2>7, <2>8, <2>9, <2>10, <2>11 DEF Calling
<1>7. ASSUME NEW t \in Threads, Finishing(t) PROVE Urgent(k, call)'
  <2>1. InService
    <3>1. kind' = kind /\ (alive' => alive)
      BY <1>7 DEF Finishing, SemTaken, MutexTaken, EventReceived, MbGivesUp, MqGivesUp,
           MpGivesUp, MqLink, MqFree, DetachStep
    <3> QED BY <1>1, <3>1 DEF InService
  <2>2. Urgent(k, call) /\ alive'
    BY <1>1, <2>1 DEF HInv, InService
  <2>3. CASE MqLink(t) \/ MqFree(t)
    BY <1>2, <2>2, <2>3, UrgentQueues
  <2>4. CASE DetachStep(t)
    BY <1>2, <2>2, <2>4, UrgentDetaches
  <2>5. CASE ~(MqLink(t) \/ MqFree(t) \/ DetachStep(t))
    BY <1>2, <1>7, <2>2, <2>5, UrgentFinishes DEF Finishing
  <2> QED BY <2>3, <2>4, <2>5
<1> QED BY <1>3, <1>4, <1>5, <1>6, <1>7 DEF IpcNext

LEMMA UrgentFirst ==
  ASSUME IpcInit
  PROVE  HInv
<1> DEFINE S == IF kind \in {"thread", "mutex"} THEN Threads ELSE Threads \ Spare
<1>1. KernelInit(S)
  BY DEF IpcInit
<1>2. S \in SUBSET Threads /\ Idle \in S
  BY KernelAssumption, IpcAssumption
<1> HIDE DEF S
<1>3. \A u \in S : Priority[FirstThread(S)] <= Priority[u]
  BY <1>2, SomebodyFirst
<1>4. /\ k.nest = 0 /\ k.current = FirstThread(S) /\ k.prio = Priority
      /\ k.stat = [t \in Threads |-> IF t \in S THEN "READY" ELSE "INIT"]
  BY <1>1 DEF KernelInit
<1>5. k.group = {Priority[t] : t \in S}
  BY <1>1 DEF KernelInit
<1>7. FirstThread(S) \in Threads
  BY <1>2, SomebodyFirst
<1>6. Top(k)
  BY <1>3, <1>4, <1>5, <1>7 DEF Top
<1> QED BY <1>4, <1>6 DEF HInv, Urgent

(***************************************************************************)
(* "the highest priority thread" runs (scheduler.c): with an object in     *)
(* use, the thread that executes its own code is a most urgent of those    *)
(* that are ready, whatever sends, releases, timeouts, resets and          *)
(* deletions came before.                                                  *)
(***************************************************************************)
THEOREM MostUrgentRuns ==
  ASSUME Disciplined
  PROVE  IpcSpec => []RunsHighest
<1>1. IpcInit => IInv /\ HInv
  BY FirstState, UrgentFirst
<1>2. IInv /\ [IpcNext]_ipc_vars => IInv'
  BY NextKeeps
<1>4. IInv /\ HInv /\ [IpcNext]_ipc_vars => HInv'
  BY UrgentNext
<1>3. IInv /\ HInv => RunsHighest
  <2> SUFFICES ASSUME IInv, HInv, InService, call[k.current].at = "run",
                      NEW t \in Threads \ BeingDeleted, k.stat[t] = "READY"
               PROVE  k.prio[k.current] <= k.prio[t]
    BY DEF RunsHighest, InService
  <2>1. k \in KernelData /\ ReadyLinked(k, BeingDeleted) /\ GroupLinked(k)
    BY SaneData DEF IInv, KInv, Linked
  <2>2. k.prio[t] \in Prios /\ k.ready \in [Prios -> Seq(Threads)]
    BY <2>1, Typed
  <2>3. k.prio[t] \in k.group
    <3>1. t \in ToSet(k.ready[k.prio[t]])
      BY <2>1, <2>2 DEF ReadyLinked
    <3>2. k.ready[k.prio[t]] # <<>>
      BY <2>2, <3>1, Positions
    <3> QED BY <2>1, <2>2, <3>2 DEF GroupLinked
  <2>4. Top(k)
    BY DEF HInv, Urgent, Leaving
  <2> QED BY <2>3, <2>4 DEF Top
<1> QED BY <1>1, <1>2, <1>3, <1>4, PTL DEF IpcSpec
=============================================================================
