--------------------------- MODULE RtHeapsProofs ---------------------------
(***************************************************************************)
(* Proofs about the heaps: whatever sequence of calls, of whatever sizes,  *)
(* the headers in memory tell the same as what callers hold, and a region  *)
(* handed out is nobody else's.                                            *)
(***************************************************************************)
EXTENDS RtMem, RtMemheap, SequenceTheorems, FiniteSetTheorems, WellFoundedInduction, NaturalsInduction, TLAPS

(***************************************************************************)
(* The heap of small memory.                                               *)
(***************************************************************************)
Below == {p \in Nat \X Nat : p[1] < p[2]}
LEMMA BelowWF == IsWellFoundedOn(Below, Nat)
BY NatLessThanWellFounded DEF OpToRel, Below

LEMMA Least ==
  ASSUME NEW S \in SUBSET Nat, S # {}
  PROVE  \E n \in S : \A m \in S : n <= m
<1>1. PICK n \in S : \A m \in S : ~ (<<m, n>> \in Below)
  BY BelowWF, WFMin
<1>2. \A m \in S : ~(m < n)
  BY <1>1 DEF Below
<1> QED BY <1>2

(* A walk over headers that comes nearer to its end with every step has a   *)
(* value everywhere.                                                        *)
Walk(D, V, nx, N, rank, stop, val, g) ==
  /\ nx \in [D -> D] /\ N \in Nat /\ rank \in [D -> 0 .. N] /\ stop \in SUBSET D
  /\ val \in [D -> V] /\ g \in [D \X V -> V] /\ \A p \in D \ stop : rank[nx[p]] < rank[p]
HasValue(D, V, nx, stop, val, g) ==
  \E f \in [D -> V] : \A p \in D : f[p] = IF p \in stop THEN val[p] ELSE g[<<p, f[nx[p]]>>]
LEMMA WalkHasValue ==
  ASSUME NEW D, NEW V, NEW nx, NEW N, NEW rank, NEW stop, NEW val, NEW g,
         Walk(D, V, nx, N, rank, stop, val, g)
  PROVE  HasValue(D, V, nx, stop, val, g)
<1> USE DEF Walk
<1> DEFINE At(f, p) == f[p] = IF p \in stop THEN val[p] ELSE g[<<p, f[nx[p]]>>]
           Upto(n) == {f \in [D -> V] : \A p \in D : rank[p] <= n => At(f, p)}
           Bad == {n \in Nat : Upto(n) = {}}
<1>1. Bad = {}
  <2> SUFFICES ASSUME Bad # {} PROVE FALSE
    OBVIOUS
  <2>1. PICK n \in Bad : \A m \in Bad : n <= m
    <3>1. Bad \in SUBSET Nat
      OBVIOUS
    <3> HIDE DEF Bad
    <3> QED BY <3>1, Least
  <2>2. n \in Nat /\ Upto(n) = {}
    BY <2>1
  <2>3. CASE n = 0
    <3>1. \A p \in D : rank[p] <= 0 => p \in stop
      <4> SUFFICES ASSUME NEW p \in D, rank[p] <= 0, p \notin stop PROVE FALSE
        OBVIOUS
      <4>1. rank[nx[p]] \in 0 .. N /\ rank[p] \in 0 .. N /\ rank[nx[p]] < rank[p]
        OBVIOUS
      <4> QED BY <4>1
    <3>2. val \in Upto(0)
      BY <3>1
    <3> QED BY <2>2, <2>3, <3>2
  <2>4. CASE n # 0
    <3>1. n - 1 \in Nat /\ ~(n <= n - 1)
      BY <2>2, <2>4
    <3>2. n - 1 \notin Bad
      <4> HIDE DEF Bad
      <4> QED BY <2>1, <3>1
    <3>3. PICK f : f \in Upto(n - 1)
      BY <3>1, <3>2
    <3> DEFINE h == [p \in D |-> IF p \in stop THEN val[p] ELSE g[<<p, f[nx[p]]>>]]
    <3>4. h \in [D -> V]
      <4> SUFFICES ASSUME NEW p \in D PROVE h[p] \in V
        OBVIOUS
      <4>1. nx[p] \in D /\ f[nx[p]] \in V /\ <<p, f[nx[p]]>> \in D \X V
        BY <3>3
      <4> QED BY <4>1
    <3>5. ASSUME NEW p \in D, rank[p] <= n PROVE At(h, p)
      <4>1. CASE p \in stop
        BY <4>1
      <4>2. CASE p \notin stop
        <5>1. nx[p] \in D /\ rank[nx[p]] < rank[p] /\ rank[nx[p]] \in 0 .. N /\ rank[p] \in 0 .. N
          BY <4>2
        <5>2. rank[nx[p]] <= n - 1
          BY <2>2, <3>5, <5>1
        <5>3. At(f, nx[p])
          BY <3>3, <5>1, <5>2
        <5>4. h[nx[p]] = f[nx[p]]
          BY <5>1, <5>3
        <5> QED BY <4>2, <5>4
      <4> QED BY <4>1, <4>2
    <3>6. h \in Upto(n)
      <4> HIDE DEF h, At
      <4> QED BY <3>4, <3>5
    <3> QED BY <2>2, <3>6
  <2> QED BY <2>3, <2>4
<1>2. PICK f : f \in Upto(N)
  BY <1>1
<1>3. \A p \in D : At(f, p)
  BY <1>2
<1> QED BY <1>2, <1>3 DEF HasValue

(***************************************************************************)
(* C: where there is a header, heap_end included.  A header that was        *)
(* merged away still has a successor behind it; at an address that never    *)
(* had one there are zeros.                                                 *)
(***************************************************************************)
Addresses == 0 .. heap_end
Headers == [used : BOOLEAN, next : Addresses, prev : Addresses]
Heap == [Addresses -> Headers]
HasNext(m, p) == p = heap_end \/ m[p].next > p
Falls(m) ==
  /\ m \in Heap /\ m[heap_end].used /\ HasNext(m, 0)
  /\ \A p \in Addresses : IF HasNext(m, p) THEN HasNext(m, m[p].next) ELSE m[p].next = 0
Fore(C) == C \ {heap_end}
Linked(m, C) ==
  /\ C \subseteq Addresses /\ 0 \in C /\ heap_end \in C /\ Falls(m) /\ m[0].prev = 0
  /\ \A p \in Fore(C) : /\ m[p].next \in C /\ m[p].next > p
                         /\ \A c \in C : c <= p \/ c >= m[p].next
  /\ \A p \in Fore(C) \ {0} : m[p].prev \in Fore(C) /\ m[m[p].prev].next = p

LEMMA EndFacts ==
  /\ heap_end \in Nat /\ heap_end = MemSize + 1 /\ heap_end > 1 /\ MemSize \in Nat
  /\ 0 \in Addresses /\ heap_end \in Addresses /\ 0 # heap_end /\ NONE \notin Addresses
  /\ \A a \in Addresses : a \in Nat /\ a <= heap_end
BY MemAssumption DEF heap_end, SIZEOF_STRUCT_MEM, Addresses

(* Every walk along next from wherever comes to heap_end.                   *)
Rank(m) == [p \in Addresses |-> IF p = heap_end THEN 0 ELSE IF m[p].next > p THEN heap_end - p
                                ELSE heap_end + 1]
LEMMA WalksFall ==
  ASSUME NEW m, Falls(m)
  PROVE  /\ heap_end + 1 \in Nat /\ Rank(m) \in [Addresses -> 0 .. (heap_end + 1)]
         /\ [p \in Addresses |-> m[p].next] \in [Addresses -> Addresses]
         /\ \A p \in Addresses \ {heap_end} : Rank(m)[m[p].next] < Rank(m)[p]
<1>1. \A p \in Addresses : m[p].next \in Addresses
  BY DEF Falls, Heap, Headers
<1>2. Rank(m) \in [Addresses -> 0 .. (heap_end + 1)]
  <2> SUFFICES ASSUME NEW p \in Addresses
               PROVE  (IF p = heap_end THEN 0 ELSE IF m[p].next > p THEN heap_end - p ELSE heap_end + 1)
                        \in 0 .. (heap_end + 1)
    BY DEF Rank
  <2>1. p \in Nat /\ p <= heap_end
    BY EndFacts
  <2>2. heap_end - p \in 0 .. (heap_end + 1) /\ 0 \in 0 .. (heap_end + 1) /\ heap_end + 1 \in 0 .. (heap_end + 1)
    BY <2>1, EndFacts
  <2> QED BY <2>2
<1>3. ASSUME NEW p \in Addresses \ {heap_end} PROVE Rank(m)[m[p].next] < Rank(m)[p]
  <2> DEFINE n == m[p].next
  <2>1. n \in Addresses /\ p \in Addresses /\ p # heap_end
    BY <1>1
  <2>2. CASE m[p].next > p
    <3>1. n = heap_end \/ m[n].next > n
      BY <2>2 DEF Falls, HasNext
    <3>2. Rank(m)[p] = heap_end - p /\ Rank(m)[n] = IF n = heap_end THEN 0 ELSE heap_end - n
      BY <2>1, <2>2, <3>1 DEF Rank
    <3> HIDE DEF n
    <3>3. p < n /\ p \in Nat /\ n \in Nat /\ n <= heap_end
      BY <2>1, <2>2, EndFacts DEF n
    <3> QED BY <3>2, <3>3, EndFacts DEF n
  <2>3. CASE ~(m[p].next > p)
    <3>1. n = 0 /\ m[0].next > 0
      BY <2>1, <2>3, EndFacts DEF Falls, HasNext
    <3>2. Rank(m)[p] = heap_end + 1 /\ Rank(m)[n] = heap_end - 0
      BY <2>1, <2>3, <3>1, EndFacts DEF Rank
    <3> QED BY <3>2, EndFacts
  <2> QED BY <2>2, <2>3
<1> QED BY <1>1, <1>2, <1>3, EndFacts

(* What holds at heap_end, and of each header of which it holds one         *)
(* further on, holds of all headers.                                        *)
LEMMA Backwards ==
  ASSUME NEW m, NEW C, Linked(m, C), NEW S, heap_end \in S,
         \A p \in Fore(C) : m[p].next \in S => p \in S
  PROVE  C \subseteq S
<1> DEFINE Bad == {n \in Nat : \E p \in C \ S : n = heap_end - p}
<1>1. \A p \in C : p \in Nat /\ p <= heap_end /\ heap_end - p \in Nat
  BY EndFacts DEF Linked
<1> SUFFICES ASSUME NEW q \in C \ S PROVE FALSE
  OBVIOUS
<1>2. Bad \in SUBSET Nat /\ heap_end - q \in Bad
  BY <1>1
<1>3. \A n \in Bad : \E p \in C \ S : n = heap_end - p
  OBVIOUS
<1>4. \A p \in C \ S : heap_end - p \in Bad
  BY <1>1
<1> HIDE DEF Bad
<1>5. PICK n \in Bad : \A i \in Bad : n <= i
  BY <1>2, Least
<1>6. PICK p \in C \ S : n = heap_end - p
  BY <1>3
<1>7. p \in Fore(C) /\ m[p].next \in C \ S /\ m[p].next > p
  BY <1>6 DEF Fore, Linked
<1>8. heap_end - m[p].next \in Bad
  BY <1>4, <1>7
<1>9. n <= heap_end - m[p].next
  BY <1>5, <1>8
<1> DEFINE b == m[p].next
<1>10. b \in Nat /\ p \in Nat /\ b > p /\ n = heap_end - p /\ n <= heap_end - b
  BY <1>1, <1>6, <1>7, <1>9
<1> HIDE DEF b
<1> QED BY <1>10, EndFacts

(* The blocks found by walking from the first are those of C.               *)
LEMMA ChainFound ==
  ASSUME NEW C, Linked(mem, C)
  PROVE  Chain = Fore(C)
<1> DEFINE nx == [p \in Addresses |-> mem[p].next]
           val == [p \in Addresses |-> {}]
           g == [x \in Addresses \X SUBSET Addresses |-> {x[1]} \cup x[2]]
           stop == {heap_end}
           Turn(f) == [p \in Addresses |-> IF p = heap_end THEN {} ELSE {p} \cup f[mem[p].next]]
<1>1. \E f \in [Addresses -> SUBSET Addresses] :
        \A p \in Addresses : f[p] = IF p \in stop THEN val[p] ELSE g[<<p, f[nx[p]]>>]
  <2> DEFINE N == heap_end + 1
             rank == Rank(mem)
             D == Addresses
             V == SUBSET Addresses
  <2>1. /\ N \in Nat /\ rank \in [D -> 0 .. N]
        /\ nx \in [D -> D] /\ \A p \in D \ stop : rank[nx[p]] < rank[p]
    BY WalksFall DEF Linked
  <2>2. stop \in SUBSET D /\ val \in [D -> V] /\ g \in [D \X V -> V]
    BY EndFacts
  <2> HIDE DEF nx, val, g, stop, N, rank, D, V
  <2>3. Walk(D, V, nx, N, rank, stop, val, g)
    BY <2>1, <2>2 DEF Walk
  <2>4. HasValue(D, V, nx, stop, val, g)
    BY <2>3, WalkHasValue
  <2> QED BY <2>4 DEF D, V, HasValue
<1>2. PICK f \in [Addresses -> SUBSET Addresses] :
        \A p \in Addresses : f[p] = IF p \in stop THEN val[p] ELSE g[<<p, f[nx[p]]>>]
  BY <1>1
<1>3. f = Turn(f)
  <2> SUFFICES ASSUME NEW p \in Addresses, p # heap_end PROVE g[<<p, f[nx[p]]>>] = {p} \cup f[mem[p].next]
    BY <1>2
  <2>1. nx[p] = mem[p].next /\ nx[p] \in Addresses
    BY WalksFall DEF Linked
  <2>2. <<p, f[nx[p]]>> \in Addresses \X SUBSET Addresses
    BY <2>1
  <2> QED BY <2>1, <2>2
<1> DEFINE upto == CHOOSE u : u = Turn(u)
<1>4. upto = Turn(upto)
  <2> HIDE DEF Turn
  <2> QED BY <1>3
<1>5. Chain = upto[0]
  BY DEF Chain, Addresses
<1> HIDE DEF upto
<1>6. \A p \in Addresses : upto[p] = IF p = heap_end THEN {} ELSE {p} \cup upto[mem[p].next]
  BY <1>4
<1> DEFINE S == {p \in Addresses : upto[p] = {q \in Fore(C) : q >= p}}
<1>7. heap_end \in S
  <2>1. {q \in Fore(C) : q >= heap_end} = {}
    <3>1. \A q \in Fore(C) : q \in Nat /\ q # heap_end /\ q <= heap_end
      BY EndFacts DEF Fore, Linked
    <3>2. \A q \in Fore(C) : ~(q >= heap_end)
      BY <3>1, EndFacts
    <3> QED BY <3>2
  <2> QED BY <1>6, <2>1, EndFacts
<1>8. ASSUME NEW p \in Fore(C), mem[p].next \in S PROVE p \in S
  <2>1. /\ p \in Addresses /\ p # heap_end /\ p \in Nat
        /\ mem[p].next > p /\ mem[p].next \in Addresses /\ mem[p].next \in Nat
        /\ \A c \in C : c \in Nat /\ (c <= p \/ c >= mem[p].next)
    BY EndFacts DEF Fore, Linked
  <2>2. upto[p] = {p} \cup {q \in Fore(C) : q >= mem[p].next}
    BY <1>6, <1>8, <2>1
  <2>3. {p} \cup {q \in Fore(C) : q >= mem[p].next} = {q \in Fore(C) : q >= p}
    <3>1. p \in Fore(C) /\ p >= p
      BY <2>1
    <3>2. \A q \in Fore(C) : q >= mem[p].next => q >= p
      BY <2>1 DEF Fore
    <3>3. \A q \in Fore(C) : q >= p /\ q # p => q >= mem[p].next
      BY <2>1 DEF Fore
    <3> QED BY <3>1, <3>2, <3>3
  <2> QED BY <2>1, <2>2, <2>3
<1>9. C \subseteq S
  <2> HIDE DEF S
  <2> QED BY <1>7, <1>8, Backwards
<1>10. upto[0] = {q \in Fore(C) : q >= 0}
  BY <1>9 DEF Linked
<1>11. \A q \in Fore(C) : q >= 0
  BY EndFacts DEF Fore, Linked
<1> QED BY <1>5, <1>10, <1>11

(* A search that goes on while a header does not suit.                      *)
Search(m, stop, val, f) == f = [p \in Addresses |-> IF p \in stop THEN val[p] ELSE f[m[p].next]]
Finds(m, C, stop, val) ==
  /\ \E f : Search(m, stop, val, f)
  /\ \A f : Search(m, stop, val, f) => \A p \in C : \E q \in C \cap stop : q >= p /\ f[p] = val[q]
LEMMA SearchFinds ==
  ASSUME NEW m, NEW C, Linked(m, C), NEW R, NEW stop, stop \in SUBSET Addresses, heap_end \in stop,
         NEW val, val \in [Addresses -> R]
  PROVE  Finds(m, C, stop, val)
<1> DEFINE nx == [p \in Addresses |-> m[p].next]
           g == [x \in Addresses \X R |-> x[2]]
           Turn(f) == [p \in Addresses |-> IF p \in stop THEN val[p] ELSE f[m[p].next]]
<1>1. \E f \in [Addresses -> R] :
        \A p \in Addresses : f[p] = IF p \in stop THEN val[p] ELSE g[<<p, f[nx[p]]>>]
  <2> DEFINE N == heap_end + 1
             rank == Rank(m)
             D == Addresses
             V == R
  <2>1. /\ N \in Nat /\ rank \in [D -> 0 .. N]
        /\ nx \in [D -> D] /\ \A p \in D \ stop : rank[nx[p]] < rank[p]
    BY WalksFall DEF Linked
  <2>2. g \in [D \X V -> V] /\ stop \in SUBSET D /\ val \in [D -> V]
    OBVIOUS
  <2> HIDE DEF nx, g, N, rank, D, V
  <2>3. Walk(D, V, nx, N, rank, stop, val, g)
    BY <2>1, <2>2 DEF Walk
  <2>4. HasValue(D, V, nx, stop, val, g)
    BY <2>3, WalkHasValue
  <2> QED BY <2>4 DEF D, V, HasValue
<1>2. \E f : f = Turn(f)
  <2>1. PICK f \in [Addresses -> R] :
          \A p \in Addresses : f[p] = IF p \in stop THEN val[p] ELSE g[<<p, f[nx[p]]>>]
    BY <1>1
  <2>2. ASSUME NEW p \in Addresses PROVE g[<<p, f[nx[p]]>>] = f[m[p].next]
    <3>1. nx[p] = m[p].next /\ nx[p] \in Addresses
      BY WalksFall DEF Linked
    <3> QED BY <3>1
  <2>3. f = Turn(f)
    BY <2>1, <2>2
  <2> QED BY <2>3
<1>3. ASSUME NEW f, f = Turn(f) PROVE \A p \in C : \E q \in C \cap stop : q >= p /\ f[p] = val[q]
  <2> DEFINE S == {p \in C : \E q \in C \cap stop : q >= p /\ f[p] = val[q]}
  <2>0. \A c \in C : c \in Nat /\ c \in Addresses
    BY EndFacts DEF Linked
  <2>1. heap_end \in S
    BY <1>3, <2>0 DEF Linked
  <2>2. ASSUME NEW p \in Fore(C), m[p].next \in S PROVE p \in S
    <3>1. p \in C /\ p \in Nat /\ m[p].next > p /\ m[p].next \in C /\ m[p].next \in Nat
      BY <2>0 DEF Fore, Linked
    <3>2. CASE p \in stop
      BY <1>3, <2>0, <3>1, <3>2
    <3>3. CASE p \notin stop
      <4>1. PICK q \in C \cap stop : q >= m[p].next /\ f[m[p].next] = val[q]
        BY <2>2
      <4>2. f[p] = f[m[p].next] /\ q >= p
        BY <1>3, <2>0, <3>1, <3>3, <4>1
      <4> QED BY <3>1, <4>1, <4>2
    <3> QED BY <3>2, <3>3
  <2>3. C \subseteq S
    <3> HIDE DEF S
    <3> QED BY <2>1, <2>2, Backwards
  <2> QED BY <2>3
<1> HIDE DEF nx, g
<1> QED BY <1>2, <1>3 DEF Search, Finds

(***************************************************************************)
(* The three ways headers change: one is marked used or free, one is        *)
(* swallowed by the one before it, and one is put behind a block.           *)
(***************************************************************************)
LEMMA HeaderFacts ==
  ASSUME NEW m, NEW C, Linked(m, C)
  PROVE  /\ \A q \in Addresses : m[q].used \in BOOLEAN /\ m[q].next \in Addresses /\ m[q].prev \in Addresses
         /\ \A c \in C : c \in Addresses /\ c \in Nat /\ c <= heap_end
         /\ \A c \in Fore(C) : c \in C /\ c # heap_end /\ c < heap_end
BY EndFacts DEF Linked, Falls, Heap, Headers, Fore

LEMMA OneBefore ==
  ASSUME NEW m, NEW C, Linked(m, C), NEW p \in Fore(C), NEW q \in Fore(C), m[p].next = m[q].next
  PROVE  p = q
<1>1. /\ p \in Nat /\ q \in Nat /\ p \in C /\ q \in C /\ m[p].next \in Nat
  BY HeaderFacts DEF Linked
<1>2. (q <= p \/ q >= m[p].next) /\ (p <= q \/ p >= m[q].next) /\ m[p].next > p /\ m[q].next > q
  BY <1>1 DEF Linked
<1> DEFINE b == m[p].next
<1>3. b \in Nat /\ (q <= p \/ q >= b) /\ (p <= q \/ p >= b) /\ b > p /\ b > q
  BY <1>1, <1>2
<1> HIDE DEF b
<1> QED BY <1>1, <1>3

Marks(m, p, u) == [m EXCEPT ![p].used = u]
LEMMA Marked ==
  ASSUME NEW m, NEW C, Linked(m, C), NEW p \in Fore(C), NEW u \in BOOLEAN,
         NEW r, r = Marks(m, p, u)
  PROVE  /\ Linked(r, C) /\ r[p].used = u
         /\ \A q \in Addresses : r[q].next = m[q].next /\ r[q].prev = m[q].prev
                                 /\ (q # p => r[q].used = m[q].used)
<1>1. m \in Heap /\ p \in Addresses /\ p # heap_end /\ \A q \in Fore(C) : q \in Addresses
  BY HeaderFacts DEF Linked, Falls
<1>2. r \in Heap /\ r[p].used = u
  BY <1>1 DEF Heap, Headers, Marks
<1>3. \A q \in Addresses : r[q].next = m[q].next /\ r[q].prev = m[q].prev /\ (q # p => r[q].used = m[q].used)
  BY <1>1 DEF Heap, Headers, Marks
<1>4. Falls(r)
  <2>1. \A q \in Addresses : HasNext(r, q) <=> HasNext(m, q)
    BY <1>3 DEF HasNext
  <2>2. \A q \in Addresses : m[q].next \in Addresses
    BY HeaderFacts
  <2>3. ASSUME NEW q \in Addresses
        PROVE  IF HasNext(r, q) THEN HasNext(r, r[q].next) ELSE r[q].next = 0
    <3>1. IF HasNext(m, q) THEN HasNext(m, m[q].next) ELSE m[q].next = 0
      BY DEF Linked, Falls
    <3>2. r[q].next = m[q].next /\ m[q].next \in Addresses
      BY <1>3, <2>2
    <3> QED BY <2>1, <3>1, <3>2
  <2>4. r[heap_end].used /\ HasNext(r, 0)
    BY <1>1, <1>3, <2>1, EndFacts DEF Linked, Falls
  <2> QED BY <1>2, <2>3, <2>4 DEF Falls
<1>5. Linked(r, C)
  <2>1. r[0].prev = 0
    BY <1>3, EndFacts DEF Linked
  <2>2. \A q \in Fore(C) : r[q].next \in C /\ r[q].next > q /\ \A c \in C : c <= q \/ c >= r[q].next
    BY <1>1, <1>3 DEF Linked
  <2>3. \A q \in Fore(C) \ {0} : r[q].prev \in Fore(C) /\ r[r[q].prev].next = q
    BY <1>1, <1>3 DEF Linked
  <2> QED BY <1>4, <2>1, <2>2, <2>3 DEF Linked
<1> QED BY <1>2, <1>3, <1>5

Swallows(m, a, b) == [m EXCEPT ![a].next = m[b].next, ![m[b].next].prev = a]
LEMMA Joined ==
  ASSUME NEW m, NEW C, Linked(m, C), NEW a \in Fore(C), NEW b, b = m[a].next, b # heap_end,
         NEW x, x = m[b].next, NEW r, r = Swallows(m, a, b)
  PROVE  /\ Linked(r, C \ {b}) /\ r[a].next = x /\ b \in Fore(C) \ {0} /\ x # b /\ a # b /\ x # a
         /\ \A q \in Addresses : /\ r[q].used = m[q].used /\ (q # a => r[q].next = m[q].next)
                                 /\ (q # x => r[q].prev = m[q].prev)
<1>1. /\ m \in Heap /\ a \in Addresses /\ b \in Fore(C) /\ b \in Addresses /\ x \in C /\ x \in Addresses
      /\ a \in Nat /\ b \in Nat /\ x \in Nat /\ a < b /\ b < x /\ x <= heap_end /\ a \in C /\ b \in C
  BY HeaderFacts DEF Linked, Falls, Fore
<1>2. a # b /\ x # b /\ x # a /\ b # 0 /\ a # heap_end /\ x # 0
  BY <1>1, EndFacts
<1>3. r \in Heap
  BY <1>1, <1>2 DEF Heap, Headers, Swallows
<1>4. /\ r[a].next = x /\ r[x].prev = a
      /\ \A q \in Addresses : /\ r[q].used = m[q].used /\ (q # a => r[q].next = m[q].next)
                              /\ (q # x => r[q].prev = m[q].prev)
  BY <1>1, <1>2 DEF Heap, Headers, Swallows
<1>5. Falls(r)
  <2>1. \A q \in Addresses : HasNext(r, q) <=> HasNext(m, q)
    <3>1. HasNext(r, a) /\ HasNext(m, a)
      <4>1. x > a /\ b > a
        BY <1>1
      <4> QED BY <1>4, <4>1 DEF HasNext
    <3> QED BY <3>1, <1>4 DEF HasNext
  <2>2. \A q \in Addresses : m[q].next \in Addresses
    BY HeaderFacts
  <2>3. HasNext(m, x)
    BY <1>1 DEF Linked, Fore, HasNext
  <2>4. ASSUME NEW q \in Addresses
        PROVE  IF HasNext(r, q) THEN HasNext(r, r[q].next) ELSE r[q].next = 0
    <3>1. CASE q = a
      BY <1>1, <1>4, <2>1, <2>3, <3>1 DEF HasNext
    <3>2. CASE q # a
      <4>1. IF HasNext(m, q) THEN HasNext(m, m[q].next) ELSE m[q].next = 0
        BY DEF Linked, Falls
      <4>2. r[q].next = m[q].next /\ m[q].next \in Addresses
        BY <1>4, <2>2, <3>2
      <4> QED BY <2>1, <4>1, <4>2
    <3> QED BY <3>1, <3>2
  <2>5. r[heap_end].used /\ HasNext(r, 0)
    BY <1>4, <2>1, EndFacts DEF Linked, Falls
  <2> QED BY <1>3, <2>4, <2>5 DEF Falls
<1>6. C \ {b} \subseteq Addresses /\ 0 \in C \ {b} /\ heap_end \in C \ {b} /\ r[0].prev = 0
  BY <1>2, <1>4, EndFacts DEF Linked
<1>7. ASSUME NEW q \in Fore(C \ {b})
      PROVE  r[q].next \in C \ {b} /\ r[q].next > q /\ \A c \in C \ {b} : c <= q \/ c >= r[q].next
  <2>0. q \in Fore(C) /\ q # b /\ q \in Addresses /\ q \in Nat
    BY HeaderFacts DEF Fore
  <2>1. CASE q = a
    <3>1. \A c \in C \ {b} : c \in Nat /\ (c <= a \/ c >= b) /\ (c <= b \/ c >= x)
      BY <1>1, HeaderFacts DEF Linked
    <3>2. \A c \in C \ {b} : c <= a \/ c >= x
      BY <1>1, <3>1
    <3>3. r[q].next = x /\ x \in C \ {b} /\ x > a
      BY <1>1, <1>2, <1>4, <2>1
    <3> QED BY <2>1, <3>2, <3>3
  <2>2. CASE q # a
    <3>1. m[q].next # b
      BY <2>0, <2>2, OneBefore
    <3> QED BY <1>4, <2>0, <2>2, <3>1 DEF Linked
  <2> QED BY <2>1, <2>2
<1>8. ASSUME NEW q \in Fore(C \ {b}) \ {0}
      PROVE  r[q].prev \in Fore(C \ {b}) /\ r[r[q].prev].next = q
  <2>0. q \in Fore(C) \ {0} /\ q # b /\ q \in Addresses /\ q \in Nat
    BY HeaderFacts DEF Fore
  <2>1. CASE q = x
    BY <1>1, <1>2, <1>4, <2>1 DEF Fore
  <2>2. CASE q # x
    <3> DEFINE y == m[q].prev
    <3>1. y \in Fore(C) /\ m[y].next = q /\ y \in Addresses
      BY <2>0, HeaderFacts DEF Linked
    <3> HIDE DEF y
    <3>2. y # b /\ y # a
      BY <2>0, <2>2, <3>1
    <3>3. r[q].prev = y /\ r[y].next = q
      BY <1>4, <2>0, <2>2, <3>1, <3>2 DEF y
    <3> QED BY <3>1, <3>2, <3>3 DEF Fore
  <2> QED BY <2>1, <2>2
<1>9. Linked(r, C \ {b})
  BY <1>5, <1>6, <1>7, <1>8 DEF Linked
<1> QED BY <1>1, <1>2, <1>4, <1>9

LEMMA CutIn ==
  ASSUME NEW C, Linked(mem, C), NEW p \in Fore(C), NEW size \in Nat, NEW u \in BOOLEAN,
         NEW z, z = p + SIZEOF_STRUCT_MEM + size, NEW x, x = mem[p].next, z < x,
         NEW r, r = cut(p, size, u)
  PROVE  /\ Linked(r, C \cup {z}) /\ z \notin C /\ z \in Fore(C \cup {z}) /\ z = p + 1 + size
         /\ r[p].next = z /\ r[z].next = x /\ r[p].used = u /\ ~r[z].used /\ r[z].prev = p
         /\ \A q \in Addresses \ {p, z} : r[q].used = mem[q].used /\ r[q].next = mem[q].next
<1> DEFINE m1 == [mem EXCEPT ![z] = [used |-> FALSE, next |-> x, prev |-> p],
                             ![p] = [@ EXCEPT !.next = z, !.used = u]]
<1>1. /\ mem \in Heap /\ p \in Addresses /\ p \in C /\ p # heap_end /\ p \in Nat
      /\ x \in C /\ x \in Addresses /\ x \in Nat /\ x <= heap_end /\ x > p
      /\ \A c \in C : c \in Nat /\ c \in Addresses /\ (c <= p \/ c >= x)
  BY HeaderFacts DEF Linked, Falls, Fore
<1>2. z \in Nat /\ z = p + 1 + size /\ p < z /\ z < x /\ z <= heap_end
  BY <1>1, EndFacts DEF SIZEOF_STRUCT_MEM
<1>3. z \in Addresses /\ z # heap_end /\ z # p /\ z # x /\ x # p /\ z # 0 /\ x # 0
  BY <1>1, <1>2, EndFacts DEF Addresses
<1>4. z \notin C
  BY <1>1, <1>2
<1>5. r = IF x # heap_end THEN [m1 EXCEPT ![x].prev = z] ELSE m1
  BY DEF cut
<1>6. /\ m1 \in Heap /\ m1[z] = [used |-> FALSE, next |-> x, prev |-> p]
      /\ m1[p].next = z /\ m1[p].used = u /\ m1[p].prev = mem[p].prev
      /\ \A q \in Addresses \ {p, z} : m1[q] = mem[q]
  <2> DEFINE y == [mem EXCEPT ![z] = [used |-> FALSE, next |-> x, prev |-> p]]
             h == [mem[p] EXCEPT !.next = z, !.used = u]
  <2>1. y \in Heap /\ y[z] = [used |-> FALSE, next |-> x, prev |-> p] /\ \A q \in Addresses \ {z} : y[q] = mem[q]
    BY <1>1, <1>3 DEF Heap, Headers
  <2>2. mem[p] \in Headers
    BY <1>1 DEF Heap
  <2>3. h \in Headers /\ h.next = z /\ h.used = u /\ h.prev = mem[p].prev
    BY <1>3, <2>2 DEF Headers
  <2>4. m1 = [y EXCEPT ![p] = h]
    BY <1>1, <1>3
  <2> HIDE DEF y, h, m1
  <2> QED BY <1>1, <1>3, <2>1, <2>3, <2>4 DEF Heap
<1> HIDE DEF m1
<1>7. /\ r \in Heap /\ r[z].next = x /\ ~r[z].used /\ r[z].prev = p
      /\ r[p].next = z /\ r[p].used = u
      /\ \A q \in Addresses \ {p, z} : r[q].used = mem[q].used /\ r[q].next = mem[q].next
      /\ \A q \in Addresses \ {z, x} : r[q].prev = mem[q].prev
      /\ x # heap_end => r[x].prev = z
  <2>1. CASE x = heap_end
    BY <1>3, <1>5, <1>6, <2>1
  <2>2. CASE x # heap_end
    BY <1>1, <1>3, <1>5, <1>6, <2>2 DEF Heap, Headers
  <2> QED BY <2>1, <2>2
<1>8. Falls(r)
  <2>1. \A q \in Addresses : HasNext(mem, q) => HasNext(r, q)
    BY <1>1, <1>2, <1>7 DEF HasNext
  <2>2. HasNext(r, p) /\ HasNext(r, z)
    BY <1>2, <1>7 DEF HasNext
  <2>3. \A q \in Addresses : mem[q].next \in Addresses
    BY HeaderFacts
  <2>4. HasNext(mem, x)
    BY <1>1 DEF Linked, Fore, HasNext
  <2>5. ASSUME NEW q \in Addresses
        PROVE  IF HasNext(r, q) THEN HasNext(r, r[q].next) ELSE r[q].next = 0
    <3>1. CASE q \in {p, z}
      BY <1>1, <1>7, <2>1, <2>2, <2>4, <3>1
    <3>2. CASE q \notin {p, z}
      <4>1. IF HasNext(mem, q) THEN HasNext(mem, mem[q].next) ELSE mem[q].next = 0
        BY DEF Linked, Falls
      <4>2. r[q].next = mem[q].next /\ mem[q].next \in Addresses
        BY <1>7, <2>3, <3>2
      <4>3. HasNext(r, q) <=> HasNext(mem, q)
        BY <3>2, <4>2 DEF HasNext
      <4> QED BY <2>1, <4>1, <4>2, <4>3
    <3> QED BY <3>1, <3>2
  <2>6. r[heap_end].used /\ HasNext(r, 0)
    BY <1>1, <1>3, <1>7, <2>1, EndFacts DEF Linked, Falls
  <2> QED BY <1>7, <2>5, <2>6 DEF Falls
<1> DEFINE B == C \cup {z}
<1>9. B \subseteq Addresses /\ 0 \in B /\ heap_end \in B /\ r[0].prev = 0
  BY <1>3, <1>7, EndFacts DEF Linked
<1>10. ASSUME NEW q \in Fore(B)
       PROVE  r[q].next \in B /\ r[q].next > q /\ \A c \in B : c <= q \/ c >= r[q].next
  <2>1. CASE q = p
    <3>1. \A c \in B : c <= p \/ c >= z
      BY <1>1, <1>2
    <3> QED BY <1>2, <1>7, <2>1, <3>1
  <2>2. CASE q = z
    <3>1. \A c \in B : c <= z \/ c >= x
      BY <1>1, <1>2
    <3> QED BY <1>1, <1>2, <1>7, <2>2, <3>1
  <2>3. CASE q # p /\ q # z
    <3>1. q \in Fore(C) /\ q \in C /\ q \in Nat /\ q \in Addresses
      BY <1>1, <2>3 DEF Fore
    <3> DEFINE y == mem[q].next
    <3>2. y \in C /\ y > q /\ y \in Nat /\ \A c \in C : c <= q \/ c >= y
      BY <1>1, <3>1 DEF Linked
    <3>3. r[q].next = y
      BY <1>7, <2>3, <3>1
    <3> HIDE DEF y
    <3>4. z <= q \/ z >= y
      <4>1. (q <= p \/ q >= x) /\ (p <= q \/ p >= y)
        BY <1>1, <3>1, <3>2
      <4> QED BY <1>1, <1>2, <2>3, <3>1, <3>2, <4>1
    <3> QED BY <3>2, <3>3, <3>4
  <2> QED BY <2>1, <2>2, <2>3
<1>11. ASSUME NEW q \in Fore(B) \ {0}
       PROVE  r[q].prev \in Fore(B) /\ r[r[q].prev].next = q
  <2>1. CASE q = z
    BY <1>1, <1>7, <2>1 DEF Fore
  <2>2. CASE q = x
    BY <1>3, <1>7, <2>2 DEF Fore
  <2>3. CASE q # x /\ q # z
    <3>1. q \in Fore(C) \ {0} /\ q \in Addresses
      BY <1>1, <2>3 DEF Fore
    <3> DEFINE y == mem[q].prev
    <3>2. y \in Fore(C) /\ mem[y].next = q /\ y \in Addresses /\ y # p /\ y # z
      BY <1>1, <1>4, <2>3, <3>1, HeaderFacts DEF Linked, Fore
    <3>3. r[q].prev = y
      BY <1>7, <2>3, <3>1
    <3> HIDE DEF y
    <3>4. r[y].next = q
      BY <1>7, <3>2
    <3> QED BY <3>2, <3>3, <3>4 DEF Fore
  <2> QED BY <2>1, <2>2, <2>3
<1>12. Linked(r, B)
  <2> HIDE DEF B
  <2> QED BY <1>8, <1>9, <1>10, <1>11 DEF Linked
<1> QED BY <1>2, <1>3, <1>4, <1>7, <1>12 DEF Fore

(***************************************************************************)
(* U: the used blocks.  No two free blocks touch, and lfree is one or the   *)
(* end.  While a free one has just come about at p it may touch others.     *)
(***************************************************************************)
Uses(m, C, U) == U = {p \in Fore(C) : m[p].used}
Apart(m, C, p) ==
  \A q \in Fore(C) \ {p} : ~m[q].used /\ m[q].next \notin {heap_end, p} => m[m[q].next].used
Points(m, C, lf) == lf = heap_end \/ (lf \in Fore(C) /\ ~m[lf].used)
Sound(m, C, lf, U) == /\ Linked(m, C) /\ Uses(m, C, U) /\ Points(m, C, lf)
                      /\ \A q \in Fore(C) : ~m[q].used /\ m[q].next # heap_end => m[m[q].next].used

LEMMA UsesFacts ==
  ASSUME NEW m, NEW C, NEW U, Uses(m, C, U)
  PROVE  \A q : q \in U <=> q \in Fore(C) /\ m[q].used
BY DEF Uses

Plugged(m, C, U, p, lf, n, B) ==
  /\ Linked(n, B) /\ p \in Fore(B) /\ ~n[p].used /\ Uses(n, B, U) /\ Points(n, B, lf) /\ Apart(n, B, p)
  /\ n[p].next # heap_end => n[n[p].next].used
  /\ \A q \in U : n[q].next = m[q].next
LEMMA MergesNext ==
  ASSUME NEW s, NEW C, Linked(s.mem, C), NEW p \in Fore(C), ~s.mem[p].used, NEW U, Uses(s.mem, C, U),
         Points(s.mem, C, s.lfree), Apart(s.mem, C, p), NEW r, r = merged_next(s, p)
  PROVE  \E B : Plugged(s.mem, C, U, p, r.lfree, r.mem, B)
<1> DEFINE m == s.mem
           b == m[p].next
<1>1. /\ b \in C /\ b > p /\ p \in Nat /\ b \in Addresses /\ p \in Addresses /\ p # heap_end
      /\ b # p /\ \A q \in Fore(C) : q \in Addresses
  <2>1. b \in C /\ b > p /\ p \in Nat /\ b \in Nat /\ b \in Addresses /\ p \in Addresses /\ p # heap_end
    BY HeaderFacts DEF Linked
  <2>2. b # p
    <3> HIDE DEF b
    <3> QED BY <2>1
  <2> QED BY <2>1, <2>2, HeaderFacts
<1>2. CASE ~m[b].used /\ b # heap_end
  <2> DEFINE x == m[b].next
             n == Swallows(m, p, b)
             B == C \ {b}
  <2>1. r = [mem |-> n, lfree |-> IF s.lfree = b THEN p ELSE s.lfree]
    BY <1>1, <1>2 DEF merged_next, Swallows
  <2>2. /\ Linked(n, B) /\ n[p].next = x /\ b \in Fore(C) \ {0} /\ x # b /\ p # b /\ x # p
        /\ \A q \in Addresses : /\ n[q].used = m[q].used /\ (q # p => n[q].next = m[q].next)
                                /\ (q # x => n[q].prev = m[q].prev)
    <3> HIDE DEF n, x, b
    <3>1. b = m[p].next /\ b # heap_end /\ x = m[b].next /\ n = Swallows(m, p, b)
      BY <1>2 DEF n, x, b
    <3> HIDE DEF m
    <3>2. Linked(m, C)
      BY DEF m
    <3> QED BY <3>1, <3>2, Joined
  <2> HIDE DEF n
  <2>3. x # heap_end => m[x].used /\ x \in Addresses
    <3>1. b \in Fore(C) \ {p} /\ x \notin {p}
      BY <2>2
    <3>2. x \in Addresses
      BY <1>1, HeaderFacts
    <3> QED BY <1>2, <3>1, <3>2 DEF Apart
  <2>4. \A q : q \in Fore(B) <=> q \in Fore(C) /\ q # b
    BY DEF Fore
  <2>5. p \in Fore(B) /\ ~n[p].used
    BY <1>1, <2>2, <2>4
  <2>6. Uses(n, B, U)
    BY <1>1, <1>2, <2>2, <2>4, UsesFacts DEF Uses
  <2>7. Points(n, B, r.lfree)
    <3>1. CASE s.lfree = b
      BY <2>1, <2>5, <3>1 DEF Points
    <3>2. CASE s.lfree # b
      <4> DEFINE f == s.lfree
      <4>1. r.lfree = f /\ Points(m, C, f) /\ f # b
        BY <2>1, <3>2
      <4> HIDE DEF f, m, b
      <4> QED BY <1>1, <2>2, <2>4, <4>1 DEF Points
    <3> QED BY <3>1, <3>2
  <2>8. Apart(n, B, p)
    <3> SUFFICES ASSUME NEW q \in Fore(B) \ {p}, ~n[q].used, n[q].next \notin {heap_end, p}
                 PROVE  n[n[q].next].used
      BY DEF Apart
    <3>1. q \in Fore(C) \ {p} /\ q \in Addresses /\ q \in C
      BY <1>1, <2>4 DEF Fore
    <3>2. n[q].next = m[q].next /\ ~m[q].used /\ m[q].next \in Addresses
      BY <2>2, <3>1, HeaderFacts
    <3>3. m[m[q].next].used
      BY <3>1, <3>2 DEF Apart
    <3> QED BY <2>2, <3>2, <3>3
  <2>9. n[p].next # heap_end => n[n[p].next].used
    BY <2>2, <2>3
  <2>10. \A q \in U : n[q].next = m[q].next
    BY <1>1, <2>2, UsesFacts
  <2>11. r.mem = n
    BY <2>1
  <2> HIDE DEF B
  <2> QED BY <2>2, <2>5, <2>6, <2>7, <2>8, <2>9, <2>10, <2>11 DEF Plugged
<1>3. CASE ~(~m[b].used /\ b # heap_end)
  <2>1. r = s
    BY <1>3 DEF merged_next
  <2> QED BY <1>3, <2>1 DEF Plugged
<1> QED BY <1>2, <1>3

Restores(m, r, U) ==
  \E E : Sound(r.mem, E, r.lfree, U) /\ \A q \in U : r.mem[q].next = m[q].next
LEMMA MergesPrev ==
  ASSUME NEW m, NEW C, NEW U, NEW p, NEW t, NEW B, Plugged(m, C, U, p, t.lfree, t.mem, B),
         NEW r, r = merged_prev(t, p)
  PROVE  Restores(m, r, U)
<1> DEFINE n == t.mem
           y == n[p].prev
<1>1. /\ Linked(n, B) /\ p \in Fore(B) /\ ~n[p].used /\ Uses(n, B, U) /\ Points(n, B, t.lfree) /\ Apart(n, B, p)
      /\ n[p].next # heap_end => n[n[p].next].used
      /\ \A q \in U : n[q].next = m[q].next
  BY DEF Plugged
<1>2. /\ n[p].next # p /\ p \in Addresses /\ p # heap_end /\ p \in Nat
      /\ \A q \in Fore(B) : q \in Addresses
      /\ \A q \in Addresses : n[q].next \in Addresses
  <2>1. n[p].next > p /\ n[p].next \in Nat /\ p \in Nat /\ p \in Addresses /\ p # heap_end
    BY <1>1, HeaderFacts DEF Linked
  <2>2. n[p].next # p
    <3> DEFINE z == n[p].next
    <3>1. z > p /\ z \in Nat
      BY <2>1
    <3> HIDE DEF z
    <3>2. z # p
      BY <2>1, <3>1
    <3> QED BY <3>2 DEF z
  <2> QED BY <1>1, <2>1, <2>2, HeaderFacts
<1>3. p # 0 => y \in Fore(B) /\ n[y].next = p
  BY <1>1 DEF Linked
<1>4. p = 0 => y = p
  BY <1>1 DEF Linked
<1>5. CASE y # p /\ ~n[y].used
  <2> DEFINE x == n[p].next
             h == Swallows(n, y, p)
             E == B \ {p}
             lf == IF t.lfree = p THEN y ELSE t.lfree
  <2>1. r = [mem |-> h, lfree |-> lf]
    BY <1>5 DEF merged_prev, Swallows
  <2>2. y \in Fore(B) /\ n[y].next = p /\ y \in Addresses
    BY <1>2, <1>3, <1>4, <1>5
  <2>3. /\ Linked(h, E) /\ h[y].next = x /\ x # y
        /\ \A q \in Addresses : /\ h[q].used = n[q].used /\ (q # y => h[q].next = n[q].next)
                                /\ (q # x => h[q].prev = n[q].prev)
    <3> HIDE DEF h, x, y
    <3>1. p = n[y].next /\ p # heap_end /\ x = n[p].next /\ h = Swallows(n, y, p)
      BY <1>2, <2>2 DEF h, x
    <3>2. Linked(n, B) /\ y \in Fore(B)
      BY <1>1, <2>2 DEF y
    <3> HIDE DEF n
    <3> QED BY <3>1, <3>2, Joined
  <2> HIDE DEF h, y
  <2>4. \A q : q \in Fore(E) <=> q \in Fore(B) /\ q # p
    BY DEF Fore
  <2>5. Uses(h, E, U)
    BY <1>1, <1>2, <2>3, <2>4, UsesFacts DEF Uses
  <2>6. y \in Fore(E) /\ ~h[y].used
    BY <1>5, <2>2, <2>3, <2>4
  <2>7. Points(h, E, lf)
    <3>1. CASE t.lfree = p
      BY <2>6, <3>1 DEF Points
    <3>2. CASE t.lfree # p
      BY <1>1, <1>2, <2>3, <2>4, <3>2 DEF Points
    <3> QED BY <3>1, <3>2
  <2>8. ASSUME NEW q \in Fore(E), ~h[q].used, h[q].next # heap_end PROVE h[h[q].next].used
    <3>0. q \in Fore(B) \ {p} /\ q \in Addresses
      BY <1>2, <2>4
    <3>1. CASE q = y
      BY <1>1, <1>2, <2>3, <2>8, <3>1
    <3>2. CASE q # y
      <4>1. n[q].next # p
        BY <1>1, <2>2, <3>0, <3>2, OneBefore
      <4>2. h[q].next = n[q].next /\ ~n[q].used /\ n[q].next \in Addresses
        BY <1>2, <2>3, <2>8, <3>0, <3>2
      <4>3. n[n[q].next].used
        BY <1>1, <2>8, <3>0, <4>1, <4>2 DEF Apart
      <4> QED BY <2>3, <4>2, <4>3
    <3> QED BY <3>1, <3>2
  <2>9. \A q \in U : h[q].next = m[q].next
    <3>1. \A q \in U : q \in Addresses /\ q # y
      BY <1>1, <1>2, <1>5, UsesFacts
    <3> QED BY <1>1, <2>3, <3>1
  <2>10. r.mem = h /\ r.lfree = lf
    BY <2>1
  <2> HIDE DEF E, lf
  <2>11. Sound(h, E, lf, U)
    BY <2>3, <2>5, <2>7, <2>8 DEF Sound
  <2> QED BY <2>9, <2>10, <2>11 DEF Restores
<1>6. CASE ~(y # p /\ ~n[y].used)
  <2>1. r = t
    BY <1>6 DEF merged_prev
  <2>2. ASSUME NEW q \in Fore(B), ~n[q].used, n[q].next # heap_end PROVE n[n[q].next].used
    <3>1. CASE q = p
      BY <1>1, <2>2, <3>1
    <3>2. CASE q # p
      <4>1. CASE n[q].next = p
        <5>1. q \in Nat /\ p > q
          BY <1>1, <4>1, HeaderFacts DEF Linked
        <5>2. p # 0
          BY <1>2, <5>1
        <5>3. y \in Fore(B) /\ n[y].next = p
          BY <1>3, <5>2
        <5>4. q = y
          BY <1>1, <4>1, <5>3, OneBefore
        <5> QED BY <1>6, <2>2, <3>2, <5>4
      <4>2. CASE n[q].next # p
        BY <1>1, <2>2, <3>2, <4>2 DEF Apart
      <4> QED BY <4>1, <4>2
    <3> QED BY <3>1, <3>2
  <2>3. Sound(n, B, t.lfree, U)
    BY <1>1, <2>2 DEF Sound
  <2> QED BY <1>1, <2>1, <2>3 DEF Restores
<1> QED BY <1>5, <1>6

LEMMA Plugs ==
  ASSUME NEW s, NEW C, Linked(s.mem, C), NEW p \in Fore(C), ~s.mem[p].used, NEW U, Uses(s.mem, C, U),
         Points(s.mem, C, s.lfree), Apart(s.mem, C, p), NEW r, r = plug_holes(s, p)
  PROVE  Restores(s.mem, r, U)
<1> DEFINE t == merged_next(s, p)
<1>1. r = merged_prev(t, p)
  BY DEF plug_holes
<1>2. \E B : Plugged(s.mem, C, U, p, t.lfree, t.mem, B)
  BY MergesNext
<1> HIDE DEF t
<1> DEFINE m == s.mem
<1>3. PICK B : Plugged(m, C, U, p, t.lfree, t.mem, B)
  BY <1>2
<1> HIDE DEF m
<1>4. Restores(m, r, U)
  BY <1>1, <1>3, MergesPrev
<1> QED BY <1>4 DEF m

(***************************************************************************)
(* The operations on the headers.                                           *)
(***************************************************************************)
LEMMA SoundFacts ==
  ASSUME NEW m, NEW C, NEW lf, NEW U, Sound(m, C, lf, U)
  PROVE  /\ Linked(m, C) /\ Uses(m, C, U) /\ Points(m, C, lf) /\ lf \in C
         /\ \A q \in Fore(C) : ~m[q].used /\ m[q].next # heap_end => m[m[q].next].used
         /\ \A q : q \in U <=> q \in Fore(C) /\ m[q].used
         /\ \A q \in Fore(C) : /\ q \in Addresses /\ q \in Nat /\ q \in C /\ q # heap_end
                                /\ m[q].next \in C /\ m[q].next \in Addresses /\ m[q].next \in Nat
                                /\ m[q].next > q
<1>1. Linked(m, C) /\ Uses(m, C, U) /\ Points(m, C, lf)
      /\ \A q \in Fore(C) : ~m[q].used /\ m[q].next # heap_end => m[m[q].next].used
  BY DEF Sound
<1>2. lf \in C
  BY <1>1 DEF Points, Fore, Linked
<1>3. \A q : q \in U <=> q \in Fore(C) /\ m[q].used
  BY <1>1, UsesFacts
<1>4. ASSUME NEW q \in Fore(C)
      PROVE  /\ q \in Addresses /\ q \in Nat /\ q \in C /\ q # heap_end
             /\ m[q].next \in C /\ m[q].next \in Addresses /\ m[q].next \in Nat
             /\ m[q].next > q
  BY <1>1, HeaderFacts DEF Linked
<1> QED BY <1>1, <1>2, <1>3, <1>4

LEMMA FreesBlock ==
  ASSUME NEW C, NEW U, Sound(mem, C, lfree, U), NEW p \in U,
         NEW r, r = plug_holes([mem |-> [mem EXCEPT ![p].used = FALSE],
                                lfree |-> IF p < lfree THEN p ELSE lfree], p)
  PROVE  Restores(mem, r, U \ {p})
<1> DEFINE n == [mem EXCEPT ![p].used = FALSE]
           lf == IF p < lfree THEN p ELSE lfree
           s == [mem |-> n, lfree |-> lf]
           W == U \ {p}
<1>1. p \in Fore(C) /\ mem[p].used /\ p \in Addresses /\ Linked(mem, C)
  BY SoundFacts
<1>2. /\ Linked(n, C) /\ ~n[p].used
      /\ \A q \in Addresses : n[q].next = mem[q].next /\ n[q].prev = mem[q].prev
                              /\ (q # p => n[q].used = mem[q].used)
  <2> DEFINE u == FALSE
  <2>1. u \in BOOLEAN /\ n = Marks(mem, p, u)
    BY DEF Marks
  <2> HIDE DEF n, u
  <2>2. /\ Linked(n, C) /\ n[p].used = u
        /\ \A q \in Addresses : n[q].next = mem[q].next /\ n[q].prev = mem[q].prev
                              /\ (q # p => n[q].used = mem[q].used)
    BY <1>1, <2>1, Marked
  <2> QED BY <2>2 DEF u
<1>3. r = plug_holes(s, p) /\ s.mem = n /\ s.lfree = lf
  OBVIOUS
<1> HIDE DEF n, s, lf
<1>4. Uses(n, C, W)
  BY <1>1, <1>2, SoundFacts DEF Uses
<1>5. Points(n, C, lf)
  <2>1. lfree = heap_end \/ (lfree \in Fore(C) /\ ~mem[lfree].used /\ lfree \in Addresses)
    BY SoundFacts DEF Points
  <2> QED BY <1>1, <1>2, <2>1 DEF Points, lf
<1>6. Apart(n, C, p)
  <2> SUFFICES ASSUME NEW q \in Fore(C) \ {p}, ~n[q].used, n[q].next \notin {heap_end, p}
               PROVE  n[n[q].next].used
    BY DEF Apart
  <2>1. q \in Addresses /\ mem[q].next \in Addresses
    BY SoundFacts
  <2>2. ~mem[q].used /\ n[q].next = mem[q].next
    BY <1>2, <2>1
  <2>3. mem[mem[q].next].used
    BY <2>2, SoundFacts
  <2> QED BY <1>2, <2>1, <2>2, <2>3
<1>7. Restores(n, r, W)
  <2>1. Linked(s.mem, C) /\ ~s.mem[p].used /\ Uses(s.mem, C, W) /\ Points(s.mem, C, s.lfree) /\ Apart(s.mem, C, p)
    BY <1>2, <1>3, <1>4, <1>5, <1>6
  <2> HIDE DEF W
  <2>2. Restores(s.mem, r, W)
    BY <1>1, <1>3, <2>1, Plugs
  <2> QED BY <1>3, <2>2
<1>8. \A q \in W : n[q].next = mem[q].next
  BY <1>2, SoundFacts
<1> HIDE DEF W
<1>9. Restores(mem, r, W)
  BY <1>7, <1>8 DEF Restores
<1> QED BY <1>9 DEF W

Shrunk(r, U, p, size) ==
  \E n : /\ Restores(n, r, U) /\ n[p].next = p + 1 + size /\ p + 1 + size < mem[p].next
         /\ \A q \in U \ {p} : n[q].next = mem[q].next
LEMMA ShrinksBlock ==
  ASSUME NEW C, NEW U, Sound(mem, C, lfree, U), NEW p \in U, NEW size \in Nat \ {0}, shrinks(room(p), size),
         NEW r, r = plug_holes([mem |-> cut(p, size, TRUE), lfree |-> lfree], p + SIZEOF_STRUCT_MEM + size)
  PROVE  Shrunk(r, U, p, size)
<1> DEFINE n == cut(p, size, TRUE)
           z == p + SIZEOF_STRUCT_MEM + size
           x == mem[p].next
           s == [mem |-> n, lfree |-> lfree]
           B == C \cup {z}
           u == TRUE
<1>1. /\ p \in Fore(C) /\ mem[p].used /\ p \in Addresses /\ Linked(mem, C) /\ p \in Nat /\ x \in Nat
      /\ \A q \in Fore(C) : q \in Addresses
  BY SoundFacts
<1>2. z < x /\ z = p + 1 + size /\ size \in Nat /\ u \in BOOLEAN
  <2>1. size + 1 + 1 < x - (p + 1)
    BY DEF shrinks, room, SIZEOF_STRUCT_MEM, MIN_SIZE
  <2> HIDE DEF x
  <2> QED BY <1>1, <2>1 DEF SIZEOF_STRUCT_MEM
<1>3. /\ Linked(n, B) /\ z \notin C /\ z \in Fore(B) /\ z = p + 1 + size
      /\ n[p].next = z /\ n[z].next = x /\ n[p].used = u /\ ~n[z].used /\ n[z].prev = p
      /\ \A q \in Addresses \ {p, z} : n[q].used = mem[q].used /\ n[q].next = mem[q].next
  <2>1. z = p + SIZEOF_STRUCT_MEM + size /\ x = mem[p].next /\ n = cut(p, size, u)
    OBVIOUS
  <2> HIDE DEF n, z, x, B, u
  <2>2. /\ Linked(n, C \cup {z}) /\ z \notin C /\ z \in Fore(C \cup {z}) /\ z = p + 1 + size
        /\ n[p].next = z /\ n[z].next = x /\ n[p].used = u /\ ~n[z].used /\ n[z].prev = p
        /\ \A q \in Addresses \ {p, z} : n[q].used = mem[q].used /\ n[q].next = mem[q].next
    BY <1>1, <1>2, <2>1, CutIn
  <2> QED BY <2>2 DEF B
<1>4. r = plug_holes(s, z) /\ s.mem = n /\ s.lfree = lfree
  OBVIOUS
<1> HIDE DEF n, s, z
<1>5. \A q : q \in Fore(B) <=> q \in Fore(C) \/ q = z
  BY <1>3 DEF Fore
<1>6. Uses(n, B, U)
  <2>1. ASSUME NEW q \in U PROVE q \in Fore(B) /\ n[q].used
    <3>1. q \in Fore(C) /\ mem[q].used /\ q \in Addresses /\ q \in C
      BY SoundFacts
    <3>2. q # z
      BY <1>3, <3>1
    <3>3. n[q].used
      BY <1>3, <3>1, <3>2
    <3> QED BY <1>5, <3>1, <3>3
  <2>2. ASSUME NEW q \in Fore(B), n[q].used PROVE q \in U
    <3>1. q \in Fore(C) /\ q # z /\ q \in Addresses
      BY <1>1, <1>3, <1>5, <2>2
    <3>2. mem[q].used
      BY <1>1, <1>3, <2>2, <3>1
    <3> QED BY <3>1, <3>2, SoundFacts
  <2> QED BY <2>1, <2>2 DEF Uses
<1>7. Points(n, B, lfree)
  <2>1. lfree = heap_end \/ (lfree \in Fore(C) /\ ~mem[lfree].used /\ lfree \in Addresses /\ lfree \in C)
    BY SoundFacts DEF Points
  <2>2. CASE lfree \in Fore(C) /\ ~mem[lfree].used /\ lfree \in Addresses /\ lfree \in C
    <3>1. lfree \notin {p, z} /\ lfree \in Fore(B)
      BY <1>1, <1>3, <1>5, <2>2
    <3> QED BY <1>3, <2>2, <3>1 DEF Points
  <2> QED BY <2>1, <2>2 DEF Points
<1>8. Apart(n, B, z)
  <2> SUFFICES ASSUME NEW q \in Fore(B) \ {z}, ~n[q].used, n[q].next \notin {heap_end, z}
               PROVE  n[n[q].next].used
    BY DEF Apart
  <2>1. q \in Fore(C) /\ q # p /\ q \in Addresses
    BY <1>1, <1>3, <1>5
  <2>2. ~mem[q].used /\ n[q].next = mem[q].next /\ mem[q].next \in Addresses
    BY <1>3, <2>1, SoundFacts
  <2>3. mem[mem[q].next].used
    BY <2>1, <2>2, SoundFacts
  <2>4. CASE mem[q].next = p
    BY <1>3, <2>2, <2>4
  <2>5. CASE mem[q].next # p
    BY <1>3, <2>2, <2>3, <2>5
  <2> QED BY <2>4, <2>5
<1>9. Restores(n, r, U)
  <2>1. Linked(s.mem, B) /\ ~s.mem[z].used /\ Uses(s.mem, B, U) /\ Points(s.mem, B, s.lfree) /\ Apart(s.mem, B, z)
    BY <1>3, <1>4, <1>6, <1>7, <1>8
  <2> HIDE DEF B
  <2>2. Restores(s.mem, r, U)
    BY <1>3, <1>4, <2>1, Plugs
  <2> QED BY <1>4, <2>2
<1>10. \A q \in U \ {p} : n[q].next = mem[q].next
  BY <1>1, <1>3, SoundFacts
<1> QED BY <1>2, <1>3, <1>9, <1>10 DEF Shrunk

(* Where the search for memory ends, and the search for the next free.      *)
LEMMA FoundFits ==
  ASSUME NEW C, NEW U, Sound(mem, C, lfree, U), NEW size \in Nat, NEW p, p = found(size), p # NONE
  PROVE  p \in Fore(C) /\ ~mem[p].used /\ room(p) >= size
<1> DEFINE val == [q \in Addresses |-> IF q >= MemSize - size THEN NONE ELSE q]
           stop == {q \in Addresses : q >= MemSize - size \/ (~mem[q].used /\ room(q) >= size)}
           R == Addresses \cup {NONE}
           Turn(f) == [q \in Addresses |-> IF q >= MemSize - size THEN NONE
                                           ELSE IF ~mem[q].used /\ room(q) >= size THEN q
                                           ELSE f[mem[q].next]]
           Same(f) == Search(mem, stop, val, f)
           from == CHOOSE f : f = Turn(f)
<1>1. Linked(mem, C) /\ lfree \in C
  BY SoundFacts
<1>2. stop \in SUBSET Addresses /\ heap_end \in stop /\ val \in [Addresses -> R]
  BY EndFacts
<1>3. /\ \E f : Same(f)
      /\ \A f : Same(f) => \A c \in C : \E q \in C \cap stop : q >= c /\ f[c] = val[q]
  <2> HIDE DEF val, stop, R
  <2>1. Finds(mem, C, stop, val)
    BY <1>1, <1>2, SearchFinds
  <2> QED BY <2>1 DEF Finds
<1>4. \A f : Same(f) <=> f = Turn(f)
  BY DEF Search
<1>5. Same(from)
  <2>1. \E f : f = Turn(f)
    BY <1>3, <1>4
  <2>2. from = Turn(from)
    <3> HIDE DEF Turn, Same
    <3> QED BY <2>1
  <2> QED BY <1>4, <2>2
<1>6. p = from[lfree]
  BY DEF found, Addresses
<1> HIDE DEF from
<1>7. PICK q \in C \cap stop : from[lfree] = val[q]
  <2> HIDE DEF stop, val
  <2> QED BY <1>1, <1>3, <1>5
<1>8. q \in Addresses /\ ~(q >= MemSize - size) /\ p = q
  BY <1>2, <1>6, <1>7
<1>9. ~mem[q].used /\ room(q) >= size
  BY <1>7, <1>8
<1>10. q # heap_end
  BY <1>1, <1>9 DEF Linked, Falls
<1> QED BY <1>7, <1>8, <1>9, <1>10 DEF Fore

LEMMA NextFreePoints ==
  ASSUME NEW m, NEW C, Linked(m, C), NEW p \in C
  PROVE  Points(m, C, next_free(m, p))
<1> DEFINE val == [q \in Addresses |-> q]
           stop == {q \in Addresses : ~m[q].used \/ q = heap_end}
           Turn(f) == [q \in Addresses |-> IF m[q].used /\ q # heap_end THEN f[m[q].next] ELSE q]
           Same(f) == Search(m, stop, val, f)
           from == CHOOSE f : f = Turn(f)
<1>2. stop \in SUBSET Addresses /\ heap_end \in stop /\ val \in [Addresses -> Addresses]
  BY EndFacts
<1>3. /\ \E f : Same(f)
      /\ \A f : Same(f) => \A c \in C : \E q \in C \cap stop : q >= c /\ f[c] = val[q]
  <2> DEFINE R == Addresses
  <2>1. val \in [Addresses -> R]
    BY <1>2
  <2> HIDE DEF val, stop, R
  <2>2. Finds(m, C, stop, val)
    BY <1>2, <2>1, SearchFinds
  <2> QED BY <2>2 DEF Finds
<1>4. \A f : Same(f) <=> f = Turn(f)
  BY DEF Search
<1>5. Same(from)
  <2>1. \E f : f = Turn(f)
    BY <1>3, <1>4
  <2>2. from = Turn(from)
    <3> HIDE DEF Turn, Same
    <3> QED BY <2>1
  <2> QED BY <1>4, <2>2
<1>6. next_free(m, p) = from[p]
  BY DEF next_free, Addresses
<1> HIDE DEF from
<1>7. PICK q \in C \cap stop : from[p] = val[q]
  <2> HIDE DEF stop, val
  <2> QED BY <1>3, <1>5
<1>8. q \in Addresses /\ next_free(m, p) = q /\ (~m[q].used \/ q = heap_end)
  BY <1>6, <1>7
<1> QED BY <1>7, <1>8 DEF Points, Fore

(* A block is taken, and what is too much for it is left as a free one.     *)
Taken(p, size) == IF room(p) >= size + split_at THEN cut(p, size, TRUE) ELSE [mem EXCEPT ![p].used = TRUE]
LEMMA TakesBlock ==
  ASSUME NEW C, NEW U, Sound(mem, C, lfree, U), NEW size \in Nat \ {0}, NEW p, p = found(size), p # NONE,
         NEW m, m = Taken(p, size), NEW lf, lf = IF p = lfree THEN next_free(m, p) ELSE lfree
  PROVE  /\ p \notin U /\ p \in Nat
         /\ m[p].next \in Nat /\ m[p].next >= p + 1 + size /\ m[p].next <= mem[p].next
         /\ \A q \in U : m[q].next = mem[q].next
         /\ \E B : Sound(m, B, lf, U \cup {p})
<1> DEFINE x == mem[p].next
           W == U \cup {p}
           u == TRUE
           z == p + SIZEOF_STRUCT_MEM + size
<1>1. p \in Fore(C) /\ ~mem[p].used /\ x - (p + 1) >= size /\ size \in Nat
  <2>1. size \in Nat
    OBVIOUS
  <2>2. p \in Fore(C) /\ ~mem[p].used /\ room(p) >= size
    BY <2>1, FoundFits
  <2> QED BY <2>2 DEF room, SIZEOF_STRUCT_MEM
<1>2. /\ p \notin U /\ p \in Nat /\ p \in Addresses /\ p \in C /\ x \in Nat /\ x \in Addresses /\ x > p
      /\ Linked(mem, C)
      /\ x # heap_end => mem[x].used
  BY <1>1, SoundFacts
<1>3. x >= p + 1 + size
  <2> HIDE DEF x
  <2> QED BY <1>1, <1>2
<1>4. \E B : /\ Linked(m, B) /\ Uses(m, B, W) /\ p \in Fore(B)
             /\ m[p].next >= p + 1 + size /\ m[p].next <= x /\ m[p].next \in Nat
             /\ \A q \in U : m[q].next = mem[q].next
             /\ \A q \in Fore(B) : ~m[q].used /\ m[q].next # heap_end => m[m[q].next].used
             /\ \A q \in Fore(C) \ {p} : q \in Fore(B) /\ m[q].used = mem[q].used
  <2>1. CASE room(p) >= size + split_at
    <3> DEFINE B == C \cup {z}
    <3>1. z < x /\ u \in BOOLEAN /\ m = cut(p, size, u)
      <4>1. x - (p + 1) >= size + (1 + 1)
        BY <2>1 DEF room, split_at, SIZEOF_STRUCT_MEM, MIN_SIZE
      <4> HIDE DEF x
      <4>2. z < x
        BY <1>1, <1>2, <4>1 DEF SIZEOF_STRUCT_MEM
      <4> QED BY <2>1, <4>2 DEF Taken
    <3>2. /\ Linked(m, B) /\ z \notin C /\ z \in Fore(B) /\ z = p + 1 + size
          /\ m[p].next = z /\ m[z].next = x /\ m[p].used = u /\ ~m[z].used /\ m[z].prev = p
          /\ \A q \in Addresses \ {p, z} : m[q].used = mem[q].used /\ m[q].next = mem[q].next
      <4>1. z = p + SIZEOF_STRUCT_MEM + size /\ x = mem[p].next
        OBVIOUS
      <4> HIDE DEF z, x, B, u
      <4>2. /\ Linked(m, C \cup {z}) /\ z \notin C /\ z \in Fore(C \cup {z}) /\ z = p + 1 + size
            /\ m[p].next = z /\ m[z].next = x /\ m[p].used = u /\ ~m[z].used /\ m[z].prev = p
            /\ \A q \in Addresses \ {p, z} : m[q].used = mem[q].used /\ m[q].next = mem[q].next
        <5>1. Linked(mem, C) /\ p \in Fore(C) /\ size \in Nat /\ u \in BOOLEAN /\ z < x /\ m = cut(p, size, u)
          BY <1>1, <1>2, <3>1
        <5> QED BY <4>1, <5>1, CutIn
      <4> QED BY <4>2 DEF B
    <3>3. \A q : q \in Fore(B) <=> q \in Fore(C) \/ q = z
      BY <3>2 DEF Fore
    <3>4. \A q \in Fore(C) : q \in Addresses /\ q \in C /\ q # z
      BY <3>2, SoundFacts
    <3> HIDE DEF z, x
    <3>5. p \in Fore(B) /\ m[p].next >= p + 1 + size /\ m[p].next <= x /\ m[p].next \in Nat
      <4>1. z \in Nat /\ z >= p + 1 + size /\ z <= x
        BY <1>1, <1>2, <3>1, <3>2
      <4> QED BY <1>1, <3>2, <3>3, <4>1
    <3>6. \A q \in Fore(C) \ {p} : q \in Fore(B) /\ m[q].used = mem[q].used /\ m[q].next = mem[q].next
      BY <3>2, <3>3, <3>4
    <3>7. \A q \in U : m[q].next = mem[q].next
      BY <1>2, <3>6, SoundFacts
    <3>8. Uses(m, B, W)
      <4>1. ASSUME NEW q \in W PROVE q \in Fore(B) /\ m[q].used
        <5>1. CASE q = p
          BY <3>2, <3>5, <5>1
        <5>2. CASE q # p
          <6>1. q \in Fore(C) /\ mem[q].used
            BY <5>2, SoundFacts
          <6> QED BY <3>6, <5>2, <6>1
        <5> QED BY <5>1, <5>2
      <4>2. ASSUME NEW q \in Fore(B), m[q].used PROVE q \in W
        <5>1. CASE q = p
          BY <5>1
        <5>2. CASE q # p
          <6>1. q \in Fore(C) /\ mem[q].used
            BY <3>2, <3>3, <3>6, <4>2, <5>2
          <6> QED BY <6>1, SoundFacts
        <5> QED BY <5>1, <5>2
      <4> HIDE DEF W
      <4> QED BY <4>1, <4>2 DEF Uses
    <3>9. ASSUME NEW q \in Fore(B), ~m[q].used, m[q].next # heap_end PROVE m[m[q].next].used
      <4>1. CASE q = z
        <5>1. x \notin {p, z}
          BY <1>2, <3>1, <3>2
        <5>2. x # heap_end /\ mem[x].used
          BY <1>2, <3>2, <3>9, <4>1
        <5>3. m[x].used = mem[x].used
          BY <1>2, <3>2, <5>1
        <5> QED BY <3>2, <4>1, <5>2, <5>3
      <4>2. CASE q # z
        <5>1. q \in Fore(C) \ {p}
          BY <3>2, <3>3, <3>9, <4>2
        <5>2. ~mem[q].used /\ m[q].next = mem[q].next
          BY <3>6, <3>9, <5>1
        <5>3. mem[mem[q].next].used /\ mem[q].next \in C /\ mem[q].next \in Addresses
          BY <3>9, <5>1, <5>2, SoundFacts
        <5>4. mem[q].next \notin {p, z}
          BY <1>1, <3>2, <5>3
        <5> QED BY <3>2, <5>2, <5>3, <5>4
      <4> QED BY <4>1, <4>2
    <3> HIDE DEF B, W
    <3> QED BY <3>2, <3>5, <3>6, <3>7, <3>8, <3>9
  <2>2. CASE ~(room(p) >= size + split_at)
    <3>1. m = Marks(mem, p, u) /\ u \in BOOLEAN
      BY <2>2 DEF Taken, Marks
    <3>2. /\ Linked(m, C) /\ m[p].used = u
          /\ \A q \in Addresses : m[q].next = mem[q].next /\ m[q].prev = mem[q].prev
                                  /\ (q # p => m[q].used = mem[q].used)
      <4> HIDE DEF u
      <4>1. Linked(mem, C) /\ p \in Fore(C)
        BY <1>1, <1>2
      <4> QED BY <3>1, <4>1, Marked
    <3>4. \A q \in Fore(C) : q \in Addresses /\ q \in C
      BY SoundFacts
    <3>5. m[p].next = x
      BY <1>2, <3>2
    <3>6. \A q \in Fore(C) \ {p} : m[q].used = mem[q].used /\ m[q].next = mem[q].next
      BY <3>2, <3>4
    <3>7. \A q \in U : m[q].next = mem[q].next
      BY <1>2, <3>6, SoundFacts
    <3>8. Uses(m, C, W)
      <4>1. \A q : q \in W <=> q \in Fore(C) /\ m[q].used
        BY <1>1, <3>2, <3>6, SoundFacts
      <4> HIDE DEF W
      <4> QED BY <4>1 DEF Uses
    <3>9. ASSUME NEW q \in Fore(C), ~m[q].used, m[q].next # heap_end PROVE m[m[q].next].used
      <4>1. q # p /\ m[q].next = mem[q].next /\ mem[q].next \in Addresses
        BY <3>2, <3>4, <3>9, SoundFacts
      <4>2. mem[mem[q].next].used
        BY <3>6, <3>9, <4>1, SoundFacts
      <4> QED BY <3>2, <4>1, <4>2
    <3>10. m[p].next >= p + 1 + size /\ m[p].next <= x /\ m[p].next \in Nat
      <4> HIDE DEF x
      <4> QED BY <1>2, <1>3, <3>5
    <3> HIDE DEF W, x
    <3> QED BY <1>1, <3>2, <3>6, <3>7, <3>8, <3>9, <3>10
  <2> QED BY <2>1, <2>2
<1>5. PICK B :
        /\ Linked(m, B) /\ Uses(m, B, W) /\ p \in Fore(B)
        /\ m[p].next >= p + 1 + size /\ m[p].next <= x /\ m[p].next \in Nat
        /\ \A q \in U : m[q].next = mem[q].next
        /\ \A q \in Fore(B) : ~m[q].used /\ m[q].next # heap_end => m[m[q].next].used
        /\ \A q \in Fore(C) \ {p} : q \in Fore(B) /\ m[q].used = mem[q].used
  BY <1>4
<1>6. Points(m, B, lf)
  <2>1. CASE p = lfree
    <3>1. p \in B
      BY <1>5 DEF Fore
    <3> QED BY <1>5, <2>1, <3>1, NextFreePoints
  <2>2. CASE p # lfree
    <3>1. lfree = heap_end \/ (lfree \in Fore(C) /\ ~mem[lfree].used)
      BY SoundFacts DEF Points
    <3>2. lfree \in Fore(C) \ {p} => lfree \in Fore(B) /\ m[lfree].used = mem[lfree].used
      BY <1>5
    <3> QED BY <2>2, <3>1, <3>2 DEF Points
  <2> QED BY <2>1, <2>2
<1>7. Sound(m, B, lf, W)
  BY <1>5, <1>6 DEF Sound
<1> QED BY <1>2, <1>5, <1>7

(***************************************************************************)
(* What callers hold, and how much memory that is.                          *)
(***************************************************************************)
Blocks(h) == {r.at - SIZEOF_STRUCT_MEM : r \in h}
Held(m, h) ==
  /\ \A r \in h : /\ r \in [at : Nat \ {0}, size : Nat \ {0}]
                  /\ r.at + r.size <= m[r.at - SIZEOF_STRUCT_MEM].next
  /\ \A r, s \in h : r.at = s.at => r = s
Extents(m, U) == UNION {p .. (m[p].next - 1) : p \in U}
Books(m, lf, h, n) ==
  \E C : Sound(m, C, lf, Blocks(h)) /\ Held(m, h) /\ n = Cardinality(Extents(m, Blocks(h)))

(* The extents of two blocks have no address in common, so the memory in    *)
(* use is the sum of them.                                                  *)
LEMMA ExtentsDisjoint ==
  ASSUME NEW m, NEW C, Linked(m, C), NEW p \in Fore(C), NEW q \in Fore(C), p # q
  PROVE  (p .. (m[p].next - 1)) \cap (q .. (m[q].next - 1)) = {}
<1> DEFINE x == m[p].next
           y == m[q].next
<1>1. p \in Nat /\ q \in Nat /\ x \in Nat /\ y \in Nat /\ p \in C /\ q \in C
  BY HeaderFacts DEF Linked
<1>2. (q <= p \/ q >= x) /\ (p <= q \/ p >= y) /\ x > p /\ y > q
  BY <1>1 DEF Linked
<1> HIDE DEF x, y
<1>3. q >= x \/ p >= y
  BY <1>1, <1>2
<1>4. (p .. (x - 1)) \cap (q .. (y - 1)) = {}
  BY <1>1, <1>3
<1> QED BY <1>4 DEF x, y

LEMMA IntervalGrows ==
  ASSUME NEW A, IsFiniteSet(A), NEW lo \in Nat, NEW hi \in Nat, lo < hi, A \cap (lo .. (hi - 1)) = {}
  PROVE  /\ IsFiniteSet(A \cup (lo .. (hi - 1)))
         /\ Cardinality(A \cup (lo .. (hi - 1))) = Cardinality(A) + (hi - lo)
<1> DEFINE I == lo .. (hi - 1)
<1>1. IsFiniteSet(I) /\ Cardinality(I) = hi - lo
  <2>1. lo \in Int /\ hi - 1 \in Int /\ ~(lo > hi - 1)
    OBVIOUS
  <2>2. IsFiniteSet(I) /\ Cardinality(I) = IF lo > hi - 1 THEN 0 ELSE (hi - 1) - lo + 1
    BY <2>1, FS_Interval
  <2> HIDE DEF I
  <2>3. (hi - 1) - lo + 1 = hi - lo
    OBVIOUS
  <2> QED BY <2>1, <2>2, <2>3
<1>2. A \cap I = {}
  OBVIOUS
<1> HIDE DEF I
<1>3. IsFiniteSet(A \cup I) /\ Cardinality(A \cup I) = Cardinality(A) + Cardinality(I) - Cardinality(A \cap I)
  BY <1>1, FS_Union
<1>4. Cardinality(A \cap I) = 0
  BY <1>2, FS_EmptySet
<1>5. Cardinality(A) \in Nat
  BY FS_CardinalityType
<1>6. Cardinality(A \cup I) = Cardinality(A) + (hi - lo)
  BY <1>1, <1>3, <1>4, <1>5
<1> QED BY <1>3, <1>6 DEF I

LEMMA ExtentsSum ==
  ASSUME NEW m, NEW C, Linked(m, C), NEW U, U \subseteq Fore(C), NEW p \in U
  PROVE  /\ Cardinality(Extents(m, U \ {p})) \in Nat
         /\ Cardinality(Extents(m, U)) = Cardinality(Extents(m, U \ {p})) + (m[p].next - p)
<1> DEFINE A == Extents(m, U \ {p})
           x == m[p].next
<1>1. p \in Fore(C) /\ p \in Nat /\ x \in Nat /\ p < x
  BY HeaderFacts DEF Linked
<1>2. A \subseteq Addresses
  <2> SUFFICES ASSUME NEW q \in U \ {p}, NEW a \in q .. (m[q].next - 1) PROVE a \in Addresses
    BY DEF Extents
  <2>1. q \in Nat /\ m[q].next \in Nat /\ m[q].next <= heap_end
    BY HeaderFacts, EndFacts
  <2> QED BY <2>1, EndFacts DEF Addresses
<1>3. IsFiniteSet(A)
  <2>1. IsFiniteSet(Addresses)
    BY EndFacts, FS_Interval DEF Addresses
  <2> HIDE DEF A
  <2> QED BY <1>2, <2>1, FS_Subset
<1>4. A \cap (p .. (x - 1)) = {}
  <2>1. \A q \in U \ {p} : (q .. (m[q].next - 1)) \cap (p .. (x - 1)) = {}
    BY <1>1, ExtentsDisjoint
  <2> QED BY <2>1 DEF Extents
<1>5. Extents(m, U) = A \cup (p .. (x - 1))
  BY DEF Extents
<1> HIDE DEF A, x
<1>6. Cardinality(A \cup (p .. (x - 1))) = Cardinality(A) + (x - p)
  BY <1>1, <1>3, <1>4, IntervalGrows
<1>7. Cardinality(A) \in Nat
  BY <1>3, FS_CardinalityType
<1>8. Cardinality(A) \in Nat /\ Cardinality(Extents(m, U)) = Cardinality(A) + (x - p)
  BY <1>5, <1>6, <1>7
<1> QED BY <1>8 DEF A, x

LEMMA ExtentsSame ==
  ASSUME NEW m, NEW n, NEW U, \A q \in U : n[q].next = m[q].next
  PROVE  Extents(n, U) = Extents(m, U)
BY DEF Extents

LEMMA BlocksFacts ==
  ASSUME NEW m, NEW h, Held(m, h)
  PROVE  /\ \A r \in h : r.at \in Nat \ {0} /\ r.size \in Nat \ {0} /\ r.at - SIZEOF_STRUCT_MEM \in Blocks(h)
         /\ \A p \in Blocks(h) : \E r \in h : r.at - SIZEOF_STRUCT_MEM = p
         /\ \A r \in h : Blocks(h \ {r}) = Blocks(h) \ {r.at - SIZEOF_STRUCT_MEM}
<1>1. \A r \in h : r.at \in Nat \ {0} /\ r.size \in Nat \ {0}
  BY DEF Held
<1>2. ASSUME NEW r \in h PROVE Blocks(h \ {r}) = Blocks(h) \ {r.at - SIZEOF_STRUCT_MEM}
  <2>1. \A s \in h : s # r => s.at - SIZEOF_STRUCT_MEM # r.at - SIZEOF_STRUCT_MEM
    <3> SUFFICES ASSUME NEW s \in h, s # r PROVE s.at - 1 # r.at - 1
      BY DEF SIZEOF_STRUCT_MEM
    <3>1. s.at # r.at /\ s.at \in Nat /\ r.at \in Nat
      BY <1>1 DEF Held
    <3> QED BY <3>1
  <2> QED BY <2>1 DEF Blocks
<1> QED BY <1>1, <1>2 DEF Blocks

(***************************************************************************)
(* Each operation keeps the books.                                          *)
(***************************************************************************)
LEMMA TakesKeep ==
  ASSUME Books(mem, lfree, held, used_mem), NEW size \in MemSizes, malloc(size)
  PROVE  /\ Books(mem', lfree', held', used_mem')
         /\ \E r \in held' : r \notin held /\ held' = held \cup {r}
<1> DEFINE p == found(size)
           m == Taken(p, size)
           lf == IF p = lfree THEN next_free(m, p) ELSE lfree
           n == used_mem + (m[p].next - p)
           r == [at |-> p + SIZEOF_STRUCT_MEM, size |-> size]
           h == held \cup {r}
           U == Blocks(held)
<1>1. p # NONE /\ mem' = m /\ lfree' = lf /\ used_mem' = n /\ held' = h
  BY DEF malloc, Taken
<1>2. PICK C : Sound(mem, C, lfree, U) /\ Held(mem, held) /\ used_mem = Cardinality(Extents(mem, U))
  BY DEF Books
<1>3. size \in Nat \ {0}
  BY MemAssumption
<1> HIDE DEF p, m, lf, U
<1>4. /\ p \notin U /\ p \in Nat
      /\ m[p].next \in Nat /\ m[p].next >= p + 1 + size /\ m[p].next <= mem[p].next
      /\ \A q \in U : m[q].next = mem[q].next
      /\ \E B : Sound(m, B, lf, U \cup {p})
  <2>1. p = found(size) /\ m = Taken(p, size) /\ lf = (IF p = lfree THEN next_free(m, p) ELSE lfree)
    BY DEF p, m, lf
  <2> QED BY <1>1, <1>2, <1>3, <2>1, TakesBlock
<1>5. r.at = p + 1 /\ r.size = size /\ r.at - SIZEOF_STRUCT_MEM = p /\ r \in [at : Nat \ {0}, size : Nat \ {0}]
  BY <1>3, <1>4 DEF SIZEOF_STRUCT_MEM
<1> HIDE DEF r
<1>6. Blocks(h) = U \cup {p}
  BY <1>5 DEF Blocks, U
<1>7. \A s \in held : s.at - SIZEOF_STRUCT_MEM \in U /\ s.at \in Nat \ {0} /\ s.at # r.at
  <2>1. \A s \in held : s.at - SIZEOF_STRUCT_MEM \in U /\ s.at \in Nat \ {0}
    BY <1>2, BlocksFacts DEF U
  <2>2. \A s \in held : s.at = r.at => s.at - SIZEOF_STRUCT_MEM = p
    BY <1>5
  <2> QED BY <1>4, <2>1, <2>2
<1>8. Held(m, h)
  <2>1. ASSUME NEW s \in h PROVE s \in [at : Nat \ {0}, size : Nat \ {0}] /\ s.at + s.size <= m[s.at - SIZEOF_STRUCT_MEM].next
    <3>1. CASE s = r
      <4>1. p + 1 + size <= m[p].next
        BY <1>4
      <4> QED BY <1>5, <3>1, <4>1
    <3>2. CASE s \in held
      BY <1>2, <1>4, <1>7, <3>2 DEF Held
    <3> QED BY <3>1, <3>2
  <2>2. ASSUME NEW s \in h, NEW t \in h, s.at = t.at PROVE s = t
    BY <1>2, <1>7, <2>2 DEF Held
  <2> QED BY <2>1, <2>2 DEF Held
<1>9. PICK B : Sound(m, B, lf, U \cup {p})
  BY <1>4
<1>10. n = Cardinality(Extents(m, U \cup {p}))
  <2> DEFINE W == U \cup {p}
  <2>1. Linked(m, B) /\ W \subseteq Fore(B) /\ p \in W
    BY <1>9, SoundFacts
  <2>2. W \ {p} = U
    BY <1>4
  <2> HIDE DEF W
  <2>3. Cardinality(Extents(m, W)) = Cardinality(Extents(m, U)) + (m[p].next - p)
    BY <2>1, <2>2, ExtentsSum
  <2>4. Extents(m, U) = Extents(mem, U)
    BY <1>4, ExtentsSame
  <2> QED BY <1>2, <2>3, <2>4 DEF W
<1> HIDE DEF h, n
<1>11. Books(m, lf, h, n)
  BY <1>6, <1>8, <1>9, <1>10 DEF Books
<1>12. r \in h /\ r \notin held /\ h = held \cup {r}
  BY <1>7 DEF h
<1> QED BY <1>1, <1>11, <1>12

LEMMA FreesKeep ==
  ASSUME Books(mem, lfree, held, used_mem), NEW r \in held, freed(r)
  PROVE  Books(mem', lfree', held', used_mem') /\ held' = held \ {r}
<1> DEFINE p == r.at - SIZEOF_STRUCT_MEM
           s == plug_holes([mem |-> [mem EXCEPT ![p].used = FALSE],
                            lfree |-> IF p < lfree THEN p ELSE lfree], p)
           U == Blocks(held)
           h == held \ {r}
           n == used_mem - (mem[p].next - p)
<1>1. mem' = s.mem /\ lfree' = s.lfree /\ used_mem' = n /\ held' = h
  BY DEF freed
<1>2. PICK C : Sound(mem, C, lfree, U) /\ Held(mem, held) /\ used_mem = Cardinality(Extents(mem, U))
  BY DEF Books
<1>3. p \in U /\ Blocks(h) = U \ {p}
  BY <1>2, BlocksFacts
<1>4. Restores(mem, s, U \ {p})
  <2> DEFINE q == p
  <2>1. s = plug_holes([mem |-> [mem EXCEPT ![q].used = FALSE],
                        lfree |-> IF q < lfree THEN q ELSE lfree], q)
    OBVIOUS
  <2>2. q = p
    OBVIOUS
  <2> HIDE DEF U, q, s
  <2>3. Restores(mem, s, U \ {q})
    BY <1>2, <1>3, <2>1, <2>2, FreesBlock
  <2> QED BY <2>3 DEF q
<1> HIDE DEF s, U
<1>5. PICK E : Sound(s.mem, E, s.lfree, U \ {p}) /\ \A q \in U \ {p} : s.mem[q].next = mem[q].next
  BY <1>4 DEF Restores
<1>6. Held(s.mem, h)
  <2>1. ASSUME NEW t \in h PROVE t \in [at : Nat \ {0}, size : Nat \ {0}] /\ t.at + t.size <= s.mem[t.at - SIZEOF_STRUCT_MEM].next
    <3>1. t \in held /\ t \in [at : Nat \ {0}, size : Nat \ {0}] /\ t.at + t.size <= mem[t.at - SIZEOF_STRUCT_MEM].next
      BY <1>2 DEF Held
    <3>2. t.at - SIZEOF_STRUCT_MEM \in U \ {p}
      BY <1>3 DEF Blocks
    <3> QED BY <1>5, <3>1, <3>2
  <2>2. \A t, o \in h : t.at = o.at => t = o
    BY <1>2 DEF Held
  <2> QED BY <2>1, <2>2 DEF Held
<1>7. n = Cardinality(Extents(s.mem, U \ {p}))
  <2> DEFINE c == Cardinality(Extents(mem, U \ {p}))
  <2>1. Linked(mem, C) /\ U \subseteq Fore(C)
    BY <1>2, SoundFacts
  <2> HIDE DEF p
  <2>2. c \in Nat /\ used_mem = c + (mem[p].next - p)
    BY <1>2, <1>3, <2>1, ExtentsSum
  <2>3. Extents(s.mem, U \ {p}) = Extents(mem, U \ {p})
    BY <1>5, ExtentsSame
  <2>4. mem[p].next \in Nat /\ p \in Nat
    BY <1>2, <1>3, SoundFacts
  <2>5. n = c
    <3> HIDE DEF c
    <3> QED BY <2>2, <2>4
  <2> QED BY <2>3, <2>5
<1> HIDE DEF h, n
<1>8. Books(s.mem, s.lfree, h, n)
  BY <1>3, <1>5, <1>6, <1>7 DEF Books
<1> QED BY <1>1, <1>8 DEF h

Shrink(r, size) ==
  LET p == r.at - SIZEOF_STRUCT_MEM
      s == plug_holes([mem |-> cut(p, size, TRUE), lfree |-> lfree], p + SIZEOF_STRUCT_MEM + size)
  IN  /\ shrinks(room(p), size)
      /\ mem' = s.mem /\ lfree' = s.lfree
      /\ used_mem' = used_mem - (room(p) - size)
      /\ held' = (held \ {r}) \cup {[r EXCEPT !.size = size]}
LEMMA ShrinksKeep ==
  ASSUME Books(mem, lfree, held, used_mem), NEW r \in held, NEW size \in MemSizes, Shrink(r, size)
  PROVE  /\ Books(mem', lfree', held', used_mem')
         /\ \E o \in held' : o.at = r.at /\ held' = (held \ {r}) \cup {o}
<1> DEFINE p == r.at - SIZEOF_STRUCT_MEM
           s == plug_holes([mem |-> cut(p, size, TRUE), lfree |-> lfree], p + SIZEOF_STRUCT_MEM + size)
           U == Blocks(held)
           o == [r EXCEPT !.size = size]
           h == (held \ {r}) \cup {o}
           n == used_mem - (room(p) - size)
<1>1. mem' = s.mem /\ lfree' = s.lfree /\ used_mem' = n /\ held' = h /\ shrinks(room(p), size)
  BY DEF Shrink
<1>2. PICK C : Sound(mem, C, lfree, U) /\ Held(mem, held) /\ used_mem = Cardinality(Extents(mem, U))
  BY DEF Books
<1>3. p \in U /\ \A t \in held : t.at - SIZEOF_STRUCT_MEM \in U
  BY <1>2, BlocksFacts
<1>4. size \in Nat \ {0} /\ r \in [at : Nat \ {0}, size : Nat \ {0}]
  BY <1>2, MemAssumption DEF Held
<1>5. o \in [at : Nat \ {0}, size : Nat \ {0}] /\ o.at = r.at /\ o.size = size
  BY <1>4
<1>6. p \in Nat /\ r.at = p + 1
  BY <1>4 DEF SIZEOF_STRUCT_MEM
<1>7. \E m : /\ Restores(m, s, U) /\ m[p].next = p + 1 + size /\ p + 1 + size < mem[p].next
             /\ \A q \in U \ {p} : m[q].next = mem[q].next
  <2> DEFINE q == p
  <2>1. s = plug_holes([mem |-> cut(q, size, TRUE), lfree |-> lfree], q + SIZEOF_STRUCT_MEM + size)
    OBVIOUS
  <2>2. q \in U /\ shrinks(room(q), size)
    BY <1>1, <1>3
  <2> HIDE DEF U, q, s
  <2>3. Shrunk(s, U, q, size)
    BY <1>2, <1>4, <2>1, <2>2, ShrinksBlock
  <2> QED BY <2>3 DEF q, Shrunk
<1> HIDE DEF s, U
<1>8. PICK E : /\ Sound(s.mem, E, s.lfree, U) /\ s.mem[p].next = p + 1 + size
               /\ \A q \in U \ {p} : s.mem[q].next = mem[q].next
  BY <1>3, <1>7 DEF Restores
<1> HIDE DEF o
<1>9. Blocks(h) = U
  <2>1. \A t : t \in h <=> (t \in held /\ t # r) \/ t = o
    OBVIOUS
  <2>2. Blocks(h) \subseteq U
    <3> HIDE DEF h
    <3> QED BY <1>3, <1>5, <2>1 DEF Blocks
  <2>3. U \subseteq Blocks(h)
    <3> HIDE DEF h
    <3> QED BY <1>5, <2>1 DEF Blocks, U
  <2> QED BY <2>2, <2>3
<1>10. Held(s.mem, h)
  <2>0. \A t \in held \ {r} : t.at # r.at
    BY <1>2 DEF Held
  <2>1. ASSUME NEW t \in h PROVE t \in [at : Nat \ {0}, size : Nat \ {0}] /\ t.at + t.size <= s.mem[t.at - SIZEOF_STRUCT_MEM].next
    <3>1. CASE t = o
      <4>1. t.at - SIZEOF_STRUCT_MEM = p
        BY <1>5, <3>1
      <4>2. t.at + t.size = p + 1 + size
        BY <1>4, <1>5, <1>6, <3>1
      <4>3. p + 1 + size <= p + 1 + size
        BY <1>4, <1>6
      <4> QED BY <1>5, <1>8, <3>1, <4>1, <4>2, <4>3
    <3>2. CASE t \in held \ {r}
      <4>1. t \in [at : Nat \ {0}, size : Nat \ {0}] /\ t.at + t.size <= mem[t.at - SIZEOF_STRUCT_MEM].next
        BY <1>2, <3>2 DEF Held
      <4>2. t.at - SIZEOF_STRUCT_MEM # p
        <5>1. t.at # r.at /\ t.at \in Nat /\ r.at \in Nat
          BY <1>4, <2>0, <3>2, <4>1
        <5> QED BY <5>1 DEF SIZEOF_STRUCT_MEM
      <4> QED BY <1>3, <1>8, <3>2, <4>1, <4>2
    <3> QED BY <3>1, <3>2
  <2>2. ASSUME NEW t \in h, NEW i \in h, t.at = i.at PROVE t = i
    BY <1>2, <1>5, <2>0, <2>2 DEF Held
  <2> QED BY <2>1, <2>2 DEF Held
<1>11. n = Cardinality(Extents(s.mem, U))
  <2> HIDE DEF p
  <2> DEFINE c == Cardinality(Extents(mem, U \ {p}))
             x == mem[p].next
  <2>1. Linked(mem, C) /\ U \subseteq Fore(C) /\ Linked(s.mem, E) /\ U \subseteq Fore(E)
    BY <1>2, <1>8, SoundFacts
  <2>2. c \in Nat /\ used_mem = c + (x - p)
    BY <1>2, <1>3, <2>1, ExtentsSum
  <2>3. Extents(s.mem, U \ {p}) = Extents(mem, U \ {p})
    BY <1>8, ExtentsSame
  <2>4. Cardinality(Extents(s.mem, U)) = c + ((p + 1 + size) - p)
    BY <1>3, <1>8, <2>1, <2>3, ExtentsSum
  <2>5. x \in Nat
    BY <1>2, <1>3, SoundFacts
  <2>6. room(p) = x - (p + 1)
    BY DEF room, SIZEOF_STRUCT_MEM
  <2>7. used_mem - (x - (p + 1) - size) = c + ((p + 1 + size) - p)
    <3> HIDE DEF c, x
    <3> QED BY <1>4, <1>6, <2>2, <2>5
  <2> QED BY <2>4, <2>6, <2>7
<1> HIDE DEF h, n
<1>12. Books(s.mem, s.lfree, h, n)
  BY <1>8, <1>9, <1>10, <1>11 DEF Books
<1>13. o \in h /\ h = (held \ {r}) \cup {o}
  BY DEF h
<1> QED BY <1>1, <1>5, <1>12, <1>13

(***************************************************************************)
(* The inductive invariant: the books are right, and a block rt_realloc     *)
(* is moving is one its caller still holds.                                 *)
(***************************************************************************)
Moves == \/ moving = NONE
         \/ \E o \in held, size \in MemSizes : \E new : moving = [old |-> o, size |-> size, new |-> new]
MemInv == Books(mem, lfree, held, used_mem) /\ Moves

LEMMA MemStarts == ASSUME MemInit PROVE MemInv
<1> DEFINE C == {0, heap_end}
<1>1. /\ mem \in Heap /\ mem[0] = [used |-> FALSE, next |-> heap_end, prev |-> 0]
      /\ mem[heap_end] = [used |-> TRUE, next |-> heap_end, prev |-> heap_end]
      /\ \A a \in Addresses \ {0, heap_end} : mem[a] = Junk
  <2>1. mem = [a \in Addresses |-> CASE a = 0 -> [used |-> FALSE, next |-> heap_end, prev |-> 0]
                                     [] a = heap_end -> [used |-> TRUE, next |-> heap_end, prev |-> heap_end]
                                     [] OTHER -> Junk]
    BY DEF MemInit, Addresses
  <2>2. Junk \in Headers /\ [used |-> FALSE, next |-> heap_end, prev |-> 0] \in Headers
        /\ [used |-> TRUE, next |-> heap_end, prev |-> heap_end] \in Headers
    BY EndFacts DEF Headers, Junk
  <2>3. 0 # heap_end /\ 0 \in Addresses /\ heap_end \in Addresses
    BY EndFacts
  <2> QED BY <2>1, <2>2, <2>3 DEF Heap
<1>2. Fore(C) = {0} /\ C \subseteq Addresses
  BY EndFacts DEF Fore
<1>3. Falls(mem)
  <2>1. HasNext(mem, 0) /\ HasNext(mem, heap_end) /\ mem[heap_end].used
    BY <1>1, EndFacts DEF HasNext
  <2>2. ASSUME NEW p \in Addresses PROVE IF HasNext(mem, p) THEN HasNext(mem, mem[p].next) ELSE mem[p].next = 0
    <3>1. CASE p \in {0, heap_end}
      BY <1>1, <2>1, <3>1
    <3>2. CASE p \notin {0, heap_end}
      <4>1. mem[p].next = 0
        BY <1>1, <3>2 DEF Junk
      <4> QED BY <2>1, <4>1
    <3> QED BY <3>1, <3>2
  <2> QED BY <1>1, <2>1, <2>2 DEF Falls
<1>4. Linked(mem, C)
  <2>1. \A p \in Fore(C) : /\ mem[p].next \in C /\ mem[p].next > p
                            /\ \A c \in C : c <= p \/ c >= mem[p].next
    BY <1>1, <1>2, EndFacts
  <2> QED BY <1>1, <1>2, <1>3, <2>1 DEF Linked
<1>5. Blocks(held) = {} /\ Held(mem, held)
  BY DEF MemInit, Blocks, Held
<1>6. Sound(mem, C, lfree, {})
  <2>1. lfree = 0
    BY DEF MemInit
  <2> QED BY <1>1, <1>2, <1>4, <2>1 DEF Sound, Uses, Points
<1>7. used_mem = Cardinality(Extents(mem, {}))
  <2>1. Extents(mem, {}) = {}
    BY DEF Extents
  <2> QED BY <2>1, FS_EmptySet DEF MemInit
<1>8. Books(mem, lfree, held, used_mem)
  <2> HIDE DEF C
  <2> QED BY <1>5, <1>6, <1>7 DEF Books
<1> QED BY <1>8 DEF MemInv, Moves, MemInit

(* What a step does to the regions in the hands of callers.                 *)
Trades(h, g) ==
  \/ g = h
  \/ \E r \in g : r \notin h /\ g = h \cup {r}
  \/ \E r \in h : g = h \ {r}
  \/ \E r \in h : \E o \in g : o.at = r.at /\ g = (h \ {r}) \cup {o}

LEMMA MemSteps ==
  ASSUME MemInv, MemNext
  PROVE  MemInv' /\ Trades(held, held')
<1> USE DEF MemInv
<1>0. \A r \in Mine : r \in held /\ (moving # NONE => r # moving.old)
  BY DEF Mine
<1>1. CASE rt_malloc
  <2>1. PICK size \in MemSizes : malloc(size) /\ moving' = moving
    BY <1>1 DEF rt_malloc
  <2>2. /\ Books(mem', lfree', held', used_mem')
        /\ \E r \in held' : r \notin held /\ held' = held \cup {r}
    BY <2>1, TakesKeep
  <2>3. Moves'
    BY <2>1, <2>2 DEF Moves
  <2> QED BY <2>2, <2>3 DEF Trades
<1>2. CASE rt_free
  <2>1. PICK r \in Mine : freed(r) /\ moving' = moving
    BY <1>2 DEF rt_free
  <2>2. Books(mem', lfree', held', used_mem') /\ held' = held \ {r} /\ r \in held
    BY <1>0, <2>1, FreesKeep
  <2>3. Moves'
    BY <1>0, <2>1, <2>2 DEF Moves
  <2> QED BY <2>2, <2>3 DEF Trades
<1>3. CASE rt_realloc
  <2>1. PICK r \in Mine, size \in MemSizes :
          \/ Shrink(r, size) /\ moving' = moving
          \/ /\ moving' = [old |-> r, size |-> size, new |-> NONE]
             /\ UNCHANGED <<mem, lfree, used_mem, held>>
    BY <1>3 DEF rt_realloc, Shrink
  <2>2. CASE Shrink(r, size) /\ moving' = moving
    <3>1. /\ Books(mem', lfree', held', used_mem')
          /\ \E o \in held' : o.at = r.at /\ held' = (held \ {r}) \cup {o}
      BY <1>0, <2>2, ShrinksKeep
    <3>2. Moves'
      BY <1>0, <2>1, <2>2, <3>1 DEF Moves
    <3> QED BY <1>0, <3>1, <3>2 DEF Trades
  <2>3. CASE /\ moving' = [old |-> r, size |-> size, new |-> NONE]
             /\ UNCHANGED <<mem, lfree, used_mem, held>>
    <3>1. Moves'
      BY <1>0, <2>3 DEF Moves
    <3> QED BY <2>3, <3>1 DEF Trades
  <2> QED BY <2>1, <2>2, <2>3
<1>4. CASE realloc_allocates
  <2>1. CASE malloc(moving.size) /\ moving' = [moving EXCEPT !.new = CHOOSE r \in held' : r \notin held]
    <3>1. PICK o \in held, size \in MemSizes : \E new : moving = [old |-> o, size |-> size, new |-> new]
      BY <1>4 DEF realloc_allocates, Moves
    <3>2. malloc(size)
      BY <2>1, <3>1
    <3>3. /\ Books(mem', lfree', held', used_mem')
          /\ \E r \in held' : r \notin held /\ held' = held \cup {r}
      BY <3>2, TakesKeep
    <3> DEFINE n == CHOOSE r \in held' : r \notin held
    <3>4. moving' = [old |-> o, size |-> size, new |-> n]
      <4>1. PICK new : moving = [old |-> o, size |-> size, new |-> new]
        BY <3>1
      <4> QED BY <2>1, <4>1
    <3> HIDE DEF n
    <3>5. Moves'
      BY <3>3, <3>4 DEF Moves
    <3> QED BY <3>3, <3>5 DEF Trades
  <2>2. CASE moving' = NONE /\ UNCHANGED <<mem, lfree, used_mem, held>>
    <3>1. Moves'
      BY <2>2 DEF Moves
    <3> QED BY <2>2, <3>1 DEF Trades
  <2> QED BY <1>4, <2>1, <2>2 DEF realloc_allocates
<1>5. CASE realloc_frees
  <2>1. moving.old \in held /\ freed(moving.old) /\ moving' = NONE
    BY <1>5 DEF realloc_frees, Moves
  <2>2. Books(mem', lfree', held', used_mem') /\ held' = held \ {moving.old}
    BY <2>1, FreesKeep
  <2>3. Moves'
    BY <2>1 DEF Moves
  <2> QED BY <2>1, <2>2, <2>3 DEF Trades
<1> QED BY <1>1, <1>2, <1>3, <1>4, <1>5 DEF MemNext

\* Whatever threads allocate, grow, move and free, the item list of mem.c tiles
\* the heap, no two free neighbours stay unjoined, lfree is the lowest free item
\* and every held block is a used item: the inductive invariant of the small heap.
THEOREM MemInvariant == MemSpec => []MemInv
<1>1. MemInit => MemInv
  BY MemStarts
<1>2. MemInv /\ [MemNext]_mem_vars => MemInv'
  <2>1. CASE MemNext
    BY <2>1, MemSteps
  <2>2. CASE UNCHANGED mem_vars
    BY <2>2 DEF mem_vars, MemInv, Moves
  <2> QED BY <2>1, <2>2
<1> QED BY <1>1, <1>2, PTL DEF MemSpec

LEMMA BooksAreSound == ASSUME Books(mem, lfree, held, used_mem) PROVE MemSound
<1> DEFINE U == Blocks(held)
<1>1. PICK C : Sound(mem, C, lfree, U) /\ Held(mem, held) /\ used_mem = Cardinality(Extents(mem, U))
  BY DEF Books
<1> HIDE DEF U
<1>2. Linked(mem, C) /\ Chain = Fore(C)
  BY <1>1, SoundFacts, ChainFound
<1>3. U = {q \in Chain : mem[q].used}
  BY <1>1, <1>2 DEF Sound, Uses
<1>4. BlocksTile
  <2> SUFFICES ASSUME NEW p \in Fore(C), mem[p].next # heap_end PROVE mem[mem[p].next].prev = p
    BY <1>1, <1>2, SoundFacts DEF BlocksTile
  <2> DEFINE x == mem[p].next
  <2>1. x \in C /\ x \in Nat /\ p \in Nat /\ x > p
    BY <1>1, SoundFacts
  <2>2. x # 0
    <3> HIDE DEF x
    <3> QED BY <2>1
  <2>3. x \in Fore(C) \ {0}
    BY <2>1, <2>2 DEF Fore
  <2>4. mem[x].prev \in Fore(C) /\ mem[mem[x].prev].next = mem[p].next
    BY <1>2, <2>3 DEF Linked
  <2> QED BY <1>2, <2>4, OneBefore
<1>5. HeldAreUsed
  <2>1. ASSUME NEW r \in held PROVE room(r.at - SIZEOF_STRUCT_MEM) >= r.size
    <3> DEFINE p == r.at - SIZEOF_STRUCT_MEM
               x == mem[p].next
    <3>1. p \in U /\ r.at \in Nat \ {0} /\ r.size \in Nat \ {0} /\ r.at + r.size <= x
      BY <1>1, BlocksFacts DEF Held, U
    <3>2. x \in Nat /\ p = r.at - 1
      BY <1>1, <3>1, SoundFacts DEF SIZEOF_STRUCT_MEM
    <3>3. room(p) = x - (p + 1)
      BY DEF room, SIZEOF_STRUCT_MEM
    <3> HIDE DEF p, x
    <3>4. room(p) >= r.size
      BY <3>1, <3>2, <3>3
    <3> QED BY <3>4 DEF p
  <2> QED BY <1>3, <2>1 DEF HeldAreUsed, U, Blocks
<1>6. NoTwoFree
  BY <1>1, <1>2, SoundFacts DEF NoTwoFree
<1>7. UsedMemMatches
  BY <1>1, <1>3 DEF UsedMemMatches, Extents, Extent
<1>8. LfreeIsFree
  BY <1>1, <1>2, SoundFacts DEF LfreeIsFree, Points
<1> QED BY <1>4, <1>5, <1>6, <1>7, <1>8 DEF MemSound

(* Whatever sequence of calls, of however many threads, and wherever        *)
(* rt_realloc is interrupted by another call: the headers tile the heap     *)
(* and know their neighbours, the used ones are those callers hold and are  *)
(* as large as was asked, no two free ones touch, used_mem is what the used *)
(* ones take up, and the next search starts at a free block (mem.c).        *)
THEOREM MemIsSound == MemSpec => []MemSound
<1>1. MemInv => MemSound
  BY BooksAreSound DEF MemInv
<1> QED BY <1>1, MemInvariant, PTL

LEMMA RegionsLie ==
  ASSUME NEW m, NEW lf, NEW h, NEW n, Books(m, lf, h, n), NEW r \in h
  PROVE  MemPromise!Lies(r, h \ {r})
<1> DEFINE U == Blocks(h)
           E(p) == p .. (m[p].next - 1)
<1>1. PICK C : Sound(m, C, lf, U) /\ Held(m, h)
  BY DEF Books
<1> HIDE DEF U
<1>2. ASSUME NEW s \in h
      PROVE  /\ s.at - SIZEOF_STRUCT_MEM \in Fore(C) /\ s.at \in Nat
             /\ MemPromise!Covers(s) \subseteq E(s.at - SIZEOF_STRUCT_MEM)
             /\ E(s.at - SIZEOF_STRUCT_MEM) \subseteq 0 .. heap_end
  <2> DEFINE p == s.at - SIZEOF_STRUCT_MEM
             x == m[p].next
  <2>1. p \in U /\ s.at \in Nat \ {0} /\ s.size \in Nat \ {0} /\ s.at + s.size <= x
    BY <1>1, BlocksFacts DEF Held, U
  <2>2. p \in Fore(C) /\ p \in Nat /\ x \in Nat /\ p = s.at - 1
    BY <1>1, <2>1, SoundFacts DEF SIZEOF_STRUCT_MEM
  <2>3. x <= heap_end
    BY <1>1, <2>2, SoundFacts, EndFacts
  <2> HIDE DEF p, x
  <2>4. MemPromise!Covers(s) = s.at .. (s.at + s.size - 1)
    BY DEF MemPromise!Covers
  <2>5. (s.at .. (s.at + s.size - 1)) \subseteq p .. (x - 1) /\ (p .. (x - 1)) \subseteq 0 .. heap_end
    BY <2>1, <2>2, <2>3, EndFacts
  <2> QED BY <2>1, <2>2, <2>4, <2>5 DEF p, x
<1>3. ASSUME NEW s \in h \ {r} PROVE MemPromise!Covers(r) \cap MemPromise!Covers(s) = {}
  <2> DEFINE p == r.at - SIZEOF_STRUCT_MEM
             q == s.at - SIZEOF_STRUCT_MEM
  <2>1. s.at # r.at
    BY <1>1 DEF Held
  <2>2. p # q
    BY <1>2, <2>1 DEF SIZEOF_STRUCT_MEM
  <2>3. p \in Fore(C) /\ q \in Fore(C) /\ Linked(m, C)
    BY <1>1, <1>2, SoundFacts
  <2> HIDE DEF p, q
  <2>4. E(p) \cap E(q) = {}
    BY <2>2, <2>3, ExtentsDisjoint
  <2>5. MemPromise!Covers(r) \subseteq E(p) /\ MemPromise!Covers(s) \subseteq E(q)
    BY <1>2 DEF p, q
  <2> HIDE DEF E
  <2> QED BY <2>4, <2>5
<1>4. MemPromise!Covers(r) \subseteq 0 .. heap_end
  BY <1>2
<1> QED BY <1>3, <1>4 DEF MemPromise!Lies

(* The heap of small memory keeps what an allocator promises: every region  *)
(* it hands out lies in the heap and apart from all others until it is      *)
(* freed, also while rt_realloc moves one (mem.c:284, 405, 533).            *)
THEOREM MemKeepsItsPromise == MemSpec => MemKeepsPromise
<1>1. MemInit => MemPromise!Init
  BY DEF MemInit, MemPromise!Init
<1>2. MemInv /\ [MemNext]_mem_vars => [MemPromise!Next]_held
  <2> SUFFICES ASSUME MemInv, MemNext PROVE [MemPromise!Next]_held
    BY DEF mem_vars
  <2>1. Trades(held, held') /\ Books(mem', lfree', held', used_mem')
    BY MemSteps DEF MemInv
  <2>2. \A r \in held' : MemPromise!Lies(r, held' \ {r})
    BY <2>1, RegionsLie
  <2>3. \/ held' = held
        \/ \E r \in held' : MemPromise!Give(r)
        \/ \E r \in held : MemPromise!Take(r) \/ MemPromise!Resize(r)
    BY <2>1 DEF Trades, MemPromise!Give, MemPromise!Take, MemPromise!Resize
  <2> QED BY <2>2, <2>3 DEF MemPromise!Next
<1> QED BY <1>1, <1>2, MemInvariant, PTL DEF MemSpec, MemKeepsPromise, MemPromise!Spec

-----------------------------------------------------------------------------
(***************************************************************************)
(* The heap of several pools.  Its free lists.                             *)
(***************************************************************************)
Lists(l, L) == l \in Seq(Nat) /\ IsInjective(l) /\ ToSet(l) = L

LEMMA Removed ==
  ASSUME NEW S, NEW l \in Seq(S), NEW r \in 1 .. Len(l)
  PROVE  LET m == RemoveAt(l, r) IN
         /\ m \in Seq(S) /\ Len(m) = Len(l) - 1
         /\ \A i \in 1 .. (Len(l) - 1) : m[i] = IF i < r THEN l[i] ELSE l[i + 1]
<1> DEFINE m == RemoveAt(l, r)
           before == SubSeq(l, 1, r - 1)
           after == SubSeq(l, r + 1, Len(l))
<1>0. Len(l) \in Nat
  OBVIOUS
<1>1. before \in Seq(S) /\ after \in Seq(S)
  OBVIOUS
<1>2. Len(before) = r - 1 /\ Len(after) = Len(l) - r
  OBVIOUS
<1>3. /\ \A i \in 1 .. (r - 1) : before[i] = l[i]
      /\ \A i \in 1 .. (Len(l) - r) : after[i] = l[r + i]
  OBVIOUS
<1>4. m = before \o after
  BY DEF RemoveAt
<1> HIDE DEF before, after, m
<1>5. m \in Seq(S) /\ Len(m) = Len(before) + Len(after)
  BY <1>1, <1>4, ConcatProperties, Zenon
<1>6. \A i \in 1 .. Len(before) + Len(after) :
        m[i] = IF i <= Len(before) THEN before[i] ELSE after[i - Len(before)]
  BY <1>1, <1>4, ConcatProperties, Zenon
<1>7. \A i \in 1 .. (Len(l) - 1) : m[i] = IF i <= r - 1 THEN before[i] ELSE after[i - (r - 1)]
  <2>1. (r - 1) + (Len(l) - r) = Len(l) - 1
    BY <1>0
  <2> QED BY <1>2, <1>6, <2>1
<1>8. ASSUME NEW i \in 1 .. (Len(l) - 1) PROVE m[i] = IF i < r THEN l[i] ELSE l[i + 1]
  <2>1. CASE i < r
    <3>1. i \in 1 .. (r - 1) /\ i <= r - 1
      BY <1>0, <2>1
    <3> QED BY <1>3, <1>7, <2>1, <3>1
  <2>2. CASE ~(i < r)
    <3>1. i - (r - 1) \in 1 .. (Len(l) - r) /\ r + (i - (r - 1)) = i + 1 /\ ~(i <= r - 1)
      BY <1>0, <2>2
    <3> QED BY <1>3, <1>7, <2>2, <3>1
  <2> QED BY <2>1, <2>2
<1>9. Len(m) = Len(l) - 1
  BY <1>0, <1>2, <1>5
<1> QED BY <1>5, <1>8, <1>9 DEF m

(* A node enters a list, at the end, in front or anywhere, and leaves it.   *)
LEMMA Leaves ==
  ASSUME NEW S, NEW l \in Seq(S), NEW e, IsInjective(l)
  PROVE  /\ RemoveFirst(l, e) \in Seq(S) /\ ToSet(RemoveFirst(l, e)) = ToSet(l) \ {e}
         /\ IsInjective(RemoveFirst(l, e)) /\ (e \notin ToSet(l) => RemoveFirst(l, e) = l)
<1> DEFINE m == RemoveFirst(l, e)
<1>0. DOMAIN l = 1 .. Len(l) /\ Len(l) \in Nat
  OBVIOUS
<1>1. CASE e \notin ToSet(l)
  <2>1. m = l
    BY <1>0, <1>1 DEF RemoveFirst, ToSet
  <2> QED BY <1>1, <2>1
<1>2. CASE e \in ToSet(l)
  <2>1. PICK r \in 1 .. Len(l) : l[r] = e
    BY <1>0, <1>2 DEF ToSet
  <2>2. m = RemoveAt(l, r)
    <3>1. \A i \in 1 .. Len(l) : l[i] = e => i = r
      BY <1>0, <2>1 DEF IsInjective
    <3>2. SelectInSeq(l, LAMBDA v : v = e) = r
      BY <2>1, <3>1 DEF SelectInSeq, Min
    <3> QED BY <2>1, <3>2 DEF RemoveFirst
  <2>3. /\ m \in Seq(S) /\ Len(m) = Len(l) - 1
        /\ \A i \in 1 .. (Len(l) - 1) : m[i] = IF i < r THEN l[i] ELSE l[i + 1]
    BY <2>2, Removed
  <2> HIDE DEF m
  <2>4. DOMAIN m = 1 .. (Len(l) - 1)
    BY <2>3
  <2>5. \A i \in DOMAIN l : i # r =>
          LET j == IF i < r THEN i ELSE i - 1 IN j \in DOMAIN m /\ m[j] = l[i]
    BY <1>0, <2>3, <2>4
  <2>6. \A i \in DOMAIN m :
          LET j == IF i < r THEN i ELSE i + 1 IN j \in DOMAIN l /\ j # r /\ m[i] = l[j]
    BY <1>0, <2>3, <2>4
  <2>7. ToSet(m) = ToSet(l) \ {e}
    <3>1. ASSUME NEW y \in ToSet(m) PROVE y \in ToSet(l) \ {e}
      <4>1. PICK i \in DOMAIN m : m[i] = y
        BY <3>1 DEF ToSet
      <4>2. PICK j \in DOMAIN l : j # r /\ l[j] = y
        BY <2>6, <4>1
      <4>3. y # e
        BY <1>0, <2>1, <4>2 DEF IsInjective
      <4> QED BY <4>2, <4>3 DEF ToSet
    <3>2. ASSUME NEW y \in ToSet(l), y # e PROVE y \in ToSet(m)
      <4>1. PICK i \in DOMAIN l : l[i] = y
        BY <3>2 DEF ToSet
      <4>2. i # r
        BY <2>1, <3>2, <4>1
      <4>3. PICK j \in DOMAIN m : m[j] = y
        BY <2>5, <4>1, <4>2
      <4> QED BY <4>3 DEF ToSet
    <3> QED BY <3>1, <3>2
  <2>8. IsInjective(m)
    <3> SUFFICES ASSUME NEW i \in DOMAIN m, NEW j \in DOMAIN m, m[i] = m[j] PROVE i = j
      BY DEF IsInjective
    <3> DEFINE a == IF i < r THEN i ELSE i + 1
               b == IF j < r THEN j ELSE j + 1
    <3>1. a \in DOMAIN l /\ b \in DOMAIN l /\ l[a] = l[b]
      BY <2>6
    <3>2. a = b
      BY <3>1 DEF IsInjective
    <3> QED BY <2>4, <3>2
  <2> QED BY <1>2, <2>3, <2>7, <2>8 DEF m
<1> QED BY <1>1, <1>2

LEMMA PutsFirst ==
  ASSUME NEW l, NEW L, Lists(l, L), NEW e \in Nat \ L
  PROVE  Lists(<<e>> \o l, L \cup {e})
<1> DEFINE m == <<e>> \o l
<1>0. l \in Seq(Nat) /\ DOMAIN l = 1 .. Len(l) /\ Len(l) \in Nat
  BY DEF Lists
<1>1. m \in Seq(Nat) /\ Len(m) = Len(l) + 1
  BY <1>0
<1>2. DOMAIN m = 1 .. (Len(l) + 1) /\ m[1] = e /\ \A i \in 1 .. Len(l) : m[i + 1] = l[i]
  BY <1>0, <1>1
<1> HIDE DEF m
<1>3. \A i \in DOMAIN m : i = 1 \/ \E j \in DOMAIN l : i = j + 1 /\ m[i] = l[j]
  <2> SUFFICES ASSUME NEW i \in DOMAIN m, i # 1 PROVE \E j \in DOMAIN l : i = j + 1 /\ m[i] = l[j]
    OBVIOUS
  <2>1. i - 1 \in DOMAIN l /\ i = (i - 1) + 1
    BY <1>0, <1>2
  <2> QED BY <1>0, <1>2, <2>1
<1>4. ToSet(m) = ToSet(l) \cup {e}
  <2>1. \A j \in DOMAIN l : j + 1 \in DOMAIN m /\ m[j + 1] = l[j]
    BY <1>0, <1>2
  <2>2. 1 \in DOMAIN m
    BY <1>0, <1>2
  <2> QED BY <1>2, <1>3, <2>1, <2>2 DEF ToSet
<1>5. IsInjective(m)
  <2> SUFFICES ASSUME NEW i \in DOMAIN m, NEW j \in DOMAIN m, m[i] = m[j] PROVE i = j
    BY DEF IsInjective
  <2>1. \A x \in DOMAIN l : l[x] # e
    BY DEF Lists, ToSet
  <2>2. \A x, y \in DOMAIN l : l[x] = l[y] => x = y
    BY DEF Lists, IsInjective
  <2>3. CASE i = 1 \/ j = 1
    BY <1>2, <1>3, <2>1, <2>3
  <2>4. CASE i # 1 /\ j # 1
    <3>1. PICK x \in DOMAIN l : i = x + 1 /\ m[i] = l[x]
      BY <1>3, <2>4
    <3>2. PICK y \in DOMAIN l : j = y + 1 /\ m[j] = l[y]
      BY <1>3, <2>4
    <3> QED BY <2>2, <3>1, <3>2
  <2> QED BY <2>3, <2>4
<1> QED BY <1>1, <1>4, <1>5 DEF Lists, m

LEMMA TakesOff ==
  ASSUME NEW l, NEW L, Lists(l, L), NEW e
  PROVE  Lists(RemoveFirst(l, e), L \ {e})
<1>1. l \in Seq(Nat) /\ IsInjective(l)
  BY DEF Lists
<1>2. /\ RemoveFirst(l, e) \in Seq(Nat) /\ ToSet(RemoveFirst(l, e)) = ToSet(l) \ {e}
      /\ IsInjective(RemoveFirst(l, e))
  BY <1>1, Leaves
<1> QED BY <1>2 DEF Lists

(***************************************************************************)
(* Where the pools lie.                                                    *)
(***************************************************************************)
LEMMA PoolFacts ==
  /\ PoolSizes \in Seq(Nat) /\ Len(PoolSizes) \in Nat /\ Pools = 1 .. Len(PoolSizes)
  /\ Len(PoolSizes) \in Pools /\ 1 \in Pools
  /\ \A h \in Pools : h \in Nat /\ PoolSizes[h] \in Nat /\ PoolSizes[h] > 4
<1>1. PoolSizes \in Seq(Nat) /\ PoolSizes # <<>>
  BY MemheapAssumption
<1>2. Pools = 1 .. Len(PoolSizes) /\ Len(PoolSizes) \in Nat /\ Len(PoolSizes) # 0
  BY <1>1 DEF Pools
<1>3. \A h \in Pools : PoolSizes[h] \in Nat /\ h \in Nat
  BY <1>1, <1>2
<1>4. \A h \in Pools : PoolSizes[h] > 4
  <2>1. \A h \in Pools : PoolSizes[h] > 2 * 2
    BY MemheapAssumption DEF RT_MEMHEAP_SIZE
  <2> QED BY <2>1
<1> QED BY <1>1, <1>2, <1>3, <1>4

LEMMA StartsFound ==
  /\ \A h \in Pools : start_addr[h] \in Nat
  /\ \A h \in Pools : start_addr[h] = IF h = 1 THEN 0 ELSE start_addr[h - 1] + PoolSizes[h - 1]
<1> DEFINE Turn(f) == [h \in Pools |-> IF h = 1 THEN 0 ELSE f[h - 1] + PoolSizes[h - 1]]
           nx == [h \in Pools |-> IF h = 1 THEN 1 ELSE h - 1]
           N == Len(PoolSizes)
           rank == [h \in Pools |-> h]
           stop == {1}
           val == [h \in Pools |-> 0]
           g == [x \in Pools \X Nat |-> IF x[1] = 1 THEN 0 ELSE x[2] + PoolSizes[x[1] - 1]]
<1>1. \A h \in Pools : h # 1 => h - 1 \in Pools
  BY PoolFacts
<1>2. Walk(Pools, Nat, nx, N, rank, stop, val, g)
  <2>1. nx \in [Pools -> Pools]
    BY <1>1, PoolFacts
  <2>2. N \in Nat /\ stop \in SUBSET Pools /\ val \in [Pools -> Nat]
    BY PoolFacts
  <2>3. rank \in [Pools -> 0 .. N]
    BY PoolFacts
  <2>4. g \in [Pools \X Nat -> Nat]
    <3> SUFFICES ASSUME NEW h \in Pools, NEW n \in Nat, h # 1 PROVE n + PoolSizes[h - 1] \in Nat
      OBVIOUS
    <3> QED BY <1>1, PoolFacts
  <2>5. \A h \in Pools \ stop : rank[nx[h]] < rank[h]
    BY <1>1, PoolFacts
  <2> QED BY <2>1, <2>2, <2>3, <2>4, <2>5 DEF Walk
<1>3. HasValue(Pools, Nat, nx, stop, val, g)
  <2> HIDE DEF nx, N, rank, stop, val, g
  <2> QED BY <1>2, WalkHasValue
<1>4. PICK f \in [Pools -> Nat] : \A h \in Pools : f[h] = IF h \in stop THEN val[h] ELSE g[<<h, f[nx[h]]>>]
  BY <1>3 DEF HasValue
<1>5. f = Turn(f)
  <2> SUFFICES ASSUME NEW h \in Pools PROVE f[h] = IF h = 1 THEN 0 ELSE f[h - 1] + PoolSizes[h - 1]
    OBVIOUS
  <2>1. CASE h = 1
    BY <1>4, <2>1
  <2>2. CASE h # 1
    <3>1. nx[h] = h - 1 /\ h - 1 \in Pools /\ f[h - 1] \in Nat
      BY <1>1, <2>2
    <3>2. g[<<h, f[h - 1]>>] = f[h - 1] + PoolSizes[h - 1]
      BY <2>2, <3>1
    <3>3. f[h] = g[<<h, f[h - 1]>>]
      BY <1>4, <2>2, <3>1
    <3> QED BY <2>2, <3>2, <3>3
  <2> QED BY <2>1, <2>2
<1> DEFINE from == CHOOSE u : u = Turn(u)
<1>6. from = Turn(from)
  <2> HIDE DEF Turn
  <2> QED BY <1>5
<1>7. start_addr = from
  BY DEF start_addr
<1> HIDE DEF from
<1>8. \A h \in Pools : start_addr[h] = IF h = 1 THEN 0 ELSE start_addr[h - 1] + PoolSizes[h - 1]
  BY <1>6, <1>7
<1> HIDE DEF Turn
<1> DEFINE Bad == {h \in Pools : ~(start_addr[h] \in Nat)}
<1>9. Bad = {}
  <2> SUFFICES ASSUME Bad # {} PROVE FALSE
    OBVIOUS
  <2>1. PICK h \in Bad : \A i \in Bad : h <= i
    <3>1. Bad \in SUBSET Nat
      BY PoolFacts
    <3> HIDE DEF Bad
    <3> QED BY <3>1, Least
  <2>2. h # 1
    BY <1>8, <2>1
  <2>3. h - 1 \in Pools /\ ~(h <= h - 1)
    BY <1>1, <2>1, <2>2, PoolFacts
  <2>4. start_addr[h - 1] \in Nat
    BY <2>1, <2>3
  <2>5. start_addr[h] = start_addr[h - 1] + PoolSizes[h - 1] /\ PoolSizes[h - 1] \in Nat
    BY <1>8, <2>1, <2>2, <2>3, PoolFacts
  <2>6. start_addr[h] \in Nat
    BY <2>4, <2>5
  <2> QED BY <2>1, <2>6
<1> QED BY <1>8, <1>9

LEMMA PoolsApart ==
  /\ \A h \in Pools : start_addr[h] \in Nat /\ last_item(h) \in Nat /\ start_addr[h] + 2 < last_item(h)
                      /\ last_item(h) = start_addr[h] + PoolSizes[h] - 2
  /\ \A h, k \in Pools : h < k => last_item(h) < start_addr[k]
  /\ \A h, k \in Pools : h # k => (start_addr[h] .. last_item(h)) \cap (start_addr[k] .. last_item(k)) = {}
  /\ \A h \in Pools : last_item(h) <= last_item(Len(PoolSizes))
<1>1. ASSUME NEW h \in Pools
      PROVE  /\ start_addr[h] \in Nat /\ last_item(h) \in Nat /\ start_addr[h] + 2 < last_item(h)
             /\ last_item(h) = start_addr[h] + PoolSizes[h] - 2
  BY StartsFound, PoolFacts DEF last_item, RT_MEMHEAP_SIZE
<1>2. ASSUME NEW h \in Pools, NEW k \in Pools, h < k PROVE last_item(h) < start_addr[k]
  <2> DEFINE Bad == {i \in Pools : h < i /\ ~(last_item(h) < start_addr[i])}
  <2> SUFFICES ASSUME Bad # {} PROVE FALSE
    BY <1>2
  <2>1. PICK i \in Bad : \A j \in Bad : i <= j
    <3>1. Bad \in SUBSET Nat
      BY PoolFacts
    <3> HIDE DEF Bad
    <3> QED BY <3>1, Least
  <2>2. i \in Pools /\ h < i /\ i \in Nat /\ h \in Nat /\ 1 <= h
    BY <2>1, PoolFacts
  <2>3. i - 1 \in Pools /\ i # 1 /\ ~(i <= i - 1)
    BY <2>2, PoolFacts
  <2>4. start_addr[i] = start_addr[i - 1] + PoolSizes[i - 1]
    BY <2>2, <2>3, StartsFound
  <2>5. CASE i - 1 = h
    <3>1. /\ start_addr[h] \in Nat /\ PoolSizes[h] \in Nat
          /\ last_item(h) = start_addr[h] + PoolSizes[h] - 2 /\ start_addr[i] = start_addr[h] + PoolSizes[h]
      BY <1>1, <2>4, <2>5, PoolFacts
    <3>2. last_item(h) < start_addr[i]
      BY <3>1
    <3> QED BY <2>1, <3>2
  <2>6. CASE i - 1 # h
    <3>1. h < i - 1
      BY <2>2, <2>6
    <3>2. last_item(h) < start_addr[i - 1]
      BY <2>1, <2>3, <3>1
    <3>3. last_item(h) \in Nat /\ start_addr[i - 1] \in Nat /\ PoolSizes[i - 1] \in Nat
      BY <1>1, <2>3, PoolFacts
    <3> QED BY <2>1, <2>4, <3>2, <3>3
  <2> QED BY <2>5, <2>6
<1>3. ASSUME NEW h \in Pools, NEW k \in Pools, h # k
      PROVE  (start_addr[h] .. last_item(h)) \cap (start_addr[k] .. last_item(k)) = {}
  <2>1. h < k \/ k < h
    BY <1>3, PoolFacts
  <2>2. last_item(h) < start_addr[k] \/ last_item(k) < start_addr[h]
    BY <1>2, <2>1
  <2> QED BY <1>1, <2>2
<1>4. ASSUME NEW h \in Pools PROVE last_item(h) <= last_item(Len(PoolSizes))
  <2> DEFINE k == Len(PoolSizes)
  <2>1. k \in Pools /\ (h = k \/ h < k)
    BY PoolFacts
  <2>2. CASE h = k
    BY <1>1, <2>2
  <2>3. CASE h < k
    <3>1. last_item(h) < start_addr[k] /\ start_addr[k] + 2 < last_item(k)
      BY <1>1, <1>2, <2>1, <2>3
    <3>2. last_item(h) \in Nat /\ start_addr[k] \in Nat /\ last_item(k) \in Nat
      BY <1>1, <2>1
    <3> QED BY <3>1, <3>2
  <2> QED BY <2>1, <2>2, <2>3
<1> QED BY <1>1, <1>2, <1>3, <1>4

LEMMA PoolPtr ==
  ASSUME NEW h \in Pools, NEW p \in start_addr[h] .. last_item(h)
  PROVE  pool_ptr(p) = h
<1>1. \A k \in Pools : p \in start_addr[k] .. last_item(k) => k = h
  BY PoolsApart
<1> QED BY <1>1 DEF pool_ptr

(***************************************************************************)
(* C: where the items of a pool from lo to hi are.                         *)
(***************************************************************************)
Item == [used : BOOLEAN, next : Nat, prev : Nat]
Ringed(m, lo, hi, C) ==
  /\ lo \in Nat /\ hi \in Nat /\ lo < hi /\ m \in [lo .. hi -> Item]
  /\ C \subseteq lo .. hi /\ lo \in C /\ hi \in C /\ m[hi].used /\ m[hi].next = lo
  /\ \A p \in C \ {hi} : /\ m[p].next \in C /\ m[p].next > p + 2
                         /\ \A c \in C : c <= p \/ c >= m[p].next
  /\ \A p \in C : m[p].prev \in C /\ m[m[p].prev].next = p

LEMMA RingFacts ==
  ASSUME NEW m, NEW lo, NEW hi, NEW C, Ringed(m, lo, hi, C)
  PROVE  /\ lo \in Nat /\ hi \in Nat /\ lo < hi /\ hi \in C /\ lo \in C
         /\ \A c \in C : /\ c \in lo .. hi /\ c \in Nat /\ lo <= c /\ c <= hi
                         /\ m[c].used \in BOOLEAN /\ m[c].next \in C /\ m[c].next \in Nat
                         /\ m[c].prev \in C /\ m[m[c].prev].next = c
         /\ \A c \in C \ {hi} : m[c].next > c + 2
<1>1. lo \in Nat /\ hi \in Nat /\ lo < hi /\ hi \in C /\ lo \in C
  BY DEF Ringed
<1>2. \A c \in C : c \in lo .. hi
  BY DEF Ringed
<1>3. \A c \in lo .. hi : c \in Nat /\ lo <= c /\ c <= hi
  BY <1>1
<1>4. \A c \in C : m[c].used \in BOOLEAN /\ m[c].next \in Nat
  BY <1>2 DEF Ringed, Item
<1>5. \A c \in C : m[c].next \in C /\ m[c].prev \in C /\ m[m[c].prev].next = c
  BY DEF Ringed
<1> QED BY <1>1, <1>2, <1>3, <1>4, <1>5 DEF Ringed

LEMMA OneNext ==
  ASSUME NEW m, NEW lo, NEW hi, NEW C, Ringed(m, lo, hi, C), NEW p \in C, NEW q \in C, m[p].next = m[q].next
  PROVE  p = q
<1>0. m[hi].next = lo
  BY DEF Ringed
<1>1. /\ p \in Nat /\ q \in Nat /\ lo \in Nat /\ lo <= p /\ lo <= q /\ m[hi].next = lo /\ m[p].next \in Nat
  BY <1>0, RingFacts
<1>2. CASE p = hi \/ q = hi
  <2>1. ASSUME NEW c \in C \ {hi} PROVE m[c].next # lo
    <3>1. m[c].next > c + 2 /\ lo <= c /\ c \in Nat /\ m[c].next \in Nat
      BY RingFacts
    <3> QED BY <1>1, <3>1
  <2> QED BY <1>1, <1>2, <2>1
<1>3. CASE p # hi /\ q # hi
  <2> DEFINE b == m[p].next
  <2>1. /\ b \in Nat /\ b > p + 2 /\ b > q + 2 /\ (q <= p \/ q >= b) /\ (p <= q \/ p >= b)
    BY <1>1, <1>3 DEF Ringed
  <2> HIDE DEF b
  <2> QED BY <1>1, <2>1
<1> QED BY <1>2, <1>3

(* Marked used or free.                                                     *)
MarkedItem(m, lo, hi, C, p, u, r) ==
  /\ Ringed(r, lo, hi, C) /\ r[p].used = u /\ \A q \in C : r[q].next = m[q].next /\ r[q].prev = m[q].prev
  /\ \A q \in C \ {p} : r[q].used = m[q].used
LEMMA ItemMarked ==
  ASSUME NEW m, NEW lo, NEW hi, NEW C, NEW p, NEW u, NEW r,
         Ringed(m, lo, hi, C), p \in C, p # hi, u \in BOOLEAN, r = Marks(m, p, u)
  PROVE  MarkedItem(m, lo, hi, C, p, u, r)
<1>1. p \in lo .. hi /\ m \in [lo .. hi -> Item] /\ \A c \in C : c \in lo .. hi
  BY DEF Ringed
<1>2. r \in [lo .. hi -> Item] /\ r[p].used = u
  BY <1>1 DEF Item, Marks
<1>3. \A q \in lo .. hi : r[q].next = m[q].next /\ r[q].prev = m[q].prev /\ (q # p => r[q].used = m[q].used)
  BY <1>1 DEF Item, Marks
<1>4. Ringed(r, lo, hi, C)
  <2>1. \A q \in C \ {hi} : /\ r[q].next \in C /\ r[q].next > q + 2
                            /\ \A c \in C : c <= q \/ c >= r[q].next
    BY <1>1, <1>3 DEF Ringed
  <2>2. ASSUME NEW q \in C PROVE r[q].prev \in C /\ r[r[q].prev].next = q
    <3> DEFINE y == m[q].prev
    <3>1. y \in C /\ m[y].next = q
      BY DEF Ringed
    <3>2. r[q].prev = y
      BY <1>1, <1>3
    <3> HIDE DEF y
    <3> QED BY <1>1, <1>3, <3>1, <3>2
  <2>3. r[hi].used /\ r[hi].next = lo
    <3>1. hi \in lo .. hi /\ hi # p /\ m[hi].used /\ m[hi].next = lo
      BY <1>1 DEF Ringed
    <3> QED BY <1>3, <3>1
  <2>4. lo \in Nat /\ hi \in Nat /\ lo < hi
    BY RingFacts
  <2> QED BY <2>4, <1>2, <2>1, <2>2, <2>3 DEF Ringed
<1> QED BY <1>1, <1>2, <1>3, <1>4 DEF MarkedItem

(* Joined with the one behind it.                                           *)
Joins(m, a, x) == [y \in DOMAIN m |-> CASE y = a -> [m[y] EXCEPT !.next = x]
                                        [] y = x -> [m[y] EXCEPT !.prev = a]
                                        [] y > a /\ y < x -> Junk_item
                                        [] OTHER -> m[y]]
LEMMA ItemsJoined ==
  ASSUME NEW m, NEW lo, NEW hi, NEW C, Ringed(m, lo, hi, C), NEW a \in C \ {hi}, NEW b, b = m[a].next,
         b # hi, NEW x, x = m[b].next, NEW r, r = Joins(m, a, x)
  PROVE  /\ Ringed(r, lo, hi, C \ {b}) /\ r[a].next = x /\ b \in C /\ a # b /\ x # b /\ x # a /\ x \in C
         /\ \A q \in C \ {b} : r[q].used = m[q].used
         /\ \A q \in C \ {a, b} : r[q].next = m[q].next
<1>0. m \in [lo .. hi -> Item] /\ DOMAIN m = lo .. hi
  BY DEF Ringed
<1>1. b \in C \ {hi} /\ x \in C /\ x > b + 2 /\ b > a + 2
  BY DEF Ringed
<1>2. /\ a \in lo .. hi /\ x \in lo .. hi /\ a \in Nat /\ b \in Nat /\ x \in Nat /\ lo <= a /\ lo \in Nat
      /\ \A c \in C : c \in Nat /\ c \in lo .. hi
  BY <1>1, RingFacts
<1>3. a # b /\ x # b /\ x # a /\ b # lo /\ x # lo
  BY <1>1, <1>2
<1>4. \A c \in C \ {b} : c <= a \/ c >= x
  <2>1. \A c \in C : (c <= a \/ c >= b) /\ (c <= b \/ c >= x)
    BY <1>1 DEF Ringed
  <2> QED BY <1>2, <2>1
<1>5. /\ \A c \in C \ {a, b, x} : r[c] = m[c]
      /\ r[a] = [m[a] EXCEPT !.next = x] /\ r[x] = [m[x] EXCEPT !.prev = a]
  <2>1. \A c \in C \ {a, b, x} : ~(c > a /\ c < x)
    BY <1>1, <1>2, <1>4
  <2> QED BY <1>0, <1>1, <1>2, <1>3, <2>1 DEF Joins
<1>6. /\ r[a].next = x /\ r[a].used = m[a].used /\ r[a].prev = m[a].prev
      /\ r[x].prev = a /\ r[x].used = m[x].used /\ r[x].next = m[x].next
  <2>1. m[a] \in Item /\ m[x] \in Item
    BY <1>0, <1>2
  <2> QED BY <1>5, <2>1 DEF Item
<1>7. r \in [lo .. hi -> Item]
  <2>1. ASSUME NEW y \in lo .. hi PROVE r[y] \in Item
    <3>1. m[y] \in Item
      BY <1>0
    <3>2. [m[y] EXCEPT !.next = x] \in Item /\ [m[y] EXCEPT !.prev = a] \in Item /\ Junk_item \in Item
      BY <1>2, <3>1 DEF Item, Junk_item
    <3>3. r[y] \in {[m[y] EXCEPT !.next = x], [m[y] EXCEPT !.prev = a], Junk_item, m[y]}
      BY <1>0 DEF Joins
    <3> QED BY <3>1, <3>2, <3>3
  <2> QED BY <1>0, <2>1 DEF Joins
<1> DEFINE B == C \ {b}
<1>8. B \subseteq lo .. hi /\ lo \in B /\ hi \in B /\ r[hi].used /\ r[hi].next = lo
  <2>1. r[hi].used = m[hi].used /\ r[hi].next = m[hi].next
    BY <1>1, <1>3, <1>5, <1>6 DEF Ringed
  <2> QED BY <1>1, <1>3, <2>1 DEF Ringed
<1>9. ASSUME NEW q \in B \ {hi}
      PROVE  r[q].next \in B /\ r[q].next > q + 2 /\ \A c \in B : c <= q \/ c >= r[q].next
  <2>1. CASE q = a
    <3>1. x > a + 2
      BY <1>1, <1>2
    <3> QED BY <1>1, <1>3, <1>4, <1>6, <2>1, <3>1
  <2>2. CASE q # a
    <3>1. r[q].next = m[q].next
      BY <1>5, <1>6, <2>2
    <3>2. m[q].next # b
      BY <1>1, <2>2, OneNext
    <3> QED BY <3>1, <3>2 DEF Ringed
  <2> QED BY <2>1, <2>2
<1>10. ASSUME NEW q \in B PROVE r[q].prev \in B /\ r[r[q].prev].next = q
  <2>1. CASE q = x
    BY <1>3, <1>6, <2>1
  <2>2. CASE q # x
    <3> DEFINE y == m[q].prev
    <3>1. y \in C /\ m[y].next = q
      BY DEF Ringed
    <3>2. r[q].prev = y
      BY <1>5, <1>6, <2>2
    <3> HIDE DEF y
    <3>3. y # b /\ y # a
      BY <1>1, <2>2, <3>1
    <3>4. r[y].next = m[y].next
      BY <1>5, <1>6, <3>1, <3>3
    <3> QED BY <3>1, <3>2, <3>3, <3>4
  <2> QED BY <2>1, <2>2
<1>11. Ringed(r, lo, hi, B)
  <2>1. lo \in Nat /\ hi \in Nat /\ lo < hi
    BY RingFacts
  <2> HIDE DEF B
  <2> QED BY <1>7, <1>8, <1>9, <1>10, <2>1 DEF Ringed
<1>12. \A q \in C \ {b} : r[q].used = m[q].used
  BY <1>5, <1>6
<1>13. \A q \in C \ {a, b} : r[q].next = m[q].next
  BY <1>5, <1>6
<1> QED BY <1>1, <1>3, <1>6, <1>11, <1>12, <1>13

(* Cut in two at z.                                                         *)
Halves(m, p, z) == [m EXCEPT ![z] = [used |-> FALSE, next |-> m[p].next, prev |-> p],
                             ![m[p].next].prev = z, ![p].next = z]
LEMMA ItemHalved ==
  ASSUME NEW m, NEW lo, NEW hi, NEW C, Ringed(m, lo, hi, C), NEW p \in C \ {hi}, NEW x, x = m[p].next,
         NEW z \in Nat, z > p + 2, z + 2 < x, NEW r, r = Halves(m, p, z)
  PROVE  /\ Ringed(r, lo, hi, C \cup {z}) /\ z \notin C /\ x \in C /\ z \in lo .. hi /\ z # hi
         /\ r[p].next = z /\ r[z].next = x /\ ~r[z].used /\ p # z
         /\ \A q \in C : r[q].used = m[q].used
         /\ \A q \in C \ {p} : r[q].next = m[q].next
<1>0. m \in [lo .. hi -> Item]
  BY DEF Ringed
<1>1. x \in C /\ x > p + 2 /\ x \in Nat /\ p \in Nat /\ lo <= p /\ x <= hi /\ lo \in Nat /\ hi \in Nat
  BY RingFacts
<1>2. z \in lo .. hi /\ p \in lo .. hi /\ x \in lo .. hi /\ z # hi /\ z # lo /\ z # p /\ z # x /\ x # p /\ x # lo
  BY <1>1
<1>3. z \notin C
  <2>1. \A c \in C : c <= p \/ c >= x
    BY DEF Ringed
  <2> QED BY <1>1, <2>1
<1>4. \A c \in C : c \in lo .. hi /\ c \in Nat
  BY RingFacts
<1> DEFINE new == [used |-> FALSE, next |-> x, prev |-> p]
           m1 == [m EXCEPT ![z] = new]
           m2 == [m1 EXCEPT ![x].prev = z]
<1>5. new \in Item /\ m1 \in [lo .. hi -> Item] /\ m1[z] = new /\ \A y \in (lo .. hi) \ {z} : m1[y] = m[y]
  BY <1>0, <1>1, <1>2 DEF Item
<1>6. r = [m2 EXCEPT ![p].next = z]
  BY DEF Halves
<1> HIDE DEF new, m1
<1>7. /\ m2 \in [lo .. hi -> Item] /\ m2[x].prev = z /\ m2[x].used = m1[x].used /\ m2[x].next = m1[x].next
      /\ \A y \in (lo .. hi) \ {x} : m2[y] = m1[y]
  <2>1. m1[x] \in Item
    BY <1>2, <1>5
  <2> QED BY <1>2, <1>5, <2>1 DEF Item
<1> HIDE DEF m2
<1>8. /\ r \in [lo .. hi -> Item] /\ r[p].next = z /\ r[p].used = m2[p].used /\ r[p].prev = m2[p].prev
      /\ \A y \in (lo .. hi) \ {p} : r[y] = m2[y]
  <2>1. m2[p] \in Item
    BY <1>2, <1>7
  <2> QED BY <1>2, <1>6, <1>7, <2>1 DEF Item
<1>9. /\ r[z].next = x /\ ~r[z].used /\ r[z].prev = p
      /\ r[p].next = z /\ r[p].used = m[p].used /\ r[p].prev = m[p].prev
      /\ r[x].prev = z /\ r[x].used = m[x].used /\ r[x].next = m[x].next
      /\ \A y \in C \ {p, x} : r[y] = m[y]
  <2>1. r[z] = new /\ r[x] = m2[x] /\ m1[x] = m[x] /\ m2[p] = m[p]
    BY <1>2, <1>5, <1>7, <1>8
  <2>2. \A y \in C \ {p, x} : r[y] = m[y]
    BY <1>3, <1>4, <1>5, <1>7, <1>8
  <2> QED BY <1>7, <1>8, <2>1, <2>2 DEF new
<1>10. \A q \in C : r[q].used = m[q].used
  BY <1>9
<1>11. \A q \in C \ {p} : r[q].next = m[q].next
  BY <1>9
<1> DEFINE B == C \cup {z}
<1>12. B \subseteq lo .. hi /\ lo \in B /\ hi \in B /\ r[hi].used /\ r[hi].next = lo
  BY <1>2, <1>4, <1>10, <1>11 DEF Ringed
<1>13. ASSUME NEW q \in B \ {hi}
       PROVE  r[q].next \in B /\ r[q].next > q + 2 /\ \A c \in B : c <= q \/ c >= r[q].next
  <2>0. \A c \in C : c <= p \/ c >= x
    BY DEF Ringed
  <2>1. CASE q = p
    <3>1. \A c \in C : c <= p \/ c >= z
      BY <1>1, <1>4, <2>0
    <3> QED BY <1>9, <2>1, <3>1
  <2>2. CASE q = z
    <3>1. \A c \in C : c <= z \/ c >= x
      BY <1>1, <1>4, <2>0
    <3> QED BY <1>1, <1>9, <2>2, <3>1
  <2>3. CASE q # p /\ q # z
    <3>1. q \in C \ {hi}
      BY <2>3
    <3> DEFINE y == m[q].next
    <3>2. y \in C /\ y > q + 2 /\ y \in Nat /\ q \in Nat /\ \A c \in C : c <= q \/ c >= y
      BY <1>4, <3>1 DEF Ringed
    <3>3. r[q].next = y
      BY <1>11, <2>3, <3>1
    <3> HIDE DEF y
    <3>4. (q <= p \/ q >= x) /\ (p <= q \/ p >= y)
      BY <2>0, <3>1, <3>2
    <3>5. z <= q \/ z >= y
      BY <1>1, <2>3, <3>2, <3>4
    <3> QED BY <3>2, <3>3, <3>5
  <2> QED BY <2>1, <2>2, <2>3
<1>14. ASSUME NEW q \in B PROVE r[q].prev \in B /\ r[r[q].prev].next = q
  <2>1. CASE q = z \/ q = x
    BY <1>9, <2>1
  <2>2. CASE q # x /\ q # z
    <3> DEFINE y == m[q].prev
    <3>1. y \in C /\ m[y].next = q
      BY <2>2 DEF Ringed
    <3>2. r[q].prev = y
      BY <1>9, <2>2
    <3> HIDE DEF y
    <3>3. y # p
      BY <2>2, <3>1
    <3>4. r[y].next = q
      BY <1>11, <3>1, <3>3
    <3> QED BY <3>1, <3>2, <3>4
  <2> QED BY <2>1, <2>2
<1>15. Ringed(r, lo, hi, B)
  <2>1. lo \in Nat /\ hi \in Nat /\ lo < hi
    BY RingFacts
  <2> HIDE DEF B
  <2> QED BY <1>8, <1>12, <1>13, <1>14, <2>1 DEF Ringed
<1> QED BY <1>1, <1>2, <1>3, <1>9, <1>10, <1>11, <1>15

(* The memory in the items of F, none of which overlap.                     *)
Rooms(m, F) == UNION {(p + RT_MEMHEAP_SIZE) .. (m[p].next - 1) : p \in F}
RoomsAdd(m, F, p) ==
  /\ Cardinality(Rooms(m, F \ {p})) \in Nat
  /\ Cardinality(Rooms(m, F)) = Cardinality(Rooms(m, F \ {p})) + (m[p].next - p - 2)
LEMMA RoomSum ==
  ASSUME NEW m, NEW lo, NEW hi, NEW C, NEW F, NEW p,
         Ringed(m, lo, hi, C), \A q \in F : q \in C /\ q # hi, p \in F
  PROVE  RoomsAdd(m, F, p)
<1> DEFINE A == Rooms(m, F \ {p})
           x == m[p].next
           y == p + 2
<1>0. \A q \in F : q \in C \ {hi} /\ q \in Nat /\ m[q].next \in Nat /\ m[q].next > q + 2 /\ m[q].next <= hi
  BY RingFacts
<1>1. y \in Nat /\ x \in Nat /\ y < x /\ p \in Nat
  BY <1>0
<1>2. A \subseteq 0 .. hi
  <2> SUFFICES ASSUME NEW q \in F \ {p}, NEW b \in (q + 2) .. (m[q].next - 1) PROVE b \in 0 .. hi
    BY DEF Rooms, RT_MEMHEAP_SIZE
  <2> DEFINE w == m[q].next
  <2>1. q \in Nat /\ w \in Nat /\ w <= hi /\ hi \in Nat
    BY <1>0, RingFacts
  <2>2. b \in (q + 2) .. (w - 1)
    OBVIOUS
  <2> HIDE DEF w
  <2> QED BY <2>1, <2>2
<1>3. IsFiniteSet(A)
  <2>1. IsFiniteSet(0 .. hi)
    <3>1. hi \in Nat
      BY RingFacts
    <3> QED BY <3>1, FS_Interval
  <2> HIDE DEF A
  <2> QED BY <1>2, <2>1, FS_Subset
<1>4. A \cap (y .. (x - 1)) = {}
  <2>1. ASSUME NEW q \in F \ {p} PROVE ((q + 2) .. (m[q].next - 1)) \cap (y .. (x - 1)) = {}
    <3> DEFINE w == m[q].next
    <3>1. q \in Nat /\ w \in Nat
      BY <1>0
    <3>2. (q <= p \/ q >= x) /\ (p <= q \/ p >= w)
      BY <1>0 DEF Ringed
    <3>3. y = p + 2 /\ q # p
      OBVIOUS
    <3> HIDE DEF w, x, y
    <3>4. q >= x \/ p >= w
      BY <1>1, <3>1, <3>2, <3>3
    <3>5. ((q + 2) .. (w - 1)) \cap (y .. (x - 1)) = {}
      BY <1>1, <3>1, <3>3, <3>4
    <3> QED BY <3>5 DEF w
  <2> QED BY <2>1 DEF Rooms, RT_MEMHEAP_SIZE
<1>5. Rooms(m, F) = A \cup (y .. (x - 1))
  BY DEF Rooms, RT_MEMHEAP_SIZE
<1>6. x - p - 2 = x - y
  BY <1>1
<1> HIDE DEF A, x, y
<1>7. Cardinality(A \cup (y .. (x - 1))) = Cardinality(A) + (x - y)
  BY <1>1, <1>3, <1>4, IntervalGrows
<1>8. Cardinality(A) \in Nat
  BY <1>3, FS_CardinalityType
<1>9. Cardinality(A) \in Nat /\ Cardinality(Rooms(m, F)) = Cardinality(A) + (x - p - 2)
  BY <1>5, <1>6, <1>7, <1>8
<1> QED BY <1>9 DEF A, x, RoomsAdd

LEMMA RoomSame ==
  ASSUME NEW m, NEW n, NEW F, \A q \in F : n[q].next = m[q].next
  PROVE  Rooms(n, F) = Rooms(m, F)
BY DEF Rooms

(***************************************************************************)
(* A pool at work: its used items are U, those listed L, and a free item   *)
(* that is not in X has a used one behind it.                              *)
(***************************************************************************)
Idle(m, C) == {p \in C : ~m[p].used}
Shape(m, l, n, lo, hi, C, U, L, X) ==
  /\ Ringed(m, lo, hi, C) /\ U = {p \in C \ {hi} : m[p].used} /\ L \subseteq Idle(m, C)
  /\ Lists(l, L) /\ n = Cardinality(Rooms(m, L))
  /\ \A q \in Idle(m, C) \ X : m[m[q].next].used

LEMMA ShapeFacts ==
  ASSUME NEW m, NEW l, NEW n, NEW lo, NEW hi, NEW C, NEW U, NEW L, NEW X, Shape(m, l, n, lo, hi, C, U, L, X)
  PROVE  /\ Ringed(m, lo, hi, C) /\ hi \in C /\ m[hi].used
         /\ \A p \in U : p \in C \ {hi} /\ m[p].used /\ p \notin L
         /\ \A p \in L : p \in C \ {hi} /\ ~m[p].used /\ p \in Nat
         /\ \A p \in C : ~m[p].used => p \in C \ {hi} /\ p \notin U
         /\ \A p \in C : m[p].used => p = hi \/ p \in U
         /\ n \in Int
<1>1. Ringed(m, lo, hi, C) /\ U = {p \in C \ {hi} : m[p].used} /\ L \subseteq {p \in C : ~m[p].used}
  BY DEF Shape, Idle
<1>2. hi \in C /\ m[hi].used
  BY <1>1 DEF Ringed
<1>3. \A p \in L : p \in Nat
  BY <1>1, RingFacts
<1>4. n \in Int
  <2>1. n = Cardinality(Rooms(m, L))
    BY DEF Shape
  <2>2. CASE L = {}
    <3>1. Rooms(m, L) = {}
      BY <2>2 DEF Rooms
    <3> QED BY <2>1, <3>1, FS_EmptySet
  <2>3. CASE L # {}
    <3>1. PICK p \in L : TRUE
      BY <2>3
    <3>2. L \subseteq C \ {hi} /\ p \in C
      BY <1>1, <1>2
    <3>3. RoomsAdd(m, L, p)
      BY <1>1, <3>2, RoomSum
    <3>4. p \in Nat /\ m[p].next \in Nat
      BY <1>1, <3>2, RingFacts
    <3> QED BY <2>1, <3>3, <3>4 DEF RoomsAdd
  <2> QED BY <2>2, <2>3
<1> QED BY <1>1, <1>2, <1>3, <1>4

LEMMA Listed ==
  ASSUME NEW m, NEW l, NEW n, NEW lo, NEW hi, NEW C, NEW U, NEW L, NEW X, Shape(m, l, n, lo, hi, C, U, L, X),
         NEW p \in C, ~m[p].used, p \notin L
  PROVE  Shape(m, <<p>> \o l, n + (m[p].next - p - 2), lo, hi, C, U, L \cup {p}, X)
<1>0. Ringed(m, lo, hi, C) /\ p \in C \ {hi} /\ \A q \in L : q \in C \ {hi}
  BY ShapeFacts
<1>1. /\ Ringed(m, lo, hi, C) /\ p \in C \ {hi} /\ p \in Nat /\ L \subseteq C \ {hi} /\ n = Cardinality(Rooms(m, L))
      /\ Lists(l, L)
  BY <1>0, RingFacts DEF Shape
<1>2. Lists(<<p>> \o l, L \cup {p})
  BY <1>1, PutsFirst
<1>3. Cardinality(Rooms(m, L \cup {p})) = n + (m[p].next - p - 2)
  <2> DEFINE F == L \cup {p}
  <2>1. (\A q \in F : q \in C /\ q # hi) /\ p \in F /\ F \ {p} = L
    BY <1>1
  <2> HIDE DEF F
  <2>2. RoomsAdd(m, F, p)
    BY <1>1, <2>1, RoomSum
  <2> QED BY <1>1, <2>1, <2>2 DEF F, RoomsAdd
<1> QED BY <1>1, <1>2, <1>3 DEF Shape, Idle

LEMMA Unlisted ==
  ASSUME NEW m, NEW l, NEW n, NEW lo, NEW hi, NEW C, NEW U, NEW L, NEW X, Shape(m, l, n, lo, hi, C, U, L, X),
         NEW p \in L
  PROVE  Shape(m, RemoveFirst(l, p), n - (m[p].next - p - 2), lo, hi, C, U, L \ {p}, X)
<1>0. Ringed(m, lo, hi, C) /\ \A q \in L : q \in C \ {hi}
  BY ShapeFacts
<1>1. /\ Ringed(m, lo, hi, C) /\ L \subseteq C \ {hi} /\ n = Cardinality(Rooms(m, L)) /\ Lists(l, L) /\ p \in C
  BY <1>0 DEF Shape
<1>2. Lists(RemoveFirst(l, p), L \ {p})
  BY <1>1, TakesOff
<1>3. Cardinality(Rooms(m, L \ {p})) = n - (m[p].next - p - 2)
  <2>1. RoomsAdd(m, L, p)
    BY <1>1, RoomSum
  <2>2. m[p].next \in Nat /\ p \in Nat
    BY <1>1, RingFacts
  <2> QED BY <1>1, <2>1, <2>2 DEF RoomsAdd
<1> QED BY <1>1, <1>2, <1>3 DEF Shape

UsedNow(m, l, n, lo, hi, C, U, L, X, p, r) ==
  /\ Shape(r, l, n, lo, hi, C, U \cup {p}, L, X) /\ \A q \in C : r[q].next = m[q].next
  /\ \A q \in C \ {p} : r[q].used = m[q].used
LEMMA MarkedUsed ==
  ASSUME NEW m, NEW l, NEW n, NEW lo, NEW hi, NEW C, NEW U, NEW L, NEW X, Shape(m, l, n, lo, hi, C, U, L, X),
         NEW p \in C, ~m[p].used, p \notin L, NEW r, r = Marks(m, p, TRUE)
  PROVE  UsedNow(m, l, n, lo, hi, C, U, L, X, p, r)
<1>1. Ringed(m, lo, hi, C) /\ p \in C \ {hi} /\ L \subseteq C
  BY ShapeFacts
<1>2. /\ Ringed(r, lo, hi, C) /\ r[p].used /\ \A q \in C : r[q].next = m[q].next
      /\ \A q \in C \ {p} : r[q].used = m[q].used
  <2> DEFINE u == TRUE
  <2>1. u \in BOOLEAN /\ r = Marks(m, p, u)
    OBVIOUS
  <2> HIDE DEF u
  <2>2. MarkedItem(m, lo, hi, C, p, u, r)
    BY <1>1, <2>1, ItemMarked
  <2> QED BY <2>2 DEF u, MarkedItem
<1>3. U \cup {p} = {q \in C \ {hi} : r[q].used}
  BY <1>1, <1>2 DEF Shape
<1>4. Idle(r, C) = Idle(m, C) \ {p}
  BY <1>1, <1>2 DEF Idle
<1>5. Rooms(r, L) = Rooms(m, L)
  BY <1>1, <1>2, RoomSame
<1>6. \A q \in Idle(r, C) \ X : r[r[q].next].used
  <2> SUFFICES ASSUME NEW q \in Idle(r, C) \ X PROVE r[m[q].next].used
    BY <1>2 DEF Idle
  <2>1. m[m[q].next].used /\ m[q].next \in C
    BY <1>1, <1>4, RingFacts DEF Shape, Idle
  <2> QED BY <1>2, <2>1
<1> QED BY <1>2, <1>3, <1>4, <1>5, <1>6 DEF Shape, UsedNow

FreeNow(m, l, n, lo, hi, C, U, L, X, p, r) ==
  /\ Shape(r, l, n, lo, hi, C, U \ {p}, L, X \cup {p, m[p].prev})
  /\ \A q \in C : r[q].next = m[q].next /\ r[q].prev = m[q].prev
  /\ (\A q \in C \ {p} : r[q].used = m[q].used) /\ ~r[p].used
LEMMA MarkedFree ==
  ASSUME NEW m, NEW l, NEW n, NEW lo, NEW hi, NEW C, NEW U, NEW L, NEW X, Shape(m, l, n, lo, hi, C, U, L, X),
         NEW p \in U, NEW r, r = Marks(m, p, FALSE)
  PROVE  FreeNow(m, l, n, lo, hi, C, U, L, X, p, r)
<1>1. Ringed(m, lo, hi, C) /\ p \in C \ {hi} /\ L \subseteq C /\ p \notin L
  BY ShapeFacts
<1>2. /\ Ringed(r, lo, hi, C) /\ ~r[p].used /\ \A q \in C : r[q].next = m[q].next /\ r[q].prev = m[q].prev
      /\ \A q \in C \ {p} : r[q].used = m[q].used
  <2> DEFINE u == FALSE
  <2>1. u \in BOOLEAN /\ r = Marks(m, p, u)
    OBVIOUS
  <2> HIDE DEF u
  <2>2. MarkedItem(m, lo, hi, C, p, u, r)
    BY <1>1, <2>1, ItemMarked
  <2> QED BY <2>2 DEF u, MarkedItem
<1>3. U \ {p} = {q \in C \ {hi} : r[q].used}
  BY <1>1, <1>2 DEF Shape
<1>4. Idle(r, C) = Idle(m, C) \cup {p}
  BY <1>1, <1>2 DEF Idle
<1>5. Rooms(r, L) = Rooms(m, L)
  BY <1>1, <1>2, RoomSame
<1>6. \A q \in Idle(r, C) \ (X \cup {p, m[p].prev}) : r[r[q].next].used
  <2> SUFFICES ASSUME NEW q \in Idle(r, C) \ (X \cup {p, m[p].prev}) PROVE r[m[q].next].used
    BY <1>2 DEF Idle
  <2>1. m[m[q].next].used /\ m[q].next \in C /\ q \in C
    BY <1>1, <1>4, RingFacts DEF Shape, Idle
  <2>2. m[q].next # p
    <3>1. m[p].prev \in C /\ m[m[p].prev].next = p
      BY <1>1 DEF Ringed
    <3> QED BY <1>1, <2>1, <3>1, OneNext
  <2> QED BY <1>2, <2>1, <2>2
<1>7. L \subseteq Idle(r, C)
  BY <1>4 DEF Shape
<1> QED BY <1>2, <1>3, <1>5, <1>6, <1>7 DEF Shape, FreeNow

(* Joined with a free one behind.  If one of the two was listed, the        *)
(* memory of the header is free as well.                                    *)
JoinedNow(m, l, n, lo, hi, C, U, L, a, b, x, r, Y) ==
  /\ Shape(r, l, IF a \in L THEN n + (x - b) ELSE n, lo, hi, C \ {b}, U, L, Y)
  /\ r[a].next = x /\ b \in C /\ a # b /\ x \in C /\ a # x /\ b # x
  /\ \A q \in C \ {b} : r[q].used = m[q].used
  /\ \A q \in C \ {a, b} : r[q].next = m[q].next
LEMMA ShapeJoined ==
  ASSUME NEW m, NEW l, NEW n, NEW lo, NEW hi, NEW C, NEW U, NEW L, NEW X, Shape(m, l, n, lo, hi, C, U, L, X),
         NEW a \in C \ {hi}, NEW b, b = m[a].next, ~m[b].used, b \notin L, NEW x, x = m[b].next,
         NEW r, r = Joins(m, a, x), NEW Y, X \ {a, b} \subseteq Y, b \in X => a \in Y
  PROVE  JoinedNow(m, l, n, lo, hi, C, U, L, a, b, x, r, Y)
<1>1. Ringed(m, lo, hi, C) /\ L \subseteq C \ {hi} /\ b \in C \ {hi} /\ m[hi].used /\ b \notin U
  BY ShapeFacts, RingFacts
<1>2. /\ Ringed(r, lo, hi, C \ {b}) /\ r[a].next = x /\ b \in C /\ a # b /\ x # b /\ x # a /\ x \in C
      /\ \A q \in C \ {b} : r[q].used = m[q].used
      /\ \A q \in C \ {a, b} : r[q].next = m[q].next
  BY <1>1, ItemsJoined
<1>3. U = {q \in (C \ {b}) \ {hi} : r[q].used}
  BY <1>1, <1>2 DEF Shape
<1>4. Idle(r, C \ {b}) = Idle(m, C) \ {b}
  BY <1>1, <1>2 DEF Idle
<1>5. (IF a \in L THEN n + (x - b) ELSE n) = Cardinality(Rooms(r, L))
  <2>0. n = Cardinality(Rooms(m, L))
    BY DEF Shape
  <2>1. CASE a \notin L
    <3>1. \A q \in L : r[q].next = m[q].next
      BY <1>1, <1>2, <2>1
    <3> QED BY <2>0, <2>1, <3>1, RoomSame
  <2>2. CASE a \in L
    <3>1. \A q \in L \ {a} : r[q].next = m[q].next
      BY <1>1, <1>2
    <3>2. Rooms(r, L \ {a}) = Rooms(m, L \ {a})
      BY <3>1, RoomSame
    <3>3. /\ Cardinality(Rooms(m, L \ {a})) \in Nat
          /\ n = Cardinality(Rooms(m, L \ {a})) + (b - a - 2)
      <4>1. RoomsAdd(m, L, a)
        BY <1>1, <2>2, RoomSum
      <4> QED BY <2>0, <4>1 DEF RoomsAdd
    <3>4. \A q \in L : q \in C \ {b} /\ q # hi
      BY <1>1
    <3>5. Cardinality(Rooms(r, L)) = Cardinality(Rooms(r, L \ {a})) + (x - a - 2)
      <4>1. RoomsAdd(r, L, a)
        BY <1>2, <2>2, <3>4, RoomSum
      <4> QED BY <1>2, <4>1 DEF RoomsAdd
    <3>6. a \in Nat /\ b \in Nat /\ x \in Nat
      BY <1>1, <1>2, RingFacts
    <3> DEFINE c == Cardinality(Rooms(m, L \ {a}))
    <3>7. Cardinality(Rooms(r, L)) = c + (x - a - 2) /\ n = c + (b - a - 2) /\ c \in Nat
      BY <3>2, <3>3, <3>5
    <3> HIDE DEF c
    <3> QED BY <2>2, <3>6, <3>7
  <2> QED BY <2>1, <2>2
<1>6. ASSUME NEW q \in Idle(r, C \ {b}) \ Y PROVE r[r[q].next].used
  <2>1. q \in Idle(m, C) /\ q # b /\ q \in C /\ q # hi
    BY <1>1, <1>4 DEF Idle
  <2>2. CASE q = a
    <3>1. b \in Idle(m, C) \ X
      BY <1>1, <2>2 DEF Idle
    <3>2. m[x].used
      BY <3>1 DEF Shape
    <3> QED BY <1>2, <2>2, <3>2
  <2>3. CASE q # a
    <3>1. m[m[q].next].used
      BY <2>1, <2>3 DEF Shape
    <3>2. m[q].next \in C \ {b}
      BY <1>1, <2>1, <3>1, RingFacts
    <3> QED BY <1>2, <2>1, <2>3, <3>1, <3>2
  <2> QED BY <2>2, <2>3
<1>7. L \subseteq Idle(r, C \ {b}) /\ Lists(l, L)
  BY <1>4 DEF Shape
<1>8. Shape(r, l, IF a \in L THEN n + (x - b) ELSE n, lo, hi, C \ {b}, U, L, Y)
  BY <1>2, <1>3, <1>5, <1>6, <1>7 DEF Shape
<1> QED BY <1>2, <1>8 DEF JoinedNow

(* Cut at z; neither part is listed.                                        *)
HalvedNow(m, l, n, lo, hi, C, U, L, X, p, x, z, r) ==
  /\ Shape(r, l, n, lo, hi, C \cup {z}, U, L, X \cup {p, z})
  /\ z \notin C /\ x \in C /\ z # hi /\ p # z /\ z \notin L
  /\ r[p].next = z /\ r[z].next = x /\ ~r[z].used
  /\ \A q \in C : r[q].used = m[q].used
  /\ \A q \in C \ {p} : r[q].next = m[q].next
LEMMA ShapeHalved ==
  ASSUME NEW m, NEW l, NEW n, NEW lo, NEW hi, NEW C, NEW U, NEW L, NEW X, Shape(m, l, n, lo, hi, C, U, L, X),
         NEW p \in C \ {hi}, p \notin L, NEW x, x = m[p].next, NEW z \in Nat, z > p + 2, z + 2 < x,
         NEW r, r = Halves(m, p, z)
  PROVE  HalvedNow(m, l, n, lo, hi, C, U, L, X, p, x, z, r)
<1>1. Ringed(m, lo, hi, C) /\ L \subseteq C \ {hi}
  BY ShapeFacts
<1>2. /\ Ringed(r, lo, hi, C \cup {z}) /\ z \notin C /\ x \in C /\ z \in lo .. hi /\ z # hi
      /\ r[p].next = z /\ r[z].next = x /\ ~r[z].used /\ p # z
      /\ \A q \in C : r[q].used = m[q].used
      /\ \A q \in C \ {p} : r[q].next = m[q].next
  BY <1>1, ItemHalved
<1>3. U = {q \in (C \cup {z}) \ {hi} : r[q].used}
  BY <1>1, <1>2 DEF Shape
<1>4. Idle(r, C \cup {z}) = Idle(m, C) \cup {z}
  BY <1>1, <1>2 DEF Idle
<1>5. Rooms(r, L) = Rooms(m, L)
  <2>1. \A q \in L : r[q].next = m[q].next
    BY <1>1, <1>2
  <2> QED BY <2>1, RoomSame
<1>6. ASSUME NEW q \in Idle(r, C \cup {z}) \ (X \cup {p, z}) PROVE r[r[q].next].used
  <2>1. q \in Idle(m, C) /\ q \in C \ {p}
    BY <1>4 DEF Idle
  <2>2. m[m[q].next].used /\ m[q].next \in C
    BY <1>1, <2>1, RingFacts DEF Shape
  <2> QED BY <1>2, <2>1, <2>2
<1>7. L \subseteq Idle(r, C \cup {z}) /\ Lists(l, L) /\ n = Cardinality(Rooms(r, L))
  BY <1>4, <1>5 DEF Shape
<1>8. Shape(r, l, n, lo, hi, C \cup {z}, U, L, X \cup {p, z})
  BY <1>2, <1>3, <1>6, <1>7 DEF Shape
<1> QED BY <1>1, <1>2, <1>8 DEF HalvedNow

LEMMA Settled ==
  ASSUME NEW m, NEW l, NEW n, NEW lo, NEW hi, NEW C, NEW U, NEW L, NEW X, Shape(m, l, n, lo, hi, C, U, L, X),
         NEW Y, \A q \in X \ Y : q \in C => m[q].used \/ m[m[q].next].used
  PROVE  Shape(m, l, n, lo, hi, C, U, L, Y)
<1>1. \A q \in Idle(m, C) \ Y : m[m[q].next].used
  BY DEF Shape, Idle
<1> QED BY <1>1 DEF Shape

(***************************************************************************)
(* The operations on a pool.                                               *)
(***************************************************************************)
Pool(m, l, n) == [item |-> m, free_list |-> l, available_size |-> n]
Works(s, lo, hi, U) ==
  /\ s = Pool(s.item, s.free_list, s.available_size)
  /\ \E C : Shape(s.item, s.free_list, s.available_size, lo, hi, C, U, Idle(s.item, C), {})
Stays(s, r, U) == \A q \in U : r.item[q].next = s.item[q].next

LEMMA PoolSets ==
  ASSUME NEW m, NEW l, NEW n, NEW v
  PROVE  /\ Pool(m, l, n).item = m /\ Pool(m, l, n).free_list = l /\ Pool(m, l, n).available_size = n
         /\ [Pool(m, l, n) EXCEPT !.item = v] = Pool(v, l, n)
         /\ [Pool(m, l, n) EXCEPT !.free_list = v] = Pool(m, v, n)
         /\ [Pool(m, l, n) EXCEPT !.available_size = v] = Pool(m, l, v)
BY DEF Pool

LEMMA InsertedForm ==
  ASSUME NEW m, NEW l, NEW n, NEW p
  PROVE  inserted(Pool(m, l, n), p) = Pool(m, <<p>> \o l, n)
<1> DEFINE v == <<p>> \o l
           s == Pool(m, l, n)
<1>1. s.free_list = l
  BY PoolSets
<1>2. inserted(s, p) = [s EXCEPT !.free_list = v]
  BY <1>1 DEF inserted
<1> HIDE DEF v
<1>3. inserted(s, p) = Pool(m, v, n)
  BY <1>2, PoolSets
<1> QED BY <1>3 DEF v

LEMMA RemovedForm ==
  ASSUME NEW m, NEW l, NEW n, NEW p
  PROVE  removed(Pool(m, l, n), p) = Pool(m, RemoveFirst(l, p), n)
<1> DEFINE v == RemoveFirst(l, p)
           s == Pool(m, l, n)
<1>1. s.free_list = l
  BY PoolSets
<1>2. removed(s, p) = [s EXCEPT !.free_list = v]
  BY <1>1 DEF removed
<1> HIDE DEF v
<1>3. removed(s, p) = Pool(m, v, n)
  BY <1>2, PoolSets
<1> QED BY <1>3 DEF v

LEMMA LinkedForm ==
  ASSUME NEW m, NEW l, NEW n, NEW p, NEW x
  PROVE  linked(Pool(m, l, n), p, x) = Pool(Joins(m, p, x), l, n)
<1> DEFINE v == Joins(m, p, x)
           s == Pool(m, l, n)
<1>1. s.item = m
  BY PoolSets
<1>2. linked(s, p, x) = [s EXCEPT !.item = v]
  <2>1. linked(s, p, x) = [s EXCEPT !.item = Joins(s.item, p, x)]
    BY DEF linked, Joins
  <2> QED BY <1>1, <2>1
<1> HIDE DEF v
<1>3. linked(s, p, x) = Pool(v, l, n)
  BY <1>2, PoolSets
<1> QED BY <1>3 DEF v

LEMMA HalvedForm ==
  ASSUME NEW m, NEW l, NEW n, NEW p, NEW size
  PROVE  halved(Pool(m, l, n), p, size) = Pool(Halves(m, p, behind(p, size)), l, n)
<1> DEFINE s == Pool(m, l, n)
           z == behind(p, size)
           new == [used |-> FALSE, next |-> m[p].next, prev |-> p]
           m1 == [m EXCEPT ![z] = new]
           m2 == [m1 EXCEPT ![m[p].next].prev = z]
           m3 == [m2 EXCEPT ![p].next = z]
<1>0. s.item = m
  BY PoolSets
<1>1. halved(s, p, size) = [[[s EXCEPT !.item[z] = new] EXCEPT !.item[m[p].next].prev = z] EXCEPT !.item[p].next = z]
  BY <1>0 DEF halved
<1> HIDE DEF z, new, s
<1>2. [s EXCEPT !.item[z] = new] = Pool(m1, l, n)
  <2>1. [s EXCEPT !.item[z] = new] = [s EXCEPT !.item = m1]
    BY <1>0
  <2> HIDE DEF m1
  <2> QED BY <2>1, PoolSets DEF s
<1> HIDE DEF m1
<1>3. [Pool(m1, l, n) EXCEPT !.item[m[p].next].prev = z] = Pool(m2, l, n)
  BY DEF Pool
<1> HIDE DEF m2
<1>4. [Pool(m2, l, n) EXCEPT !.item[p].next = z] = Pool(m3, l, n)
  BY DEF Pool
<1>5. m3 = Halves(m, p, z)
  BY DEF Halves, m2, m1, new
<1>6. halved(s, p, size) = Pool(Halves(m, p, z), l, n)
  BY <1>1, <1>2, <1>3, <1>4, <1>5
<1> QED BY <1>6 DEF s, z

LEMMA SizeForm ==
  ASSUME NEW m, NEW l, NEW n, NEW p
  PROVE  MEMITEM_SIZE(Pool(m, l, n), p) = m[p].next - p - 2
<1>1. Pool(m, l, n).item = m
  BY PoolSets
<1> QED BY <1>1 DEF MEMITEM_SIZE, RT_MEMHEAP_SIZE

LEMMA MarkForm ==
  ASSUME NEW m, NEW l, NEW n, NEW p, NEW u
  PROVE  [Pool(m, l, n) EXCEPT !.item[p].used = u] = Pool(Marks(m, p, u), l, n)
<1> DEFINE s == Pool(m, l, n)
<1>0. s.item = m
  BY PoolSets
<1> HIDE DEF s
<1> DEFINE v == Marks(m, p, u)
<1>1. [s EXCEPT !.item[p].used = u] = [s EXCEPT !.item = v]
  <2>1. [s EXCEPT !.item[p].used = u] = [s EXCEPT !.item = Marks(s.item, p, u)]
    BY DEF Marks
  <2> HIDE DEF v
  <2>2. v = Marks(s.item, p, u)
    BY <1>0 DEF v
  <2> QED BY <2>1, <2>2
<1> HIDE DEF v
<1>2. [s EXCEPT !.item = v] = Pool(v, l, n)
  BY PoolSets DEF s
<1> QED BY <1>1, <1>2 DEF v, s

Allocates(s, m, l, n, p, size) ==
  /\ splits(s, p, size) =>
       allocated(s, p, size) = Pool(Marks(Halves(m, p, behind(p, size)), p, TRUE),
                                    <<behind(p, size)>> \o RemoveFirst(l, p), n - size - 2)
  /\ ~splits(s, p, size) =>
       allocated(s, p, size) = Pool(Marks(m, p, TRUE), RemoveFirst(l, p), n - (m[p].next - p - 2))
LEMMA AllocatedForm ==
  ASSUME NEW m, NEW l, NEW n, NEW p, NEW size
  PROVE  Allocates(Pool(m, l, n), m, l, n, p, size)
<1> DEFINE s == Pool(m, l, n)
           r == allocated(s, p, size)
           z == behind(p, size)
           w == m[p].next - p - 2
           h == Halves(m, p, z)
           l1 == RemoveFirst(l, p)
           l2 == <<z>> \o l1
<1>1. inserted(removed(halved(s, p, size), p), z) = Pool(h, l2, n)
  <2>1. halved(s, p, size) = Pool(h, l, n)
    BY HalvedForm
  <2> HIDE DEF h, z
  <2>2. removed(Pool(h, l, n), p) = Pool(h, l1, n)
    BY RemovedForm
  <2> HIDE DEF l1
  <2>3. inserted(Pool(h, l1, n), z) = Pool(h, l2, n)
    BY InsertedForm
  <2> QED BY <2>1, <2>2, <2>3
<1>2. MEMITEM_SIZE(s, p) = w /\ removed(s, p) = Pool(m, l1, n)
  BY SizeForm, RemovedForm
<1>3. CASE splits(s, p, size)
  <2>1. r = [[inserted(removed(halved(s, p, size), p), z) EXCEPT !.available_size = @ - size - RT_MEMHEAP_SIZE]
               EXCEPT !.item[p].used = TRUE]
    BY <1>3 DEF allocated
  <2> HIDE DEF s, z, h, l2
  <2>2. r = [[Pool(h, l2, n) EXCEPT !.available_size = @ - size - 2] EXCEPT !.item[p].used = TRUE]
    BY <1>1, <2>1 DEF RT_MEMHEAP_SIZE
  <2> DEFINE v == n - size - 2
  <2>3. [Pool(h, l2, n) EXCEPT !.available_size = @ - size - 2] = Pool(h, l2, v)
    <3>1. Pool(h, l2, n).available_size = n
      BY PoolSets
    <3>2. [Pool(h, l2, n) EXCEPT !.available_size = @ - size - 2] = [Pool(h, l2, n) EXCEPT !.available_size = v]
      BY <3>1
    <3> HIDE DEF v
    <3> QED BY <3>2, PoolSets
  <2> HIDE DEF v
  <2>4. r = Pool(Marks(h, p, TRUE), l2, v)
    <3> DEFINE u == TRUE
    <3>1. r = [Pool(h, l2, v) EXCEPT !.item[p].used = u]
      BY <2>2, <2>3
    <3> HIDE DEF u
    <3>2. r = Pool(Marks(h, p, u), l2, v)
      BY <3>1, MarkForm
    <3> QED BY <3>2 DEF u
  <2> QED BY <1>3, <2>4 DEF Allocates, s, z, h, l2, v
<1>4. CASE ~splits(s, p, size)
  <2>1. r = [[removed(s, p) EXCEPT !.available_size = @ - MEMITEM_SIZE(s, p)] EXCEPT !.item[p].used = TRUE]
    BY <1>4 DEF allocated
  <2> HIDE DEF s, l1, w
  <2>2. r = [[Pool(m, l1, n) EXCEPT !.available_size = @ - w] EXCEPT !.item[p].used = TRUE]
    BY <1>2, <2>1
  <2> DEFINE v == n - w
  <2>3. [Pool(m, l1, n) EXCEPT !.available_size = @ - w] = Pool(m, l1, v)
    <3>1. Pool(m, l1, n).available_size = n
      BY PoolSets
    <3>2. [Pool(m, l1, n) EXCEPT !.available_size = @ - w] = [Pool(m, l1, n) EXCEPT !.available_size = v]
      BY <3>1
    <3> HIDE DEF v
    <3> QED BY <3>2, PoolSets
  <2> HIDE DEF v
  <2>4. r = Pool(Marks(m, p, TRUE), l1, v)
    <3> DEFINE u == TRUE
    <3>1. r = [Pool(m, l1, v) EXCEPT !.item[p].used = u]
      BY <2>2, <2>3
    <3> HIDE DEF u
    <3>2. r = Pool(Marks(m, p, u), l1, v)
      BY <3>1, MarkForm
    <3> QED BY <3>2 DEF u
  <2> QED BY <1>4, <2>4 DEF Allocates, s, l1, w, v
<1> QED BY <1>3, <1>4 DEF Allocates

LEMMA Amounts ==
  ASSUME NEW m, NEW lo, NEW hi, NEW C, Ringed(m, lo, hi, C), NEW p \in C \ {hi}, NEW size \in Nat
  PROVE  /\ p \in Nat /\ m[p].next \in Nat /\ m[p].next > p + 2 /\ behind(p, size) \in Nat
         /\ behind(p, size) = p + 2 + size /\ p \in lo .. hi
BY RingFacts DEF behind, RT_MEMHEAP_SIZE

AllocatedWell(s, r, lo, hi, U, p, size) ==
  /\ Works(r, lo, hi, U \cup {p}) /\ Stays(s, r, U) /\ p \notin U
  /\ p \in lo .. hi /\ p \in Nat /\ r.item[p].next \in Nat /\ r.item[p].next >= p + 2 + size
LEMMA AllocatedWorks ==
  ASSUME NEW s, NEW lo, NEW hi, NEW U, Works(s, lo, hi, U), NEW p \in ToSet(s.free_list),
         NEW size \in Nat \ {0}, MEMITEM_SIZE(s, p) >= size, NEW r, r = allocated(s, p, size)
  PROVE  AllocatedWell(s, r, lo, hi, U, p, size)
<1> DEFINE m == s.item
           l == s.free_list
           n == s.available_size
           l1 == RemoveFirst(l, p)
           x == m[p].next
           z == behind(p, size)
<1>0. PICK C : Shape(m, l, n, lo, hi, C, U, Idle(m, C), {})
  BY DEF Works
<1> DEFINE L == Idle(m, C)
<1>1. s = Pool(m, l, n) /\ Shape(m, l, n, lo, hi, C, U, L, {})
  BY <1>0 DEF Works
<1>2. p \in L
  BY <1>1 DEF Shape, Lists
<1> HIDE DEF m, l, n
<1>3. Ringed(m, lo, hi, C) /\ p \in C /\ p # hi /\ ~m[p].used /\ p \notin U /\ n \in Int
  <2> HIDE DEF L
  <2> QED BY <1>1, <1>2, ShapeFacts
<1>4. /\ p \in Nat /\ x \in Nat /\ x > p + 2 /\ z \in Nat /\ z = p + 2 + size /\ p \in lo .. hi
      /\ x \in C /\ m[x].used
  <2>1. m[x].used
    BY <1>1, <1>2 DEF Shape
  <2> QED BY <1>3, <2>1, Amounts, RingFacts
<1>5. MEMITEM_SIZE(s, p) = x - p - 2
  BY <1>1, SizeForm
<1>6. r = IF splits(s, p, size)
          THEN Pool(Marks(Halves(m, p, z), p, TRUE), <<z>> \o l1, n - size - 2)
          ELSE Pool(Marks(m, p, TRUE), l1, n - (x - p - 2))
  <2>1. Allocates(s, m, l, n, p, size)
    BY <1>1, AllocatedForm
  <2> QED BY <2>1 DEF Allocates
<1> DEFINE n1 == n - (x - p - 2)
           L1 == L \ {p}
<1>7. Shape(m, l1, n1, lo, hi, C, U, L1, {})
  <2> HIDE DEF L
  <2> QED BY <1>1, <1>2, Unlisted
<1>8. CASE splits(s, p, size)
  <2>1. x - p - 2 >= size + 3
    BY <1>5, <1>8 DEF splits, RT_MEMHEAP_SIZE, RT_MEMHEAP_MINIALLOC
  <2>2. z > p + 2 /\ z + 2 < x
    BY <1>4, <2>1
  <2> DEFINE h == Halves(m, p, z)
             k == Marks(h, p, TRUE)
             B == C \cup {z}
  <2>3. /\ Shape(h, l1, n1, lo, hi, B, U, L1, {} \cup {p, z})
        /\ z \notin C /\ x \in C /\ z # hi /\ p # z /\ z \notin L1
        /\ h[p].next = z /\ h[z].next = x /\ ~h[z].used
        /\ \A q \in C : h[q].used = m[q].used
        /\ \A q \in C \ {p} : h[q].next = m[q].next
    <3> HIDE DEF h, L1, l1, n1, z, x
    <3>1. p \in C \ {hi} /\ p \notin L1 /\ z \in Nat /\ h = Halves(m, p, z) /\ x = m[p].next
      BY <1>3, <1>4 DEF L1, h, x
    <3>2. HalvedNow(m, l1, n1, lo, hi, C, U, L1, {}, p, x, z, h)
      BY <1>7, <2>2, <3>1, ShapeHalved
    <3> QED BY <3>2 DEF HalvedNow
  <2> DEFINE X == {} \cup {p, z}
  <2>4. /\ Shape(k, l1, n1, lo, hi, B, U \cup {p}, L1, X) /\ \A q \in B : k[q].next = h[q].next
        /\ \A q \in B \ {p} : k[q].used = h[q].used
    <3>1. p \in B /\ ~h[p].used /\ p \notin L1 /\ k = Marks(h, p, TRUE)
      BY <1>3, <2>3
    <3> HIDE DEF h, k, L1, l1, n1, z, x, B, X
    <3>2. Shape(h, l1, n1, lo, hi, B, U, L1, X)
      BY <2>3 DEF X
    <3>3. UsedNow(h, l1, n1, lo, hi, B, U, L1, X, p, k)
      BY <3>1, <3>2, MarkedUsed
    <3> QED BY <3>3 DEF UsedNow
  <2>5. k[p].used
    <3>1. p \in U \cup {p}
      OBVIOUS
    <3> HIDE DEF h, k, L1, l1, n1, z, x, B, X
    <3> QED BY <2>4, <3>1, ShapeFacts
  <2>6. k[z].next = x /\ ~k[z].used /\ k[x].used /\ k[p].next = z
    <3>0. x # p
      <4> HIDE DEF x
      <4> QED BY <1>4
    <3>1. z \in B /\ p \in B /\ x \in B /\ x # p
      BY <1>3, <2>3, <3>0
    <3> HIDE DEF h, k, B
    <3> QED BY <1>4, <2>3, <2>4, <2>5, <3>1
  <2> DEFINE l2 == <<z>> \o l1
             n2 == n1 + (k[z].next - z - 2)
             L2 == L1 \cup {z}
  <2>7. Shape(k, l2, n2, lo, hi, B, U \cup {p}, L2, X)
    <3>1. z \in B /\ ~k[z].used /\ z \notin L1
      BY <2>3, <2>6
    <3> HIDE DEF h, k, L1, l1, n1, z, x, B, X
    <3> QED BY <2>4, <3>1, Listed
  <2>8. Shape(k, l2, n2, lo, hi, B, U \cup {p}, L2, {})
    <3>1. \A q \in X \ {} : q \in B => k[q].used \/ k[k[q].next].used
      BY <2>5, <2>6
    <3> HIDE DEF k, l2, n2, B, X, L2
    <3> QED BY <2>7, <3>1, Settled
  <2>9. n2 = n - size - 2
    <3>1. n2 = (n - (x - p - 2)) + (x - z - 2)
      BY <2>6
    <3> HIDE DEF n2, x, z, n
    <3> QED BY <1>3, <1>4, <3>1
  <2>10. L2 = Idle(k, B)
    <3>1. \A q \in B : ~k[q].used <=> q = z \/ (q \in C /\ q # p /\ ~m[q].used)
      BY <2>3, <2>4, <2>5, <2>6
    <3> QED BY <2>3, <3>1 DEF Idle
  <2>11. r = Pool(k, l2, n2)
    BY <1>6, <1>8, <2>9
  <2>12. r.item = k /\ r.free_list = l2 /\ r.available_size = n2
    <3> HIDE DEF k, l2, n2
    <3> QED BY <2>11, PoolSets
  <2>13. Works(r, lo, hi, U \cup {p})
    <3> HIDE DEF k, l2, n2, B, L2
    <3> QED BY <2>8, <2>10, <2>11, <2>12 DEF Works
  <2>14. Stays(s, r, U)
    <3>1. \A q \in U : q \in C
      <4> HIDE DEF L
      <4> QED BY <1>1, ShapeFacts
    <3>2. \A q \in U : q \in B /\ q \in C \ {p}
      BY <1>3, <3>1
    <3>3. \A q \in U : k[q].next = m[q].next
      <4> HIDE DEF k, h, B
      <4> QED BY <2>3, <2>4, <3>2
    <3> QED BY <2>12, <3>3 DEF Stays, m
  <2>15. r.item[p].next \in Nat /\ r.item[p].next >= p + 2 + size
    <3>1. r.item[p].next = z
      BY <2>6, <2>12
    <3> HIDE DEF z
    <3> QED BY <1>4, <3>1
  <2> QED BY <1>3, <1>4, <2>13, <2>14, <2>15 DEF AllocatedWell
<1>9. CASE ~splits(s, p, size)
  <2> DEFINE k == Marks(m, p, TRUE)
  <2>1. /\ Shape(k, l1, n1, lo, hi, C, U \cup {p}, L1, {}) /\ \A q \in C : k[q].next = m[q].next
        /\ \A q \in C \ {p} : k[q].used = m[q].used
    <3> HIDE DEF l1, n1, k
    <3>1. p \in C /\ ~m[p].used /\ p \notin L1 /\ k = Marks(m, p, TRUE)
      BY <1>3 DEF k
    <3> HIDE DEF L1
    <3>2. UsedNow(m, l1, n1, lo, hi, C, U, L1, {}, p, k)
      BY <1>7, <3>1, MarkedUsed
    <3> QED BY <3>2 DEF UsedNow
  <2>2. k[p].used
    <3>1. p \in U \cup {p}
      OBVIOUS
    <3> HIDE DEF k, L1, l1, n1
    <3> QED BY <2>1, <3>1, ShapeFacts
  <2>3. L1 = Idle(k, C)
    BY <1>3, <2>1, <2>2 DEF Idle
  <2>4. r = Pool(k, l1, n1)
    BY <1>6, <1>9
  <2>5. r.item = k /\ r.free_list = l1 /\ r.available_size = n1
    <3> HIDE DEF k, l1, n1
    <3> QED BY <2>4, PoolSets
  <2>6. Works(r, lo, hi, U \cup {p})
    <3> HIDE DEF k, l1, n1, L1
    <3> QED BY <2>1, <2>3, <2>4, <2>5 DEF Works
  <2>7. Stays(s, r, U)
    <3>1. \A q \in U : q \in C
      <4> HIDE DEF L
      <4> QED BY <1>1, ShapeFacts
    <3> QED BY <2>1, <2>5, <3>1 DEF Stays, m
  <2>8. k[p].next = x /\ x >= p + 2 + size
    <3>1. x - p - 2 >= size
      BY <1>5
    <3>2. k[p].next = x
      BY <1>3, <2>1
    <3> HIDE DEF x, k
    <3> QED BY <1>4, <3>1, <3>2
  <2> QED BY <1>3, <1>4, <2>5, <2>6, <2>7, <2>8 DEF AllocatedWell
<1> QED BY <1>8, <1>9

(* A free item, listed, which may touch the one behind it.                  *)
HalfFreed(s, lo, hi, V, at) ==
  /\ s = Pool(s.item, s.free_list, s.available_size)
  /\ \E C : /\ at \in Idle(s.item, C)
            /\ Shape(s.item, s.free_list, s.available_size, lo, hi, C, V, Idle(s.item, C), {at})

LEMMA GivesBack ==
  ASSUME NEW m, NEW l, NEW n, NEW v
  PROVE  [Pool(m, l, n) EXCEPT !.available_size = @ + v] = Pool(m, l, n + v)
<1> DEFINE w == n + v
<1>1. Pool(m, l, n).available_size = n
  BY PoolSets
<1>2. [Pool(m, l, n) EXCEPT !.available_size = @ + v] = [Pool(m, l, n) EXCEPT !.available_size = w]
  BY <1>1
<1> HIDE DEF w
<1>3. [Pool(m, l, n) EXCEPT !.available_size = @ + v] = Pool(m, l, w)
  BY <1>2, PoolSets
<1> QED BY <1>3 DEF w

LEMMA MergesRight ==
  ASSUME NEW s, NEW lo, NEW hi, NEW V, NEW at, HalfFreed(s, lo, hi, V, at),
         NEW r, r = merged_right(s, at)
  PROVE  Works(r, lo, hi, V) /\ Stays(s, r, V)
<1> DEFINE m == s.item
           l == s.free_list
           n == s.available_size
           b == m[at].next
           x == m[b].next
<1>0. PICK C : at \in Idle(m, C) /\ Shape(m, l, n, lo, hi, C, V, Idle(m, C), {at})
  BY DEF HalfFreed
<1> DEFINE L == Idle(m, C)
<1>1. s = Pool(m, l, n) /\ Shape(m, l, n, lo, hi, C, V, L, {at}) /\ at \in L
  BY <1>0 DEF HalfFreed
<1>2. r = IF m[b].used THEN s
          ELSE [removed(linked(s, at, x), b) EXCEPT !.available_size = @ + 2]
  BY DEF merged_right, RT_MEMHEAP_SIZE
<1> HIDE DEF m, l, n
<1>3. Ringed(m, lo, hi, C) /\ at \in C /\ at # hi /\ ~m[at].used /\ n \in Int /\ \A q \in V : q \in C /\ m[q].used
  <2> HIDE DEF L
  <2> QED BY <1>1, ShapeFacts
<1>4. CASE m[b].used
  <2>1. \A q \in {at} \ {} : q \in C => m[q].used \/ m[m[q].next].used
    BY <1>4
  <2>2. Shape(m, l, n, lo, hi, C, V, L, {})
    <3> HIDE DEF L
    <3> QED BY <1>1, <2>1, Settled
  <2> QED BY <1>1, <1>2, <1>4, <2>2 DEF Works, Stays, m, l, n
<1>5. CASE ~m[b].used
  <2>1. b \in C /\ b \in Nat /\ at \in Nat /\ b > at + 2 /\ x \in Nat
    BY <1>3, RingFacts
  <2>2. b \in L /\ b # at
    <3>1. b # at
      <4> HIDE DEF b
      <4> QED BY <2>1
    <3> QED BY <1>5, <2>1, <3>1 DEF Idle
  <2> DEFINE l1 == RemoveFirst(l, b)
             n1 == n - (x - b - 2)
             L1 == L \ {b}
             j == Joins(m, at, x)
             B == C \ {b}
  <2>3. Shape(m, l1, n1, lo, hi, C, V, L1, {at})
    <3> HIDE DEF L, b
    <3> QED BY <1>1, <2>2, Unlisted
  <2>4. JoinedNow(m, l1, n1, lo, hi, C, V, L1, at, b, x, j, {})
    <3>1. /\ at \in C \ {hi} /\ b = m[at].next /\ ~m[b].used /\ b \notin L1 /\ x = m[b].next
          /\ j = Joins(m, at, x) /\ {at} \ {at, b} \subseteq {} /\ (b \in {at} => at \in {})
      BY <1>3, <1>5, <2>2
    <3> HIDE DEF L1, l1, n1, j, b, x
    <3> QED BY <2>3, <3>1, ShapeJoined
  <2>5. (IF at \in L1 THEN n1 + (x - b) ELSE n1) = n + 2
    <3>1. at \in L1
      BY <1>1, <2>2
    <3>2. n1 + (x - b) = n + 2
      <4> HIDE DEF x, b, n
      <4> QED BY <1>3, <2>1
    <3> QED BY <3>1, <3>2
  <2>6. /\ Shape(j, l1, n + 2, lo, hi, B, V, L1, {})
        /\ \A q \in C \ {b} : j[q].used = m[q].used
        /\ \A q \in C \ {at, b} : j[q].next = m[q].next
    <3> HIDE DEF L1, l1, n1, j, b, x
    <3> QED BY <2>4, <2>5 DEF JoinedNow
  <2>7. L1 = Idle(j, B)
    <3> HIDE DEF j, b
    <3> QED BY <2>6 DEF Idle
  <2>8. r = Pool(j, l1, n + 2)
    <3> HIDE DEF x, b, j, l1
    <3>1. linked(s, at, x) = Pool(j, l, n)
      BY <1>1, LinkedForm DEF j
    <3>2. removed(Pool(j, l, n), b) = Pool(j, l1, n)
      BY RemovedForm DEF l1
    <3>3. r = [Pool(j, l1, n) EXCEPT !.available_size = @ + 2]
      BY <1>2, <1>5, <3>1, <3>2
    <3> QED BY <3>3, GivesBack
  <2> DEFINE v == n + 2
  <2>9. r.item = j /\ r.free_list = l1 /\ r.available_size = v
    <3>1. r = Pool(j, l1, v)
      BY <2>8
    <3> HIDE DEF j, l1, v
    <3> QED BY <3>1, PoolSets
  <2>10. Works(r, lo, hi, V)
    <3>1. r = Pool(j, l1, v) /\ Shape(j, l1, v, lo, hi, B, V, L1, {})
      BY <2>6, <2>8
    <3> HIDE DEF j, l1, v, B, L1
    <3> QED BY <2>7, <2>9, <3>1 DEF Works
  <2>11. Stays(s, r, V)
    <3>1. \A q \in V : q \in C \ {at, b}
      BY <1>3, <1>5
    <3> HIDE DEF j, b
    <3> QED BY <2>6, <2>9, <3>1 DEF Stays, m
  <2> QED BY <2>10, <2>11
<1> QED BY <1>4, <1>5

LEMMA MergesLeft ==
  ASSUME NEW s, NEW lo, NEW hi, NEW U, Works(s, lo, hi, U), NEW p \in U, NEW at,
         at = IF s.item[s.item[p].prev].used THEN p ELSE s.item[p].prev,
         NEW t, t = [s EXCEPT !.item[p].used = FALSE, !.available_size = @ + MEMITEM_SIZE(s, p)],
         NEW r, r = merged_left(t, p)
  PROVE  HalfFreed(r, lo, hi, U \ {p}, at) /\ Stays(s, r, U \ {p})
<1> DEFINE m == s.item
           l == s.free_list
           n == s.available_size
           q == m[p].prev
           x == m[p].next
           w == x - p - 2
           k == Marks(m, p, FALSE)
           V == U \ {p}
<1>0. PICK C : Shape(m, l, n, lo, hi, C, U, Idle(m, C), {})
  BY DEF Works
<1> DEFINE L == Idle(m, C)
<1>1. s = Pool(m, l, n) /\ Shape(m, l, n, lo, hi, C, U, L, {})
  BY <1>0 DEF Works
<1>2. at = IF m[q].used THEN p ELSE q
  OBVIOUS
<1> HIDE DEF m, l, n
<1>3. /\ Ringed(m, lo, hi, C) /\ p \in C /\ p # hi /\ m[p].used /\ p \notin L /\ n \in Int
      /\ m[hi].used /\ \A y \in U : y \in C /\ m[y].used
  <2> HIDE DEF L
  <2> QED BY <1>1, ShapeFacts
<1>4. p \in Nat /\ x \in Nat /\ x \in C /\ q \in C /\ m[q].next = p /\ q \in Nat /\ x > p + 2
  BY <1>3, RingFacts
<1>5. q # p /\ x # p
  <2>1. x # p
    <3> HIDE DEF x
    <3> QED BY <1>4
  <2> QED BY <1>4, <2>1
<1>6. t = Pool(k, l, n + w)
  <2>1. t = [[Pool(m, l, n) EXCEPT !.item[p].used = FALSE] EXCEPT !.available_size = @ + w]
    <3>1. MEMITEM_SIZE(s, p) = w
      BY <1>1, SizeForm
    <3> HIDE DEF w
    <3>2. t = [[s EXCEPT !.item[p].used = FALSE] EXCEPT !.available_size = @ + w]
      BY <3>1
    <3> QED BY <1>1, <3>2
  <2>2. [Pool(m, l, n) EXCEPT !.item[p].used = FALSE] = Pool(k, l, n)
    <3> DEFINE u == FALSE
    <3> HIDE DEF u
    <3>1. [Pool(m, l, n) EXCEPT !.item[p].used = u] = Pool(Marks(m, p, u), l, n)
      BY MarkForm
    <3> QED BY <3>1 DEF u
  <2> HIDE DEF k, w
  <2>3. t = [Pool(k, l, n) EXCEPT !.available_size = @ + w]
    BY <2>1, <2>2
  <2>4. [Pool(k, l, n) EXCEPT !.available_size = @ + w] = Pool(k, l, n + w)
    BY GivesBack
  <2> QED BY <2>3, <2>4
<1>7. /\ Shape(k, l, n, lo, hi, C, V, L, {p, q})
      /\ \A y \in C : k[y].next = m[y].next /\ k[y].prev = m[y].prev
      /\ (\A y \in C \ {p} : k[y].used = m[y].used) /\ ~k[p].used
  <2> HIDE DEF k, L
  <2>1. FreeNow(m, l, n, lo, hi, C, U, L, {}, p, k)
    BY <1>1, MarkedFree DEF k
  <2>2. {} \cup {p, m[p].prev} = {p, q}
    OBVIOUS
  <2> QED BY <2>1, <2>2 DEF FreeNow
<1> HIDE DEF k
<1>8. k[p].next = x /\ k[p].prev = q /\ k[q].next = p /\ (k[q].used <=> m[q].used)
  BY <1>3, <1>4, <1>5, <1>7
<1>9. t.item = k
  <2> DEFINE v == n + w
  <2>1. t = Pool(k, l, v)
    BY <1>6
  <2> HIDE DEF v
  <2>2. Pool(k, l, v).item = k
    BY PoolSets
  <2> QED BY <2>1, <2>2
<1>10. r = IF m[q].used THEN inserted(t, p)
           ELSE [linked(t, q, x) EXCEPT !.available_size = @ + 2]
  <2>1. r = IF k[k[p].prev].used THEN inserted(t, p)
            ELSE [linked(t, k[p].prev, k[p].next) EXCEPT !.available_size = @ + 2]
    <3>1. r = IF t.item[t.item[p].prev].used THEN inserted(t, p)
              ELSE [linked(t, t.item[p].prev, t.item[p].next) EXCEPT !.available_size = @ + 2]
      BY DEF merged_left, RT_MEMHEAP_SIZE
    <3> QED BY <1>9, <3>1
  <2>2. k[p].prev = q /\ k[p].next = x /\ (k[q].used <=> m[q].used)
    BY <1>8
  <2> HIDE DEF q, x
  <2> QED BY <2>1, <2>2
<1>11. Idle(k, C) = L \cup {p}
  BY <1>3, <1>7 DEF Idle
<1>12. CASE m[q].used
  <2> DEFINE l1 == <<p>> \o l
             n1 == n + w
  <2>1. Shape(k, l1, n1, lo, hi, C, V, L \cup {p}, {p, q})
    <3>1. n1 = n + (k[p].next - p - 2)
      BY <1>8
    <3>2. p \in C /\ ~k[p].used /\ p \notin L
      BY <1>3, <1>7
    <3> HIDE DEF L, n1, V
    <3>3. Shape(k, <<p>> \o l, n + (k[p].next - p - 2), lo, hi, C, V, L \cup {p}, {p, q})
      BY <1>7, <3>2, Listed
    <3> QED BY <3>1, <3>3
  <2>2. Shape(k, l1, n1, lo, hi, C, V, L \cup {p}, {p})
    <3>1. \A y \in {p, q} \ {p} : y \in C => k[y].used \/ k[k[y].next].used
      BY <1>8, <1>12
    <3> HIDE DEF L, n1, l1, V
    <3> QED BY <2>1, <3>1, Settled
  <2>3. r = Pool(k, l1, n1)
    <3>1. r = inserted(Pool(k, l, n + w), p)
      BY <1>6, <1>10, <1>12
    <3> HIDE DEF w
    <3> QED BY <3>1, InsertedForm
  <2>4. r.item = k /\ r.free_list = l1 /\ r.available_size = n1
    <3> HIDE DEF l1, n1
    <3> QED BY <2>3, PoolSets
  <2>5. HalfFreed(r, lo, hi, V, at)
    <3>1. at = p /\ p \in Idle(k, C)
      BY <1>2, <1>11, <1>12
    <3>2. Shape(k, l1, n1, lo, hi, C, V, Idle(k, C), {at})
      BY <1>11, <2>2, <3>1
    <3> HIDE DEF l1, n1, V
    <3> QED BY <2>3, <2>4, <3>1, <3>2 DEF HalfFreed
  <2>6. Stays(s, r, V)
    BY <1>3, <1>7, <2>4 DEF Stays, m
  <2> QED BY <2>5, <2>6
<1>13. CASE ~m[q].used
  <2>1. q \in C \ {hi} /\ q \in L
    BY <1>3, <1>4, <1>13 DEF Idle
  <2> DEFINE j == Joins(k, q, x)
             n1 == n + w + 2
             B == C \ {p}
  <2>2. JoinedNow(k, l, n, lo, hi, C, V, L, q, p, x, j, {q})
    <3>1. /\ q \in C \ {hi} /\ p = k[q].next /\ ~k[p].used /\ p \notin L /\ x = k[p].next
          /\ j = Joins(k, q, x) /\ {p, q} \ {q, p} \subseteq {q} /\ (p \in {p, q} => q \in {q})
      BY <1>3, <1>7, <1>8, <2>1
    <3> HIDE DEF L, j, q, x, V
    <3> QED BY <1>7, <3>1, ShapeJoined
  <2>3. (IF q \in L THEN n + (x - p) ELSE n) = n1
    <3>1. n + (x - p) = n1
      <4> HIDE DEF x, n
      <4> QED BY <1>3, <1>4
    <3> QED BY <2>1, <3>1
  <2>4. /\ Shape(j, l, n1, lo, hi, B, V, L, {q})
        /\ \A y \in C \ {p} : j[y].used = k[y].used
        /\ \A y \in C \ {q, p} : j[y].next = k[y].next
    <3> HIDE DEF L, j, q, x, V, n1
    <3> QED BY <2>2, <2>3 DEF JoinedNow
  <2>5. L = Idle(j, B)
    <3> HIDE DEF j
    <3> QED BY <1>3, <1>7, <2>4 DEF Idle
  <2>6. r = Pool(j, l, n1)
    <3> HIDE DEF x, w, q, j
    <3>1. linked(t, q, x) = Pool(j, l, n + w)
      BY <1>6, LinkedForm DEF j
    <3>2. r = [Pool(j, l, n + w) EXCEPT !.available_size = @ + 2]
      BY <1>10, <1>13, <3>1
    <3> DEFINE v == n + w
    <3> HIDE DEF v
    <3>3. [Pool(j, l, v) EXCEPT !.available_size = @ + 2] = Pool(j, l, v + 2)
      BY GivesBack
    <3> QED BY <3>2, <3>3 DEF v
  <2>7. r.item = j /\ r.free_list = l /\ r.available_size = n1
    <3> HIDE DEF j, n1
    <3> QED BY <2>6, PoolSets
  <2>8. HalfFreed(r, lo, hi, V, at)
    <3>1. at = q
      BY <1>2, <1>13
    <3>2. at \in Idle(j, B) /\ Shape(j, l, n1, lo, hi, B, V, Idle(j, B), {at})
      BY <2>1, <2>4, <2>5, <3>1
    <3> HIDE DEF j, n1, V, B
    <3> QED BY <2>6, <2>7, <3>2 DEF HalfFreed
  <2>9. Stays(s, r, V)
    <3>1. \A y \in V : y \in C \ {q, p}
      BY <1>3, <1>13
    <3>2. \A y \in V : j[y].next = m[y].next
      <4> HIDE DEF j
      <4> QED BY <1>7, <2>4, <3>1
    <3> HIDE DEF j
    <3> QED BY <2>7, <3>2 DEF Stays, m
  <2> QED BY <2>8, <2>9
<1> QED BY <1>12, <1>13

LEMMA FreedWorks ==
  ASSUME NEW s, NEW lo, NEW hi, NEW U, Works(s, lo, hi, U), NEW p \in U,
         NEW r, r = rt_memheap_freed(s, p)
  PROVE  Works(r, lo, hi, U \ {p}) /\ Stays(s, r, U \ {p})
<1> DEFINE t == [s EXCEPT !.item[p].used = FALSE, !.available_size = @ + MEMITEM_SIZE(s, p)]
           at == IF s.item[s.item[p].prev].used THEN p ELSE s.item[p].prev
           u == merged_left(t, p)
<1>1. r = merged_right(u, at)
  BY DEF rt_memheap_freed
<1>2. HalfFreed(u, lo, hi, U \ {p}, at) /\ Stays(s, u, U \ {p})
  <2>1. t = [s EXCEPT !.item[p].used = FALSE, !.available_size = @ + MEMITEM_SIZE(s, p)]
    OBVIOUS
  <2>2. at = IF s.item[s.item[p].prev].used THEN p ELSE s.item[p].prev
    OBVIOUS
  <2> HIDE DEF t, at
  <2> QED BY <2>1, <2>2, MergesLeft
<1> HIDE DEF u, at
<1>3. Works(r, lo, hi, U \ {p}) /\ Stays(u, r, U \ {p})
  BY <1>1, <1>2, MergesRight
<1> QED BY <1>2, <1>3 DEF Stays

(* An item made larger or smaller where it is.                              *)
ResizedWell(s, r, lo, hi, U, p, size) ==
  /\ Works(r, lo, hi, U) /\ Stays(s, r, U \ {p})
  /\ r.item[p].next \in Nat /\ r.item[p].next = p + 2 + size
GrownForm(s, m, l, n, p, size) ==
  grown(s, p, size) =
    Pool(Halves(Joins(m, p, m[m[p].next].next), p, behind(p, size)),
         <<behind(p, size)>> \o RemoveFirst(l, m[p].next), n - (size - (m[p].next - p - 2)))
LEMMA GrownIs ==
  ASSUME NEW m, NEW l, NEW n, NEW p, NEW size
  PROVE  GrownForm(Pool(m, l, n), m, l, n, p, size)
<1> DEFINE s == Pool(m, l, n)
           b == m[p].next
           x == m[b].next
           z == behind(p, size)
           w == b - p - 2
           l1 == RemoveFirst(l, b)
           l2 == <<z>> \o l1
           j == Joins(m, p, x)
           h == Halves(j, p, z)
           v == n - (size - w)
<1>0. s.item = m /\ MEMITEM_SIZE(s, p) = w
  BY PoolSets, SizeForm
<1>1. grown(s, p, size) =
        [inserted(halved(linked(removed(s, s.item[p].next), p, s.item[s.item[p].next].next), p, size), z)
           EXCEPT !.available_size = @ - (size - MEMITEM_SIZE(s, p))]
  BY DEF grown
<1>2. grown(s, p, size) =
        [inserted(halved(linked(removed(s, b), p, x), p, size), z) EXCEPT !.available_size = @ - (size - w)]
  <2> HIDE DEF w, s, z
  <2> QED BY <1>0, <1>1
<1>3. removed(s, b) = Pool(m, l1, n)
  BY RemovedForm
<1>4. linked(Pool(m, l1, n), p, x) = Pool(j, l1, n)
  BY LinkedForm
<1>5. halved(Pool(j, l1, n), p, size) = Pool(h, l1, n)
  BY HalvedForm
<1>6. inserted(Pool(h, l1, n), z) = Pool(h, l2, n)
  BY InsertedForm
<1> HIDE DEF s, b, x, z, w, l1, l2, j, h
<1>7. grown(s, p, size) = [Pool(h, l2, n) EXCEPT !.available_size = @ - (size - w)]
  BY <1>2, <1>3, <1>4, <1>5, <1>6
<1>8. [Pool(h, l2, n) EXCEPT !.available_size = @ - (size - w)] = Pool(h, l2, v)
  <2>1. Pool(h, l2, n).available_size = n
    BY PoolSets
  <2>2. [Pool(h, l2, n) EXCEPT !.available_size = @ - (size - w)] = [Pool(h, l2, n) EXCEPT !.available_size = v]
    BY <2>1
  <2> HIDE DEF v
  <2> QED BY <2>2, PoolSets
<1>9. grown(s, p, size) = Pool(h, l2, v)
  BY <1>7, <1>8
<1> QED BY <1>9 DEF GrownForm, s, b, x, z, w, l1, l2, j, h, v

LEMMA GrownWorks ==
  ASSUME NEW s, NEW lo, NEW hi, NEW U, Works(s, lo, hi, U), NEW p \in U,
         NEW size \in Nat \ {0}, grows(s, p, size), NEW r, r = grown(s, p, size)
  PROVE  ResizedWell(s, r, lo, hi, U, p, size)
<1> DEFINE m == s.item
           l == s.free_list
           n == s.available_size
           b == m[p].next
           x == m[b].next
           z == behind(p, size)
           w == b - p - 2
<1>0. PICK C : Shape(m, l, n, lo, hi, C, U, Idle(m, C), {})
  BY DEF Works
<1> DEFINE L == Idle(m, C)
<1>1. s = Pool(m, l, n) /\ Shape(m, l, n, lo, hi, C, U, L, {})
  BY <1>0 DEF Works
<1>2. ~m[b].used /\ MEMITEM_SIZE(s, b) + MEMITEM_SIZE(s, p) > size + 1
  BY DEF grows, RT_MEMHEAP_MINIALLOC
<1> HIDE DEF m, l, n
<1>3. /\ Ringed(m, lo, hi, C) /\ p \in C /\ p # hi /\ m[p].used /\ p \notin L /\ n \in Int
      /\ m[hi].used /\ \A y \in U : y \in C /\ m[y].used
  <2> HIDE DEF L
  <2> QED BY <1>1, ShapeFacts
<1>4. p \in Nat /\ b \in Nat /\ b \in C /\ b > p + 2 /\ b # hi /\ x \in Nat /\ x \in C /\ x > b + 2 /\ z \in Nat /\ z = p + 2 + size
  <2>1. p \in Nat /\ b \in Nat /\ b \in C /\ b > p + 2 /\ b # hi
    BY <1>2, <1>3, RingFacts
  <2>2. x \in Nat /\ x \in C /\ x > b + 2
    BY <1>3, <2>1, RingFacts
  <2>3. z \in Nat /\ z = p + 2 + size
    BY <2>1 DEF behind, RT_MEMHEAP_SIZE
  <2> HIDE DEF b, x, z
  <2> QED BY <2>1, <2>2, <2>3
<1>5. (x - b - 2) + w > size + 1
  <2>1. MEMITEM_SIZE(s, b) = x - b - 2 /\ MEMITEM_SIZE(s, p) = w
    BY <1>1, SizeForm
  <2> QED BY <1>2, <2>1
<1>6. z > p + 2
  <2> HIDE DEF z
  <2> QED BY <1>4
<1>7. z + 2 < x /\ x > p + 2 /\ b # p
  <2> HIDE DEF z, x, b
  <2> QED BY <1>4, <1>5
<1>8. b \in L
  BY <1>2, <1>4 DEF Idle
<1> DEFINE l1 == RemoveFirst(l, b)
           n1 == n - (x - b - 2)
           L1 == L \ {b}
           j == Joins(m, p, x)
           B == C \ {b}
           h == Halves(j, p, z)
           H == B \cup {z}
           l2 == <<z>> \o l1
           L2 == L1 \cup {z}
           v == n - (size - w)
<1>9. Shape(m, l1, n1, lo, hi, C, U, L1, {})
  <2> HIDE DEF L, b
  <2> QED BY <1>1, <1>8, Unlisted
<1>10. /\ Shape(j, l1, n1, lo, hi, B, U, L1, {}) /\ j[p].next = x
       /\ \A q \in B : j[q].used = m[q].used
       /\ \A q \in B \ {p} : j[q].next = m[q].next
  <2>1. /\ p \in C \ {hi} /\ b = m[p].next /\ ~m[b].used /\ b \notin L1 /\ x = m[b].next
        /\ j = Joins(m, p, x) /\ {} \ {p, b} \subseteq {} /\ (b \in {} => p \in {}) /\ p \notin L1
    BY <1>2, <1>3
  <2> HIDE DEF L1, l1, n1, j, b, x
  <2>2. JoinedNow(m, l1, n1, lo, hi, C, U, L1, p, b, x, j, {})
    BY <1>9, <2>1, ShapeJoined
  <2> QED BY <2>1, <2>2 DEF JoinedNow
<1>11. HalvedNow(j, l1, n1, lo, hi, B, U, L1, {}, p, x, z, h)
  <2>1. p \in B \ {hi} /\ p \notin L1 /\ x = j[p].next /\ z \in Nat /\ h = Halves(j, p, z)
    <3> HIDE DEF z, j, b, x
    <3> QED BY <1>3, <1>4, <1>7, <1>10
  <2> HIDE DEF L1, l1, n1, j, x, z, h, B
  <2> QED BY <1>6, <1>7, <1>10, <2>1, ShapeHalved
<1> DEFINE X == {} \cup {p, z}
<1>12. /\ Shape(h, l1, n1, lo, hi, H, U, L1, X)
       /\ z \notin B /\ x \in B /\ z \notin L1 /\ p # z
       /\ h[p].next = z /\ h[z].next = x /\ ~h[z].used
       /\ \A q \in B : h[q].used = j[q].used
       /\ \A q \in B \ {p} : h[q].next = j[q].next
  <2> HIDE DEF L1, l1, n1, j, x, z, h, B
  <2> QED BY <1>11 DEF HalvedNow
<1> DEFINE nz == n1 + (h[z].next - z - 2)
<1>13. Shape(h, l2, nz, lo, hi, H, U, L2, X)
  <2>1. z \in H /\ ~h[z].used /\ z \notin L1
    BY <1>12
  <2> HIDE DEF h, L1, l1, n1, z, H, X
  <2> QED BY <1>12, <2>1, Listed
<1>14. nz = v
  <2>1. nz = (n - (x - b - 2)) + (x - z - 2)
    BY <1>12
  <2> HIDE DEF nz, x, z, n, b
  <2> QED BY <1>3, <1>4, <2>1
<1>15. h[p].used /\ h[x].used /\ p \in B
  <2>1. m[x].used
    <3>1. b \in Idle(m, C) \ {}
      BY <1>8
    <3> QED BY <1>1, <3>1 DEF Shape
  <2>2. p \in B
    BY <1>3, <1>7
  <2> HIDE DEF h, j, x, B
  <2> QED BY <1>3, <1>10, <1>12, <2>1, <2>2
<1>16. Shape(h, l2, v, lo, hi, H, U, L2, {})
  <2>1. \A q \in X \ {} : q \in H => h[q].used \/ h[h[q].next].used
    BY <1>12, <1>15
  <2>2. Shape(h, l2, v, lo, hi, H, U, L2, X)
    BY <1>13, <1>14
  <2> HIDE DEF h, l2, v, H, X, L2
  <2> QED BY <2>1, <2>2, Settled
<1>17. L2 = Idle(h, H)
  <2>1. \A q \in H : ~h[q].used <=> q = z \/ (q \in C /\ q # b /\ ~m[q].used)
    <3> HIDE DEF h, j, z, b
    <3> QED BY <1>10, <1>12
  <2> HIDE DEF h, z, b
  <2> QED BY <2>1 DEF Idle
<1>18. r = Pool(h, l2, v)
  <2>1. GrownForm(s, m, l, n, p, size)
    BY <1>1, GrownIs
  <2> QED BY <2>1 DEF GrownForm
<1>19. r.item = h /\ r.free_list = l2 /\ r.available_size = v
  <2> HIDE DEF h, l2, v
  <2> QED BY <1>18, PoolSets
<1>20. Works(r, lo, hi, U)
  <2> HIDE DEF h, l2, v, H, L2
  <2> QED BY <1>16, <1>17, <1>18, <1>19 DEF Works
<1>21. Stays(s, r, U \ {p})
  <2>1. \A q \in U \ {p} : q \in B \ {p}
    BY <1>2, <1>3
  <2>2. \A q \in U \ {p} : h[q].next = m[q].next
    <3> HIDE DEF h, j, B
    <3> QED BY <1>10, <1>12, <2>1
  <2> HIDE DEF h
  <2> QED BY <1>19, <2>2 DEF Stays, m
<1>22. r.item[p].next = z
  BY <1>12, <1>19
<1> HIDE DEF z
<1> QED BY <1>4, <1>20, <1>21, <1>22 DEF ResizedWell

ShrunkForm(s, m, l, n, p, size) ==
  LET z == behind(p, size)
      b == m[p].next
      h == Halves(m, p, z)
      j == Joins(h, z, m[b].next)
  IN  /\ m[b].used => shrunk(s, p, size) = Pool(h, <<z>> \o l, n + (h[z].next - z - 2))
      /\ ~m[b].used => shrunk(s, p, size) =
           Pool(j, <<z>> \o RemoveFirst(l, b), (n - (m[b].next - b - 2)) + (j[z].next - z - 2))
LEMMA ShrunkIs ==
  ASSUME NEW m, NEW l, NEW n, NEW p, NEW size
  PROVE  ShrunkForm(Pool(m, l, n), m, l, n, p, size)
<1> DEFINE s == Pool(m, l, n)
           b == m[p].next
           x == m[b].next
           z == behind(p, size)
           w == x - b - 2
           h == Halves(m, p, z)
           j == Joins(h, z, x)
           t == halved(s, p, size)
           u == IF m[b].used THEN t
                ELSE [removed(linked(t, z, x), b) EXCEPT !.available_size = @ - w]
<1>0. s.item = m /\ MEMITEM_SIZE(s, b) = w
  BY PoolSets, SizeForm
<1>1. shrunk(s, p, size) = [inserted(u, z) EXCEPT !.available_size = @ + MEMITEM_SIZE(u, z)]
  <2> DEFINE q == IF s.item[s.item[p].next].used THEN t
                  ELSE [removed(linked(t, z, s.item[s.item[p].next].next), s.item[p].next)
                          EXCEPT !.available_size = @ - MEMITEM_SIZE(s, s.item[p].next)]
  <2>1. shrunk(s, p, size) = [inserted(q, z) EXCEPT !.available_size = @ + MEMITEM_SIZE(q, z)]
    BY DEF shrunk
  <2>2. q = u
    <3> HIDE DEF w, s, z, t
    <3> QED BY <1>0
  <2> HIDE DEF q, u
  <2> QED BY <2>1, <2>2
<1>2. t = Pool(h, l, n)
  BY HalvedForm
<1> HIDE DEF t
<1>3. ASSUME NEW k, NEW f, NEW v, u = Pool(k, f, v)
      PROVE  shrunk(s, p, size) = Pool(k, <<z>> \o f, v + (k[z].next - z - 2))
  <2> DEFINE g == <<z>> \o f
             d == k[z].next - z - 2
  <2> HIDE DEF u, s, z
  <2>1. inserted(u, z) = Pool(k, g, v) /\ MEMITEM_SIZE(u, z) = d
    BY <1>3, InsertedForm, SizeForm
  <2> HIDE DEF g, d
  <2>2. shrunk(s, p, size) = [Pool(k, g, v) EXCEPT !.available_size = @ + d]
    BY <1>1, <2>1
  <2>3. [Pool(k, g, v) EXCEPT !.available_size = @ + d] = Pool(k, g, v + d)
    BY GivesBack
  <2> QED BY <2>2, <2>3 DEF g, d
<1>4. CASE m[b].used
  <2>1. u = Pool(h, l, n)
    BY <1>2, <1>4
  <2>2. shrunk(s, p, size) = Pool(h, <<z>> \o l, n + (h[z].next - z - 2))
    <3> HIDE DEF u, s, z, h
    <3> QED BY <1>3, <2>1
  <2> QED BY <1>4, <2>2 DEF ShrunkForm
<1>5. CASE ~m[b].used
  <2> DEFINE f == RemoveFirst(l, b)
             v == n - w
  <2>1. u = [removed(linked(Pool(h, l, n), z, x), b) EXCEPT !.available_size = @ - w]
    BY <1>2, <1>5
  <2>2. linked(Pool(h, l, n), z, x) = Pool(j, l, n)
    <3> HIDE DEF h, z, x
    <3> QED BY LinkedForm
  <2>3. removed(Pool(j, l, n), b) = Pool(j, f, n)
    <3> HIDE DEF j, b
    <3> QED BY RemovedForm
  <2>4. u = Pool(j, f, v)
    <3> HIDE DEF u, h, z, x, j, b, f, w
    <3>1. u = [Pool(j, f, n) EXCEPT !.available_size = @ - w]
      BY <2>1, <2>2, <2>3
    <3>2. Pool(j, f, n).available_size = n
      BY PoolSets
    <3>3. u = [Pool(j, f, n) EXCEPT !.available_size = v]
      BY <3>1, <3>2
    <3> HIDE DEF v
    <3> QED BY <3>3, PoolSets
  <2>5. shrunk(s, p, size) = Pool(j, <<z>> \o f, v + (j[z].next - z - 2))
    <3> HIDE DEF u, s, z, j, f, v
    <3> QED BY <1>3, <2>4
  <2> QED BY <1>5, <2>5 DEF ShrunkForm
<1> QED BY <1>4, <1>5 DEF ShrunkForm

LEMMA ShrunkWorks ==
  ASSUME NEW s, NEW lo, NEW hi, NEW U, Works(s, lo, hi, U), NEW p \in U,
         NEW size \in Nat \ {0}, shrinks_to(s, p, size), NEW r, r = shrunk(s, p, size)
  PROVE  ResizedWell(s, r, lo, hi, U, p, size)
<1> DEFINE m == s.item
           l == s.free_list
           n == s.available_size
           b == m[p].next
           x == m[b].next
           z == behind(p, size)
           w == b - p - 2
<1>0. PICK C : Shape(m, l, n, lo, hi, C, U, Idle(m, C), {})
  BY DEF Works
<1> DEFINE L == Idle(m, C)
<1>1. s = Pool(m, l, n) /\ Shape(m, l, n, lo, hi, C, U, L, {})
  BY <1>0 DEF Works
<1> HIDE DEF m, l, n
<1>2. size + 3 < w
  <2>1. MEMITEM_SIZE(s, p) = w
    BY <1>1, SizeForm
  <2> QED BY <2>1 DEF shrinks_to, RT_MEMHEAP_SIZE, RT_MEMHEAP_MINIALLOC
<1>3. /\ Ringed(m, lo, hi, C) /\ p \in C /\ p # hi /\ m[p].used /\ p \notin L /\ n \in Int
      /\ m[hi].used /\ \A y \in U : y \in C /\ m[y].used
  <2> HIDE DEF L
  <2> QED BY <1>1, ShapeFacts
<1>4. p \in Nat /\ b \in Nat /\ b \in C /\ b > p + 2 /\ z \in Nat /\ z = p + 2 + size
  <2>1. p \in Nat /\ b \in Nat /\ b \in C /\ b > p + 2
    BY <1>3, RingFacts
  <2>3. z \in Nat /\ z = p + 2 + size
    BY <2>1 DEF behind, RT_MEMHEAP_SIZE
  <2> HIDE DEF b, x, z
  <2> QED BY <2>1, <2>3
<1>5. z > p + 2 /\ z + 2 < b /\ b # p /\ z # b
  <2> HIDE DEF z, b
  <2> QED BY <1>2, <1>4
<1>6. CASE m[b].used
  <2> DEFINE h == Halves(m, p, z)
             H == C \cup {z}
             l2 == <<z>> \o l
             L2 == L \cup {z}
             v == n + (h[z].next - z - 2)
             X == {} \cup {p, z}
  <2>1. HalvedNow(m, l, n, lo, hi, C, U, L, {}, p, b, z, h)
    <3>1. p \in C \ {hi} /\ b = m[p].next /\ h = Halves(m, p, z)
      BY <1>3
    <3> HIDE DEF L, b, z, h
    <3> QED BY <1>1, <1>3, <1>4, <1>5, <3>1, ShapeHalved
  <2>2. /\ Shape(h, l, n, lo, hi, H, U, L, X)
        /\ z \notin C /\ b \in C /\ z \notin L /\ p # z
        /\ h[p].next = z /\ h[z].next = b /\ ~h[z].used
        /\ \A q \in C : h[q].used = m[q].used
        /\ \A q \in C \ {p} : h[q].next = m[q].next
    <3> HIDE DEF L, b, z, h
    <3> QED BY <2>1 DEF HalvedNow
  <2>3. Shape(h, l2, v, lo, hi, H, U, L2, X)
    <3>1. z \in H /\ ~h[z].used /\ z \notin L
      BY <2>2
    <3> HIDE DEF h, L, z, H, X
    <3> QED BY <2>2, <3>1, Listed
  <2>4. Shape(h, l2, v, lo, hi, H, U, L2, {})
    <3>1. \A q \in X \ {} : q \in H => h[q].used \/ h[h[q].next].used
      BY <1>3, <1>6, <2>2
    <3> HIDE DEF h, l2, v, H, X, L2
    <3> QED BY <2>3, <3>1, Settled
  <2>5. L2 = Idle(h, H)
    <3> HIDE DEF h, z
    <3> QED BY <2>2 DEF Idle
  <2>6. r = Pool(h, l2, v)
    <3>1. ShrunkForm(s, m, l, n, p, size)
      BY <1>1, ShrunkIs
    <3> QED BY <1>6, <3>1 DEF ShrunkForm
  <2>7. r.item = h /\ r.free_list = l2 /\ r.available_size = v
    <3> HIDE DEF h, l2, v
    <3> QED BY <2>6, PoolSets
  <2>8. Works(r, lo, hi, U)
    <3> HIDE DEF h, l2, v, H, L2
    <3> QED BY <2>4, <2>5, <2>6, <2>7 DEF Works
  <2>9. Stays(s, r, U \ {p})
    <3> HIDE DEF h
    <3> QED BY <1>3, <2>2, <2>7 DEF Stays, m
  <2>10. r.item[p].next = z
    BY <2>2, <2>7
  <2> HIDE DEF z
  <2> QED BY <1>4, <2>8, <2>9, <2>10 DEF ResizedWell
<1>7. CASE ~m[b].used
  <2> DEFINE l1 == RemoveFirst(l, b)
             n1 == n - (x - b - 2)
             L1 == L \ {b}
             h == Halves(m, p, z)
             H == C \cup {z}
             j == Joins(h, z, x)
             J == H \ {b}
             l2 == <<z>> \o l1
             L2 == L1 \cup {z}
             v == n1 + (j[z].next - z - 2)
             X == {} \cup {p, z}
  <2>1. b \in L
    BY <1>4, <1>7 DEF Idle
  <2>2. Shape(m, l1, n1, lo, hi, C, U, L1, {})
    <3> HIDE DEF L, b
    <3> QED BY <1>1, <2>1, Unlisted
  <2>3. HalvedNow(m, l1, n1, lo, hi, C, U, L1, {}, p, b, z, h)
    <3>1. p \in C \ {hi} /\ b = m[p].next /\ h = Halves(m, p, z) /\ p \notin L1
      BY <1>3
    <3> HIDE DEF L1, b, z, h, l1, n1
    <3> QED BY <1>3, <1>4, <1>5, <2>2, <3>1, ShapeHalved
  <2>4. /\ Shape(h, l1, n1, lo, hi, H, U, L1, X)
        /\ z \notin C /\ b \in C /\ z \notin L1 /\ p # z /\ z # hi
        /\ h[p].next = z /\ h[z].next = b /\ ~h[z].used
        /\ \A q \in C : h[q].used = m[q].used
        /\ \A q \in C \ {p} : h[q].next = m[q].next
    <3> HIDE DEF L1, b, z, h, l1, n1
    <3> QED BY <2>3 DEF HalvedNow
  <2>5. JoinedNow(h, l1, n1, lo, hi, H, U, L1, z, b, x, j, {p})
    <3>1. /\ z \in H \ {hi} /\ b = h[z].next /\ ~h[b].used /\ b \notin L1 /\ x = h[b].next
          /\ j = Joins(h, z, x) /\ X \ {z, b} \subseteq {p} /\ (b \in X => z \in {p})
      <4>1. x = h[b].next /\ ~h[b].used
        <5>1. b \in C \ {p} /\ h[b].next = m[b].next
          <6> HIDE DEF h, b
          <6> QED BY <1>4, <1>5, <2>4
        <5>2. h[b].used = m[b].used
          <6> HIDE DEF h, b
          <6> QED BY <1>4, <2>4
        <5> QED BY <1>7, <5>1, <5>2
      <4> HIDE DEF h, z, x
      <4> QED BY <1>5, <2>4, <4>1
    <3> HIDE DEF L1, l1, n1, h, j, b, x, z, H, X
    <3> QED BY <2>4, <3>1, ShapeJoined
  <2>6. /\ Shape(j, l1, n1, lo, hi, J, U, L1, {p})
        /\ j[z].next = x /\ x \in H /\ z # x /\ b # x
        /\ \A q \in J : j[q].used = h[q].used
        /\ \A q \in J \ {z} : j[q].next = h[q].next
    <3>1. \A q \in J \ {z} : q \in H \ {z, b}
      OBVIOUS
    <3> HIDE DEF L1, l1, n1, h, j, b, x, z, H
    <3> QED BY <2>4, <2>5, <3>1 DEF JoinedNow
  <2>7. z \in J /\ p \in J /\ ~j[z].used /\ j[p].used
    <3>1. z \in J /\ p \in J
      BY <1>3, <1>5
    <3> HIDE DEF h, j, z, J
    <3> QED BY <1>3, <2>4, <2>6, <3>1
  <2>8. Shape(j, l2, v, lo, hi, J, U, L2, {p})
    <3>1. z \in J /\ ~j[z].used /\ z \notin L1
      BY <2>4, <2>7
    <3> HIDE DEF j, L1, l1, n1, z, J
    <3> QED BY <2>6, <3>1, Listed
  <2>9. Shape(j, l2, v, lo, hi, J, U, L2, {})
    <3>1. \A q \in {p} \ {} : q \in J => j[q].used \/ j[j[q].next].used
      BY <2>7
    <3> HIDE DEF j, l2, v, J, L2
    <3> QED BY <2>8, <3>1, Settled
  <2>10. L2 = Idle(j, J)
    <3>1. \A q \in J : ~j[q].used <=> q = z \/ (q \in C /\ q # b /\ ~m[q].used)
      <4> HIDE DEF h, j, z, b
      <4> QED BY <2>4, <2>6
    <3>2. z \in J
      BY <2>7
    <3> HIDE DEF j, z, b
    <3> QED BY <3>1, <3>2 DEF Idle
  <2>11. r = Pool(j, l2, v)
    <3>1. ShrunkForm(s, m, l, n, p, size)
      BY <1>1, ShrunkIs
    <3> QED BY <1>7, <3>1 DEF ShrunkForm
  <2>12. r.item = j /\ r.free_list = l2 /\ r.available_size = v
    <3> HIDE DEF j, l2, v
    <3> QED BY <2>11, PoolSets
  <2>13. Works(r, lo, hi, U)
    <3> HIDE DEF j, l2, v, J, L2
    <3> QED BY <2>9, <2>10, <2>11, <2>12 DEF Works
  <2>14. \A q \in U : q \in J \ {z}
    BY <1>3, <1>7, <2>4
  <2>15. Stays(s, r, U \ {p})
    <3>1. \A q \in U \ {p} : q \in C \ {p} /\ q \in J \ {z}
      BY <1>3, <2>14
    <3>2. \A q \in U \ {p} : j[q].next = m[q].next
      <4> HIDE DEF j, h, J
      <4> QED BY <2>4, <2>6, <3>1
    <3> HIDE DEF j
    <3> QED BY <2>12, <3>2 DEF Stays, m
  <2>16. r.item[p].next = z
    <3> HIDE DEF j, h, J, z
    <3> QED BY <2>4, <2>6, <2>12, <2>14
  <2> HIDE DEF z
  <2> QED BY <1>4, <2>13, <2>15, <2>16 DEF ResizedWell
<1> QED BY <1>6, <1>7

(* The first listed item that is large enough.                              *)
LEMMA FitsSome ==
  ASSUME NEW s, NEW size, s.free_list \in Seq(Nat), NEW p, p = fits(s, size), p # NONE
  PROVE  p \in ToSet(s.free_list) /\ MEMITEM_SIZE(s, p) >= size
<1> DEFINE l == s.free_list
           ok(v) == MEMITEM_SIZE(s, v) >= size
           I == {i \in 1 .. Len(l) : ok(l[i])}
           i == IF I # {} THEN Min(I) ELSE 0
<1>1. SelectInSeq(l, LAMBDA v : MEMITEM_SIZE(s, v) >= size) = i
  BY DEF SelectInSeq
<1>2. p = IF i = 0 THEN NONE ELSE l[i]
  BY <1>1 DEF fits
<1>3. i # 0 /\ p = l[i]
  <2> HIDE DEF i
  <2> QED BY <1>2
<1>4. I # {}
  BY <1>3
<1>5. i \in I
  <2>1. I \in SUBSET Nat
    OBVIOUS
  <2>2. PICK j \in I : \A k \in I : j <= k
    <3> HIDE DEF I
    <3> QED BY <1>4, <2>1, Least
  <2>3. Min(I) \in I
    <3> HIDE DEF I
    <3> QED BY <2>2 DEF Min
  <2> QED BY <1>4, <2>3
<1> HIDE DEF i
<1>6. i \in DOMAIN l /\ ok(l[i])
  BY <1>5
<1> QED BY <1>3, <1>6 DEF ToSet

(***************************************************************************)
(* Following next from the first item passes all of them.                  *)
(***************************************************************************)
LEMMA RingFound ==
  ASSUME NEW h \in Pools, NEW C, Ringed(heap[h].item, start_addr[h], last_item(h), C)
  PROVE  Ring(h) = C
<1> DEFINE m == heap[h].item
           lo == start_addr[h]
           hi == last_item(h)
           D == 0 .. PoolSizes[h]
           Turn(f) == [i \in D |-> IF i = 0 THEN lo ELSE m[f[i - 1]].next]
           nth == CHOOSE f : f = Turn(f)
           N == PoolSizes[h]
           nx == [i \in D |-> IF i = 0 THEN 0 ELSE i - 1]
           rank == [i \in D |-> i]
           stop == {0}
           val == [i \in D |-> lo]
           g == [y \in D \X C |-> m[y[2]].next]
<1>0. Ring(h) = {nth[i] : i \in D}
  BY DEF Ring
<1>1. N \in Nat /\ lo \in Nat /\ hi \in Nat /\ hi = lo + N - 2
  BY PoolFacts, PoolsApart
<1> HIDE DEF m, lo, hi
<1>2. /\ Ringed(m, lo, hi, C) /\ lo \in C /\ hi \in C /\ \A c \in C : m[c].next \in C
  <2>1. Ringed(m, lo, hi, C)
    BY DEF m, lo, hi
  <2> QED BY <2>1 DEF Ringed
<1>3. \A i \in D : i \in Nat /\ i <= N /\ (i # 0 => i - 1 \in D)
  BY <1>1
<1>4. Walk(D, C, nx, N, rank, stop, val, g)
  <2>1. nx \in [D -> D]
    BY <1>1
  <2>2. stop \in SUBSET D /\ val \in [D -> C]
    BY <1>1, <1>2
  <2>4. g \in [D \X C -> C]
    <3> HIDE DEF D
    <3> QED BY <1>2
  <2>3. rank \in [D -> 0 .. N] /\ \A i \in D \ stop : rank[nx[i]] < rank[i]
    BY <1>1
  <2> HIDE DEF nx, N, rank, stop, val, g
  <2> QED BY <1>1, <2>1, <2>2, <2>3, <2>4 DEF Walk
<1>5. HasValue(D, C, nx, stop, val, g)
  <2> HIDE DEF nx, N, rank, stop, val, g, D
  <2> QED BY <1>4, WalkHasValue
<1>6. PICK f \in [D -> C] : \A i \in D : f[i] = IF i \in stop THEN val[i] ELSE g[<<i, f[nx[i]]>>]
  BY <1>5 DEF HasValue
<1>7. f = Turn(f)
  <2> SUFFICES ASSUME NEW i \in D PROVE f[i] = IF i = 0 THEN lo ELSE m[f[i - 1]].next
    BY <1>6
  <2>1. CASE i = 0
    BY <1>6, <2>1
  <2>2. CASE i # 0
    <3>1. nx[i] = i - 1 /\ i - 1 \in D /\ f[i - 1] \in C
      BY <1>3, <2>2
    <3>2. g[<<i, f[i - 1]>>] = m[f[i - 1]].next
      BY <3>1
    <3> QED BY <1>6, <2>2, <3>1, <3>2
  <2> QED BY <2>1, <2>2
<1>8. nth = Turn(nth)
  <2> HIDE DEF Turn
  <2> QED BY <1>7
<1> HIDE DEF nth
<1>9. nth[0] = lo /\ \A i \in D : i # 0 => nth[i] = m[nth[i - 1]].next
  <2>1. 0 \in D
    BY <1>1
  <2>2. \A i \in D : nth[i] = IF i = 0 THEN lo ELSE m[nth[i - 1]].next
    BY <1>8
  <2> QED BY <2>1, <2>2
<1> HIDE DEF Turn, N, D
<1>10. \A i \in D : nth[i] \in C
  <2> DEFINE Bad == {i \in D : nth[i] \notin C}
  <2> SUFFICES ASSUME Bad # {} PROVE FALSE
    OBVIOUS
  <2>1. PICK i \in Bad : \A j \in Bad : i <= j
    <3>1. Bad \in SUBSET Nat
      BY <1>3
    <3> HIDE DEF Bad
    <3> QED BY <3>1, Least
  <2>2. i \in D /\ nth[i] \notin C /\ i # 0 /\ i - 1 \in D /\ i \in Nat
    BY <1>2, <1>3, <1>9, <2>1
  <2>3. i - 1 \notin Bad
    <3>1. ~(i <= i - 1)
      BY <2>2
    <3> QED BY <2>1, <3>1
  <2> QED BY <1>2, <1>9, <2>2, <2>3
<1>11. \A c \in C : \E i \in D : nth[i] = c
  <2> DEFINE Here(c) == \E i \in D : i <= c - lo /\ nth[i] = c
             Bad == {c \in C : ~Here(c)}
  <2>0. SUFFICES ASSUME Bad # {} PROVE FALSE
    OBVIOUS
  <2>1. PICK c \in Bad : \A d \in Bad : c <= d
    <3>1. Bad \in SUBSET Nat
      BY <1>2, RingFacts
    <3> HIDE DEF Bad
    <3> QED BY <2>0, <3>1, Least
  <2>2. c \in C /\ c \in Nat /\ lo <= c /\ c <= hi /\ ~Here(c)
    BY <1>2, <2>1, RingFacts
  <2>3. c # lo
    <3>1. 0 \in D /\ 0 <= lo - lo
      BY <1>1 DEF D, N
    <3>2. Here(lo)
      BY <1>9, <3>1
    <3> QED BY <2>2, <3>2
  <2> DEFINE q == m[c].prev
  <2>4. q \in C /\ m[q].next = c /\ q # hi
    BY <1>2, <2>2, <2>3 DEF Ringed
  <2> HIDE DEF q
  <2>5. q \in Nat /\ lo <= q /\ c > q + 2
    BY <1>2, <2>4, RingFacts
  <2>6. Here(q)
    <3>1. ~(c <= q)
      BY <2>2, <2>5
    <3> HIDE DEF Here
    <3> QED BY <2>1, <2>4, <3>1
  <2>7. PICK i \in D : i <= q - lo /\ nth[i] = q
    BY <2>6
  <2>8. i \in Nat /\ i + 1 \in D /\ i + 1 <= c - lo /\ i + 1 # 0 /\ (i + 1) - 1 = i
    BY <1>1, <1>3, <2>2, <2>5, <2>7 DEF D, N
  <2>9. nth[i + 1] = c
    BY <1>9, <2>4, <2>7, <2>8
  <2> QED BY <2>2, <2>8, <2>9
<1>12. Ring(h) = {nth[i] : i \in D}
  BY <1>0 DEF D, N
<1> QED BY <1>10, <1>11, <1>12

(***************************************************************************)
(* All pools, and the regions in the hands of callers.                     *)
(***************************************************************************)
Here(tk, h) == {r \in tk : r.at \in start_addr[h] .. last_item(h)}
Heads(tk, h) == {r.at - RT_MEMHEAP_SIZE : r \in Here(tk, h)}
Behind(s, r) == r.at + r.size <= s.item[r.at - RT_MEMHEAP_SIZE].next
Regions == [at : Nat, size : Nat \ {0}]
PoolBooks(hp, tk) ==
  /\ hp = [h \in Pools |-> hp[h]]
  /\ tk \subseteq Regions /\ \A r, q \in tk : r.at = q.at => r = q
  /\ \A r \in tk : \E h \in Pools : r \in Here(tk, h)
  /\ \A h \in Pools : /\ Works(hp[h], start_addr[h], last_item(h), Heads(tk, h))
                      /\ \A r \in Here(tk, h) : Behind(hp[h], r)

LEMMA HereFacts ==
  ASSUME NEW hp, NEW tk, PoolBooks(hp, tk), NEW h \in Pools, NEW r \in Here(tk, h),
         NEW C, Ringed(hp[h].item, start_addr[h], last_item(h), C), Heads(tk, h) \subseteq C \ {last_item(h)}
  PROVE  /\ r \in tk /\ r.at \in Nat /\ r.size \in Nat \ {0}
         /\ r.at - 2 \in Heads(tk, h) /\ r.at - 2 \in C \ {last_item(h)} /\ r.at - 2 \in Nat
         /\ r.at - 2 \in start_addr[h] .. last_item(h) /\ pool_ptr(r.at - 2) = h
         /\ hp[h].item[r.at - 2].next \in Nat /\ hp[h].item[r.at - 2].next <= last_item(h)
         /\ r.at + r.size <= hp[h].item[r.at - 2].next
<1> DEFINE p == r.at - 2
           x == hp[h].item[p].next
<1>1. r \in tk /\ r \in Regions /\ p \in Heads(tk, h)
  BY DEF Here, Heads, PoolBooks, RT_MEMHEAP_SIZE
<1>2. r.at \in Nat /\ r.size \in Nat \ {0}
  BY <1>1 DEF Regions
<1>3. Behind(hp[h], r)
  BY DEF PoolBooks
<1>4. r.at + r.size <= x
  BY <1>3 DEF Behind, RT_MEMHEAP_SIZE
<1>5. p \in C \ {last_item(h)}
  BY <1>1
<1> HIDE DEF p
<1>6. x \in C /\ p \in Nat /\ p \in start_addr[h] .. last_item(h)
  BY <1>5, RingFacts
<1>7. x \in Nat /\ x <= last_item(h)
  <2> HIDE DEF x
  <2> QED BY <1>6, RingFacts
<1>8. pool_ptr(p) = h
  BY <1>6, PoolPtr
<1> QED BY <1>1, <1>2, <1>4, <1>5, <1>6, <1>7, <1>8 DEF p, x

LEMMA PoolBooksSound == ASSUME PoolBooks(heap, taken) PROVE MemheapSound
<1> DEFINE S(h) == heap[h]
           Kept(h) == /\ \A p \in Ring(h) :
                           LET n == heap[h].item[p].next IN
                           /\ IF p = last_item(h) THEN n = start_addr[h] ELSE n >= p + RT_MEMHEAP_SIZE
                           /\ heap[h].item[n].prev = p
                      /\ ToSet(heap[h].free_list) = FreeItems(h) /\ IsInjective(heap[h].free_list)
                      /\ heap[h].available_size = Cardinality(UNION {Space(h, p) : p \in FreeItems(h)})
                      /\ \A p \in FreeItems(h) : heap[h].item[heap[h].item[p].next].used
                      /\ Ring(h) \ (FreeItems(h) \cup {last_item(h)}) = {r.at - RT_MEMHEAP_SIZE : r \in Here(taken, h)}
                      /\ \A r \in Here(taken, h) : MEMITEM_SIZE(heap[h], r.at - RT_MEMHEAP_SIZE) >= r.size
<1>1. ASSUME NEW h \in Pools PROVE Kept(h)
  <2> DEFINE m == heap[h].item
             l == heap[h].free_list
             n == heap[h].available_size
             lo == start_addr[h]
             hi == last_item(h)
             U == Heads(taken, h)
  <2>1. PICK C : Shape(m, l, n, lo, hi, C, U, Idle(m, C), {})
    BY DEF PoolBooks, Works
  <2> DEFINE L == Idle(m, C)
  <2>2. Ringed(m, lo, hi, C) /\ Ring(h) = C
    <3>1. Ringed(m, lo, hi, C)
      BY <2>1 DEF Shape
    <3> QED BY <3>1, RingFound
  <2>3. FreeItems(h) = L
    BY <2>2 DEF FreeItems, Idle
  <2>4. ASSUME NEW p \in C
        PROVE  /\ IF p = hi THEN m[p].next = lo ELSE m[p].next >= p + 2
               /\ m[m[p].next].prev = p
    <3> DEFINE b == m[p].next
    <3>1. b \in C /\ b \in Nat /\ p \in Nat /\ (p # hi => b > p + 2)
      BY <2>2, RingFacts
    <3>2. p = hi => b = lo
      BY <2>2 DEF Ringed
    <3>3. m[b].prev \in C /\ m[m[b].prev].next = b
      BY <2>2, <3>1, RingFacts
    <3>4. m[b].prev = p
      <4> HIDE DEF m, lo, hi
      <4> QED BY <2>2, <3>3, OneNext
    <3> HIDE DEF b, hi, lo
    <3>5. p # hi => b >= p + 2
      BY <3>1
    <3> QED BY <3>2, <3>4, <3>5 DEF b
  <2>5. Lists(l, L) /\ n = Cardinality(Rooms(m, L)) /\ \A q \in L : m[m[q].next].used
    BY <2>1 DEF Shape
  <2>6. Rooms(m, L) = UNION {Space(h, p) : p \in FreeItems(h)}
    BY <2>3 DEF Rooms, Space
  <2>7. C \ (L \cup {hi}) = U /\ U \subseteq C \ {hi}
    BY <2>1 DEF Shape, Idle
  <2>8. ASSUME NEW r \in Here(taken, h) PROVE MEMITEM_SIZE(heap[h], r.at - RT_MEMHEAP_SIZE) >= r.size
    <3> DEFINE p == r.at - 2
               x == m[p].next
    <3>1. r.at \in Nat /\ r.size \in Nat /\ x \in Nat /\ r.at + r.size <= x
      BY <2>2, <2>7, HereFacts
    <3>2. MEMITEM_SIZE(heap[h], p) = x - p - 2
      BY DEF MEMITEM_SIZE, RT_MEMHEAP_SIZE
    <3> HIDE DEF x
    <3>3. x - p - 2 >= r.size
      BY <3>1
    <3> QED BY <3>2, <3>3 DEF RT_MEMHEAP_SIZE
  <2>9. \A p \in Ring(h) : LET b == heap[h].item[p].next IN
                           /\ IF p = last_item(h) THEN b = start_addr[h] ELSE b >= p + RT_MEMHEAP_SIZE
                           /\ heap[h].item[b].prev = p
    BY <2>2, <2>4 DEF RT_MEMHEAP_SIZE
  <2>10. Ring(h) \ (FreeItems(h) \cup {last_item(h)}) = {r.at - RT_MEMHEAP_SIZE : r \in Here(taken, h)}
    BY <2>2, <2>3, <2>7 DEF Heads
  <2> QED BY <2>3, <2>5, <2>6, <2>8, <2>9, <2>10 DEF Lists
<1>2. RingIsLinked
  BY <1>1 DEF RingIsLinked
<1>3. FreeIsListed
  BY <1>1 DEF FreeIsListed
<1>4. AvailableMatches
  BY <1>1 DEF AvailableMatches
<1>5. FreeIsMerged
  BY <1>1 DEF FreeIsMerged
<1>6. TakenAreUsed
  BY <1>1 DEF TakenAreUsed, Here
<1> QED BY <1>2, <1>3, <1>4, <1>5, <1>6 DEF MemheapSound

(* What a call does to one pool and to the regions in it.                   *)
Moved(hp, tk, h, s, D, N, kp, gk) ==
  /\ D \subseteq Here(tk, h) /\ N \subseteq Regions
  /\ \A q \in N : q.at \in start_addr[h] .. last_item(h) /\ Behind(s, q)
  /\ \A q, r \in N : q = r
  /\ \A q \in N : \A r \in tk \ D : q.at # r.at
  /\ gk = (tk \ D) \cup N
  /\ Works(s, start_addr[h], last_item(h), Heads(gk, h))
  /\ \A r \in Here(tk, h) \ D :
       s.item[r.at - RT_MEMHEAP_SIZE].next = hp[h].item[r.at - RT_MEMHEAP_SIZE].next
  /\ kp = [hp EXCEPT ![h] = s]
LEMMA BooksMove ==
  ASSUME NEW hp, NEW tk, PoolBooks(hp, tk), NEW h \in Pools, NEW s, NEW D, NEW N, NEW kp, NEW gk,
         Moved(hp, tk, h, s, D, N, kp, gk)
  PROVE  PoolBooks(kp, gk)
<1> USE DEF Moved
<1>1. /\ hp = [k \in Pools |-> hp[k]]
      /\ tk \subseteq Regions /\ \A r, q \in tk : r.at = q.at => r = q
      /\ \A r \in tk : \E k \in Pools : r \in Here(tk, k)
      /\ \A k \in Pools : /\ Works(hp[k], start_addr[k], last_item(k), Heads(tk, k))
                          /\ \A r \in Here(tk, k) : Behind(hp[k], r)
  BY DEF PoolBooks
<1>2. kp[h] = s /\ kp = [k \in Pools |-> kp[k]] /\ \A k \in Pools \ {h} : kp[k] = hp[k]
  BY <1>1
<1>3. gk \subseteq Regions
  BY <1>1
<1>4. \A r, q \in gk : r.at = q.at => r = q
  BY <1>1
<1>5. Here(gk, h) = (Here(tk, h) \ D) \cup N
  BY DEF Here
<1>6. ASSUME NEW k \in Pools \ {h} PROVE Here(gk, k) = Here(tk, k)
  <2>1. (start_addr[h] .. last_item(h)) \cap (start_addr[k] .. last_item(k)) = {}
    BY PoolsApart
  <2> QED BY <2>1 DEF Here
<1>7. ASSUME NEW r \in gk PROVE \E k \in Pools : r \in Here(gk, k)
  <2>1. CASE r \in N
    BY <1>5, <2>1
  <2>2. CASE r \in tk \ D
    <3>1. PICK k \in Pools : r \in Here(tk, k)
      BY <1>1, <2>2
    <3>2. CASE k = h
      BY <1>5, <2>2, <3>1, <3>2
    <3>3. CASE k # h
      BY <1>6, <3>1, <3>3
    <3> QED BY <3>2, <3>3
  <2> QED BY <2>1, <2>2
<1>8. ASSUME NEW k \in Pools
      PROVE  /\ Works(kp[k], start_addr[k], last_item(k), Heads(gk, k))
             /\ \A r \in Here(gk, k) : Behind(kp[k], r)
  <2>1. CASE k = h
    <3>1. \A r \in Here(gk, h) : Behind(s, r)
      BY <1>1, <1>5 DEF Behind
    <3> QED BY <1>2, <2>1, <3>1
  <2>2. CASE k # h
    <3>1. Here(gk, k) = Here(tk, k) /\ Heads(gk, k) = Heads(tk, k) /\ kp[k] = hp[k]
      BY <1>2, <1>6, <2>2 DEF Heads
    <3> QED BY <1>1, <3>1
  <2> QED BY <2>1, <2>2
<1> QED BY <1>2, <1>3, <1>4, <1>7, <1>8 DEF PoolBooks

LEMMA WorksFacts ==
  ASSUME NEW s, NEW lo, NEW hi, NEW U, Works(s, lo, hi, U)
  PROVE  /\ s.free_list \in Seq(Nat) /\ lo \in Nat /\ hi \in Nat
         /\ \E C : Ringed(s.item, lo, hi, C) /\ U \subseteq C \ {hi}
         /\ \A p \in U : p \in lo .. hi /\ s.item[p].next \in Nat /\ s.item[p].next <= hi
<1> DEFINE m == s.item
<1>1. PICK C : Shape(m, s.free_list, s.available_size, lo, hi, C, U, Idle(m, C), {})
  BY DEF Works
<1>2. Ringed(m, lo, hi, C) /\ U \subseteq C \ {hi} /\ s.free_list \in Seq(Nat)
  BY <1>1 DEF Shape, Lists
<1> HIDE DEF m
<1>3. \A p \in U : p \in lo .. hi /\ m[p].next \in Nat /\ m[p].next <= hi
  BY <1>2, RingFacts
<1>4. lo \in Nat /\ hi \in Nat
  BY <1>2, RingFacts
<1> QED BY <1>2, <1>3, <1>4 DEF m

HeadWell(hp, tk, h, r, p) ==
  /\ r \in tk /\ r \in Regions /\ r.at \in Nat /\ r.size \in Nat \ {0} /\ p = r.at - 2 /\ r.at = p + 2
  /\ p \in Heads(tk, h) /\ p \in Nat
  /\ p \in start_addr[h] .. last_item(h) /\ r.at \in start_addr[h] .. last_item(h) /\ pool_ptr(p) = h
  /\ hp[h].item[p].next \in Nat /\ hp[h].item[p].next <= last_item(h)
  /\ r.at + r.size <= hp[h].item[p].next
LEMMA HeadIs ==
  ASSUME NEW hp, NEW tk, PoolBooks(hp, tk), NEW h \in Pools, NEW r \in Here(tk, h)
  PROVE  HeadWell(hp, tk, h, r, r.at - 2)
<1>1. Works(hp[h], start_addr[h], last_item(h), Heads(tk, h))
  BY DEF PoolBooks
<1>2. PICK C : Ringed(hp[h].item, start_addr[h], last_item(h), C) /\ Heads(tk, h) \subseteq C \ {last_item(h)}
  BY <1>1, WorksFacts
<1> DEFINE p == r.at - 2
           x == hp[h].item[p].next
<1>3. /\ r \in tk /\ r.at \in Nat /\ r.size \in Nat \ {0}
      /\ p \in Heads(tk, h) /\ p \in Nat
      /\ p \in start_addr[h] .. last_item(h) /\ pool_ptr(p) = h
      /\ x \in Nat /\ x <= last_item(h) /\ r.at + r.size <= x
  BY <1>2, HereFacts
<1>4. r.at \in start_addr[h] .. last_item(h) /\ r \in Regions
  BY <1>3 DEF Here, PoolBooks
<1>5. r.at = p + 2
  BY <1>3
<1> QED BY <1>3, <1>4, <1>5 DEF HeadWell

LEMMA SomePool ==
  ASSUME NEW hp, NEW tk, PoolBooks(hp, tk), NEW r \in tk
  PROVE  LET h == pool_ptr(r.at - RT_MEMHEAP_SIZE) IN
         h \in Pools /\ r \in Here(tk, h) /\ HeadWell(hp, tk, h, r, r.at - 2)
<1>1. PICK k \in Pools : r \in Here(tk, k)
  BY DEF PoolBooks
<1>2. HeadWell(hp, tk, k, r, r.at - 2)
  BY <1>1, HeadIs
<1>3. pool_ptr(r.at - 2) = k
  BY <1>2 DEF HeadWell
<1> QED BY <1>1, <1>2, <1>3 DEF RT_MEMHEAP_SIZE

LEMMA PoolGives ==
  ASSUME NEW hp, NEW tk, PoolBooks(hp, tk), NEW h \in Pools, NEW size \in Nat \ {0},
         NEW p, p = fits(hp[h], size), p # NONE,
         NEW kp, kp = [hp EXCEPT ![h] = allocated(@, p, size)],
         NEW n, n = [at |-> p + RT_MEMHEAP_SIZE, size |-> size]
  PROVE  PoolBooks(kp, tk \cup {n}) /\ n \notin tk
<1> DEFINE s == hp[h]
           r == allocated(s, p, size)
           lo == start_addr[h]
           hi == last_item(h)
           U == Heads(tk, h)
           gk == (tk \ {}) \cup {n}
<1>1. Works(s, lo, hi, U) /\ hp = [k \in Pools |-> hp[k]]
  BY DEF PoolBooks
<1> HIDE DEF s, lo, hi, U, r
<1>2. p \in ToSet(s.free_list) /\ MEMITEM_SIZE(s, p) >= size
  BY <1>1, WorksFacts, FitsSome DEF s
<1>3. AllocatedWell(s, r, lo, hi, U, p, size)
  BY <1>1, <1>2, AllocatedWorks DEF r
<1>4. /\ Works(r, lo, hi, U \cup {p}) /\ Stays(s, r, U) /\ p \notin U
      /\ p \in lo .. hi /\ p \in Nat /\ r.item[p].next \in Nat /\ r.item[p].next >= p + 2 + size
  BY <1>3 DEF AllocatedWell
<1>5. r.item[p].next <= hi /\ lo \in Nat /\ hi \in Nat
  BY <1>4, WorksFacts
<1> DEFINE x == r.item[p].next
<1>6. n.at = p + 2 /\ n.size = size /\ n.at - 2 = p /\ n \in Regions /\ n.at \in lo .. hi /\ n.at + n.size <= x
  <2>1. n.at = p + 2 /\ n.size = size
    BY DEF RT_MEMHEAP_SIZE
  <2>2. n.at \in Nat /\ n \in Regions
    BY <1>4, <2>1 DEF Regions, RT_MEMHEAP_SIZE
  <2> HIDE DEF x
  <2>3. x \in Nat /\ x >= p + 2 + size /\ x <= hi
    BY <1>4, <1>5 DEF x
  <2>4. p \in Nat /\ lo <= p /\ p <= hi
    BY <1>4, <1>5
  <2>5. p + 2 \in lo .. hi /\ (p + 2) - 2 = p /\ (p + 2) + size <= x
    BY <1>5, <2>3, <2>4
  <2> QED BY <2>1, <2>2, <2>5
<1>7. Behind(r, n)
  BY <1>6 DEF Behind, RT_MEMHEAP_SIZE
<1>8. \A q \in tk : n.at # q.at
  <2> SUFFICES ASSUME NEW q \in tk, q.at = n.at PROVE FALSE
    OBVIOUS
  <2>1. q \in Here(tk, h)
    BY <1>6 DEF Here, lo, hi
  <2>2. q.at - 2 \in U
    BY <2>1 DEF Heads, U, RT_MEMHEAP_SIZE
  <2> QED BY <1>4, <1>6, <2>2
<1>9. Heads(gk, h) = U \cup {p}
  <2>1. Here(gk, h) = Here(tk, h) \cup {n}
    BY <1>6 DEF Here, lo, hi
  <2>2. n.at - RT_MEMHEAP_SIZE = p
    BY <1>6 DEF RT_MEMHEAP_SIZE
  <2> QED BY <2>1, <2>2 DEF Heads, U
<1>10. \A q \in Here(tk, h) \ {} : r.item[q.at - RT_MEMHEAP_SIZE].next = hp[h].item[q.at - RT_MEMHEAP_SIZE].next
  <2>1. \A q \in Here(tk, h) : q.at - RT_MEMHEAP_SIZE \in U
    BY DEF Heads, U
  <2> QED BY <1>4, <2>1 DEF Stays, s
<1>11. kp = [hp EXCEPT ![h] = r]
  BY DEF r, s
<1>12. PoolBooks(kp, gk)
  <2> DEFINE D == {}
             N == {n}
  <2>1. /\ D \subseteq Here(tk, h) /\ N \subseteq Regions
        /\ \A q \in N : q.at \in start_addr[h] .. last_item(h) /\ Behind(r, q)
        /\ \A q, y \in N : q = y
        /\ \A q \in N : \A y \in tk \ D : q.at # y.at
        /\ gk = (tk \ D) \cup N
    BY <1>6, <1>7, <1>8 DEF lo, hi
  <2>2. Works(r, start_addr[h], last_item(h), Heads(gk, h))
    BY <1>4, <1>9 DEF lo, hi
  <2>3. \A q \in Here(tk, h) \ D :
           r.item[q.at - RT_MEMHEAP_SIZE].next = hp[h].item[q.at - RT_MEMHEAP_SIZE].next
    BY <1>10
  <2> HIDE DEF D, N, gk
  <2>4. Moved(hp, tk, h, r, D, N, kp, gk)
    BY <1>11, <2>1, <2>2, <2>3 DEF Moved
  <2> QED BY <2>4, BooksMove
<1>13. gk = tk \cup {n}
  OBVIOUS
<1> QED BY <1>8, <1>12, <1>13

LEMMA PoolTakes ==
  ASSUME NEW hp, NEW tk, PoolBooks(hp, tk), NEW d \in tk, NEW p, p = d.at - RT_MEMHEAP_SIZE,
         NEW h, h = pool_ptr(p), NEW kp, kp = [hp EXCEPT ![h] = rt_memheap_freed(@, p)]
  PROVE  PoolBooks(kp, tk \ {d})
<1> DEFINE s == hp[h]
           r == rt_memheap_freed(s, p)
           lo == start_addr[h]
           hi == last_item(h)
           U == Heads(tk, h)
           gk == (tk \ {d}) \cup {}
<1>0. h \in Pools /\ d \in Here(tk, h) /\ HeadWell(hp, tk, h, d, p)
  <2>1. d.at - 2 = p
    BY DEF RT_MEMHEAP_SIZE
  <2> QED BY <2>1, SomePool
<1>1. Works(s, lo, hi, U) /\ hp = [k \in Pools |-> hp[k]] /\ p \in U
  BY <1>0 DEF PoolBooks, HeadWell
<1> HIDE DEF s, lo, hi, U, r
<1>2. Works(r, lo, hi, U \ {p}) /\ Stays(s, r, U \ {p})
  BY <1>1, FreedWorks DEF r
<1>3. ASSUME NEW q \in Here(tk, h) \ {d} PROVE q.at - RT_MEMHEAP_SIZE \in U \ {p}
  <2>1. HeadWell(hp, tk, h, q, q.at - 2) /\ q \in tk
    BY <1>0, HeadIs DEF Here
  <2>2. q.at # d.at
    BY <2>1 DEF PoolBooks
  <2>3. q.at - 2 \in U /\ q.at \in Nat /\ d.at \in Nat /\ p = d.at - 2
    BY <1>0, <2>1 DEF HeadWell, U
  <2>4. q.at - 2 # p
    BY <2>2, <2>3
  <2> QED BY <2>3, <2>4 DEF RT_MEMHEAP_SIZE
<1>4. Heads(gk, h) = U \ {p}
  <2>1. Here(gk, h) = Here(tk, h) \ {d}
    BY DEF Here
  <2>2. \A q \in Here(tk, h) : q = d \/ q \in Here(tk, h) \ {d}
    OBVIOUS
  <2>3. ASSUME NEW y \in U \ {p} PROVE y \in Heads(gk, h)
    <3>1. PICK q \in Here(tk, h) : y = q.at - RT_MEMHEAP_SIZE
      BY DEF Heads, U
    <3>2. q # d
      BY <3>1
    <3> QED BY <2>1, <3>1, <3>2 DEF Heads
  <2>4. ASSUME NEW y \in Heads(gk, h) PROVE y \in U \ {p}
    <3>1. PICK q \in Here(tk, h) \ {d} : y = q.at - RT_MEMHEAP_SIZE
      BY <2>1 DEF Heads
    <3> QED BY <1>3, <3>1
  <2> QED BY <2>3, <2>4
<1>5. \A q \in Here(tk, h) \ {d} : r.item[q.at - RT_MEMHEAP_SIZE].next = hp[h].item[q.at - RT_MEMHEAP_SIZE].next
  BY <1>2, <1>3 DEF Stays, s
<1>6. kp = [hp EXCEPT ![h] = r]
  BY DEF r, s
<1>7. PoolBooks(kp, gk)
  <2> DEFINE D == {d}
             N == {}
  <2>1. /\ D \subseteq Here(tk, h) /\ N \subseteq Regions
        /\ \A q \in N : q.at \in start_addr[h] .. last_item(h) /\ Behind(r, q)
        /\ \A q, y \in N : q = y
        /\ \A q \in N : \A y \in tk \ D : q.at # y.at
        /\ gk = (tk \ D) \cup N
    BY <1>0
  <2>2. Works(r, start_addr[h], last_item(h), Heads(gk, h))
    BY <1>2, <1>4 DEF lo, hi
  <2>3. \A q \in Here(tk, h) \ D :
           r.item[q.at - RT_MEMHEAP_SIZE].next = hp[h].item[q.at - RT_MEMHEAP_SIZE].next
    BY <1>5
  <2> HIDE DEF D, N, gk
  <2>4. Moved(hp, tk, h, r, D, N, kp, gk)
    BY <1>6, <2>1, <2>2, <2>3 DEF Moved
  <2> QED BY <1>0, <2>4, BooksMove
<1>8. gk = tk \ {d}
  OBVIOUS
<1> QED BY <1>7, <1>8

InPlace(hp, tk, h, s, d, size, kp, n) ==
  /\ kp = [hp EXCEPT ![h] = s] /\ n = [d EXCEPT !.size = size] /\ size \in Nat \ {0}
  /\ h = pool_ptr(d.at - RT_MEMHEAP_SIZE)
  /\ Works(s, start_addr[h], last_item(h), Heads(tk, h))
  /\ Stays(hp[h], s, Heads(tk, h) \ {d.at - 2})
  /\ s.item[d.at - 2].next \in Nat /\ s.item[d.at - 2].next >= d.at + size
LEMMA PoolResizes ==
  ASSUME NEW hp, NEW tk, PoolBooks(hp, tk), NEW d \in tk, NEW h, NEW size, NEW s, NEW kp, NEW n,
         InPlace(hp, tk, h, s, d, size, kp, n)
  PROVE  PoolBooks(kp, (tk \ {d}) \cup {n}) /\ n.at = d.at
<1> DEFINE p == d.at - 2
           gk == (tk \ {d}) \cup {n}
<1> USE DEF InPlace
<1>0. h \in Pools /\ d \in Here(tk, h) /\ HeadWell(hp, tk, h, d, p)
  BY SomePool
<1>1. d \in Regions /\ d \in tk /\ d.at \in Nat /\ d.at \in start_addr[h] .. last_item(h) /\ p \in Heads(tk, h)
  BY <1>0 DEF HeadWell
<1>2. n.at = d.at /\ n.size = size /\ n \in Regions
  BY <1>1 DEF Regions
<1>3. Behind(s, n)
  BY <1>1, <1>2 DEF Behind, RT_MEMHEAP_SIZE
<1>4. \A q \in tk \ {d} : n.at # q.at
  BY <1>1, <1>2 DEF PoolBooks
<1>5. Heads(gk, h) = Heads(tk, h)
  <2>1. Here(gk, h) = (Here(tk, h) \ {d}) \cup {n}
    BY <1>1, <1>2 DEF Here
  <2> QED BY <1>0, <1>2, <2>1 DEF Heads
<1>6. ASSUME NEW q \in Here(tk, h) \ {d} PROVE q.at - RT_MEMHEAP_SIZE \in Heads(tk, h) \ {p}
  <2>1. HeadWell(hp, tk, h, q, q.at - 2) /\ q \in tk
    BY <1>0, HeadIs DEF Here
  <2>2. q.at # d.at
    BY <2>1 DEF PoolBooks
  <2>3. q.at - 2 \in Heads(tk, h) /\ q.at \in Nat /\ d.at \in Nat
    BY <1>1, <2>1 DEF HeadWell
  <2>4. q.at - 2 # p
    BY <2>2, <2>3
  <2> QED BY <2>3, <2>4 DEF RT_MEMHEAP_SIZE
<1>7. \A q \in Here(tk, h) \ {d} : s.item[q.at - RT_MEMHEAP_SIZE].next = hp[h].item[q.at - RT_MEMHEAP_SIZE].next
  BY <1>6 DEF Stays
<1>8. PoolBooks(kp, gk)
  <2> DEFINE D == {d}
             N == {n}
  <2>1. /\ D \subseteq Here(tk, h) /\ N \subseteq Regions
        /\ \A q \in N : q.at \in start_addr[h] .. last_item(h) /\ Behind(s, q)
        /\ \A q, y \in N : q = y
        /\ \A q \in N : \A y \in tk \ D : q.at # y.at
        /\ gk = (tk \ D) \cup N
    BY <1>0, <1>1, <1>2, <1>3, <1>4
  <2>2. Works(s, start_addr[h], last_item(h), Heads(gk, h))
    BY <1>5
  <2>3. \A q \in Here(tk, h) \ D :
           s.item[q.at - RT_MEMHEAP_SIZE].next = hp[h].item[q.at - RT_MEMHEAP_SIZE].next
    BY <1>7
  <2> HIDE DEF D, N, gk
  <2>4. Moved(hp, tk, h, s, D, N, kp, gk)
    BY <2>1, <2>2, <2>3 DEF Moved
  <2> QED BY <1>0, <2>4, BooksMove
<1> QED BY <1>2, <1>8

(***************************************************************************)
(* The calls that are under way: none is about to free what another is     *)
(* moving, and what is being moved is still in the hands of its caller.    *)
(***************************************************************************)
CallWell(v, tk) ==
  /\ v = [stage |-> v.stage, size |-> v.size, pools |-> v.pools, old |-> v.old]
  /\ v.size \in HeapSizes /\ v.pools \in Seq(Pools) /\ (v.old = NONE \/ v.old \in tk)
  /\ v.stage \in {"glance", "search", "copied"}
  /\ (v.stage = "search" => v.pools # <<>>) /\ (v.stage = "copied" => v.old # NONE)
PoolCalls(cl, tk) ==
  /\ cl = [c \in Callers |-> cl[c]]
  /\ \A c \in Callers : cl[c] # NONE => CallWell(cl[c], tk)
  /\ \A c, d \in Callers : c # d /\ cl[c] # NONE /\ cl[d] # NONE /\ cl[c].old # NONE => cl[c].old # cl[d].old
Keeps(cl, c, gk) == \A d \in Callers \ {c} : cl[d] # NONE /\ cl[d].old # NONE => cl[d].old \in gk
MayCall(cl, c, v, gk) ==
  v = NONE \/ (/\ CallWell(v, gk)
               /\ \A d \in Callers \ {c} : cl[d] # NONE /\ v.old # NONE => v.old # cl[d].old)

LEMMA CallMoves ==
  ASSUME NEW cl, NEW tk, PoolCalls(cl, tk), NEW c \in Callers, NEW v, NEW gk, Keeps(cl, c, gk),
         MayCall(cl, c, v, gk), NEW kl, kl = [cl EXCEPT ![c] = v]
  PROVE  PoolCalls(kl, gk)
<1>1. kl = [d \in Callers |-> kl[d]] /\ kl[c] = v /\ \A d \in Callers \ {c} : kl[d] = cl[d]
  BY DEF PoolCalls
<1>2. ASSUME NEW d \in Callers, kl[d] # NONE PROVE CallWell(kl[d], gk)
  <2>1. CASE d = c
    BY <1>1, <1>2, <2>1 DEF MayCall
  <2>2. CASE d # c
    BY <1>1, <1>2, <2>2 DEF PoolCalls, CallWell, Keeps
  <2> QED BY <2>1, <2>2
<1>3. ASSUME NEW d \in Callers, NEW e \in Callers, d # e, kl[d] # NONE, kl[e] # NONE, kl[d].old # NONE
      PROVE  kl[d].old # kl[e].old
  <2>1. CASE d # c /\ e # c
    BY <1>1, <1>3, <2>1 DEF PoolCalls
  <2>2. CASE d = c
    BY <1>1, <1>3, <2>2 DEF MayCall
  <2>3. CASE e = c
    BY <1>1, <1>3, <2>3 DEF MayCall
  <2> QED BY <2>1, <2>2, <2>3
<1> QED BY <1>1, <1>2, <1>3 DEF PoolCalls

LEMMA CallsStay ==
  ASSUME NEW cl, NEW tk, PoolCalls(cl, tk), NEW gk,
         \A d \in Callers : cl[d] # NONE /\ cl[d].old # NONE => cl[d].old \in gk
  PROVE  PoolCalls(cl, gk)
<1>1. \A c \in Callers : cl[c] # NONE => CallWell(cl[c], gk)
  BY DEF PoolCalls, CallWell
<1> QED BY <1>1 DEF PoolCalls

MemheapInv == PoolBooks(heap, taken) /\ PoolCalls(call, taken)

LEMMA AllPoolsFacts == AllPools \in Seq(Pools) /\ \A h \in Pools : <<h>> \o AllPools \in Seq(Pools)
<1>1. AllPools \in [1 .. Len(PoolSizes) -> Pools] /\ Len(PoolSizes) \in Nat
  BY PoolFacts DEF AllPools
<1>2. AllPools \in Seq(Pools)
  BY <1>1
<1> QED BY <1>2

LEMMA MemheapStarts == ASSUME HeapInit PROVE MemheapInv
<1>1. ASSUME NEW h \in Pools
      PROVE  Works(heap[h], start_addr[h], last_item(h), {})
  <2> DEFINE lo == start_addr[h]
             hi == last_item(h)
             m == heap[h].item
             l == <<lo>>
             n == PoolSizes[h] - 4
             C == {lo, hi}
             L == {lo}
  <2>1. lo \in Nat /\ hi \in Nat /\ lo + 2 < hi /\ hi = lo + PoolSizes[h] - 2 /\ PoolSizes[h] \in Nat
    BY PoolsApart, PoolFacts
  <2>2. heap[h] = Pool(m, l, n)
    <3> DEFINE i == [p \in lo .. hi |-> CASE p = lo -> [used |-> FALSE, next |-> hi, prev |-> hi]
                                          [] p = hi -> [used |-> TRUE, next |-> lo, prev |-> lo]
                                          [] OTHER -> Junk_item]
               k == PoolSizes[h] - 2 * RT_MEMHEAP_SIZE
    <3>1. heap[h] = [item |-> i, free_list |-> l, available_size |-> k]
      BY DEF HeapInit
    <3>2. k = n
      BY <2>1 DEF RT_MEMHEAP_SIZE
    <3> HIDE DEF i, k, l, n
    <3> QED BY <3>1, <3>2 DEF Pool
  <2>3. m = [p \in lo .. hi |-> CASE p = lo -> [used |-> FALSE, next |-> hi, prev |-> hi]
                                  [] p = hi -> [used |-> TRUE, next |-> lo, prev |-> lo]
                                  [] OTHER -> Junk_item]
    BY DEF HeapInit
  <2> HIDE DEF lo, hi, m, n
  <2>4. lo \in lo .. hi /\ hi \in lo .. hi /\ lo # hi
    BY <2>1
  <2>5. m \in [lo .. hi -> Item] /\ m[lo] = [used |-> FALSE, next |-> hi, prev |-> hi]
        /\ m[hi] = [used |-> TRUE, next |-> lo, prev |-> lo]
    <3>1. Junk_item \in Item /\ [used |-> FALSE, next |-> hi, prev |-> hi] \in Item
          /\ [used |-> TRUE, next |-> lo, prev |-> lo] \in Item
      BY <2>1 DEF Junk_item, Item
    <3> QED BY <2>3, <2>4, <3>1
  <2>6. Ringed(m, lo, hi, C)
    <3>1. \A p \in C \ {hi} : /\ m[p].next \in C /\ m[p].next > p + 2
                              /\ \A c \in C : c <= p \/ c >= m[p].next
      BY <2>1, <2>5
    <3>2. \A p \in C : m[p].prev \in C /\ m[m[p].prev].next = p
      BY <2>4, <2>5
    <3> QED BY <2>1, <2>4, <2>5, <3>1, <3>2 DEF Ringed
  <2>7. Idle(m, C) = L /\ {} = {p \in C \ {hi} : m[p].used}
    BY <2>4, <2>5 DEF Idle
  <2>8. Lists(l, L)
    <3>1. Lists(<<>>, {})
      BY DEF Lists, IsInjective, ToSet
    <3>2. Lists(<<lo>> \o <<>>, {} \cup {lo})
      <4>1. lo \in Nat \ {}
        BY <2>1
      <4> QED BY <3>1, <4>1, PutsFirst
    <3>3. <<lo>> \o <<>> = l
      BY <2>1
    <3> QED BY <3>2, <3>3
  <2>9. n = Cardinality(Rooms(m, L))
    <3>1. \A q \in L : q \in C /\ q # hi
      BY <2>4
    <3>2. lo \in L
      OBVIOUS
    <3>3. RoomsAdd(m, L, lo)
      <4> HIDE DEF L, C
      <4> QED BY <2>6, <3>1, <3>2, RoomSum
    <3>4. Rooms(m, L \ {lo}) = {} /\ m[lo].next = hi
      BY <2>5 DEF Rooms
    <3>5. Cardinality(Rooms(m, L)) = 0 + (hi - lo - 2)
      BY <3>3, <3>4, FS_EmptySet DEF RoomsAdd
    <3> QED BY <2>1, <3>5 DEF n
  <2>10. Shape(m, l, n, lo, hi, C, {}, L, {})
    <3>1. m[m[lo].next].used
      BY <2>5
    <3> QED BY <2>6, <2>7, <2>8, <2>9, <3>1 DEF Shape
  <2>11. heap[h].item = m /\ heap[h].free_list = l /\ heap[h].available_size = n
    BY <2>2, PoolSets
  <2> QED BY <2>2, <2>7, <2>10, <2>11 DEF Works, lo, hi
<1>2. PoolBooks(heap, taken)
  <2>1. taken = {} /\ heap = [h \in Pools |-> heap[h]]
    BY DEF HeapInit
  <2>2. \A h \in Pools : Here(taken, h) = {} /\ Heads(taken, h) = {}
    BY <2>1 DEF Here, Heads
  <2> QED BY <1>1, <2>1, <2>2 DEF PoolBooks
<1>3. PoolCalls(call, taken)
  BY DEF HeapInit, PoolCalls
<1> QED BY <1>2, <1>3 DEF MemheapInv

LEMMA LetsGo ==
  ASSUME PoolBooks(heap, taken), NEW r \in taken, let_go(r)
  PROVE  PoolBooks(heap', taken') /\ taken' = taken \ {r}
<1> DEFINE p == r.at - RT_MEMHEAP_SIZE
           h == pool_ptr(p)
<1>1. heap' = [heap EXCEPT ![h] = rt_memheap_freed(@, p)] /\ taken' = taken \ {r}
  BY DEF let_go
<1>2. p = r.at - RT_MEMHEAP_SIZE /\ h = pool_ptr(p)
  OBVIOUS
<1> HIDE DEF p, h
<1>3. PoolBooks(heap', taken \ {r})
  BY <1>1, <1>2, PoolTakes
<1> QED BY <1>1, <1>3

LEMMA Allocs ==
  ASSUME MemheapInv, NEW c \in Callers, rt_memheap_alloc(c)
  PROVE  MemheapInv' /\ Trades(taken, taken')
<1> DEFINE v == call[c]
           h == Head(v.pools)
           p == fits(heap[h], v.size)
<1>1. v # NONE /\ v.stage = "search" /\ CallWell(v, taken)
  BY DEF rt_memheap_alloc, Owned, MemheapInv, PoolCalls
<1>2. v.pools \in Seq(Pools) /\ v.pools # <<>> /\ v.size \in HeapSizes
  BY <1>1 DEF CallWell
<1>3. h \in Pools /\ Tail(v.pools) \in Seq(Pools) /\ v.size \in Nat \ {0}
  <2>1. HeapSizes \subseteq Nat \ {0}
    BY MemheapAssumption
  <2> DEFINE e == v.pools
  <2>2. e \in Seq(Pools) /\ e # <<>>
    BY <1>2
  <2> HIDE DEF e
  <2>3. Head(e) \in Pools /\ Tail(e) \in Seq(Pools)
    BY <2>2
  <2> QED BY <1>2, <2>1, <2>3 DEF e
<1>4. CASE /\ p # NONE
           /\ heap' = [heap EXCEPT ![h] = allocated(@, p, v.size)]
           /\ taken' = taken \cup {[at |-> p + RT_MEMHEAP_SIZE, size |-> v.size]}
           /\ call' = [call EXCEPT ![c] = IF @.old = NONE THEN NONE
                                          ELSE [@ EXCEPT !.stage = "copied"]]
  <2> DEFINE n == [at |-> p + RT_MEMHEAP_SIZE, size |-> v.size]
             w == IF v.old = NONE THEN NONE ELSE [v EXCEPT !.stage = "copied"]
  <2>1. PoolBooks(heap', taken \cup {n}) /\ n \notin taken /\ taken' = taken \cup {n}
    <3> DEFINE size == v.size
               q == p
    <3>1. /\ q = fits(heap[h], size) /\ q # NONE /\ n = [at |-> q + RT_MEMHEAP_SIZE, size |-> size]
          /\ heap' = [heap EXCEPT ![h] = allocated(@, q, size)] /\ size \in Nat \ {0} /\ taken' = taken \cup {n}
      BY <1>3, <1>4
    <3> HIDE DEF size, q, n, h
    <3> QED BY <1>3, <3>1, PoolGives DEF MemheapInv
  <2>2. MayCall(call, c, w, taken') /\ Keeps(call, c, taken')
    <3>1. w # NONE => w = [stage |-> "copied", size |-> v.size, pools |-> v.pools, old |-> v.old] /\ v.old # NONE
      BY <1>1 DEF CallWell
    <3>2. w # NONE => CallWell(w, taken')
      BY <1>1, <2>1, <3>1 DEF CallWell
    <3>3. \A d \in Callers \ {c} : call[d] # NONE /\ v.old # NONE => v.old # call[d].old
      BY <1>1 DEF MemheapInv, PoolCalls
    <3>4. Keeps(call, c, taken')
      BY <2>1 DEF MemheapInv, PoolCalls, CallWell, Keeps
    <3> QED BY <3>1, <3>2, <3>3, <3>4 DEF MayCall
  <2>3. call' = [call EXCEPT ![c] = w]
    BY <1>4
  <2> HIDE DEF w, n
  <2>4. PoolCalls(call', taken')
    BY <2>2, <2>3, CallMoves DEF MemheapInv
  <2>5. n \in taken'
    BY <2>1
  <2> QED BY <2>1, <2>4, <2>5 DEF MemheapInv, Trades
<1>5. CASE /\ p = NONE
           /\ call' = [call EXCEPT ![c].stage = "glance", ![c].pools = Tail(@)]
           /\ UNCHANGED <<heap, taken>>
  <2> DEFINE w == [stage |-> "glance", size |-> v.size, pools |-> Tail(v.pools), old |-> v.old]
  <2>1. call' = [call EXCEPT ![c] = w]
    <3>1. v = [stage |-> v.stage, size |-> v.size, pools |-> v.pools, old |-> v.old]
      BY <1>1 DEF CallWell
    <3>2. c \in DOMAIN call
      BY DEF MemheapInv, PoolCalls
    <3>3. call' = [call EXCEPT ![c] = [[v EXCEPT !.stage = "glance"] EXCEPT !.pools = Tail(v.pools)]]
      BY <1>5, <3>1, <3>2
    <3>4. [[v EXCEPT !.stage = "glance"] EXCEPT !.pools = Tail(v.pools)] = w
      <4> DEFINE b == v.size
                 e == v.pools
                 f == v.old
                 g == v.stage
                 t == Tail(v.pools)
      <4>1. v = [stage |-> g, size |-> b, pools |-> e, old |-> f]
        BY <3>1
      <4> HIDE DEF b, e, f, g, t, v
      <4> DEFINE y == [v EXCEPT !.stage = "glance"]
      <4>3. y = [stage |-> "glance", size |-> b, pools |-> e, old |-> f]
        BY <4>1
      <4> HIDE DEF y
      <4>4. [y EXCEPT !.pools = t] = [stage |-> "glance", size |-> b, pools |-> t, old |-> f]
        BY <4>3
      <4>2. [[v EXCEPT !.stage = "glance"] EXCEPT !.pools = t] = [stage |-> "glance", size |-> b, pools |-> t, old |-> f]
        BY <4>4 DEF y
      <4> QED BY <4>2 DEF b, t, f
    <3> QED BY <3>3, <3>4
  <2>2. MayCall(call, c, w, taken') /\ Keeps(call, c, taken')
    <3>1. CallWell(w, taken')
      BY <1>1, <1>3, <1>5 DEF CallWell
    <3>2. \A d \in Callers \ {c} : call[d] # NONE /\ v.old # NONE => v.old # call[d].old
      BY <1>1 DEF MemheapInv, PoolCalls
    <3>3. Keeps(call, c, taken')
      BY <1>5 DEF MemheapInv, PoolCalls, CallWell, Keeps
    <3> QED BY <3>1, <3>2, <3>3 DEF MayCall
  <2> HIDE DEF w
  <2>3. PoolCalls(call', taken')
    BY <2>1, <2>2, CallMoves DEF MemheapInv
  <2> QED BY <1>5, <2>3 DEF MemheapInv, Trades
<1> QED BY <1>4, <1>5 DEF rt_memheap_alloc

LEMMA Reallocs ==
  ASSUME MemheapInv, NEW c \in Callers, rt_memheap_realloc(c)
  PROVE  MemheapInv' /\ Trades(taken, taken')
<1> DEFINE Resized(h, s, r, newsize) ==
             /\ heap' = [heap EXCEPT ![h] = s]
             /\ taken' = (taken \ {r}) \cup {[r EXCEPT !.size = newsize]} /\ UNCHANGED call
           Moving(h, r, newsize) ==
             /\ ~Owned(c)
             /\ call' = [call EXCEPT ![c] =
                  [stage |-> "glance", size |-> newsize, pools |-> <<h>> \o AllPools, old |-> r]]
             /\ UNCHANGED <<heap, taken>>
<1>1. PICK r \in Untouched, newsize \in HeapSizes :
        LET p == r.at - RT_MEMHEAP_SIZE
            h == pool_ptr(p)
        IN  \/ grows(heap[h], p, newsize) /\ Resized(h, grown(heap[h], p, newsize), r, newsize)
            \/ Moving(h, r, newsize)
            \/ newsize <= MEMITEM_SIZE(heap[h], p) /\ Resized(h, heap[h], r, newsize)
            \/ shrinks_to(heap[h], p, newsize) /\ Resized(h, shrunk(heap[h], p, newsize), r, newsize)
  BY DEF rt_memheap_realloc
<1> DEFINE p == r.at - 2
           h == pool_ptr(p)
           U == Heads(taken, h)
           lo == start_addr[h]
           hi == last_item(h)
<1>2. /\ r \in taken /\ newsize \in Nat \ {0}
      /\ \A d \in Callers : call[d] # NONE => call[d].old # r
  BY MemheapAssumption DEF Untouched, Owned
<1>3. h \in Pools /\ r \in Here(taken, h) /\ HeadWell(heap, taken, h, r, p)
  <2>1. r.at - RT_MEMHEAP_SIZE = p
    BY DEF RT_MEMHEAP_SIZE
  <2> QED BY <1>2, <2>1, SomePool DEF MemheapInv
<1>4. /\ \/ grows(heap[h], p, newsize) /\ Resized(h, grown(heap[h], p, newsize), r, newsize)
         \/ Moving(h, r, newsize)
         \/ newsize <= MEMITEM_SIZE(heap[h], p) /\ Resized(h, heap[h], r, newsize)
         \/ shrinks_to(heap[h], p, newsize) /\ Resized(h, shrunk(heap[h], p, newsize), r, newsize)
      /\ h = pool_ptr(r.at - RT_MEMHEAP_SIZE)
  BY <1>1 DEF RT_MEMHEAP_SIZE
<1>5. Works(heap[h], lo, hi, U) /\ p \in U /\ p \in Nat /\ r.at = p + 2 /\ heap[h].item[p].next \in Nat
  BY <1>3 DEF MemheapInv, PoolBooks, HeadWell
<1>6. ASSUME NEW s, Works(s, lo, hi, U), Stays(heap[h], s, U \ {p}), s.item[p].next \in Nat,
             s.item[p].next >= r.at + newsize, Resized(h, s, r, newsize)
      PROVE  MemheapInv' /\ Trades(taken, taken')
  <2> DEFINE n == [r EXCEPT !.size = newsize]
  <2>1. heap' = [heap EXCEPT ![h] = s] /\ taken' = (taken \ {r}) \cup {n} /\ call' = call
    BY <1>6
  <2>2. PoolBooks(heap', (taken \ {r}) \cup {n}) /\ n.at = r.at
    <3>1. n = [r EXCEPT !.size = newsize]
      OBVIOUS
    <3>2. InPlace(heap, taken, h, s, r, newsize, heap', n)
      BY <1>2, <1>4, <1>6 DEF InPlace
    <3>3. PoolBooks(heap, taken)
      BY DEF MemheapInv
    <3> HIDE DEF h, n, Resized
    <3>4. r \in taken
      BY <1>2
    <3> QED BY <3>2, <3>3, <3>4, PoolResizes
  <2>3. \A d \in Callers : call[d] # NONE /\ call[d].old # NONE => call[d].old \in taken'
    BY <1>2, <2>1 DEF MemheapInv, PoolCalls, CallWell
  <2>4. PoolCalls(call', taken')
    BY <2>1, <2>3, CallsStay DEF MemheapInv
  <2>5. n \in taken'
    BY <2>1
  <2> HIDE DEF n
  <2> QED BY <1>2, <2>1, <2>2, <2>4, <2>5 DEF MemheapInv, Trades
<1>7. ASSUME NEW s, ResizedWell(heap[h], s, lo, hi, U, p, newsize), Resized(h, s, r, newsize)
      PROVE  MemheapInv' /\ Trades(taken, taken')
  <2>1. /\ Works(s, lo, hi, U) /\ Stays(heap[h], s, U \ {p}) /\ s.item[p].next \in Nat
        /\ s.item[p].next = p + 2 + newsize
    BY <1>7 DEF ResizedWell
  <2>2. s.item[p].next >= r.at + newsize
    <3> DEFINE y == s.item[p].next
    <3>1. y \in Nat /\ y = p + 2 + newsize /\ p \in Nat /\ r.at = p + 2
      BY <1>5, <2>1
    <3> HIDE DEF y, p
    <3>2. y >= r.at + newsize
      BY <1>2, <3>1
    <3> QED BY <3>2 DEF y
  <2> HIDE DEF Resized, p, U, lo, hi
  <2> QED BY <1>6, <1>7, <2>1, <2>2
<1> HIDE DEF p, h, U, lo, hi
<1>8. CASE grows(heap[h], p, newsize) /\ Resized(h, grown(heap[h], p, newsize), r, newsize)
  <2>1. ResizedWell(heap[h], grown(heap[h], p, newsize), lo, hi, U, p, newsize)
    BY <1>2, <1>5, <1>8, GrownWorks
  <2> HIDE DEF Resized
  <2> QED BY <1>7, <1>8, <2>1
<1>9. CASE shrinks_to(heap[h], p, newsize) /\ Resized(h, shrunk(heap[h], p, newsize), r, newsize)
  <2>1. ResizedWell(heap[h], shrunk(heap[h], p, newsize), lo, hi, U, p, newsize)
    BY <1>2, <1>5, <1>9, ShrunkWorks
  <2> HIDE DEF Resized
  <2> QED BY <1>7, <1>9, <2>1
<1>10. CASE newsize <= MEMITEM_SIZE(heap[h], p) /\ Resized(h, heap[h], r, newsize)
  <2>1. Stays(heap[h], heap[h], U \ {p})
    BY DEF Stays
  <2>2. heap[h].item[p].next >= r.at + newsize
    <3> DEFINE x == heap[h].item[p].next
    <3>1. x \in Nat /\ newsize <= x - p - 2
      BY <1>5, <1>10 DEF MEMITEM_SIZE, RT_MEMHEAP_SIZE
    <3> HIDE DEF x
    <3>2. x >= r.at + newsize
      BY <1>2, <1>5, <3>1
    <3> QED BY <3>2 DEF x
  <2> HIDE DEF Resized
  <2> QED BY <1>5, <1>6, <1>10, <2>1, <2>2
<1>11. CASE Moving(h, r, newsize)
  <2> DEFINE w == [stage |-> "glance", size |-> newsize, pools |-> <<h>> \o AllPools, old |-> r]
  <2>1. call' = [call EXCEPT ![c] = w] /\ heap' = heap /\ taken' = taken
    BY <1>11
  <2>2. MayCall(call, c, w, taken') /\ Keeps(call, c, taken')
    <3>1. <<h>> \o AllPools \in Seq(Pools)
      BY <1>3, AllPoolsFacts
    <3>2. CallWell(w, taken')
      BY <1>2, <2>1, <3>1 DEF CallWell
    <3>3. Keeps(call, c, taken')
      BY <2>1 DEF MemheapInv, PoolCalls, CallWell, Keeps
    <3> QED BY <1>2, <3>2, <3>3 DEF MayCall
  <2> HIDE DEF w
  <2>3. PoolCalls(call', taken')
    BY <2>1, <2>2, CallMoves DEF MemheapInv
  <2> QED BY <2>1, <2>3 DEF MemheapInv, Trades
<1> QED BY <1>4, <1>8, <1>9, <1>10, <1>11

LEMMA MemheapSteps ==
  ASSUME MemheapInv, HeapNext
  PROVE  MemheapInv' /\ Trades(taken, taken')
<1>1. ASSUME NEW c \in Callers, NEW v, call' = [call EXCEPT ![c] = v], UNCHANGED <<heap, taken>>,
             v = NONE \/ (CallWell(v, taken) /\ (v.old = NONE \/ (call[c] # NONE /\ v.old = call[c].old)))
      PROVE  MemheapInv' /\ Trades(taken, taken')
  <2>1. MayCall(call, c, v, taken) /\ Keeps(call, c, taken)
    BY <1>1 DEF MemheapInv, PoolCalls, CallWell, MayCall, Keeps
  <2>2. PoolCalls(call', taken)
    BY <1>1, <2>1, CallMoves DEF MemheapInv
  <2> QED BY <1>1, <2>2 DEF MemheapInv, Trades
<1>2. CASE \E c \in Callers : heap_malloc(c)
  <2>1. PICK c \in Callers, size \in HeapSizes :
          /\ call' = [call EXCEPT ![c] =
                        [stage |-> "glance", size |-> size, pools |-> AllPools, old |-> NONE]]
          /\ UNCHANGED <<heap, taken>>
    BY <1>2 DEF heap_malloc
  <2> DEFINE v == [stage |-> "glance", size |-> size, pools |-> AllPools, old |-> NONE]
  <2>2. CallWell(v, taken) /\ v.old = NONE
    BY AllPoolsFacts DEF CallWell
  <2> HIDE DEF v
  <2> QED BY <1>1, <2>1, <2>2 DEF v
<1>3. CASE \E c \in Callers : Glance(c)
  <2>1. PICK c \in Callers : Glance(c)
    BY <1>3
  <2> DEFINE v == call[c]
             e == v.pools
             w == IF v.size < heap[Head(e)].available_size
                  THEN [v EXCEPT !.stage = "search"] ELSE [v EXCEPT !.pools = Tail(e)]
  <2>2. v # NONE /\ v.stage = "glance" /\ e # <<>> /\ CallWell(v, taken) /\ UNCHANGED <<heap, taken>>
    BY <2>1 DEF Glance, Owned, MemheapInv, PoolCalls
  <2>3. call' = [call EXCEPT ![c] = w]
    <3>1. call' = [call EXCEPT ![c] = IF call[c].size < heap[Head(call[c].pools)].available_size
                                     THEN [call[c] EXCEPT !.stage = "search"]
                                     ELSE [call[c] EXCEPT !.pools = Tail(call[c].pools)]]
      BY <2>1 DEF Glance
    <3> QED BY <3>1
  <2>4. Tail(e) \in Seq(Pools)
    <3>1. e \in Seq(Pools) /\ e # <<>>
      BY <2>2 DEF CallWell
    <3> HIDE DEF e
    <3> QED BY <3>1
  <2>5. CallWell(w, taken) /\ w.old = v.old
    <3> HIDE DEF v
    <3>1. v = [stage |-> v.stage, size |-> v.size, pools |-> v.pools, old |-> v.old]
      BY <2>2 DEF CallWell
    <3>2. \/ w = [stage |-> "search", size |-> v.size, pools |-> e, old |-> v.old]
          \/ w = [stage |-> v.stage, size |-> v.size, pools |-> Tail(e), old |-> v.old]
      BY <3>1
    <3> HIDE DEF w
    <3> QED BY <2>2, <2>4, <3>2 DEF CallWell
  <2> HIDE DEF w
  <2> QED BY <1>1, <2>2, <2>3, <2>5
<1>4. CASE \E c \in Callers : rt_memheap_alloc(c)
  BY <1>4, Allocs
<1>5. CASE \E c \in Callers : ReturnsNull(c)
  BY <1>1, <1>5 DEF ReturnsNull
<1>6. CASE \E c \in Callers : rt_memheap_realloc(c)
  BY <1>6, Reallocs
<1>7. CASE \E c \in Callers : FreesOld(c)
  <2>1. PICK c \in Callers : FreesOld(c)
    BY <1>7
  <2> DEFINE r == call[c].old
  <2>2. call[c] # NONE /\ r # NONE /\ r \in taken /\ let_go(r) /\ call' = [call EXCEPT ![c] = NONE]
    BY <2>1 DEF FreesOld, Owned, MemheapInv, PoolCalls, CallWell
  <2>3. Keeps(call, c, taken \ {r}) /\ MayCall(call, c, NONE, taken \ {r})
    BY <2>2 DEF MemheapInv, PoolCalls, CallWell, Keeps, MayCall
  <2> HIDE DEF r
  <2>4. PoolBooks(heap', taken') /\ taken' = taken \ {r}
    BY <2>2, LetsGo DEF MemheapInv
  <2> DEFINE gk == taken \ {r}
             v == NONE
  <2>5. Keeps(call, c, gk) /\ MayCall(call, c, v, gk) /\ call' = [call EXCEPT ![c] = v]
    BY <2>2, <2>3
  <2> HIDE DEF gk, v
  <2>6. PoolCalls(call', gk)
    BY <2>5, CallMoves DEF MemheapInv
  <2> QED BY <2>2, <2>4, <2>6 DEF MemheapInv, Trades, gk
<1>8. CASE rt_memheap_free
  <2>1. PICK r \in Untouched : let_go(r) /\ call' = call
    BY <1>8 DEF rt_memheap_free
  <2>2. r \in taken /\ \A d \in Callers : call[d] # NONE => call[d].old # r
    BY DEF Untouched, Owned
  <2>3. PoolBooks(heap', taken') /\ taken' = taken \ {r}
    BY <2>1, <2>2, LetsGo DEF MemheapInv
  <2>4. \A d \in Callers : call[d] # NONE /\ call[d].old # NONE => call[d].old \in taken \ {r}
    BY <2>2 DEF MemheapInv, PoolCalls, CallWell
  <2>5. PoolCalls(call, taken \ {r})
    BY <2>4, CallsStay DEF MemheapInv
  <2> QED BY <2>1, <2>2, <2>3, <2>5 DEF MemheapInv, Trades
<1> QED BY <1>2, <1>3, <1>4, <1>5, <1>6, <1>7, <1>8 DEF HeapNext

\* The inductive invariant of memheap.c: in every pool, between any two steps of
\* any callers, the item list, the free list and the blocks held agree.
THEOREM MemheapInvariant == HeapSpec => []MemheapInv
<1>1. HeapInit => MemheapInv
  BY MemheapStarts
<1>2. MemheapInv /\ [HeapNext]_heap_vars => MemheapInv'
  <2>1. CASE HeapNext
    BY <2>1, MemheapSteps
  <2>2. CASE UNCHANGED heap_vars
    BY <2>2 DEF heap_vars, MemheapInv
  <2> QED BY <2>1, <2>2
<1> QED BY <1>1, <1>2, PTL DEF HeapSpec

(* Whatever sequence of calls of however many callers, and however the      *)
(* searches of rt_malloc and the moves of rt_realloc interleave: the items  *)
(* of every pool are a ring linked both ways, the free list holds every     *)
(* free one once, available_size is what lies in them, no two of them       *)
(* touch, and the used ones are those callers hold and are as large as was  *)
(* asked (memheap.c).                                                       *)
THEOREM MemheapIsSound == HeapSpec => []MemheapSound
<1>1. MemheapInv => MemheapSound
  BY PoolBooksSound DEF MemheapInv
<1> QED BY <1>1, MemheapInvariant, PTL

LEMMA PoolRegionsLie ==
  ASSUME NEW hp, NEW tk, PoolBooks(hp, tk), NEW r \in tk
  PROVE  HeapPromise!Lies(r, tk \ {r})
<1> DEFINE top == last_item(Len(PoolSizes))
<1>1. ASSUME NEW s \in tk
      PROVE  LET h == pool_ptr(s.at - 2)
                 C == HeapPromise!Covers(s) IN
             /\ h \in Pools /\ s.at \in Nat /\ s \in Here(tk, h) /\ s.size \in Nat
             /\ C = s.at .. (s.at + s.size - 1) /\ s.at + s.size <= last_item(h)
             /\ C \subseteq start_addr[h] .. last_item(h)
  <2> DEFINE h == pool_ptr(s.at - 2)
             p == s.at - 2
             x == hp[h].item[p].next
  <2>1. h \in Pools /\ s \in Here(tk, h) /\ HeadWell(hp, tk, h, s, p)
    BY SomePool DEF RT_MEMHEAP_SIZE
  <2> HIDE DEF h, p
  <2>2. /\ s.at \in Nat /\ s.size \in Nat /\ s.at \in start_addr[h] .. last_item(h)
        /\ x \in Nat /\ x <= last_item(h) /\ s.at + s.size <= x
    BY <2>1 DEF HeadWell
  <2>3. HeapPromise!Covers(s) = s.at .. (s.at + s.size - 1)
    BY DEF HeapPromise!Covers
  <2> HIDE DEF x
  <2>4. start_addr[h] \in Nat /\ last_item(h) \in Nat
    BY <2>1, PoolsApart
  <2>5. s.at + s.size <= last_item(h) /\ (s.at .. (s.at + s.size - 1)) \subseteq start_addr[h] .. last_item(h)
    BY <2>2, <2>4
  <2> QED BY <2>1, <2>2, <2>3, <2>5 DEF h
<1>2. HeapPromise!Covers(r) \subseteq 0 .. top
  <2> DEFINE h == pool_ptr(r.at - 2)
             lo == start_addr[h]
             hi == last_item(h)
  <2>1. h \in Pools /\ HeapPromise!Covers(r) \subseteq lo .. hi
    BY <1>1
  <2>2. lo \in Nat /\ hi \in Nat /\ hi <= top /\ top \in Nat
    BY <2>1, PoolFacts, PoolsApart
  <2> HIDE DEF lo, hi, top
  <2> QED BY <2>1, <2>2
<1>3. ASSUME NEW s \in tk, s # r PROVE HeapPromise!Covers(r) \cap HeapPromise!Covers(s) = {}
  <2> DEFINE h == pool_ptr(r.at - 2)
             k == pool_ptr(s.at - 2)
  <2>1. h \in Pools /\ k \in Pools /\ r \in Here(tk, h) /\ s \in Here(tk, k)
    BY <1>1
  <2>2. CASE h # k
    <3>1. (start_addr[h] .. last_item(h)) \cap (start_addr[k] .. last_item(k)) = {}
      BY <2>1, <2>2, PoolsApart
    <3>2. /\ HeapPromise!Covers(r) \subseteq start_addr[h] .. last_item(h)
          /\ HeapPromise!Covers(s) \subseteq start_addr[k] .. last_item(k)
      BY <1>1
    <3> QED BY <3>1, <3>2
  <2>3. CASE h = k
    <3> DEFINE m == hp[h].item
               p == r.at - 2
               q == s.at - 2
               lo == start_addr[h]
               hi == last_item(h)
    <3>1. Works(hp[h], lo, hi, Heads(tk, h))
      BY <2>1 DEF PoolBooks
    <3>2. PICK C : Ringed(m, lo, hi, C) /\ Heads(tk, h) \subseteq C \ {hi}
      BY <3>1, WorksFacts
    <3>3. HeadWell(hp, tk, h, r, p) /\ HeadWell(hp, tk, h, s, q)
      BY <2>1, <2>3, HeadIs
    <3>4. r.at # s.at
      BY <1>3 DEF PoolBooks
    <3>5. /\ r.at \in Nat /\ s.at \in Nat /\ r.size \in Nat /\ s.size \in Nat /\ p \in Nat /\ q \in Nat
          /\ p = r.at - 2 /\ q = s.at - 2 /\ p \in C \ {hi} /\ q \in C \ {hi}
          /\ m[p].next \in Nat /\ m[q].next \in Nat
          /\ r.at + r.size <= m[p].next /\ s.at + s.size <= m[q].next
      BY <3>2, <3>3 DEF HeadWell
    <3>6. (q <= p \/ q >= m[p].next) /\ (p <= q \/ p >= m[q].next)
      BY <3>2, <3>5 DEF Ringed
    <3> DEFINE x == m[p].next
               y == m[q].next
               a == r.at
               b == s.at
               i == r.size
               j == s.size
    <3>7. HeapPromise!Covers(r) = a .. (a + i - 1) /\ HeapPromise!Covers(s) = b .. (b + j - 1)
      BY DEF HeapPromise!Covers
    <3>8. /\ a \in Nat /\ b \in Nat /\ i \in Nat /\ j \in Nat /\ x \in Nat /\ y \in Nat /\ a # b
          /\ a + i <= x /\ b + j <= y
          /\ (b - 2 <= a - 2 \/ b - 2 >= x) /\ (a - 2 <= b - 2 \/ a - 2 >= y)
      BY <3>4, <3>5, <3>6
    <3> HIDE DEF x, y, a, b, i, j
    <3>9. (a .. (a + i - 1)) \cap (b .. (b + j - 1)) = {}
      BY <3>8
    <3> QED BY <3>7, <3>9
  <2> QED BY <2>2, <2>3
<1> QED BY <1>2, <1>3 DEF HeapPromise!Lies

(* The heap of several pools keeps what an allocator promises: every region *)
(* it hands out lies in its pools and apart from all others until it is     *)
(* freed, also while rt_realloc has let go of the lock to move one          *)
(* (memheap.c:138, 284, 495).                                               *)
THEOREM MemheapKeepsItsPromise == HeapSpec => HeapKeepsPromise
<1>1. HeapInit => HeapPromise!Init
  BY DEF HeapInit, HeapPromise!Init
<1>2. MemheapInv /\ [HeapNext]_heap_vars => [HeapPromise!Next]_taken
  <2> SUFFICES ASSUME MemheapInv, HeapNext PROVE [HeapPromise!Next]_taken
    BY DEF heap_vars
  <2>1. Trades(taken, taken') /\ PoolBooks(heap', taken')
    BY MemheapSteps DEF MemheapInv
  <2>2. \A r \in taken' : HeapPromise!Lies(r, taken' \ {r})
    BY <2>1, PoolRegionsLie
  <2>3. \/ taken' = taken
        \/ \E r \in taken' : HeapPromise!Give(r)
        \/ \E r \in taken : HeapPromise!Take(r) \/ HeapPromise!Resize(r)
    BY <2>1 DEF Trades, HeapPromise!Give, HeapPromise!Take, HeapPromise!Resize
  <2> QED BY <2>2, <2>3 DEF HeapPromise!Next
<1> QED BY <1>1, <1>2, MemheapInvariant, PTL DEF HeapSpec, HeapKeepsPromise, HeapPromise!Spec
=============================================================================
