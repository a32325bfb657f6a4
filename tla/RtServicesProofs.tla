-------------------------- MODULE RtServicesProofs --------------------------
(***************************************************************************)
(* Proofs about two services of the kernel.  The containers of objects:    *)
(* for any number of makers that create and delete in any order and any    *)
(* interleaving, types, lists and memory agree, and a command that walks a *)
(* list shows what stays.  The timers: for any program that keeps to the   *)
(* rules of RtTimer, the lists, the flags and the timer thread agree, and  *)
(* no timer is called early or left due.                                   *)
(***************************************************************************)
EXTENDS RtObject, RtTimer, SequenceTheorems, WellFoundedInduction, TLAPS

Stages == {"idle", "typed", "second", "untype", "unlink", "free"}
ObjectTypes ==
  /\ active \in [classes : SUBSET ObjectClasses, statics : SUBSET Statics]
  /\ type \in [Nodes -> ObjectClasses \cup {NONE}]
  /\ object_list \in [ObjectClasses -> Seq(Nodes)]
  /\ pool \in [Nodes -> Blocks \cup {NONE}]
  /\ used \subseteq Blocks
  /\ making \in [Makers -> [stage : Stages, node : Nodes \cup {NONE},
                            cls : ObjectClasses \cup {NONE}]]

In(n, c) == n \in ToSet(object_list[c])

(***************************************************************************)
(* The inductive invariant.  An object in the making is in the hands of    *)
(* one maker, and the stage the maker is at says how much of it is true:   *)
(* the type is there before the list, and gone before the list.            *)
(***************************************************************************)
OneMaker == \A m, l \in Makers :
              making[m].node = making[l].node /\ making[m].node # NONE => m = l
InHand(m) ==
  LET n == making[m].node
      c == making[m].cls
  IN  /\ Doing(m, "idle") <=> n = NONE
      /\ ~Doing(m, "idle") => c # NONE /\ pool[n] = NONE
      /\ Doing(m, "typed") => type[n] = c /\ ~Listed(n) /\ (n \in Blocks => n \in used)
      /\ Doing(m, "second") => n \in Blocks
      /\ Doing(m, "second") \/ Doing(m, "untype") => type[n] = c /\ In(n, c)
      /\ Doing(m, "unlink") => type[n] = NONE /\ In(n, c)
      /\ Doing(m, "free") => type[n] = NONE /\ ~Listed(n) /\ n \in Blocks
Staged == \A m \in Makers : InHand(m)

ListMeansType ==
  \A c \in ObjectClasses : \A n \in Nodes : In(n, c) =>
    type[n] = c \/ \E m \in Makers : making[m].node = n /\ Doing(m, "unlink")
Disjoint ==
  /\ \A c \in ObjectClasses : IsInjective(object_list[c])
  /\ \A c, d \in ObjectClasses : c # d => ToSet(object_list[c]) \cap ToSet(object_list[d]) = {}

(* The second block of an object is nobody else's, and no object itself.    *)
Seconds ==
  /\ \A n \in Nodes : pool[n] # NONE =>
       /\ n \in Blocks /\ Listed(n) /\ n \notin Busy
       /\ ~Listed(pool[n]) /\ pool[n] \notin Busy
  /\ \A n, o \in Nodes : pool[n] = pool[o] /\ pool[n] # NONE => n = o

ObjectInv == /\ ObjectTypes /\ OneMaker /\ Staged /\ TypeMeansListed /\ ListMeansType
             /\ Disjoint /\ Seconds /\ NoBlockLost

(* What a command still owes is shown, in the batch, or ahead of it in the  *)
(* list; where the node it stands at has left the list it will not go on    *)
(* from there, unless the node is in the list again.                        *)
WalkTypes ==
  /\ walk \in [stage : {"idle", "next", "show", "last", "astray"}, cls : ObjectClasses \cup {NONE},
               current : Nodes \cup {NONE}, batch : Seq(Nodes), shown : SUBSET Nodes,
               owed : SUBSET Nodes]
  /\ walk.stage # "idle" => walk.cls # NONE
  /\ walk.stage = "idle" => walk.owed = {}
  /\ walk.stage = "next" => walk.batch = <<>>
OwedStays == \A n \in walk.owed : type[n] = walk.cls /\ In(n, walk.cls)
Ahead(n) == walk.current # NONE /\ In(walk.current, walk.cls) =>
              Precedes(object_list[walk.cls], walk.current, n)
OwedShown ==
  \A n \in walk.owed : \/ n \in walk.shown \/ n \in ToSet(walk.batch)
                       \/ walk.stage # "last" /\ Ahead(n)
WalkInv == WalkTypes /\ OwedStays /\ OwedShown

(***************************************************************************)
(* Lists: what putting a node in front and taking a node out do to the     *)
(* members and to the order of a list without repetition.                  *)
(***************************************************************************)
LEMMA Positions ==
  ASSUME NEW S, NEW l \in Seq(S)
  PROVE  /\ DOMAIN l = 1 .. Len(l) /\ Len(l) \in Nat
         /\ \A i \in DOMAIN l : l[i] \in S /\ l[i] \in ToSet(l)
         /\ \A e \in ToSet(l) : \E i \in DOMAIN l : l[i] = e
         /\ ToSet(l) \subseteq S
BY DEF ToSet

LEMMA InFront ==
  ASSUME NEW S, NEW l \in Seq(S), NEW e \in S, e \notin ToSet(l), IsInjective(l)
  PROVE  /\ <<e>> \o l \in Seq(S) /\ ToSet(<<e>> \o l) = ToSet(l) \cup {e}
         /\ IsInjective(<<e>> \o l)
         /\ \A a \in S : \A b \in ToSet(l) : (a \in ToSet(l) => Precedes(l, a, b)) =>
              Precedes(<<e>> \o l, a, b) \/ a \notin ToSet(<<e>> \o l)
<1> DEFINE m == <<e>> \o l
<1>1. /\ m \in Seq(S) /\ Len(m) = Len(l) + 1 /\ DOMAIN m = 1 .. (Len(l) + 1)
      /\ DOMAIN l = 1 .. Len(l) /\ Len(l) \in Nat
      /\ m[1] = e /\ \A i \in 1 .. Len(l) : m[i + 1] = l[i]
  OBVIOUS
<1> HIDE DEF m
<1>2. \A i \in DOMAIN m : i = 1 \/ (i - 1 \in DOMAIN l /\ m[i] = l[i - 1])
  BY <1>1
<1>3. ToSet(m) = ToSet(l) \cup {e}
  <2>1. ASSUME NEW x \in ToSet(m) PROVE x \in ToSet(l) \cup {e}
    <3>1. PICK i \in DOMAIN m : m[i] = x
      BY <2>1 DEF ToSet
    <3> QED BY <1>1, <1>2, <3>1 DEF ToSet
  <2>2. ASSUME NEW x \in ToSet(l) PROVE x \in ToSet(m)
    <3>1. PICK i \in DOMAIN l : l[i] = x
      BY <2>2 DEF ToSet
    <3>2. i + 1 \in DOMAIN m /\ m[i + 1] = x
      BY <1>1, <3>1
    <3> QED BY <3>2 DEF ToSet
  <2>3. e \in ToSet(m)
    BY <1>1 DEF ToSet
  <2> QED BY <2>1, <2>2, <2>3
<1>4. IsInjective(m)
  <2> SUFFICES ASSUME NEW i \in DOMAIN m, NEW j \in DOMAIN m, m[i] = m[j] PROVE i = j
    BY DEF IsInjective
  <2>1. \A k \in DOMAIN l : l[k] # e
    BY DEF ToSet
  <2>2. CASE i = 1 \/ j = 1
    BY <1>1, <1>2, <2>1, <2>2
  <2>3. CASE i # 1 /\ j # 1
    <3>1. i - 1 = j - 1
      BY <1>2, <2>3 DEF IsInjective
    <3> QED BY <1>1, <3>1
  <2> QED BY <2>2, <2>3
<1>5. ASSUME NEW a \in S, NEW b \in ToSet(l), a \in ToSet(l) => Precedes(l, a, b), a \in ToSet(m)
      PROVE  Precedes(m, a, b)
  <2>1. CASE a = e
    <3>1. PICK j \in DOMAIN l : l[j] = b
      BY <1>5 DEF ToSet
    <3>2. 1 \in DOMAIN m /\ j + 1 \in DOMAIN m /\ 1 < j + 1 /\ m[1] = a /\ m[j + 1] = b
      BY <1>1, <2>1, <3>1
    <3> QED BY <3>2 DEF Precedes
  <2>2. CASE a # e
    <3>1. Precedes(l, a, b)
      BY <1>3, <1>5, <2>2
    <3>2. PICK i \in DOMAIN l, j \in DOMAIN l : i < j /\ l[i] = a /\ l[j] = b
      BY <3>1 DEF Precedes
    <3>3. /\ i + 1 \in DOMAIN m /\ j + 1 \in DOMAIN m /\ i + 1 < j + 1
          /\ m[i + 1] = a /\ m[j + 1] = b
      BY <1>1, <3>2
    <3> QED BY <3>3 DEF Precedes
  <2> QED BY <2>1, <2>2
<1> QED BY <1>1, <1>3, <1>4, <1>5 DEF m

LEMMA TakenOut ==
  ASSUME NEW S, NEW l \in Seq(S), NEW e, IsInjective(l)
  PROVE  /\ RemoveFirst(l, e) \in Seq(S) /\ ToSet(RemoveFirst(l, e)) = ToSet(l) \ {e}
         /\ IsInjective(RemoveFirst(l, e))
         /\ \A a, b \in ToSet(l) : Precedes(l, a, b) /\ a # e /\ b # e =>
              Precedes(RemoveFirst(l, e), a, b)
         /\ \A a, b : Precedes(RemoveFirst(l, e), a, b) => Precedes(l, a, b)
<1> DEFINE m == RemoveFirst(l, e)
<1>0. DOMAIN l = 1 .. Len(l) /\ Len(l) \in Nat
  OBVIOUS
<1>1. CASE e \notin ToSet(l)
  <2>1. m = l
    BY <1>0, <1>1 DEF RemoveFirst, ToSet
  <2> QED BY <1>1, <2>1
<1>2. CASE e \in ToSet(l)
  <2>1. PICK k \in 1 .. Len(l) : l[k] = e
    BY <1>0, <1>2 DEF ToSet
  <2>2. m = RemoveAt(l, k)
    <3>1. \A i \in 1 .. Len(l) : l[i] = e => i = k
      BY <1>0, <2>1 DEF IsInjective
    <3>2. SelectInSeq(l, LAMBDA v : v = e) = k
      BY <2>1, <3>1 DEF SelectInSeq, Min
    <3> QED BY <2>1, <3>2 DEF RemoveFirst
  <2>3. /\ m \in Seq(S) /\ DOMAIN m = 1 .. (Len(l) - 1)
        /\ \A i \in 1 .. (Len(l) - 1) : m[i] = IF i < k THEN l[i] ELSE l[i + 1]
    <3> DEFINE before == SubSeq(l, 1, k - 1)
               rest == SubSeq(l, k + 1, Len(l))
    <3>1. before \in Seq(S) /\ rest \in Seq(S)
      OBVIOUS
    <3>2. Len(before) = k - 1 /\ Len(rest) = Len(l) - k
      OBVIOUS
    <3>3. /\ \A i \in 1 .. (k - 1) : before[i] = l[i]
          /\ \A i \in 1 .. (Len(l) - k) : rest[i] = l[k + i]
      OBVIOUS
    <3>4. m = before \o rest
      BY <2>2 DEF RemoveAt
    <3> HIDE DEF before, rest, m
    <3>5. m \in Seq(S) /\ Len(m) = Len(before) + Len(rest)
      BY <3>1, <3>4, ConcatProperties, Zenon
    <3>6. \A i \in 1 .. Len(before) + Len(rest) :
            m[i] = IF i <= Len(before) THEN before[i] ELSE rest[i - Len(before)]
      BY <3>1, <3>4, ConcatProperties, Zenon
    <3>7. \A i \in 1 .. (Len(l) - 1) : m[i] = IF i <= k - 1 THEN before[i] ELSE rest[i - (k - 1)]
      <4>1. (k - 1) + (Len(l) - k) = Len(l) - 1
        BY <1>0
      <4> QED BY <3>2, <3>6, <4>1
    <3>8. ASSUME NEW i \in 1 .. (Len(l) - 1) PROVE m[i] = IF i < k THEN l[i] ELSE l[i + 1]
      <4>1. CASE i < k
        <5>1. i \in 1 .. (k - 1) /\ i <= k - 1
          BY <1>0, <4>1
        <5> QED BY <3>3, <3>7, <4>1, <5>1
      <4>2. CASE ~(i < k)
        <5>1. i - (k - 1) \in 1 .. (Len(l) - k) /\ k + (i - (k - 1)) = i + 1 /\ ~(i <= k - 1)
          BY <1>0, <4>2
        <5> QED BY <3>3, <3>7, <4>2, <5>1
      <4> QED BY <4>1, <4>2
    <3>9. DOMAIN m = 1 .. (Len(l) - 1)
      BY <1>0, <3>2, <3>5
    <3> QED BY <3>5, <3>8, <3>9
  <2> HIDE DEF m
  <2>4. \A i \in DOMAIN l : i # k =>
          LET j == IF i < k THEN i ELSE i - 1 IN j \in DOMAIN m /\ m[j] = l[i]
    BY <1>0, <2>3
  <2>5. \A i \in DOMAIN m :
          LET j == IF i < k THEN i ELSE i + 1 IN j \in DOMAIN l /\ j # k /\ m[i] = l[j]
    BY <1>0, <2>3
  <2>6. ToSet(m) = ToSet(l) \ {e}
    <3>1. ASSUME NEW x \in ToSet(m) PROVE x \in ToSet(l) \ {e}
      <4>1. PICK i \in DOMAIN m : m[i] = x
        BY <3>1 DEF ToSet
      <4>2. PICK j \in DOMAIN l : j # k /\ l[j] = x
        BY <2>5, <4>1
      <4>3. x # e
        BY <1>0, <2>1, <4>2 DEF IsInjective
      <4> QED BY <4>2, <4>3 DEF ToSet
    <3>2. ASSUME NEW x \in ToSet(l), x # e PROVE x \in ToSet(m)
      <4>1. PICK i \in DOMAIN l : l[i] = x
        BY <3>2 DEF ToSet
      <4>2. i # k
        BY <2>1, <3>2, <4>1
      <4>3. PICK j \in DOMAIN m : m[j] = x
        BY <2>4, <4>1, <4>2
      <4> QED BY <4>3 DEF ToSet
    <3> QED BY <3>1, <3>2
  <2>7. IsInjective(m)
    <3> SUFFICES ASSUME NEW i \in DOMAIN m, NEW j \in DOMAIN m, m[i] = m[j] PROVE i = j
      BY DEF IsInjective
    <3> DEFINE p == IF i < k THEN i ELSE i + 1
               q == IF j < k THEN j ELSE j + 1
    <3>1. p \in DOMAIN l /\ q \in DOMAIN l /\ l[p] = l[q]
      BY <2>5
    <3>2. p = q
      BY <3>1 DEF IsInjective
    <3> QED BY <2>3, <3>2
  <2>8. ASSUME NEW a \in ToSet(l), NEW b \in ToSet(l), Precedes(l, a, b), a # e, b # e
        PROVE  Precedes(m, a, b)
    <3>1. PICK i \in DOMAIN l, j \in DOMAIN l : i < j /\ l[i] = a /\ l[j] = b
      BY <2>8 DEF Precedes
    <3>2. i # k /\ j # k
      BY <2>1, <2>8, <3>1
    <3> DEFINE p == IF i < k THEN i ELSE i - 1
               q == IF j < k THEN j ELSE j - 1
    <3>3. p \in DOMAIN m /\ q \in DOMAIN m /\ m[p] = a /\ m[q] = b
      BY <2>4, <3>1, <3>2
    <3>4. p < q
      BY <1>0, <3>1, <3>2
    <3> QED BY <3>3, <3>4 DEF Precedes
  <2>9. ASSUME NEW a, NEW b, Precedes(m, a, b) PROVE Precedes(l, a, b)
    <3>1. PICK i \in DOMAIN m, j \in DOMAIN m : i < j /\ m[i] = a /\ m[j] = b
      BY <2>9 DEF Precedes
    <3> DEFINE p == IF i < k THEN i ELSE i + 1
               q == IF j < k THEN j ELSE j + 1
    <3>2. p \in DOMAIN l /\ q \in DOMAIN l /\ l[p] = a /\ l[q] = b
      BY <2>5, <3>1
    <3>3. p < q
      BY <1>0, <2>3, <3>1
    <3> QED BY <3>2, <3>3 DEF Precedes
  <2> QED BY <2>3, <2>6, <2>7, <2>8, <2>9 DEF m
<1> QED BY <1>1, <1>2

(***************************************************************************)
(* The makers.                                                             *)
(***************************************************************************)
LEMMA ObjectInitial == ObjectInit => ObjectInv
<1> SUFFICES ASSUME ObjectInit PROVE ObjectInv
  OBVIOUS
<1>1. \A c \in ObjectClasses : ToSet(object_list[c]) = {} /\ IsInjective(object_list[c])
  BY DEF ObjectInit, ToSet, IsInjective
<1>2. \A m \in Makers : making[m] = Idle
  BY DEF ObjectInit
<1>3. ObjectTypes
  BY ObjectAssumption DEF ObjectInit, ObjectTypes, Idle, Stages
<1>4. OneMaker /\ Staged
  BY <1>2 DEF Idle, OneMaker, Staged, InHand, Doing
<1>5. TypeMeansListed /\ ListMeansType /\ Disjoint /\ Seconds
  BY <1>1 DEF ObjectInit, TypeMeansListed, ListMeansType, Disjoint, Seconds, In
<1>6. NoBlockLost
  BY <1>1, <1>2, ObjectAssumption DEF ObjectInit, NoBlockLost, Listed, Busy, Idle, Nodes
<1> QED BY <1>3, <1>4, <1>5, <1>6 DEF ObjectInv

(* NoBlockLost, block by block.                                             *)
LEMMA BlockByBlock ==
  NoBlockLost <=>
    \A b : b \in used <=> \/ b \in Blocks /\ (Listed(b) \/ b \in Busy)
                          \/ b # NONE /\ \E n \in Nodes : pool[n] = b
BY DEF NoBlockLost

(* A node of a list is a node, and a block that is listed is in use.        *)
LEMMA Members ==
  ASSUME ObjectTypes, NEW c \in ObjectClasses
  PROVE  object_list[c] \in Seq(Nodes) /\ \A n : In(n, c) => n \in Nodes
BY Positions DEF ObjectTypes, In

LEMMA FreeBlock ==
  ASSUME ObjectInv, NEW n \in Room
  PROVE  /\ n \in Blocks /\ n \in Nodes /\ n # NONE /\ ~Listed(n) /\ n \notin Busy
         /\ type[n] = NONE /\ pool[n] = NONE
         /\ \A o \in Nodes : pool[o] # n
<1>1. n \in Blocks /\ n \in Nodes /\ n # NONE /\ n \notin used
  BY ObjectAssumption DEF Room, Nodes
<1>2. ~Listed(n) /\ n \notin Busy /\ \A o \in Nodes : pool[o] # n
  BY <1>1, BlockByBlock DEF ObjectInv
<1>3. pool[n] = NONE
  BY <1>1, <1>2 DEF ObjectInv, Seconds
<1>4. type[n] = NONE
  BY <1>1, <1>2 DEF ObjectInv, ObjectTypes, TypeMeansListed, Listed, Busy
<1> QED BY <1>1, <1>2, <1>3, <1>4

(* A new object gets its type; it is in one maker's hands.                  *)
LEMMA Typed ==
  ASSUME ObjectInv, NEW m \in Makers, NEW c \in ObjectClasses, NEW n \in Nodes,
         Doing(m, "idle"), ~Listed(n), n \notin Busy, type[n] = NONE, pool[n] = NONE,
         \A o \in Nodes : pool[o] # n,
         \/ n \in Statics /\ used' = used
         \/ n \in Blocks /\ used' = used \cup {n},
         type' = [type EXCEPT ![n] = c], Goes(m, "typed", n, c),
         UNCHANGED <<active, object_list, pool>>
  PROVE  ObjectInv'
<1> USE DEF ObjectInv
<1>0. n # NONE /\ c # NONE
  BY ObjectAssumption
<1>1. /\ making'[m] = [stage |-> "typed", node |-> n, cls |-> c]
      /\ \A l \in Makers : l # m => making'[l] = making[l] /\ making[l].node # n
      /\ making[m].node = NONE
  BY DEF ObjectTypes, Goes, Busy, Staged, InHand
<1>2. type'[n] = c /\ \A o \in Nodes : o # n => type'[o] = type[o]
  BY DEF ObjectTypes
<1>3. \A o, d : In(o, d)' <=> In(o, d)
  BY DEF In
<1>4. \A o : Listed(o)' <=> Listed(o)
  BY DEF Listed
<1>5. \A o : o \in Busy' <=> o = n \/ (o \in Busy /\ (o # NONE \/ \E l \in Makers : l # m /\ making[l].node = NONE))
  BY <1>0, <1>1 DEF Busy
<1>6. ObjectTypes'
  BY DEF ObjectTypes, Goes, Stages, Nodes
<1>7. OneMaker'
  BY <1>0, <1>1 DEF OneMaker
<1>8. Staged'
  <2> SUFFICES ASSUME NEW l \in Makers PROVE InHand(l)'
    BY DEF Staged
  <2>1. CASE l = m
    BY <1>0, <1>1, <1>2, <1>4, <2>1, ObjectAssumption DEF InHand, Doing
  <2>2. CASE l # m
    <3>1. making'[l] = making[l] /\ making[l].node # n /\ InHand(l)
      BY <1>1, <2>2 DEF Staged
    <3>2. making[l].node \in Nodes \cup {NONE}
      BY DEF ObjectTypes
    <3>3. making[l].node # NONE => type'[making[l].node] = type[making[l].node]
      BY <1>2, <3>1, <3>2
    <3> QED BY <1>3, <1>4, <3>1, <3>3 DEF InHand, Doing
  <2> QED BY <2>1, <2>2
<1>9. TypeMeansListed'
  <2> SUFFICES ASSUME NEW o \in Nodes, type'[o] # NONE
               PROVE  \/ In(o, type[o])'
                      \/ \E l \in Makers : making'[l].node = o /\ Doing(l, "typed")'
    BY DEF TypeMeansListed, In
  <2>1. CASE o = n
    BY <1>1, <2>1 DEF Doing
  <2>2. CASE o # n
    <3>1. In(o, type[o]) \/ \E l \in Makers : making[l].node = o /\ Doing(l, "typed")
      BY <1>2, <2>2 DEF TypeMeansListed, In
    <3> QED BY <1>1, <1>2, <1>3, <2>2, <3>1 DEF Doing
  <2> QED BY <2>1, <2>2
<1>10. ListMeansType'
  <2> SUFFICES ASSUME NEW d \in ObjectClasses, NEW o \in Nodes, In(o, d)
               PROVE  type'[o] = d \/ \E l \in Makers : making'[l].node = o /\ Doing(l, "unlink")'
    BY <1>3 DEF ListMeansType
  <2>1. o # n
    BY DEF Listed, In
  <2>2. type[o] = d \/ \E l \in Makers : making[l].node = o /\ Doing(l, "unlink")
    BY DEF ListMeansType
  <2> QED BY <1>1, <1>2, <2>1, <2>2 DEF Doing
<1>11. Disjoint'
  BY DEF Disjoint
<1>12. Seconds'
  BY <1>4, <1>5 DEF Seconds
<1>13. NoBlockLost'
  BY <1>0, <1>4, <1>5, ObjectAssumption DEF NoBlockLost, Nodes
<1> QED BY <1>6, <1>7, <1>8, <1>9, <1>10, <1>11, <1>12, <1>13

(* The maker at work has a node of its own, which no second block is.       *)
LEMMA AtWork ==
  ASSUME ObjectInv, NEW m \in Makers, ~Doing(m, "idle")
  PROVE  /\ making[m].node \in Nodes /\ making[m].node # NONE
         /\ making[m].cls \in ObjectClasses /\ pool[making[m].node] = NONE
         /\ \A l \in Makers : l # m => making[l].node # making[m].node
         /\ \A o \in Nodes : pool[o] # making[m].node
<1>1. InHand(m) /\ making[m] \in [stage : Stages, node : Nodes \cup {NONE}, cls : ObjectClasses \cup {NONE}]
  BY DEF ObjectInv, Staged, ObjectTypes
<1>2. /\ making[m].node \in Nodes /\ making[m].node # NONE
      /\ making[m].cls \in ObjectClasses /\ pool[making[m].node] = NONE
  BY <1>1 DEF InHand
<1>3. \A l \in Makers : l # m => making[l].node # making[m].node
  BY <1>2 DEF ObjectInv, OneMaker
<1>4. \A o \in Nodes : pool[o] # making[m].node
  BY <1>2 DEF ObjectInv, Seconds, Busy
<1> QED BY <1>2, <1>3, <1>4

(* A maker moves on with the object in its hands: types and lists of the    *)
(* others are not touched.                                                  *)
Other(n) == /\ \A o \in Nodes : o # n => type'[o] = type[o]
            /\ \A c \in ObjectClasses : \A o : o # n => (In(o, c)' <=> In(o, c))
            /\ \A o : o # n => (Listed(o)' <=> Listed(o))
LEMMA OtherNodesStay ==
  ASSUME ObjectInv, NEW m \in Makers, ~Doing(m, "idle"), Other(making[m].node),
         \A l \in Makers : l # m => making'[l] = making[l],
         \A l \in Makers : l # m => pool'[making[l].node] = pool[making[l].node],
         used \ {making[m].node} \subseteq used',
         NEW l \in Makers, l # m
  PROVE  InHand(l)'
<1>1. InHand(l) /\ making'[l] = making[l] /\ making[l].node # making[m].node
      /\ making[l].node \in Nodes \cup {NONE}
  BY AtWork DEF ObjectInv, Staged, ObjectTypes
<1>2. making[l].node # NONE => type'[making[l].node] = type[making[l].node]
  BY <1>1 DEF Other
<1>3. /\ ~Doing(l, "idle") => (In(making[l].node, making[l].cls)' <=> In(making[l].node, making[l].cls))
      /\ Listed(making[l].node)' <=> Listed(making[l].node)
  <2>1. ~Doing(l, "idle") => making[l].cls \in ObjectClasses
    BY AtWork
  <2> QED BY <1>1, <2>1 DEF Other
<1>4. making[l].node \in used => making[l].node \in used'
  BY <1>1
<1>5. pool'[making[l].node] = pool[making[l].node]
  OBVIOUS
<1> QED BY <1>1, <1>2, <1>3, <1>4, <1>5 DEF InHand, Doing

(* Into the list: what was typed is now listed.                             *)
LEMMA InsertedStep ==
  ASSUME ObjectInv, NEW m \in Makers, Inserted(m)
  PROVE  ObjectInv'
<1> DEFINE n == making[m].node
           c == making[m].cls
<1>1. Doing(m, "typed") /\ ~Doing(m, "idle") /\ InHand(m)
  BY DEF Inserted, Doing, ObjectInv, Staged
<1>2. /\ n \in Nodes /\ n # NONE /\ c \in ObjectClasses /\ pool[n] = NONE
      /\ \A l \in Makers : l # m => making[l].node # n
      /\ \A o \in Nodes : pool[o] # n
  BY <1>1, AtWork
<1>3. type[n] = c /\ ~Listed(n) /\ (n \in Blocks => n \in used)
  BY <1>1 DEF InHand
<1>4. /\ UNCHANGED <<active, type, pool, used>>
      /\ object_list' = [object_list EXCEPT ![c] = <<n>> \o @]
      /\ \/ n \in Blocks /\ making' = [making EXCEPT ![m].stage = "second"]
         \/ making' = [making EXCEPT ![m] = Idle]
  BY DEF Inserted, Moves, Ends
<1>5. /\ \A l \in Makers : l # m => making'[l] = making[l]
      /\ \/ making'[m] = [stage |-> "second", node |-> n, cls |-> c] /\ n \in Blocks
         \/ making'[m] = Idle
  BY <1>4 DEF ObjectInv, ObjectTypes
<1>6. /\ object_list'[c] \in Seq(Nodes) /\ ToSet(object_list'[c]) = ToSet(object_list[c]) \cup {n}
      /\ IsInjective(object_list'[c])
  <2>1. object_list'[c] = <<n>> \o object_list[c] /\ object_list[c] \in Seq(Nodes)
    BY <1>2, <1>4 DEF ObjectInv, ObjectTypes
  <2>2. n \notin ToSet(object_list[c]) /\ IsInjective(object_list[c])
    BY <1>2, <1>3 DEF Listed, ObjectInv, Disjoint
  <2> QED BY <1>2, <2>1, <2>2, InFront
<1>7. \A d \in ObjectClasses : d # c => object_list'[d] = object_list[d]
  BY <1>4 DEF ObjectInv, ObjectTypes
<1>8. /\ \A d \in ObjectClasses : \A o : In(o, d)' <=> In(o, d) \/ (o = n /\ d = c)
      /\ \A o : Listed(o)' <=> Listed(o) \/ o = n
  <2>1. \A d \in ObjectClasses : \A o : In(o, d)' <=> In(o, d) \/ (o = n /\ d = c)
    BY <1>6, <1>7 DEF In
  <2> QED BY <1>2, <2>1 DEF In, Listed
<1> HIDE DEF n, c
<1>9. \A o \in Nodes : o \in Busy' => o \in Busy
  BY <1>5, ObjectAssumption DEF Busy, Idle, n
<1>10. \A o \in Nodes : o \in Busy => o \in Busy' \/ o = n
  BY <1>5 DEF Busy, n
<1>11. ObjectTypes'
  <2>1. object_list' \in [ObjectClasses -> Seq(Nodes)]
    BY <1>2, <1>4, <1>6, <1>7 DEF ObjectInv, ObjectTypes
  <2>2. making' \in [Makers -> [stage : Stages, node : Nodes \cup {NONE},
                                cls : ObjectClasses \cup {NONE}]]
    BY <1>2, <1>4, <1>5 DEF ObjectInv, ObjectTypes, Stages, Idle
  <2> QED BY <1>4, <2>1, <2>2 DEF ObjectInv, ObjectTypes
<1>12. OneMaker'
  BY <1>2, <1>5 DEF ObjectInv, OneMaker, Idle
<1>13. Staged'
  <2> SUFFICES ASSUME NEW l \in Makers PROVE InHand(l)'
    BY DEF Staged
  <2>1. CASE l # m
    BY <1>1, <1>4, <1>5, <1>8, <2>1, OtherNodesStay DEF Other, n
  <2>2. CASE l = m /\ making'[m] = Idle
    BY <2>2 DEF InHand, Doing, Idle
  <2>3. CASE l = m /\ making'[m] = [stage |-> "second", node |-> n, cls |-> c] /\ n \in Blocks
    <3>1. c # NONE /\ n \in ToSet(object_list'[c]) /\ type'[n] = c /\ pool'[n] = NONE
      BY <1>2, <1>3, <1>4, <1>6, ObjectAssumption
    <3> QED BY <1>2, <2>3, <3>1 DEF InHand, Doing, In
  <2> QED BY <1>5, <2>1, <2>2, <2>3
<1>14. TypeMeansListed'
  <2> SUFFICES ASSUME NEW o \in Nodes, type[o] # NONE, ~In(o, type[o])'
               PROVE  \E l \in Makers : making'[l].node = o /\ Doing(l, "typed")'
    BY <1>4 DEF TypeMeansListed, In
  <2>1. type[o] \in ObjectClasses
    BY DEF ObjectInv, ObjectTypes
  <2>2. ~In(o, type[o]) /\ o # n
    BY <1>2, <1>3, <1>4, <1>8, <2>1 DEF In
  <2>3. PICK l \in Makers : making[l].node = o /\ Doing(l, "typed")
    BY <2>2 DEF ObjectInv, TypeMeansListed, In
  <2> QED BY <1>5, <2>2, <2>3 DEF Doing, n
<1>15. ListMeansType'
  <2> SUFFICES ASSUME NEW d \in ObjectClasses, NEW o \in Nodes, In(o, d)', type[o] # d
               PROVE  \E l \in Makers : making'[l].node = o /\ Doing(l, "unlink")'
    BY <1>4 DEF ListMeansType
  <2>1. In(o, d)
    BY <1>3, <1>8
  <2>2. PICK l \in Makers : making[l].node = o /\ Doing(l, "unlink")
    BY <2>1 DEF ObjectInv, ListMeansType
  <2>3. l # m
    BY <1>1, <2>2 DEF Doing
  <2> QED BY <1>5, <2>2, <2>3 DEF Doing
<1>16. Disjoint'
  <2>1. \A d \in ObjectClasses : n \notin ToSet(object_list[d])
    BY <1>3 DEF Listed
  <2>2. \A d \in ObjectClasses : IsInjective(object_list'[d])
    BY <1>6, <1>7 DEF ObjectInv, Disjoint
  <2>3. \A d, e \in ObjectClasses : d # e =>
          ToSet(object_list'[d]) \cap ToSet(object_list'[e]) = {}
    <3>1. \A d, e \in ObjectClasses : d # e => ToSet(object_list[d]) \cap ToSet(object_list[e]) = {}
      BY DEF ObjectInv, Disjoint
    <3>2. \A d \in ObjectClasses : d # c => ToSet(object_list'[d]) = ToSet(object_list[d])
      BY <1>7
    <3>3. ToSet(object_list'[c]) = ToSet(object_list[c]) \cup {n}
      BY <1>6
    <3> QED BY <2>1, <3>1, <3>2, <3>3
  <2> QED BY <2>2, <2>3 DEF Disjoint
<1>17. Seconds'
  <2>1. \A o \in Nodes : pool[o] # NONE => o # n /\ pool[o] \in Nodes /\ pool[o] # n
    BY <1>2 DEF ObjectInv, ObjectTypes, Nodes
  <2> QED BY <1>4, <1>8, <1>9, <2>1 DEF ObjectInv, Seconds
<1>18. NoBlockLost'
  <2>1. \A b \in Blocks : Listed(b)' \/ b \in Busy' <=> Listed(b) \/ b \in Busy
    <3>1. n \in Busy
      BY DEF Busy, n
    <3> QED BY <1>8, <1>9, <1>10, <3>1 DEF Nodes
  <2> QED BY <1>4, <2>1 DEF ObjectInv, NoBlockLost
<1> QED BY <1>11, <1>12, <1>13, <1>14, <1>15, <1>16, <1>17, <1>18 DEF ObjectInv

(* The second block is taken from what is free, or the object is on its way *)
(* out again.                                                               *)
LEMMA SecondStep ==
  ASSUME ObjectInv, NEW m \in Makers, SecondBlock(m)
  PROVE  ObjectInv'
<1> DEFINE n == making[m].node
           c == making[m].cls
<1>1. Doing(m, "second") /\ ~Doing(m, "idle") /\ InHand(m)
  BY DEF SecondBlock, Doing, ObjectInv, Staged
<1>2. /\ n \in Nodes /\ n # NONE /\ c \in ObjectClasses /\ pool[n] = NONE
      /\ \A l \in Makers : l # m => making[l].node # n
      /\ \A o \in Nodes : pool[o] # n
  BY <1>1, AtWork
<1>3. type[n] = c /\ In(n, c) /\ n \in Blocks /\ Listed(n) /\ n \in used
  <2>1. type[n] = c /\ In(n, c) /\ n \in Blocks
    BY <1>1 DEF InHand
  <2>2. Listed(n)
    BY <1>2, <2>1 DEF Listed, In
  <2> QED BY <2>1, <2>2, BlockByBlock DEF ObjectInv
<1>4. UNCHANGED <<active, type, object_list>>
  BY DEF SecondBlock
<1>5. CASE \E b \in Room : /\ used' = used \cup {b}
                           /\ pool' = [pool EXCEPT ![making[m].node] = b]
                           /\ Ends(m)
  <2> HIDE DEF c
  <2>1. PICK b \in Room : used' = used \cup {b} /\ pool' = [pool EXCEPT ![n] = b] /\ Ends(m)
    BY <1>5
  <2>2. /\ b \in Blocks /\ b \in Nodes /\ b # NONE /\ ~Listed(b) /\ b \notin Busy
        /\ \A o \in Nodes : pool[o] # b
    BY FreeBlock
  <2>3. pool'[n] = b /\ \A o \in Nodes : o # n => pool'[o] = pool[o]
    BY <1>2, <2>1 DEF ObjectInv, ObjectTypes
  <2>4. making'[m] = Idle /\ \A l \in Makers : l # m => making'[l] = making[l]
    BY <2>1 DEF Ends, ObjectInv, ObjectTypes
  <2>5. \A o, d : In(o, d)' <=> In(o, d)
    BY <1>4 DEF In
  <2>6. \A o : Listed(o)' <=> Listed(o)
    BY <1>4 DEF Listed
  <2>7. \A o \in Nodes : o \in Busy' <=> o \in Busy /\ o # n
    BY <1>2, <2>4, ObjectAssumption DEF Busy, Idle
  <2>8. ObjectTypes'
    BY <1>2, <1>4, <2>1, <2>2 DEF ObjectInv, ObjectTypes, Ends, Idle, Stages
  <2>9. OneMaker'
    BY <2>4 DEF ObjectInv, OneMaker, Idle
  <2>10. Staged'
    <3> SUFFICES ASSUME NEW l \in Makers PROVE InHand(l)'
      BY DEF Staged
    <3>1. CASE l = m
      BY <2>4, <3>1 DEF InHand, Doing, Idle
    <3>2. CASE l # m
      <4>1. InHand(l) /\ making'[l] = making[l] /\ making[l].node # n
            /\ making[l].node \in Nodes \cup {NONE}
        BY <1>2, <2>4, <3>2 DEF ObjectInv, Staged, ObjectTypes
      <4>2. making[l].node # NONE => pool'[making[l].node] = pool[making[l].node]
        BY <2>3, <4>1
      <4>3. making[l].node \in used => making[l].node \in used'
        BY <2>1
      <4> QED BY <1>4, <2>5, <2>6, <4>1, <4>2, <4>3 DEF InHand, Doing
    <3> QED BY <3>1, <3>2
  <2>11. TypeMeansListed'
    <3> SUFFICES ASSUME NEW o \in Nodes, type[o] # NONE, ~In(o, type[o])
                 PROVE  \E l \in Makers : making'[l].node = o /\ Doing(l, "typed")'
      BY <1>4 DEF TypeMeansListed, In
    <3>1. PICK l \in Makers : making[l].node = o /\ Doing(l, "typed")
      BY DEF ObjectInv, TypeMeansListed, In
    <3>2. l # m
      BY <1>1, <3>1 DEF Doing
    <3> QED BY <2>4, <3>1, <3>2 DEF Doing
  <2>12. ListMeansType'
    <3> SUFFICES ASSUME NEW d \in ObjectClasses, NEW o \in Nodes, In(o, d), type[o] # d
                 PROVE  \E l \in Makers : making'[l].node = o /\ Doing(l, "unlink")'
      BY <1>4, <2>5 DEF ListMeansType
    <3>1. PICK l \in Makers : making[l].node = o /\ Doing(l, "unlink")
      BY DEF ObjectInv, ListMeansType
    <3>2. l # m
      BY <1>1, <3>1 DEF Doing
    <3> QED BY <2>4, <3>1, <3>2 DEF Doing
  <2>13. Disjoint'
    BY <1>4 DEF ObjectInv, Disjoint
  <2>14. Seconds'
    <3>1. \A o \in Nodes : pool[o] # NONE => pool[o] \in Nodes
      BY DEF ObjectInv, ObjectTypes, Nodes
    <3>2. \A o \in Nodes : pool'[o] # NONE =>
            /\ o \in Blocks /\ Listed(o) /\ o \notin Busy'
            /\ ~Listed(pool'[o]) /\ pool'[o] \notin Busy'
      BY <1>3, <2>2, <2>3, <2>7, <3>1 DEF ObjectInv, Seconds
    <3>3. \A o, p \in Nodes : pool'[o] = pool'[p] /\ pool'[o] # NONE => o = p
      BY <2>2, <2>3 DEF ObjectInv, Seconds
    <3> QED BY <1>4, <3>2, <3>3 DEF Seconds, Listed
  <2>15. NoBlockLost'
    <3>1. \A o \in Blocks : Listed(o)' \/ o \in Busy' <=> Listed(o) \/ o \in Busy
      BY <1>3, <2>6, <2>7 DEF Nodes
    <3>2. \A x : x # NONE =>
            ((\E o \in Nodes : pool'[o] = x) <=> x = b \/ \E o \in Nodes : pool[o] = x)
      BY <1>2, <2>2, <2>3
    <3>3. \A x : x \in used' <=> \/ x \in Blocks /\ (Listed(x)' \/ x \in Busy')
                                 \/ x # NONE /\ \E o \in Nodes : pool'[o] = x
      BY <2>1, <2>2, <3>1, <3>2, BlockByBlock DEF ObjectInv
    <3> QED BY <3>3 DEF NoBlockLost
  <2> QED BY <2>8, <2>9, <2>10, <2>11, <2>12, <2>13, <2>14, <2>15 DEF ObjectInv
<1>6. CASE second_failed(m)
  <2>1. UNCHANGED <<pool, used>>
    BY <1>6 DEF second_failed
  <2>2. /\ making'[m] = [stage |-> "untype", node |-> n, cls |-> c]
        /\ \A l \in Makers : l # m => making'[l] = making[l]
    BY <1>6 DEF second_failed, Moves, ObjectInv, ObjectTypes
  <2>3. /\ \A o, d : In(o, d)' <=> In(o, d)
        /\ \A o : Listed(o)' <=> Listed(o)
    BY <1>4 DEF In, Listed
  <2>4. Busy' = Busy
    BY <2>2 DEF Busy
  <2>5. ObjectTypes'
    BY <1>4, <1>6, <2>1 DEF ObjectInv, ObjectTypes, second_failed, Moves, Stages
  <2>6. OneMaker'
    BY <1>2, <2>2 DEF ObjectInv, OneMaker
  <2>7. Staged'
    <3> SUFFICES ASSUME NEW l \in Makers PROVE InHand(l)'
      BY DEF Staged
    <3>1. CASE l = m
      <4>1. c # NONE /\ n \in ToSet(object_list'[c]) /\ type'[n] = c /\ pool'[n] = NONE
        BY <1>2, <1>3, <1>4, <2>1, ObjectAssumption DEF In
      <4> QED BY <1>2, <2>2, <3>1, <4>1 DEF InHand, Doing, In
    <3>2. CASE l # m
      BY <1>1, <1>4, <2>1, <2>2, <2>3, <3>2, OtherNodesStay DEF Other
    <3> QED BY <3>1, <3>2
  <2>8. TypeMeansListed'
    <3> SUFFICES ASSUME NEW o \in Nodes, type[o] # NONE, ~In(o, type[o])
                 PROVE  \E l \in Makers : making'[l].node = o /\ Doing(l, "typed")'
      BY <1>4 DEF TypeMeansListed, In
    <3>1. PICK l \in Makers : making[l].node = o /\ Doing(l, "typed")
      BY DEF ObjectInv, TypeMeansListed, In
    <3>2. l # m
      BY <1>1, <3>1 DEF Doing
    <3> QED BY <2>2, <3>1, <3>2 DEF Doing
  <2>9. ListMeansType'
    <3> SUFFICES ASSUME NEW d \in ObjectClasses, NEW o \in Nodes, In(o, d), type[o] # d
                 PROVE  \E l \in Makers : making'[l].node = o /\ Doing(l, "unlink")'
      BY <1>4, <2>3 DEF ListMeansType
    <3>1. PICK l \in Makers : making[l].node = o /\ Doing(l, "unlink")
      BY DEF ObjectInv, ListMeansType
    <3>2. l # m
      BY <1>1, <3>1 DEF Doing
    <3> QED BY <2>2, <3>1, <3>2 DEF Doing
  <2>10. Disjoint' /\ Seconds' /\ NoBlockLost'
    BY <1>4, <2>1, <2>4 DEF ObjectInv, Disjoint, Seconds, NoBlockLost, Listed
  <2> QED BY <2>5, <2>6, <2>7, <2>8, <2>9, <2>10 DEF ObjectInv
<1> QED BY <1>5, <1>6 DEF SecondBlock

(* Deleting begins with the second block, and the node is in one maker's    *)
(* hands.                                                                   *)
LEMMA BlockTaken ==
  ASSUME ObjectInv, NEW m \in Makers, NEW c \in ObjectClasses, NEW n \in Nodes,
         Doing(m, "idle"), Whole(n, c), Goes(m, "untype", n, c),
         \/ used' = used \ {pool[n]} /\ pool' = [pool EXCEPT ![n] = NONE]
         \/ pool[n] = NONE /\ UNCHANGED <<pool, used>>,
         UNCHANGED <<active, type, object_list>>
  PROVE  ObjectInv'
<1>1. n # NONE /\ c # NONE /\ In(n, c) /\ Listed(n) /\ n \notin Busy /\ NONE \notin Blocks
  BY ObjectAssumption DEF Whole, In, Listed, Nodes
<1>2. /\ making'[m] = [stage |-> "untype", node |-> n, cls |-> c]
      /\ \A l \in Makers : l # m => making'[l] = making[l] /\ making[l].node # n
      /\ making[m].node = NONE
  BY <1>1 DEF ObjectInv, ObjectTypes, Goes, Busy, Staged, InHand
<1>3. type[n] = c
  BY <1>1 DEF ObjectInv, ListMeansType, Busy
<1>4. pool'[n] = NONE /\ \A o \in Nodes : o # n => pool'[o] = pool[o]
  BY DEF ObjectInv, ObjectTypes
<1>5. /\ \A o, d : In(o, d)' <=> In(o, d)
      /\ \A o : Listed(o)' <=> Listed(o)
  BY DEF In, Listed
<1>6. \A o \in Nodes : o \in Busy' <=> o \in Busy \/ o = n
  BY <1>2, ObjectAssumption DEF Busy
<1>7. used' = used \ {pool[n]}
  <2>1. CASE pool[n] = NONE /\ UNCHANGED <<pool, used>>
    BY <1>1, <2>1 DEF ObjectInv, ObjectTypes
  <2> QED BY <2>1
<1>8. ObjectTypes'
  BY DEF ObjectInv, ObjectTypes, Goes, Stages
<1>9. OneMaker'
  BY <1>1, <1>2 DEF ObjectInv, OneMaker
<1>10. Staged'
  <2> SUFFICES ASSUME NEW l \in Makers PROVE InHand(l)'
    BY DEF Staged
  <2>1. CASE l = m
    <3>1. n \in ToSet(object_list'[c]) /\ type'[n] = c
      BY <1>1, <1>3 DEF In
    <3> QED BY <1>1, <1>2, <1>4, <2>1, <3>1 DEF InHand, Doing, In
  <2>2. CASE l # m
    <3>1. InHand(l) /\ making'[l] = making[l] /\ making[l].node # n
          /\ making[l].node \in Nodes \cup {NONE}
      BY <1>2, <2>2 DEF ObjectInv, Staged, ObjectTypes
    <3>2. making[l].node # NONE => pool'[making[l].node] = pool[making[l].node]
      BY <1>4, <3>1
    <3>3. making[l].node # NONE /\ making[l].node \in used => making[l].node \in used'
      <4>1. pool[n] # NONE => pool[n] \notin Busy
        BY DEF ObjectInv, Seconds
      <4>2. making[l].node \in Busy
        BY DEF Busy
      <4> QED BY <1>7, <4>1, <4>2
    <3> QED BY <1>5, <3>1, <3>2, <3>3 DEF InHand, Doing
  <2> QED BY <2>1, <2>2
<1>11. TypeMeansListed'
  <2> SUFFICES ASSUME NEW o \in Nodes, type[o] # NONE, ~In(o, type[o])
               PROVE  \E l \in Makers : making'[l].node = o /\ Doing(l, "typed")'
    BY DEF TypeMeansListed, In
  <2>1. PICK l \in Makers : making[l].node = o /\ Doing(l, "typed")
    BY DEF ObjectInv, TypeMeansListed, In
  <2>2. l # m
    BY <2>1 DEF Doing
  <2> QED BY <1>2, <2>1, <2>2 DEF Doing
<1>12. ListMeansType'
  <2> SUFFICES ASSUME NEW d \in ObjectClasses, NEW o \in Nodes, In(o, d), type[o] # d
               PROVE  \E l \in Makers : making'[l].node = o /\ Doing(l, "unlink")'
    BY <1>5 DEF ListMeansType
  <2>1. PICK l \in Makers : making[l].node = o /\ Doing(l, "unlink")
    BY DEF ObjectInv, ListMeansType
  <2>2. l # m
    BY <2>1 DEF Doing
  <2> QED BY <1>2, <2>1, <2>2 DEF Doing
<1>13. Disjoint'
  BY DEF ObjectInv, Disjoint
<1>14. Seconds'
  <2>1. \A o \in Nodes : pool[o] # NONE => pool[o] \in Nodes
    BY DEF ObjectInv, ObjectTypes, Nodes
  <2>2. \A o \in Nodes : pool'[o] # NONE =>
          /\ o \in Blocks /\ Listed(o) /\ o \notin Busy'
          /\ ~Listed(pool'[o]) /\ pool'[o] \notin Busy'
    BY <1>1, <1>4, <1>6, <2>1 DEF ObjectInv, Seconds
  <2>3. \A o, p \in Nodes : pool'[o] = pool'[p] /\ pool'[o] # NONE => o = p
    BY <1>4 DEF ObjectInv, Seconds
  <2> QED BY <1>5, <2>2, <2>3 DEF Seconds
<1>15. NoBlockLost'
  <2>1. \A o \in Blocks : Listed(o)' \/ o \in Busy' <=> Listed(o) \/ o \in Busy
    BY <1>1, <1>5, <1>6 DEF Nodes
  <2>2. \A x : x # NONE =>
          ((\E o \in Nodes : pool'[o] = x) <=> x # pool[n] /\ \E o \in Nodes : pool[o] = x)
    BY <1>4 DEF ObjectInv, Seconds
  <2>3. \A x : x \in used' <=> x \in used /\ x # pool[n]
    BY <1>7
  <2>4. pool[n] # NONE => ~Listed(pool[n]) /\ pool[n] \notin Busy
    BY DEF ObjectInv, Seconds
  <2>5. \A x : x \in used <=> \/ x \in Blocks /\ (Listed(x) \/ x \in Busy)
                              \/ x # NONE /\ \E o \in Nodes : pool[o] = x
    BY BlockByBlock DEF ObjectInv
  <2>6. \A x : x \in used' <=> \/ x \in Blocks /\ (Listed(x)' \/ x \in Busy')
                               \/ x # NONE /\ \E o \in Nodes : pool'[o] = x
    BY <1>1, <2>1, <2>2, <2>3, <2>4, <2>5
  <2> QED BY <2>6 DEF NoBlockLost
<1> QED BY <1>8, <1>9, <1>10, <1>11, <1>12, <1>13, <1>14, <1>15 DEF ObjectInv

(* The type goes first; the node is then in its list without a type, and a  *)
(* maker is on his way to take it out.                                      *)
LEMMA UntypeStep ==
  ASSUME ObjectInv, NEW m \in Makers, Untype(m)
  PROVE  ObjectInv'
<1> DEFINE n == making[m].node
           c == making[m].cls
<1>1. Doing(m, "untype") /\ ~Doing(m, "idle") /\ InHand(m)
  BY DEF Untype, Doing, ObjectInv, Staged
<1>2. /\ n \in Nodes /\ n # NONE /\ c \in ObjectClasses /\ pool[n] = NONE
      /\ \A l \in Makers : l # m => making[l].node # n
  BY <1>1, AtWork
<1>3. type[n] = c /\ In(n, c)
  BY <1>1 DEF InHand
<1>4. UNCHANGED <<active, object_list, pool, used>> /\ type' = [type EXCEPT ![n] = NONE]
  BY DEF Untype, untype
<1>5. /\ making'[m] = [stage |-> "unlink", node |-> n, cls |-> c]
      /\ \A l \in Makers : l # m => making'[l] = making[l]
  BY DEF Untype, untype, Moves, ObjectInv, ObjectTypes
<1>6. type'[n] = NONE /\ \A o \in Nodes : o # n => type'[o] = type[o]
  BY <1>2, <1>4 DEF ObjectInv, ObjectTypes
<1>7. /\ \A o, d : In(o, d)' <=> In(o, d)
      /\ \A o : Listed(o)' <=> Listed(o)
  BY <1>4 DEF In, Listed
<1>8. Busy' = Busy
  BY <1>5 DEF Busy
<1>9. ObjectTypes'
  BY <1>4 DEF ObjectInv, ObjectTypes, Untype, untype, Moves, Stages
<1>10. OneMaker'
  BY <1>2, <1>5 DEF ObjectInv, OneMaker
<1>11. Staged'
  <2> SUFFICES ASSUME NEW l \in Makers PROVE InHand(l)'
    BY DEF Staged
  <2>1. CASE l = m
    <3>1. c # NONE /\ n \in ToSet(object_list'[c]) /\ pool'[n] = NONE
      BY <1>2, <1>3, <1>4, ObjectAssumption DEF In
    <3> QED BY <1>2, <1>5, <1>6, <2>1, <3>1 DEF InHand, Doing, In
  <2>2. CASE l # m
    BY <1>1, <1>4, <1>5, <1>6, <1>7, <2>2, OtherNodesStay DEF Other
  <2> QED BY <2>1, <2>2
<1>12. TypeMeansListed'
  <2> SUFFICES ASSUME NEW o \in Nodes, type'[o] # NONE, ~In(o, type[o])'
               PROVE  \E l \in Makers : making'[l].node = o /\ Doing(l, "typed")'
    BY DEF TypeMeansListed, In
  <2>1. o # n /\ type'[o] = type[o] /\ ~In(o, type[o])
    BY <1>4, <1>6 DEF In
  <2>2. PICK l \in Makers : making[l].node = o /\ Doing(l, "typed")
    BY <1>6, <2>1 DEF ObjectInv, TypeMeansListed, In
  <2> QED BY <1>5, <2>1, <2>2 DEF Doing
<1>13. ListMeansType'
  <2> SUFFICES ASSUME NEW d \in ObjectClasses, NEW o \in Nodes, In(o, d), type'[o] # d
               PROVE  \E l \in Makers : making'[l].node = o /\ Doing(l, "unlink")'
    BY <1>7 DEF ListMeansType
  <2>1. CASE o = n
    BY <1>5, <2>1 DEF Doing
  <2>2. CASE o # n
    <3>1. PICK l \in Makers : making[l].node = o /\ Doing(l, "unlink")
      BY <1>6, <2>2 DEF ObjectInv, ListMeansType
    <3>2. l # m
      BY <2>2, <3>1
    <3> QED BY <1>5, <3>1, <3>2 DEF Doing
  <2> QED BY <2>1, <2>2
<1>14. Disjoint' /\ Seconds' /\ NoBlockLost'
  BY <1>4, <1>8 DEF ObjectInv, Disjoint, Seconds, NoBlockLost, Listed
<1> QED BY <1>9, <1>10, <1>11, <1>12, <1>13, <1>14 DEF ObjectInv

LEMMA WithoutNode ==
  ASSUME ObjectInv, NEW n, NEW c \in ObjectClasses
  PROVE  /\ without(n)[c] \in Seq(Nodes) /\ ToSet(without(n)[c]) = ToSet(object_list[c]) \ {n}
         /\ IsInjective(without(n)[c])
         /\ \A a, b \in ToSet(object_list[c]) :
              Precedes(object_list[c], a, b) /\ a # n /\ b # n => Precedes(without(n)[c], a, b)
<1>1. object_list[c] \in Seq(Nodes) /\ IsInjective(object_list[c])
  BY DEF ObjectInv, ObjectTypes, Disjoint
<1>2. without(n)[c] = RemoveFirst(object_list[c], n)
  BY DEF without
<1> QED BY <1>1, <1>2, TakenOut

(* Out of the list; a block is then still in use, until it is freed.        *)
LEMMA UnlinkStep ==
  ASSUME ObjectInv, NEW m \in Makers, Unlink(m)
  PROVE  ObjectInv'
<1> DEFINE n == making[m].node
           c == making[m].cls
<1>1. Doing(m, "unlink") /\ ~Doing(m, "idle") /\ InHand(m)
  BY DEF Unlink, Doing, ObjectInv, Staged
<1>2. /\ n \in Nodes /\ n # NONE /\ c \in ObjectClasses /\ pool[n] = NONE
      /\ \A l \in Makers : l # m => making[l].node # n
      /\ \A o \in Nodes : pool[o] # n
  BY <1>1, AtWork
<1>3. type[n] = NONE /\ In(n, c)
  BY <1>1 DEF InHand
<1>4. UNCHANGED <<active, type, pool, used>> /\ object_list' = without(n)
  BY DEF Unlink, unlink
<1>5. /\ \A l \in Makers : l # m => making'[l] = making[l]
      /\ \/ making'[m] = [stage |-> "free", node |-> n, cls |-> c] /\ n \in Blocks
         \/ making'[m] = Idle /\ n \notin Blocks
  BY DEF Unlink, unlink, Moves, Ends, ObjectInv, ObjectTypes
<1> HIDE DEF n, c
<1>6. \A d \in ObjectClasses :
        /\ object_list'[d] \in Seq(Nodes) /\ IsInjective(object_list'[d])
        /\ ToSet(object_list'[d]) = ToSet(object_list[d]) \ {n}
  BY <1>4, WithoutNode
<1>7. /\ \A d \in ObjectClasses : \A o : In(o, d)' <=> In(o, d) /\ o # n
      /\ \A o : Listed(o)' <=> Listed(o) /\ o # n
  <2>1. \A d \in ObjectClasses : \A o : In(o, d)' <=> In(o, d) /\ o # n
    BY <1>6 DEF In
  <2> QED BY <2>1 DEF In, Listed
<1>8. \A o \in Nodes : o # n => (o \in Busy' <=> o \in Busy)
  BY <1>5, ObjectAssumption DEF Busy, Idle, n
<1>9. n \in Busy /\ (n \in Blocks => n \in Busy')
  BY <1>5 DEF Busy, n
<1>10. ObjectTypes'
  <2>1. object_list' \in [ObjectClasses -> Seq(Nodes)]
    BY <1>4, <1>6 DEF without
  <2>2. making' \in [Makers -> [stage : Stages, node : Nodes \cup {NONE},
                                cls : ObjectClasses \cup {NONE}]]
    BY <1>2, <1>5 DEF Unlink, unlink, Moves, Ends, ObjectInv, ObjectTypes, Stages, Idle
  <2> QED BY <1>4, <2>1, <2>2 DEF ObjectInv, ObjectTypes
<1>11. OneMaker'
  BY <1>2, <1>5 DEF ObjectInv, OneMaker, Idle
<1>12. Staged'
  <2> SUFFICES ASSUME NEW l \in Makers PROVE InHand(l)'
    BY DEF Staged
  <2>1. CASE l # m
    BY <1>1, <1>4, <1>5, <1>7, <2>1, OtherNodesStay DEF Other, n
  <2>2. CASE l = m /\ making'[m] = Idle
    BY <2>2 DEF InHand, Doing, Idle
  <2>3. CASE l = m /\ making'[m] = [stage |-> "free", node |-> n, cls |-> c] /\ n \in Blocks
    <3>1. c # NONE /\ type'[n] = NONE /\ pool'[n] = NONE
      BY <1>2, <1>3, <1>4, ObjectAssumption
    <3>2. \A d \in ObjectClasses : n \notin ToSet(object_list'[d])
      BY <1>6
    <3> QED BY <1>2, <2>3, <3>1, <3>2 DEF InHand, Doing, Listed
  <2> QED BY <1>5, <2>1, <2>2, <2>3
<1>13. TypeMeansListed'
  <2> SUFFICES ASSUME NEW o \in Nodes, type[o] # NONE, ~In(o, type[o])'
               PROVE  \E l \in Makers : making'[l].node = o /\ Doing(l, "typed")'
    BY <1>4 DEF TypeMeansListed, In
  <2>1. type[o] \in ObjectClasses /\ o # n
    BY <1>3 DEF ObjectInv, ObjectTypes
  <2>2. ~In(o, type[o])
    BY <1>4, <1>7, <2>1 DEF In
  <2>3. PICK l \in Makers : making[l].node = o /\ Doing(l, "typed")
    BY <2>2 DEF ObjectInv, TypeMeansListed, In
  <2> QED BY <1>5, <2>1, <2>3 DEF Doing, n
<1>14. ListMeansType'
  <2> SUFFICES ASSUME NEW d \in ObjectClasses, NEW o \in Nodes, In(o, d)', type[o] # d
               PROVE  \E l \in Makers : making'[l].node = o /\ Doing(l, "unlink")'
    BY <1>4 DEF ListMeansType
  <2>1. In(o, d) /\ o # n
    BY <1>7
  <2>2. PICK l \in Makers : making[l].node = o /\ Doing(l, "unlink")
    BY <2>1 DEF ObjectInv, ListMeansType
  <2> QED BY <1>5, <2>1, <2>2 DEF Doing, n
<1>15. Disjoint'
  <2>1. \A d, e \in ObjectClasses : d # e => ToSet(object_list[d]) \cap ToSet(object_list[e]) = {}
    BY DEF ObjectInv, Disjoint
  <2>2. \A d, e \in ObjectClasses : d # e => ToSet(object_list'[d]) \cap ToSet(object_list'[e]) = {}
    BY <1>6, <2>1
  <2> QED BY <1>6, <2>2 DEF Disjoint
<1>16. Seconds'
  <2>1. \A o \in Nodes : pool[o] # NONE => o # n /\ pool[o] \in Nodes /\ pool[o] # n
    BY <1>2 DEF ObjectInv, ObjectTypes, Nodes
  <2> QED BY <1>4, <1>7, <1>8, <2>1 DEF ObjectInv, Seconds
<1>17. NoBlockLost'
  <2>1. \A b \in Blocks : Listed(b)' \/ b \in Busy' <=> Listed(b) \/ b \in Busy
    BY <1>7, <1>8, <1>9 DEF Nodes
  <2> QED BY <1>4, <2>1 DEF ObjectInv, NoBlockLost
<1> QED BY <1>10, <1>11, <1>12, <1>13, <1>14, <1>15, <1>16, <1>17 DEF ObjectInv

LEMMA FreeStep ==
  ASSUME ObjectInv, NEW m \in Makers, Free(m)
  PROVE  ObjectInv'
<1> DEFINE n == making[m].node
<1>1. Doing(m, "free") /\ ~Doing(m, "idle") /\ InHand(m)
  BY DEF Free, Doing, ObjectInv, Staged
<1>2. /\ n \in Nodes /\ n # NONE /\ pool[n] = NONE
      /\ \A l \in Makers : l # m => making[l].node # n
      /\ \A o \in Nodes : pool[o] # n
  BY <1>1, AtWork
<1>3. type[n] = NONE /\ ~Listed(n) /\ n \in Blocks
  BY <1>1 DEF InHand
<1>4. UNCHANGED <<active, type, object_list, pool>> /\ used' = used \ {n}
  BY DEF Free
<1>5. making'[m] = Idle /\ \A l \in Makers : l # m => making'[l] = making[l]
  BY DEF Free, Ends, ObjectInv, ObjectTypes
<1>6. /\ \A o, d : In(o, d)' <=> In(o, d)
      /\ \A o : Listed(o)' <=> Listed(o)
  BY <1>4 DEF In, Listed
<1>7. \A o \in Nodes : o \in Busy' <=> o \in Busy /\ o # n
  BY <1>2, <1>5, ObjectAssumption DEF Busy, Idle
<1>8. ObjectTypes'
  BY <1>4 DEF ObjectInv, ObjectTypes, Free, Ends, Idle, Stages
<1>9. OneMaker'
  BY <1>5 DEF ObjectInv, OneMaker, Idle
<1>10. Staged'
  <2> SUFFICES ASSUME NEW l \in Makers PROVE InHand(l)'
    BY DEF Staged
  <2>1. CASE l = m
    BY <1>5, <2>1 DEF InHand, Doing, Idle
  <2>2. CASE l # m
    BY <1>1, <1>4, <1>5, <1>6, <2>2, OtherNodesStay DEF Other
  <2> QED BY <2>1, <2>2
<1>11. TypeMeansListed'
  <2> SUFFICES ASSUME NEW o \in Nodes, type[o] # NONE, ~In(o, type[o])
               PROVE  \E l \in Makers : making'[l].node = o /\ Doing(l, "typed")'
    BY <1>4 DEF TypeMeansListed, In
  <2>1. PICK l \in Makers : making[l].node = o /\ Doing(l, "typed")
    BY DEF ObjectInv, TypeMeansListed, In
  <2>2. l # m
    BY <1>1, <2>1 DEF Doing
  <2> QED BY <1>5, <2>1, <2>2 DEF Doing
<1>12. ListMeansType'
  <2> SUFFICES ASSUME NEW d \in ObjectClasses, NEW o \in Nodes, In(o, d), type[o] # d
               PROVE  \E l \in Makers : making'[l].node = o /\ Doing(l, "unlink")'
    BY <1>4, <1>6 DEF ListMeansType
  <2>1. PICK l \in Makers : making[l].node = o /\ Doing(l, "unlink")
    BY DEF ObjectInv, ListMeansType
  <2>2. l # m
    BY <1>1, <2>1 DEF Doing
  <2> QED BY <1>5, <2>1, <2>2 DEF Doing
<1>13. Disjoint'
  BY <1>4 DEF ObjectInv, Disjoint
<1>14. Seconds'
  <2>1. \A o \in Nodes : pool[o] # NONE => pool[o] \in Nodes
    BY DEF ObjectInv, ObjectTypes, Nodes
  <2> QED BY <1>4, <1>6, <1>7, <2>1 DEF ObjectInv, Seconds
<1>15. NoBlockLost'
  <2>1. \A b \in Blocks : Listed(b)' \/ b \in Busy' <=> (Listed(b) \/ b \in Busy) /\ b # n
    BY <1>3, <1>6, <1>7 DEF Nodes
  <2>2. \A b : b \in used <=> \/ b \in Blocks /\ (Listed(b) \/ b \in Busy)
                              \/ b # NONE /\ \E o \in Nodes : pool[o] = b
    BY BlockByBlock DEF ObjectInv
  <2>3. \A b : b \in used' <=> \/ b \in Blocks /\ (Listed(b)' \/ b \in Busy')
                               \/ b # NONE /\ \E o \in Nodes : pool'[o] = b
    BY <1>2, <1>4, <2>1, <2>2
  <2> QED BY <2>3 DEF NoBlockLost
<1> QED BY <1>8, <1>9, <1>10, <1>11, <1>12, <1>13, <1>14, <1>15 DEF ObjectInv

LEMMA MakerStep ==
  ASSUME ObjectInv, NEW m \in Makers, Makes(m)
  PROVE  ObjectInv'
<1>1. ASSUME NEW c \in ObjectClasses, rt_object_allocate(m, c) PROVE ObjectInv'
  <2>1. PICK n \in Room : /\ used' = used \cup {n} /\ type' = [type EXCEPT ![n] = c]
                          /\ Goes(m, "typed", n, c)
    BY <1>1 DEF rt_object_allocate
  <2> QED BY <1>1, <2>1, FreeBlock, Typed DEF rt_object_allocate
<1>2. ASSUME NEW c \in ObjectClasses, rt_object_init(m, c) PROVE ObjectInv'
  <2>1. PICK n \in active.statics \ Busy : /\ ~Listed(n) /\ type' = [type EXCEPT ![n] = c]
                                           /\ Goes(m, "typed", n, c)
    BY <1>2 DEF rt_object_init
  <2>2. n \in Statics /\ n \in Nodes /\ n # NONE /\ n \notin Blocks
    BY ObjectAssumption DEF ObjectInv, ObjectTypes, Nodes
  <2>3. pool[n] = NONE /\ \A o \in Nodes : pool[o] # n
    BY <2>1, <2>2 DEF ObjectInv, ObjectTypes, Seconds
  <2>4. type[n] = NONE
    BY <2>1, <2>2 DEF ObjectInv, ObjectTypes, TypeMeansListed, Listed, Busy
  <2>5. Doing(m, "idle") /\ n \notin Busy /\ UNCHANGED <<active, object_list, pool>>
    BY <1>2 DEF rt_object_init
  <2>6. \/ n \in Statics /\ used' = used
        \/ n \in Blocks /\ used' = used \cup {n}
    BY <1>2, <2>2 DEF rt_object_init
  <2>7. ~Listed(n) /\ type' = [type EXCEPT ![n] = c] /\ Goes(m, "typed", n, c)
    BY <2>1
  <2> QED BY <2>2, <2>3, <2>4, <2>5, <2>6, <2>7, Typed
<1>3. ASSUME NEW c \in ObjectClasses, deletes(m, c) PROVE ObjectInv'
  <2>1. PICK n \in Blocks :
          /\ Doing(m, "idle") /\ Whole(n, c)
          /\ used' = used \ {pool[n]} /\ pool' = [pool EXCEPT ![n] = NONE]
          /\ Goes(m, "untype", n, c)
          /\ UNCHANGED <<active, type, object_list, walk>>
    BY <1>3 DEF deletes
  <2> QED BY <2>1, BlockTaken DEF Nodes
<1>4. ASSUME NEW c \in ObjectClasses, rt_object_detach(m, c) PROVE ObjectInv'
  <2>1. PICK n \in active.statics : Doing(m, "idle") /\ Whole(n, c) /\ Goes(m, "untype", n, c)
    BY <1>4 DEF rt_object_detach
  <2>2. n \in Statics /\ n \in Nodes /\ n \notin Blocks
    BY ObjectAssumption DEF ObjectInv, ObjectTypes, Nodes
  <2>3. pool[n] = NONE
    BY <2>2 DEF ObjectInv, Seconds
  <2> QED BY <1>4, <2>1, <2>2, <2>3, BlockTaken DEF rt_object_detach
<1>5. ASSUME Inserted(m) \/ SecondBlock(m) \/ rt_object_delete(m) PROVE ObjectInv'
  BY <1>5, InsertedStep, SecondStep, UntypeStep, UnlinkStep, FreeStep DEF rt_object_delete
<1>6. \/ \E c \in ObjectClasses : rt_object_allocate(m, c)
      \/ \E c \in ObjectClasses : rt_object_init(m, c)
      \/ \E c \in ObjectClasses : deletes(m, c)
      \/ \E c \in ObjectClasses : rt_object_detach(m, c)
      \/ Inserted(m) \/ SecondBlock(m) \/ rt_object_delete(m)
  BY DEF Makes, ObjectClasses, rt_sem_create, rt_sem_delete, rt_mutex_create, rt_mutex_delete,
         rt_event_create, rt_event_delete, rt_mb_create, rt_mb_delete, rt_mq_create, rt_mq_delete,
         rt_mp_create, rt_mp_delete, rt_timer_create, rt_timer_delete, rt_thread_create, idle_reaps
<1> QED BY <1>1, <1>2, <1>3, <1>4, <1>5, <1>6

(* A command does not touch the objects.                                    *)
LEMMA WalkLeaves == Walks => UNCHANGED <<active, type, object_list, pool, used, making>>
BY DEF Walks, list_thread, list_sem, list_event, list_mutex, list_mailbox, list_msgqueue,
       list_mempool, list_timer, begins, list_get_next, RunsOnItself, GoesAstray, CutShort, ShowsRow,
       BatchDone

LEMMA ObjectsKept ==
  ASSUME ObjectInv, UNCHANGED <<active, type, object_list, pool, used, making>>
  PROVE  ObjectInv'
BY DEF ObjectInv, ObjectTypes, OneMaker, Staged, InHand, Doing, TypeMeansListed, ListMeansType,
       Disjoint, Seconds, NoBlockLost, Listed, Busy, In

LEMMA ObjectStable == ObjectInv /\ [ObjectNext]_object_vars => ObjectInv'
<1> SUFFICES ASSUME ObjectInv, [ObjectNext]_object_vars PROVE ObjectInv'
  OBVIOUS
<1>1. CASE UNCHANGED object_vars
  BY <1>1, ObjectsKept DEF object_vars
<1>2. CASE Walks
  BY <1>2, WalkLeaves, ObjectsKept
<1>3. CASE \E m \in Makers : Makes(m)
  BY <1>3, MakerStep
<1> QED BY <1>1, <1>2, <1>3 DEF ObjectNext

(* Whatever is created and deleted, by however many threads: a node has a   *)
(* type only while it is in the list of that type or about to enter it, no  *)
(* block of memory is lost or given twice, and no object is in two lists.   *)
THEOREM ObjectsAreSound == ObjectSpec => []ObjectsSound
<1>1. ObjectInv => ObjectsSound
  <2> SUFFICES ASSUME ObjectInv PROVE ObjectsSound
    OBVIOUS
  <2>1. \A n \in Blocks : Listed(n) => n \in used
    BY BlockByBlock DEF ObjectInv
  <2>2. \A n \in Blocks : Listed(n) => \A o \in Nodes : pool[o] # n
    BY ObjectAssumption DEF ObjectInv, Seconds, Nodes
  <2> QED BY <2>1, <2>2 DEF ObjectInv, ObjectsSound, ListedOnce, Disjoint
<1> QED BY ObjectInitial, ObjectStable, <1>1, PTL DEF ObjectSpec

(***************************************************************************)
(* The commands.  While one goes through a list, makers may put nodes in   *)
(* front and take nodes out; neither changes the order of those that stay. *)
(***************************************************************************)
LEMMA OwedByOrder ==
  ASSUME ObjectInv, WalkInv, WalkTypes', OwedStays',
         walk'.shown = walk.shown, walk'.batch = walk.batch, walk'.stage = walk.stage,
         walk'.current = walk.current, walk'.cls = walk.cls, walk'.owed \subseteq walk.owed,
         \A a \in Nodes : \A b \in walk'.owed :
           (In(a, walk.cls) => Precedes(object_list[walk.cls], a, b)) /\ a \in ToSet(object_list'[walk.cls])
             => Precedes(object_list'[walk.cls], a, b)
  PROVE  WalkInv'
<1>1. ASSUME NEW b \in walk'.owed
      PROVE  \/ b \in walk'.shown \/ b \in ToSet(walk'.batch)
             \/ walk'.stage # "last" /\ Ahead(b)'
  <2>1. b \in walk.owed
    OBVIOUS
  <2>2. \/ b \in walk.shown \/ b \in ToSet(walk.batch)
        \/ walk.stage # "last" /\ Ahead(b)
    BY <2>1 DEF WalkInv, OwedShown
  <2>3. walk.current \in Nodes \cup {NONE}
    BY DEF WalkInv, WalkTypes
  <2> QED BY <2>2, <2>3 DEF Ahead, In
<1> QED BY <1>1 DEF WalkInv, OwedShown

LEMMA WalkInitial == ObjectInit => WalkInv
<1> SUFFICES ASSUME ObjectInit PROVE WalkInv
  OBVIOUS
<1>1. walk = NoWalk
  BY DEF ObjectInit
<1>2. WalkTypes
  BY <1>1 DEF WalkTypes, NoWalk
<1> QED BY <1>1, <1>2 DEF WalkInv, OwedStays, OwedShown, NoWalk

(* The lists do not move, and no listed object changes its type.            *)
LEMMA WalkStill ==
  ASSUME ObjectInv, WalkInv, UNCHANGED <<walk, object_list>>,
         \A n \in Nodes : Listed(n) => type'[n] = type[n]
  PROVE  WalkInv'
<1>1. WalkTypes'
  BY DEF WalkInv, WalkTypes
<1>2. OwedStays'
  <2> SUFFICES ASSUME NEW n \in walk.owed PROVE type'[n] = walk.cls /\ In(n, walk.cls)
    BY DEF OwedStays, In
  <2>1. type[n] = walk.cls /\ In(n, walk.cls) /\ n \in Nodes
    BY DEF WalkInv, WalkTypes, OwedStays
  <2>2. walk.cls \in ObjectClasses
    BY DEF WalkInv, WalkTypes
  <2> QED BY <2>1, <2>2 DEF Listed, In
<1> QED BY <1>1, <1>2, OwedByOrder DEF In

LEMMA WalkInserted ==
  ASSUME ObjectInv, WalkInv, NEW m \in Makers, Inserted(m)
  PROVE  WalkInv'
<1> DEFINE n == making[m].node
           c == making[m].cls
<1>1. Doing(m, "typed") /\ ~Doing(m, "idle") /\ InHand(m)
  BY DEF Inserted, Doing, ObjectInv, Staged
<1>2. n \in Nodes /\ c \in ObjectClasses /\ ~Listed(n)
  BY <1>1, AtWork DEF InHand
<1>3. UNCHANGED <<walk, type>> /\ object_list' = [object_list EXCEPT ![c] = <<n>> \o @]
  BY DEF Inserted
<1> HIDE DEF n, c
<1>4. object_list'[c] = <<n>> \o object_list[c] /\ object_list[c] \in Seq(Nodes)
      /\ n \notin ToSet(object_list[c]) /\ IsInjective(object_list[c])
  BY <1>2, <1>3 DEF ObjectInv, ObjectTypes, Disjoint, Listed
<1>5. \A d \in ObjectClasses : d # c => object_list'[d] = object_list[d]
  BY <1>3 DEF ObjectInv, ObjectTypes
<1>6. /\ ToSet(object_list'[c]) = ToSet(object_list[c]) \cup {n}
      /\ \A a \in Nodes : \A b \in ToSet(object_list[c]) :
           (a \in ToSet(object_list[c]) => Precedes(object_list[c], a, b)) =>
             Precedes(object_list'[c], a, b) \/ a \notin ToSet(object_list'[c])
  BY <1>2, <1>4, InFront
<1>7. CASE walk.owed = {}
  <2>1. WalkTypes' /\ OwedStays'
    BY <1>3, <1>7 DEF WalkInv, WalkTypes, OwedStays
  <2> QED BY <1>3, <1>7, <2>1 DEF WalkInv, OwedShown
<1>8. CASE walk.owed # {}
  <2>1. walk.cls \in ObjectClasses
    BY <1>8 DEF WalkInv, WalkTypes
  <2>2. \A b \in walk.owed : type[b] = walk.cls /\ b \in ToSet(object_list[walk.cls])
    BY DEF WalkInv, OwedStays, In
  <2>3. ToSet(object_list[walk.cls]) \subseteq ToSet(object_list'[walk.cls])
    BY <1>5, <1>6, <2>1
  <2>4. WalkTypes' /\ OwedStays'
    BY <1>3, <2>2, <2>3 DEF WalkInv, WalkTypes, OwedStays, In
  <2>5. ASSUME NEW a \in Nodes, NEW b \in walk'.owed,
               In(a, walk.cls) => Precedes(object_list[walk.cls], a, b),
               a \in ToSet(object_list'[walk.cls])
        PROVE  Precedes(object_list'[walk.cls], a, b)
    <3>1. b \in ToSet(object_list[walk.cls])
      BY <1>3, <2>2
    <3>2. CASE walk.cls = c
      BY <1>6, <2>5, <3>1, <3>2 DEF In
    <3>3. CASE walk.cls # c
      BY <1>5, <2>1, <2>5, <3>3 DEF In
    <3> QED BY <3>2, <3>3
  <2> QED BY <1>3, <2>4, <2>5, OwedByOrder
<1> QED BY <1>7, <1>8

LEMMA WalkUnlinked ==
  ASSUME ObjectInv, WalkInv, NEW m \in Makers, Unlink(m)
  PROVE  WalkInv'
<1> DEFINE n == making[m].node
<1>1. Doing(m, "unlink") /\ ~Doing(m, "idle") /\ InHand(m)
  BY DEF Unlink, Doing, ObjectInv, Staged
<1>2. type[n] = NONE
  BY <1>1 DEF InHand
<1>3. UNCHANGED <<walk, type>> /\ object_list' = without(n)
  BY DEF Unlink, unlink
<1> HIDE DEF n
<1>4. CASE walk.owed = {}
  <2>1. WalkTypes' /\ OwedStays'
    BY <1>3, <1>4 DEF WalkInv, WalkTypes, OwedStays
  <2> QED BY <1>3, <1>4, <2>1 DEF WalkInv, OwedShown
<1>5. CASE walk.owed # {}
  <2>1. walk.cls \in ObjectClasses
    BY <1>5 DEF WalkInv, WalkTypes
  <2>2. \A b \in walk.owed : /\ type[b] = walk.cls /\ b \in ToSet(object_list[walk.cls])
                             /\ b # n
    BY <1>2, <2>1, ObjectAssumption DEF WalkInv, OwedStays, In
  <2>3. /\ ToSet(object_list'[walk.cls]) = ToSet(object_list[walk.cls]) \ {n}
        /\ \A a, b \in ToSet(object_list[walk.cls]) :
             Precedes(object_list[walk.cls], a, b) /\ a # n /\ b # n =>
               Precedes(object_list'[walk.cls], a, b)
    BY <1>3, <2>1, WithoutNode
  <2>4. WalkTypes' /\ OwedStays'
    BY <1>3, <2>2, <2>3 DEF WalkInv, WalkTypes, OwedStays, In
  <2>5. ASSUME NEW a \in Nodes, NEW b \in walk'.owed,
               In(a, walk.cls) => Precedes(object_list[walk.cls], a, b),
               a \in ToSet(object_list'[walk.cls])
        PROVE  Precedes(object_list'[walk.cls], a, b)
    BY <1>3, <2>2, <2>3, <2>5 DEF In
  <2> QED BY <1>3, <2>4, <2>5, OwedByOrder
<1> QED BY <1>4, <1>5

(* An object that loses its type is no longer owed.                         *)
LEMMA WalkUntyped ==
  ASSUME ObjectInv, WalkInv, NEW m \in Makers, Untype(m)
  PROVE  WalkInv'
<1> DEFINE n == making[m].node
<1>1. /\ type' = [type EXCEPT ![n] = NONE] /\ UNCHANGED object_list
      /\ walk' = [walk EXCEPT !.owed = @ \ {n}]
  BY DEF Untype, untype
<1> HIDE DEF n
<1>2. /\ walk'.owed = walk.owed \ {n} /\ walk'.stage = walk.stage /\ walk'.cls = walk.cls
      /\ walk'.current = walk.current /\ walk'.batch = walk.batch /\ walk'.shown = walk.shown
  BY <1>1 DEF WalkInv, WalkTypes
<1>3. WalkTypes'
  BY <1>1 DEF WalkInv, WalkTypes
<1>4. OwedStays'
  BY <1>1, <1>2 DEF WalkInv, WalkTypes, OwedStays, In, ObjectInv, ObjectTypes
<1> QED BY <1>1, <1>2, <1>3, <1>4, OwedByOrder DEF In

LEMMA WalkMakers ==
  ASSUME ObjectInv, WalkInv, NEW m \in Makers, Makes(m)
  PROVE  WalkInv'
<1>1. ASSUME NEW c \in ObjectClasses, rt_object_allocate(m, c) PROVE WalkInv'
  <2>1. PICK n \in Room : type' = [type EXCEPT ![n] = c]
    BY <1>1 DEF rt_object_allocate
  <2>2. \A o \in Nodes : Listed(o) => type'[o] = type[o]
    BY <2>1, FreeBlock DEF ObjectInv, ObjectTypes
  <2> QED BY <1>1, <2>2, WalkStill DEF rt_object_allocate
<1>2. ASSUME NEW c \in ObjectClasses, rt_object_init(m, c) PROVE WalkInv'
  <2>1. PICK n \in active.statics \ Busy : ~Listed(n) /\ type' = [type EXCEPT ![n] = c]
    BY <1>2 DEF rt_object_init
  <2>2. \A o \in Nodes : Listed(o) => type'[o] = type[o]
    BY <2>1 DEF ObjectInv, ObjectTypes
  <2> QED BY <1>2, <2>2, WalkStill DEF rt_object_init
<1>3. ASSUME NEW c \in ObjectClasses, deletes(m, c) \/ rt_object_detach(m, c) PROVE WalkInv'
  BY <1>3, WalkStill DEF deletes, rt_object_detach
<1>4. ASSUME SecondBlock(m) \/ Free(m) PROVE WalkInv'
  BY <1>4, WalkStill DEF SecondBlock, Free
<1>5. ASSUME Inserted(m) \/ Untype(m) \/ Unlink(m) PROVE WalkInv'
  BY <1>5, WalkInserted, WalkUntyped, WalkUnlinked
<1>6. \/ \E c \in ObjectClasses : rt_object_allocate(m, c)
      \/ \E c \in ObjectClasses : rt_object_init(m, c)
      \/ \E c \in ObjectClasses : deletes(m, c) \/ rt_object_detach(m, c)
      \/ Inserted(m) \/ Untype(m) \/ Unlink(m) \/ SecondBlock(m) \/ Free(m)
  BY DEF Makes, ObjectClasses, rt_sem_create, rt_sem_delete, rt_mutex_create, rt_mutex_delete,
         rt_event_create, rt_event_delete, rt_mb_create, rt_mb_delete, rt_mq_create, rt_mq_delete,
         rt_mp_create, rt_mp_delete, rt_timer_create, rt_timer_delete, rt_thread_create, idle_reaps,
         rt_object_delete
<1> QED BY <1>1, <1>2, <1>3, <1>4, <1>5, <1>6

(* A command begins: what it owes is ahead of it.                           *)
LEMMA WalkBegins ==
  ASSUME ObjectInv, WalkInv, NEW c \in ObjectClasses, begins(c)
  PROVE  WalkInv'
<1>1. /\ walk'.stage = "next" /\ walk'.cls = c /\ walk'.current = NONE /\ walk'.batch = <<>>
      /\ walk'.owed = {n \in ToSet(object_list[c]) : type[n] = c} /\ UNCHANGED <<type, object_list>>
  BY DEF begins, NoWalk
<1>2. object_list[c] \in Seq(Nodes)
  BY DEF ObjectInv, ObjectTypes
<1>3. walk'.owed \subseteq Nodes
  BY <1>1, <1>2, Positions
<1>4. WalkTypes'
  <2>1. walk' = [stage |-> "next", cls |-> c, current |-> NONE, batch |-> <<>>, shown |-> {},
                 owed |-> {n \in ToSet(object_list[c]) : type[n] = c}]
    BY DEF begins, NoWalk
  <2> QED BY <1>1, <1>3, <2>1, ObjectAssumption DEF WalkTypes
<1>5. OwedStays'
  BY <1>1 DEF OwedStays, In
<1>6. OwedShown'
  BY <1>1 DEF OwedShown, Ahead
<1> QED BY <1>4, <1>5, <1>6 DEF WalkInv

(* Where the walk goes on: behind the node it stands at, or at the head.    *)
LEMMA RestOfList ==
  ASSUME ObjectInv, walk.cls \in ObjectClasses, walk.current \in Nodes \cup {NONE},
         walk.current # NONE => In(walk.current, walk.cls)
  PROVE  LET l == object_list[walk.cls]
             rest == rest_of_list(walk.current)
         IN \E k \in 0 .. Len(l) :
              /\ rest \in Seq(Nodes) /\ Len(rest) = Len(l) - k
              /\ \A i \in 1 .. Len(rest) : rest[i] = l[k + i]
              /\ IF walk.current = NONE THEN k = 0 ELSE k \in DOMAIN l /\ l[k] = walk.current
<1> DEFINE l == object_list[walk.cls]
           n == walk.current
<1>1. l \in Seq(Nodes)
  BY DEF ObjectInv, ObjectTypes
<1>2. rest_of_list(n) =
        IF n = NONE THEN l ELSE Tail(SubSeq(l, CHOOSE i \in DOMAIN l : l[i] = n, Len(l)))
  BY DEF rest_of_list, Behind
<1>3. n # NONE => \E i \in DOMAIN l : l[i] = n
  BY DEF In, ToSet
<1> HIDE DEF l, n
<1>4. CASE n = NONE
  BY <1>1, <1>2, <1>4 DEF l, n
<1>5. CASE n # NONE
  <2> DEFINE k == CHOOSE i \in DOMAIN l : l[i] = n
             q == SubSeq(l, k, Len(l))
  <2>1. k \in DOMAIN l /\ l[k] = n
    BY <1>3, <1>5
  <2> HIDE DEF k
  <2>2. k \in 1 .. Len(l) /\ Len(l) \in Nat
    BY <1>1, <2>1
  <2>3. q \in Seq(Nodes) /\ Len(q) = Len(l) - k + 1 /\ \A i \in 1 .. Len(q) : q[i] = l[k + i - 1]
    BY <1>1, <2>2
  <2>4. rest_of_list(n) = Tail(q)
    BY <1>2, <1>5 DEF k
  <2> HIDE DEF q
  <2>5. /\ Tail(q) \in Seq(Nodes) /\ Len(Tail(q)) = Len(l) - k
        /\ \A i \in 1 .. Len(Tail(q)) : Tail(q)[i] = q[i + 1] /\ i + 1 \in 1 .. Len(q)
    BY <2>2, <2>3
  <2>6. \A i \in 1 .. Len(Tail(q)) : Tail(q)[i] = l[k + i]
    BY <2>2, <2>3, <2>5
  <2>7. k \in 0 .. Len(l)
    BY <2>2
  <2> QED BY <1>5, <2>1, <2>4, <2>5, <2>6, <2>7 DEF l, n
<1> QED BY <1>4, <1>5

LEMMA WalkGoesOn ==
  ASSUME ObjectInv, WalkInv, list_get_next
  PROVE  WalkInv'
<1> DEFINE l == object_list[walk.cls]
           n == walk.current
           rest == rest_of_list(n)
           nr == IF Len(rest) < LIST_FIND_OBJ_NR THEN Len(rest) ELSE LIST_FIND_OBJ_NR
<1>1. /\ walk.stage = "next" /\ walk.cls \in ObjectClasses /\ walk.batch = <<>>
      /\ n \in Nodes \cup {NONE}
  BY DEF list_get_next, WalkInv, WalkTypes
<1>2. n # NONE => In(n, walk.cls)
  <2> SUFFICES ASSUME n # NONE PROVE In(n, walk.cls)
    OBVIOUS
  <2>1. type[n] = walk.cls /\ \E c \in ObjectClasses : In(n, c)
    BY DEF list_get_next, Listed, In
  <2>2. PICK c \in ObjectClasses : In(n, c)
    BY <2>1
  <2>3. ~ \E m \in Makers : making[m].node = n /\ Doing(m, "unlink")
    BY <1>1, <2>1, ObjectAssumption DEF ObjectInv, Staged, InHand
  <2>4. type[n] = c
    BY <1>1, <2>2, <2>3 DEF ObjectInv, ListMeansType
  <2> QED BY <2>1, <2>2, <2>4
<1>3. l \in Seq(Nodes) /\ IsInjective(l)
  BY <1>1 DEF ObjectInv, ObjectTypes, Disjoint
<1>4. PICK k \in 0 .. Len(l) :
        /\ rest \in Seq(Nodes) /\ Len(rest) = Len(l) - k
        /\ \A i \in 1 .. Len(rest) : rest[i] = l[k + i]
        /\ IF n = NONE THEN k = 0 ELSE k \in DOMAIN l /\ l[k] = n
  BY <1>1, <1>2, RestOfList
<1>5. /\ walk' = [walk EXCEPT !.batch = SubSeq(rest, 1, nr),
                              !.current = IF nr < LIST_FIND_OBJ_NR THEN NONE ELSE rest[nr],
                              !.stage = IF nr < LIST_FIND_OBJ_NR THEN "last" ELSE "show"]
      /\ UNCHANGED <<type, object_list>>
  BY DEF list_get_next
<1> HIDE DEF rest
<1>6. /\ nr \in Nat /\ nr <= Len(rest) /\ (nr < LIST_FIND_OBJ_NR => nr = Len(rest))
      /\ (~(nr < LIST_FIND_OBJ_NR) => nr \in 1 .. Len(rest))
  BY <1>4, ObjectAssumption
<1> HIDE DEF nr
<1>7. SubSeq(rest, 1, nr) \in Seq(Nodes) /\ \A i \in 1 .. nr : rest[i] \in ToSet(SubSeq(rest, 1, nr))
  <2>1. /\ SubSeq(rest, 1, nr) \in Seq(Nodes) /\ Len(SubSeq(rest, 1, nr)) = nr
        /\ \A i \in 1 .. nr : SubSeq(rest, 1, nr)[i] = rest[i]
    BY <1>4, <1>6
  <2> QED BY <2>1 DEF ToSet
<1>8. /\ walk'.shown = walk.shown /\ walk'.owed = walk.owed /\ walk'.cls = walk.cls
      /\ walk'.batch = SubSeq(rest, 1, nr)
      /\ walk'.current = IF nr < LIST_FIND_OBJ_NR THEN NONE ELSE rest[nr]
      /\ walk'.stage = IF nr < LIST_FIND_OBJ_NR THEN "last" ELSE "show"
  BY <1>5 DEF WalkInv, WalkTypes
<1>9. WalkTypes'
  <2>1. IF nr < LIST_FIND_OBJ_NR THEN TRUE ELSE rest[nr] \in Nodes
    BY <1>4, <1>6
  <2>2. walk'.current \in Nodes \cup {NONE} /\ walk'.batch \in Seq(Nodes)
    BY <1>7, <1>8, <2>1
  <2>3. walk' \in [stage : {"idle", "next", "show", "last", "astray"}, cls : ObjectClasses \cup {NONE},
                   current : Nodes \cup {NONE}, batch : Seq(Nodes), shown : SUBSET Nodes,
                   owed : SUBSET Nodes]
    BY <1>5, <1>8, <2>2 DEF WalkInv, WalkTypes
  <2> QED BY <1>1, <1>8, <2>3, ObjectAssumption DEF WalkTypes
<1>10. OwedStays'
  BY <1>5, <1>8 DEF WalkInv, OwedStays, In
<1>11. ASSUME NEW o \in walk.owed, o \notin walk.shown
       PROVE  o \in ToSet(walk'.batch) \/ (walk'.stage # "last" /\ Ahead(o)')
  <2>1. Ahead(o)
    BY <1>1, <1>11 DEF WalkInv, OwedShown, ToSet
  <2>2. PICK j \in DOMAIN l : l[j] = o /\ j > k
    <3>1. CASE n = NONE
      <4>1. PICK j \in DOMAIN l : l[j] = o
        BY DEF WalkInv, OwedStays, In, ToSet
      <4> QED BY <1>3, <1>4, <3>1, <4>1
    <3>2. CASE n # NONE
      <4>1. PICK i \in DOMAIN l, j \in DOMAIN l : i < j /\ l[i] = n /\ l[j] = o
        BY <1>2, <2>1, <3>2 DEF Ahead, Precedes
      <4>2. i = k
        BY <1>3, <1>4, <3>2, <4>1 DEF IsInjective
      <4> QED BY <1>3, <4>1, <4>2
    <3> QED BY <3>1, <3>2
  <2>3. j - k \in 1 .. Len(rest) /\ rest[j - k] = o
    <3> HIDE DEF l
    <3>1. j \in 1 .. Len(l) /\ Len(l) \in Nat /\ j > k
      BY <1>3, <2>2
    <3>2. j - k \in 1 .. (Len(l) - k) /\ k + (j - k) = j
      BY <1>4, <3>1
    <3> QED BY <1>4, <2>2, <3>2
  <2>4. CASE j - k <= nr
    <3>1. j - k \in 1 .. nr
      BY <1>6, <2>3, <2>4
    <3> QED BY <1>7, <1>8, <2>3, <3>1
  <2>5. CASE ~(j - k <= nr)
    <3>1. ~(nr < LIST_FIND_OBJ_NR) /\ nr \in 1 .. Len(rest)
      BY <1>4, <1>6, <2>3, <2>5
    <3>2. walk'.current = rest[nr] /\ walk'.stage = "show" /\ rest[nr] = l[k + nr]
      BY <1>4, <1>8, <3>1
    <3>3. k + nr \in DOMAIN l /\ k + nr < j
      BY <1>3, <1>4, <2>2, <2>3, <2>5, <3>1
    <3>4. Precedes(l, rest[nr], o)
      BY <2>2, <3>2, <3>3 DEF Precedes
    <3> QED BY <1>5, <1>8, <3>2, <3>4 DEF Ahead
  <2> QED BY <2>4, <2>5
<1>12. OwedShown'
  BY <1>8, <1>11 DEF OwedShown
<1> QED BY <1>9, <1>10, <1>12 DEF WalkInv

LEMMA WalkCircles ==
  ASSUME ObjectInv, WalkInv, RunsOnItself
  PROVE  WalkInv'
<1> DEFINE b == [i \in 1 .. LIST_FIND_OBJ_NR |-> walk.current]
<1>1. /\ walk.stage = "next" /\ walk.current \in Nodes /\ walk.batch = <<>>
      /\ UNCHANGED <<type, object_list>> /\ walk' = [walk EXCEPT !.batch = b, !.stage = "show"]
  BY DEF RunsOnItself, WalkInv, WalkTypes, Nodes
<1>2. b \in Seq(Nodes)
  BY <1>1, ObjectAssumption
<1> HIDE DEF b
<1>3. /\ walk'.stage = "show" /\ walk'.cls = walk.cls /\ walk'.current = walk.current
      /\ walk'.owed = walk.owed /\ walk'.batch = b /\ walk'.shown = walk.shown
  BY <1>1 DEF WalkInv, WalkTypes
<1>4. WalkTypes'
  BY <1>1, <1>2, <1>3 DEF WalkInv, WalkTypes
<1>5. \A o : Ahead(o) => Ahead(o)'
  BY <1>1, <1>3 DEF Ahead, In
<1>6. OwedShown'
  BY <1>1, <1>3, <1>5 DEF WalkInv, OwedShown, ToSet
<1> QED BY <1>1, <1>3, <1>4, <1>6 DEF WalkInv, OwedStays, In

LEMMA WalkStrays ==
  ASSUME ObjectInv, WalkInv, GoesAstray
  PROVE  WalkInv'
<1>1. /\ walk.stage = "next" /\ walk' = [walk EXCEPT !.stage = "astray"]
      /\ UNCHANGED <<type, object_list>>
  BY DEF GoesAstray
<1>2. /\ walk'.stage = "astray" /\ walk'.cls = walk.cls /\ walk'.current = walk.current
      /\ walk'.owed = walk.owed /\ walk'.batch = walk.batch /\ walk'.shown = walk.shown
  BY <1>1 DEF WalkInv, WalkTypes
<1>3. WalkTypes'
  BY <1>1, <1>2 DEF WalkInv, WalkTypes
<1>4. \A o : Ahead(o) => Ahead(o)'
  BY <1>1, <1>2 DEF Ahead, In
<1> QED BY <1>1, <1>2, <1>3, <1>4 DEF WalkInv, OwedStays, OwedShown, In

LEMMA WalkShows ==
  ASSUME ObjectInv, WalkInv, ShowsRow
  PROVE  WalkInv'
<1> DEFINE n == Head(walk.batch)
<1>1. /\ walk.batch # <<>> /\ walk.batch \in Seq(Nodes) /\ UNCHANGED <<type, object_list>>
      /\ walk.stage \in {"show", "last"}
  BY DEF ShowsRow, WalkInv, WalkTypes
<1>2. walk' = [walk EXCEPT !.batch = Tail(@),
                 !.shown = IF type[n] = walk.cls THEN @ \cup {n} ELSE @]
  BY DEF ShowsRow
<1>3. n \in Nodes /\ Tail(walk.batch) \in Seq(Nodes)
  BY <1>1
<1>4. ToSet(walk.batch) \subseteq ToSet(Tail(walk.batch)) \cup {n}
  <2> SUFFICES ASSUME NEW x \in ToSet(walk.batch), x # n PROVE x \in ToSet(Tail(walk.batch))
    OBVIOUS
  <2>1. PICK i \in DOMAIN walk.batch : walk.batch[i] = x
    BY DEF ToSet
  <2> DEFINE b == walk.batch
  <2>2. b \in Seq(Nodes) /\ b # <<>> /\ i \in 1 .. Len(b) /\ b[i] = x /\ n = b[1]
    BY <1>1, <2>1
  <2> HIDE DEF b, n
  <2>3. Len(Tail(b)) = Len(b) - 1 /\ \A j \in 1 .. (Len(b) - 1) : Tail(b)[j] = b[j + 1]
    BY <2>2
  <2>4. i # 1
    BY <2>2
  <2>5. i - 1 \in 1 .. (Len(b) - 1) /\ (i - 1) + 1 = i
    BY <2>2, <2>4
  <2>6. Tail(b) \in Seq(Nodes)
    BY <2>2
  <2>7. i - 1 \in DOMAIN Tail(b) /\ Tail(b)[i - 1] = x
    BY <2>2, <2>3, <2>5, <2>6
  <2> QED BY <2>7 DEF ToSet, b
<1> HIDE DEF n
<1>5. /\ walk'.stage = walk.stage /\ walk'.cls = walk.cls /\ walk'.current = walk.current
      /\ walk'.owed = walk.owed /\ walk'.batch = Tail(walk.batch)
      /\ walk'.shown = IF type[n] = walk.cls THEN walk.shown \cup {n} ELSE walk.shown
  BY <1>2 DEF WalkInv, WalkTypes
<1>6. WalkTypes'
  BY <1>1, <1>2, <1>3, <1>5 DEF WalkInv, WalkTypes
<1>7. OwedStays'
  BY <1>1, <1>5 DEF WalkInv, OwedStays, In
<1>8. \A o \in walk.owed : type[o] = walk.cls
  BY DEF WalkInv, OwedStays
<1>9. \A o : Ahead(o) => Ahead(o)'
  BY <1>1, <1>5 DEF Ahead, In
<1>10. OwedShown'
  BY <1>4, <1>5, <1>8, <1>9 DEF WalkInv, OwedShown
<1> QED BY <1>6, <1>7, <1>10 DEF WalkInv

(* The command is over, or asks for its next batch.                         *)
LEMMA WalkTurns ==
  ASSUME ObjectInv, WalkInv, CutShort \/ BatchDone
  PROVE  WalkInv'
<1>1. CASE walk' = NoWalk
  BY <1>1, ObjectAssumption DEF WalkInv, WalkTypes, OwedStays, OwedShown, NoWalk
<1>2. CASE walk' # NoWalk
  <2>1. /\ walk.stage = "show" /\ walk.batch = <<>> /\ walk' = [walk EXCEPT !.stage = "next"]
        /\ UNCHANGED <<type, object_list>>
    BY <1>2 DEF CutShort, BatchDone
  <2>2. /\ walk'.stage = "next" /\ walk'.cls = walk.cls /\ walk'.current = walk.current
        /\ walk'.owed = walk.owed /\ walk'.batch = walk.batch /\ walk'.shown = walk.shown
    BY <2>1 DEF WalkInv, WalkTypes
  <2>3. WalkTypes'
    BY <2>1, <2>2 DEF WalkInv, WalkTypes
  <2>4. \A o : Ahead(o) => Ahead(o)'
    BY <2>1, <2>2 DEF Ahead, In
  <2> QED BY <2>1, <2>2, <2>3, <2>4 DEF WalkInv, OwedStays, OwedShown, In
<1> QED BY <1>1, <1>2

LEMMA WalkStable == ObjectInv /\ WalkInv /\ [ObjectNext]_object_vars => WalkInv'
<1> SUFFICES ASSUME ObjectInv, WalkInv, [ObjectNext]_object_vars PROVE WalkInv'
  OBVIOUS
<1>1. CASE UNCHANGED object_vars
  BY <1>1, WalkStill DEF object_vars
<1>2. CASE Walks
  <2>1. \/ \E c \in ObjectClasses : begins(c)
        \/ list_get_next \/ RunsOnItself \/ GoesAstray \/ ShowsRow \/ CutShort \/ BatchDone
    BY <1>2 DEF Walks, ObjectClasses, list_thread, list_sem, list_event, list_mutex,
                list_mailbox, list_msgqueue, list_mempool, list_timer
  <2> QED BY <2>1, WalkBegins, WalkGoesOn, WalkCircles, WalkStrays, WalkShows, WalkTurns
<1>3. CASE \E m \in Makers : Makes(m)
  BY <1>3, WalkMakers
<1> QED BY <1>1, <1>2, <1>3 DEF ObjectNext

LEMMA WalkWaits ==
  ASSUME WalkInv, NEW m \in Makers, Makes(m)
  PROVE  walk'.stage = walk.stage
<1>1. UNCHANGED walk \/ walk' = [walk EXCEPT !.owed = @ \ {making[m].node}]
  <2>1. \/ \E c \in ObjectClasses : rt_object_allocate(m, c)
        \/ \E c \in ObjectClasses : rt_object_init(m, c)
        \/ \E c \in ObjectClasses : deletes(m, c) \/ rt_object_detach(m, c)
        \/ Inserted(m) \/ Untype(m) \/ Unlink(m) \/ SecondBlock(m) \/ Free(m)
    BY DEF Makes, ObjectClasses, rt_sem_create, rt_sem_delete, rt_mutex_create, rt_mutex_delete,
           rt_event_create, rt_event_delete, rt_mb_create, rt_mb_delete, rt_mq_create, rt_mq_delete,
           rt_mp_create, rt_mp_delete, rt_timer_create, rt_timer_delete, rt_thread_create,
           idle_reaps, rt_object_delete
  <2> QED BY <2>1 DEF rt_object_allocate, rt_object_init, deletes, rt_object_detach, Inserted,
                      Untype, Unlink, SecondBlock, Free
<1> QED BY <1>1 DEF WalkInv, WalkTypes

(* The step that ends a command, having got to the end of the list.         *)
LEMMA LastStepShows ==
  ASSUME ObjectInv, WalkInv, ObjectNext, walk.stage = "last", walk' = NoWalk
  PROVE  walk.owed \subseteq walk.shown
<1>1. walk'.stage = "idle"
  BY DEF NoWalk
<1>2. ~ \E m \in Makers : Makes(m)
  BY <1>1, WalkWaits
<1>3. Walks
  BY <1>2 DEF ObjectNext
<1>4. ~ShowsRow
  BY <1>1 DEF ShowsRow, WalkInv, WalkTypes
<1>5. BatchDone
  BY <1>3, <1>4 DEF Walks, list_thread, list_sem, list_event, list_mutex, list_mailbox,
         list_msgqueue, list_mempool, list_timer, begins, list_get_next, RunsOnItself, GoesAstray,
         CutShort, NoWalk
<1>6. walk.batch = <<>>
  BY <1>5 DEF BatchDone
<1> QED BY <1>6 DEF WalkInv, OwedShown, ToSet

(* A command that reaches the end of its list has shown every object that   *)
(* was there all along, for any length of list and of batch.  (It does not  *)
(* reach the end if the node it stands at is deleted: it is cut short, or   *)
(* goes astray where the node's memory has become another object.)          *)
THEOREM EverythingIsShown == ObjectSpec => ShowsAllThatStay
<1> DEFINE Shows == walk.stage = "last" /\ walk' = NoWalk => walk.owed \subseteq walk.shown
<1>1. ObjectInv /\ WalkInv /\ [ObjectNext]_object_vars => [Shows]_object_vars
  <2> SUFFICES ASSUME ObjectInv, WalkInv, ObjectNext PROVE Shows
    OBVIOUS
  <2> QED BY LastStepShows
<1>2. ObjectSpec => [](ObjectInv /\ WalkInv)
  BY ObjectInitial, ObjectStable, WalkInitial, WalkStable, PTL DEF ObjectSpec
<1> QED BY <1>1, <1>2, PTL DEF ObjectSpec, ShowsAllThatStay

-----------------------------------------------------------------------------
(***************************************************************************)
(* Timers.                                                                 *)
(***************************************************************************)
Limit == RT_TICK_MAX \div 2
Lists == {"hard", "soft"}
Ticks == 0 .. RT_TICK_MAX
TimerStages == {"idle", "insert", "resume", "remove", "clear"}
ThreadStages == {"entry", "suspend", "suspended", "delay", "asleep", "check", "walk",
                 "function", "over", "restart"}

(***************************************************************************)
(* The invariant.  A tick is told by its distance from the earliest one    *)
(* that may matter, MaxLate + 1 ticks ago: no wrap comes in between.       *)
(***************************************************************************)
Until(x, now) == minus(x + MaxLate + 1, now)
OnTime(x, now) == Until(x, now) \in 1 .. Limit - 1

InList(z, t) == t \in ToSet(bottom(z, Kind(t)))
ListsTyped(z) ==
  /\ z = [tm |-> z.tm, row |-> z.row, nr |-> z.nr]
  /\ z.tm \in [Timers -> [active : BOOLEAN, timeout : Ticks, periodic : BOOLEAN, init : Delays]]
  /\ z.row \in [Lists -> [Level -> Seq(Timers)]]
RowsAgree(z) ==
  \A l \in Lists :
    /\ \A j \in Level : LET r == z.row[l][j] IN
         IsInjective(r) /\ ToSet(r) \subseteq ToSet(bottom(z, l)) /\ \A t \in ToSet(r) : Kind(t) = l
    /\ \A j \in Level \ {LastRow} : LET up == z.row[l][j]
                                      down == z.row[l][j + 1] IN
         /\ ToSet(up) \subseteq ToSet(down)
         /\ \A t, u \in ToSet(up) : Precedes(up, t, u) => Precedes(down, t, u)
InOrder(z, now) ==
  \A l \in Lists : \A j \in Level : \A t, u \in ToSet(z.row[l][j]) :
    Precedes(z.row[l][j], t, u) =>
      Until(z.tm[t].timeout, now) <= Until(z.tm[u].timeout, now)
InWindow(z, now, first) ==
  /\ \A t \in ToSet(bottom(z, "hard")) : Until(z.tm[t].timeout, now) \in first .. Limit - 1
  /\ \A t \in ToSet(bottom(z, "soft")) : OnTime(z.tm[t].timeout, now)
ListsSound(z, now, first) ==
  ListsTyped(z) /\ RowsAgree(z) /\ InOrder(z, now) /\ InWindow(z, now, first)
First == IF isr = "check" THEN 0 ELSE 1

TimerTypes ==
  /\ program \in Programs /\ tick \in Ticks /\ isr \in {"off", "check"}
  /\ tcall \in [Clients -> [stage : TimerStages, t : Timers \cup {NONE}]]
  /\ tt \in [pc : ThreadStages, n : Soft \cup {NONE}, t : Soft \cup {NONE},
             next : Ticks, cur : Ticks]

(* Flags and lists.                                                        *)
FlagsTell ==
  \A t \in Timers :
    /\ InList(s, t) => s.tm[t].active
    /\ s.tm[t].active /\ ~InList(s, t) =>
         tt.t = t \/ \E c \in Clients : tcall[c] = [stage |-> "clear", t |-> t]
    /\ t \notin Soft /\ program.func[t].op = "start" /\ program.func[t].on = t => s.tm[t].periodic

(* The calls of the threads.                                               *)
CallSound(c) ==
  LET t == tcall[c].t
      At(stage) == tcall[c].stage = stage
  IN  /\ At("idle") <=> t = NONE
      /\ t # NONE => t \in program.owned
      /\ At("insert") => ~s.tm[t].active /\ OnTime(s.tm[t].timeout, tick)
                         /\ (tt.t = t => s.tm[t].periodic)
      /\ At("resume") => t \in Soft
      /\ At("clear") => ~InList(s, t) /\ tt.t # t
CallsSound ==
  /\ \A c \in Clients : CallSound(c)
  /\ \A c, d \in Clients : tcall[c].t = tcall[d].t /\ tcall[c].t # NONE => c = d

(* The timer thread.                                                       *)
InCheck == {"walk", "function", "over", "restart"}
FunctionSound ==
  /\ tt.t # NONE <=> tt.pc \in {"function", "over", "restart"}
  /\ tt.t # NONE => (InList(s, tt.t) => s.tm[tt.t].periodic)
  /\ tt.pc = "restart" =>
       /\ ~s.tm[tt.t].active /\ OnTime(s.tm[tt.t].timeout, tick)
       /\ \A c \in Clients : tcall[c].stage = "insert" => tcall[c].t # tt.t
NoteSound ==
  tt.n # NONE =>
    /\ tt.pc \in InCheck /\ tt.n # tt.t /\ InList(s, tt.n)
    /\ tt.pc # "function" =>
         minus(tick, tt.cur) + Until(s.tm[tt.n].timeout, tick) <= Limit - 1
SleepSound ==
  /\ tt.pc = "suspend" => next_timeout = RT_TICK_MAX
  /\ tt.pc = "delay" => bottom(s, "soft") # <<>> /\ tt.next = next_timeout
  /\ tt.pc = "asleep" =>
       /\ Until(tt.next, tick) \in MaxLate + 1 .. Limit - 1
       /\ (\A c \in Clients : tcall[c].stage # "resume") =>
            \A t \in ToSet(bottom(s, "soft")) :
              Until(tt.next, tick) <= Until(s.tm[t].timeout, tick)
ThreadSound == FunctionSound /\ NoteSound /\ SleepSound

TimerInv ==
  TimerTypes /\ ListsSound(s, tick, First) /\ FlagsTell /\ CallsSound /\ ThreadSound

-----------------------------------------------------------------------------
(***************************************************************************)
(* Ticks that wrap.                                                        *)
(***************************************************************************)
LEMMA Sizes ==
  /\ TickMod \in Nat /\ TickMod > 3 /\ RT_TICK_MAX = TickMod - 1 /\ MaxLate \in Nat
  /\ Limit \in Nat /\ 2 * Limit <= TickMod - 1 /\ TickMod - 2 <= 2 * Limit
  /\ MaxLate + 1 < Limit /\ (\A d \in Delays : d \in Nat /\ d + MaxLate + 1 < Limit)
  /\ Ticks = 0 .. TickMod - 1 /\ RT_TICK_MAX \in Ticks
<1>1. /\ TickMod \in Nat /\ TickMod > 3 /\ RT_TICK_MAX = TickMod - 1 /\ MaxLate \in Nat
  BY TimerAssumption DEF RT_TICK_MAX
<1>2. Limit \in Nat /\ 2 * Limit <= TickMod - 1 /\ TickMod - 2 <= 2 * Limit
  BY <1>1 DEF Limit
<1>3. \A d \in Delays : d \in Nat /\ d + MaxLate + 1 < Limit
  BY TimerAssumption DEF Limit
<1>4. PICK d \in Delays : TRUE
  BY TimerAssumption
<1>5. MaxLate + 1 < Limit
  BY <1>1, <1>2, <1>3, <1>4
<1> QED BY <1>1, <1>2, <1>3, <1>5 DEF Ticks

LEMMA WrapsTo ==
  ASSUME NEW v \in Nat
  PROVE  /\ v < TickMod => v % TickMod = v
         /\ v >= TickMod /\ v < 2 * TickMod => v % TickMod = v - TickMod
         /\ v >= 2 * TickMod /\ v < 3 * TickMod => v % TickMod = v - 2 * TickMod
<1>1. TickMod \in Nat /\ TickMod > 0
  BY Sizes
<1> QED BY <1>1

LEMMA UntilValue ==
  ASSUME NEW x \in Ticks, NEW now \in Ticks
  PROVE  LET v == x + MaxLate + 1 - now
         IN  /\ Until(x, now) \in Ticks
             /\ Until(x, now) = IF v < 0 THEN v + TickMod
                               ELSE IF v < TickMod THEN v ELSE v - TickMod
<1> DEFINE v == x + MaxLate + 1 - now
           w == x + MaxLate + 1 + TickMod - now
<1>1. w = v + TickMod /\ w \in Nat /\ w < 3 * TickMod /\ v \in Int /\ TickMod \in Nat
      /\ v < 2 * TickMod /\ v > 0 - TickMod /\ TickMod > 3
  BY Sizes
<1>2. Until(x, now) = w % TickMod
  BY DEF Until, minus
<1>3. /\ w < TickMod => w % TickMod = w
      /\ w >= TickMod /\ w < 2 * TickMod => w % TickMod = w - TickMod
      /\ w >= 2 * TickMod /\ w < 3 * TickMod => w % TickMod = w - 2 * TickMod
  BY <1>1, WrapsTo
<1>4. Ticks = 0 .. TickMod - 1
  BY Sizes
<1> HIDE DEF v, w
<1>5. w % TickMod = IF v < 0 THEN v + TickMod ELSE IF v < TickMod THEN v ELSE v - TickMod
  BY <1>1, <1>3
<1>6. w % TickMod \in Ticks
  BY <1>1, <1>4, <1>5
<1> QED BY <1>2, <1>5, <1>6 DEF v

LEMMA MinusValue ==
  ASSUME NEW y \in Nat, y <= TickMod, NEW x \in Ticks
  PROVE  minus(y, x) = IF y < x THEN y - x + TickMod ELSE IF y - x < TickMod THEN y - x ELSE 0
<1> DEFINE w == y + TickMod - x
<1>1. w \in Nat /\ w <= 2 * TickMod /\ x \in Nat /\ x < TickMod /\ TickMod \in Nat /\ TickMod > 3
  BY Sizes
<1>2. minus(y, x) = w % TickMod
  BY DEF minus
<1>3. /\ w < TickMod => w % TickMod = w
      /\ w >= TickMod /\ w < 2 * TickMod => w % TickMod = w - TickMod
      /\ w >= 2 * TickMod /\ w < 3 * TickMod => w % TickMod = w - 2 * TickMod
  BY <1>1, WrapsTo
<1> QED BY <1>1, <1>2, <1>3

(* The order of two ticks in the window is that of their distances.        *)
LEMMA TickOrder ==
  ASSUME NEW x \in Ticks, NEW y \in Ticks, NEW now \in Ticks,
         Until(x, now) < Limit, Until(y, now) < Limit
  PROVE  /\ half(minus(y, x)) <=> Until(x, now) <= Until(y, now)
         /\ minus(y, x) = 0 <=> Until(x, now) = Until(y, now)
         /\ Until(x, now) <= Until(y, now) => minus(y, x) = Until(y, now) - Until(x, now)
<1> DEFINE a == Until(x, now)
           b == Until(y, now)
           v == x + MaxLate + 1 - now
           w == y + MaxLate + 1 - now
           m == minus(y, x)
<1>1. /\ a = (IF v < 0 THEN v + TickMod ELSE IF v < TickMod THEN v ELSE v - TickMod)
      /\ b = (IF w < 0 THEN w + TickMod ELSE IF w < TickMod THEN w ELSE w - TickMod)
      /\ a \in Ticks /\ b \in Ticks
  BY UntilValue
<1>2. y \in Nat /\ y <= TickMod /\ x \in Nat /\ now \in Nat /\ x < TickMod /\ now < TickMod /\ y < TickMod
  BY Sizes
<1>3. m = IF y < x THEN y - x + TickMod ELSE y - x
  <2>1. m = IF y < x THEN y - x + TickMod ELSE IF y - x < TickMod THEN y - x ELSE 0
    BY <1>2, MinusValue
  <2>2. y - x < TickMod
    BY <1>2, Sizes
  <2> QED BY <2>1, <2>2
<1>4. a < Limit /\ b < Limit /\ a >= 0 /\ b >= 0 /\ a \in Int /\ b \in Int
  BY <1>1, Sizes
<1>5. w - v = y - x /\ v \in Int /\ w \in Int /\ m \in Int
  BY <1>2, <1>3, Sizes
<1>6. (half(m) <=> m < Limit) /\ 2 * Limit <= TickMod - 1 /\ Limit \in Nat /\ TickMod \in Nat /\ MaxLate \in Nat
  BY Sizes DEF half, Limit
<1> HIDE DEF a, b, v, w, m
<1>7. m = IF a <= b THEN b - a ELSE b - a + TickMod
  BY <1>1, <1>2, <1>3, <1>4, <1>5, <1>6
<1>8. (half(m) <=> a <= b) /\ (m = 0 <=> a = b) /\ (a <= b => m = b - a)
  BY <1>4, <1>6, <1>7
<1> QED BY <1>8 DEF a, b, m

(* A timer is due when at most MaxLate + 1 is left.                        *)
LEMMA DueWhen ==
  ASSUME NEW x \in Ticks, NEW now \in Ticks, Until(x, now) < Limit
  PROVE  half(minus(now, x)) <=> Until(x, now) <= MaxLate + 1
<1> DEFINE a == Until(x, now)
           v == x + MaxLate + 1 - now
           m == minus(now, x)
<1>1. a = (IF v < 0 THEN v + TickMod ELSE IF v < TickMod THEN v ELSE v - TickMod) /\ a \in Ticks
  BY UntilValue
<1>2. x \in Nat /\ now \in Nat /\ x < TickMod /\ now < TickMod /\ now <= TickMod
  BY Sizes
<1>3. m = IF now < x THEN now - x + TickMod ELSE now - x
  <2>1. m = IF now < x THEN now - x + TickMod ELSE IF now - x < TickMod THEN now - x ELSE 0
    BY <1>2, MinusValue
  <2>2. now - x < TickMod
    BY <1>2, Sizes
  <2> QED BY <2>1, <2>2
<1>4. (half(m) <=> m < Limit) /\ 2 * Limit <= TickMod - 1 /\ Limit \in Nat /\ TickMod \in Nat /\ MaxLate \in Nat
      /\ MaxLate + 1 < Limit /\ a \in Nat /\ a < Limit
  BY <1>1, Sizes DEF half, Limit
<1> QED BY <1>1, <1>2, <1>3, <1>4

LEMMA TickPasses ==
  ASSUME NEW x \in Ticks, NEW now \in Ticks, Until(x, now) >= 1
  PROVE  /\ (now + 1) % TickMod \in Ticks
         /\ Until(x, (now + 1) % TickMod) = Until(x, now) - 1
<1> DEFINE a == Until(x, now)
           next == (now + 1) % TickMod
           b == Until(x, next)
           v == x + MaxLate + 1 - now
           w == x + MaxLate + 1 - next
<1>1. now + 1 \in Nat /\ now \in Nat /\ x \in Nat /\ x < TickMod /\ now < TickMod /\ TickMod \in Nat
      /\ MaxLate \in Nat /\ MaxLate + 1 < TickMod /\ Ticks = 0 .. TickMod - 1
  BY Sizes
<1>2. next = IF now + 1 < TickMod THEN now + 1 ELSE 0
  BY <1>1, WrapsTo
<1>3. next \in Ticks
  BY <1>1, <1>2
<1> HIDE DEF next
<1>4. /\ a = (IF v < 0 THEN v + TickMod ELSE IF v < TickMod THEN v ELSE v - TickMod)
      /\ b = (IF w < 0 THEN w + TickMod ELSE IF w < TickMod THEN w ELSE w - TickMod)
  BY <1>3, UntilValue
<1>5. a >= 1
  OBVIOUS
<1> HIDE DEF a, b
<1>6. b = a - 1
  BY <1>1, <1>2, <1>4, <1>5
<1> QED BY <1>3, <1>6 DEF a, b, next

LEMMA NotLate ==
  ASSUME NEW x \in Ticks, NEW now \in Ticks, OnTime(x, now),
         minus(now + 1, x) \notin (MaxLate + 1) .. Limit
  PROVE  Until(x, now) >= 2
<1> DEFINE a == Until(x, now)
           v == x + MaxLate + 1 - now
           m == minus(now + 1, x)
<1>1. a = (IF v < 0 THEN v + TickMod ELSE IF v < TickMod THEN v ELSE v - TickMod) /\ a \in 1 .. Limit - 1
  BY UntilValue DEF OnTime
<1>2. x \in Nat /\ now \in Nat /\ now + 1 \in Nat /\ x < TickMod /\ now + 1 <= TickMod
  BY Sizes
<1>3. m = IF now + 1 < x THEN now + 1 - x + TickMod ELSE IF now + 1 - x < TickMod THEN now + 1 - x ELSE 0
  BY <1>2, MinusValue
<1>4. 2 * Limit <= TickMod - 1 /\ Limit \in Nat /\ TickMod \in Nat /\ MaxLate \in Nat /\ MaxLate + 1 < Limit
  BY Sizes
<1>5. m \notin (MaxLate + 1) .. Limit
  OBVIOUS
<1> HIDE DEF a, m
<1>6. a >= 2
  BY <1>1, <1>2, <1>3, <1>4, <1>5
<1> QED BY <1>6 DEF a

LEMMA NewTimeout ==
  ASSUME NEW d \in Delays, NEW now \in Ticks
  PROVE  LET x == (now + d) % TickMod IN x \in Ticks /\ OnTime(x, now)
<1> DEFINE x == (now + d) % TickMod
           v == x + MaxLate + 1 - now
<1>1. d \in Nat /\ d + MaxLate + 1 < Limit /\ now \in Nat /\ now < TickMod /\ TickMod \in Nat
      /\ 2 * Limit <= TickMod - 1 /\ Limit \in Nat /\ now + d \in Nat /\ MaxLate \in Nat
      /\ Ticks = 0 .. TickMod - 1
  BY Sizes
<1>2. x = IF now + d < TickMod THEN now + d ELSE now + d - TickMod
  BY <1>1, WrapsTo
<1>3. x \in Ticks
  BY <1>1, <1>2
<1> HIDE DEF x
<1>4. Until(x, now) = (IF v < 0 THEN v + TickMod ELSE IF v < TickMod THEN v ELSE v - TickMod)
  BY <1>3, UntilValue
<1>5. Until(x, now) = d + MaxLate + 1
  BY <1>1, <1>2, <1>4
<1>6. Until(x, now) \in 1 .. Limit - 1
  BY <1>1, <1>5
<1> QED BY <1>3, <1>6 DEF x, OnTime

-----------------------------------------------------------------------------
(***************************************************************************)
(* Rows.                                                                   *)
(***************************************************************************)
HasPut(S, l, r, e, m) ==
  /\ m \in Seq(S) /\ DOMAIN m = 1 .. (Len(l) + 1) /\ Len(m) = Len(l) + 1
  /\ \A i \in 1 .. (Len(l) + 1) :
       m[i] = IF i < r THEN l[i] ELSE IF i = r THEN e ELSE l[i - 1]
LEMMA PutAt ==
  ASSUME NEW S, NEW l \in Seq(S), NEW r \in 1 .. (Len(l) + 1), NEW e \in S
  PROVE  HasPut(S, l, r, e, InsertAt(l, r, e))
<1> DEFINE m == InsertAt(l, r, e)
           a == SubSeq(l, 1, r - 1)
           b == SubSeq(l, r, Len(l))
           c == a \o <<e>>
<1>0. Len(l) \in Nat /\ r \in Nat /\ r >= 1 /\ r <= Len(l) + 1
  OBVIOUS
<1>1. a \in Seq(S) /\ b \in Seq(S) /\ <<e>> \in Seq(S)
  OBVIOUS
<1>2. Len(a) = r - 1 /\ Len(b) = Len(l) - r + 1 /\ Len(<<e>>) = 1 /\ <<e>>[1] = e
  OBVIOUS
<1>3. /\ \A i \in 1 .. (r - 1) : a[i] = l[i]
      /\ \A i \in 1 .. (Len(l) - r + 1) : b[i] = l[r + i - 1]
  OBVIOUS
<1>4. m = c \o b
  BY DEF InsertAt
<1> HIDE DEF a, b, c, m
<1>5. /\ c \in Seq(S) /\ Len(c) = r
      /\ \A i \in 1 .. r : c[i] = IF i < r THEN l[i] ELSE e
  <2>1. c \in Seq(S) /\ Len(c) = Len(a) + Len(<<e>>)
    BY <1>1, ConcatProperties, Zenon DEF c
  <2>2. \A i \in 1 .. Len(a) + Len(<<e>>) :
          c[i] = IF i <= Len(a) THEN a[i] ELSE <<e>>[i - Len(a)]
    BY <1>1, ConcatProperties, Zenon DEF c
  <2>3. (r - 1) + 1 = r
    BY <1>0
  <2>4. \A i \in 1 .. r : c[i] = IF i <= r - 1 THEN a[i] ELSE <<e>>[i - (r - 1)]
    BY <1>2, <2>2, <2>3
  <2>5. ASSUME NEW i \in 1 .. r PROVE c[i] = IF i < r THEN l[i] ELSE e
    <3>1. CASE i < r
      <4>1. i <= r - 1 /\ i \in 1 .. (r - 1)
        BY <1>0, <3>1
      <4> QED BY <1>3, <2>4, <3>1, <4>1
    <3>2. CASE i = r
      <4>1. ~(i <= r - 1) /\ i - (r - 1) = 1
        BY <1>0, <3>2
      <4> QED BY <1>2, <2>4, <3>2, <4>1
    <3> QED BY <1>0, <3>1, <3>2
  <2>6. Len(c) = r
    BY <1>2, <2>1, <2>3
  <2> QED BY <2>1, <2>5, <2>6
<1>6. m \in Seq(S) /\ Len(m) = Len(c) + Len(b)
  BY <1>1, <1>4, <1>5, ConcatProperties, Zenon
<1>7. \A i \in 1 .. Len(c) + Len(b) : m[i] = IF i <= Len(c) THEN c[i] ELSE b[i - Len(c)]
  BY <1>1, <1>4, <1>5, ConcatProperties, Zenon
<1>8. Len(m) = Len(l) + 1
  <2>1. r + (Len(l) - r + 1) = Len(l) + 1
    BY <1>0
  <2> QED BY <1>2, <1>5, <1>6, <2>1
<1>9. ASSUME NEW i \in 1 .. (Len(l) + 1)
      PROVE  m[i] = IF i < r THEN l[i] ELSE IF i = r THEN e ELSE l[i - 1]
  <2>1. m[i] = IF i <= r THEN c[i] ELSE b[i - r]
    BY <1>0, <1>2, <1>5, <1>7
  <2>2. CASE i <= r
    BY <1>0, <1>5, <2>1, <2>2
  <2>3. CASE ~(i <= r)
    <3>1. i - r \in 1 .. (Len(l) - r + 1) /\ r + (i - r) - 1 = i - 1
      BY <1>0, <2>3
    <3> QED BY <1>3, <2>1, <2>3, <3>1
  <2> QED BY <2>2, <2>3
<1> QED BY <1>6, <1>8, <1>9 DEF m, HasPut

LEMMA PutIn ==
  ASSUME NEW S, NEW l \in Seq(S), NEW r \in 1 .. (Len(l) + 1), NEW e \in S,
         IsInjective(l), e \notin ToSet(l)
  PROVE  LET m == InsertAt(l, r, e) IN
         /\ m \in Seq(S) /\ ToSet(m) = ToSet(l) \cup {e} /\ IsInjective(m)
         /\ \A a, b : Precedes(l, a, b) => Precedes(m, a, b)
         /\ \A i \in DOMAIN l : IF i < r THEN Precedes(m, l[i], e) ELSE Precedes(m, e, l[i])
         /\ \A a, b : Precedes(m, a, b) =>
              \/ Precedes(l, a, b)
              \/ b = e /\ \E i \in DOMAIN l : i < r /\ l[i] = a
              \/ a = e /\ \E i \in DOMAIN l : i >= r /\ l[i] = b
<1> DEFINE m == InsertAt(l, r, e)
<1>1. /\ m \in Seq(S) /\ DOMAIN m = 1 .. (Len(l) + 1) /\ DOMAIN l = 1 .. Len(l) /\ Len(l) \in Nat
      /\ \A i \in 1 .. (Len(l) + 1) :
           m[i] = IF i < r THEN l[i] ELSE IF i = r THEN e ELSE l[i - 1]
  <2>1. HasPut(S, l, r, e, m)
    BY PutAt
  <2> HIDE DEF m
  <2> QED BY <2>1 DEF HasPut
<1> HIDE DEF m
<1>2. \A i \in DOMAIN l : LET j == IF i < r THEN i ELSE i + 1 IN j \in DOMAIN m /\ m[j] = l[i]
  BY <1>1
<1>3. r \in DOMAIN m /\ m[r] = e
  BY <1>1
<1>4. \A i \in DOMAIN m : i # r =>
        LET j == IF i < r THEN i ELSE i - 1 IN j \in DOMAIN l /\ m[i] = l[j]
  BY <1>1
<1>5. ToSet(m) = ToSet(l) \cup {e}
  <2>1. ASSUME NEW x \in ToSet(m) PROVE x \in ToSet(l) \cup {e}
    <3>1. PICK i \in DOMAIN m : m[i] = x
      BY <2>1 DEF ToSet
    <3>2. CASE i = r
      BY <1>3, <3>1, <3>2
    <3>3. CASE i # r
      <4>1. PICK j \in DOMAIN l : m[i] = l[j]
        BY <1>4, <3>3
      <4> QED BY <3>1, <4>1 DEF ToSet
    <3> QED BY <3>2, <3>3
  <2>2. ASSUME NEW x \in ToSet(l) PROVE x \in ToSet(m)
    <3>1. PICK i \in DOMAIN l : l[i] = x
      BY <2>2 DEF ToSet
    <3>2. PICK j \in DOMAIN m : m[j] = l[i]
      BY <1>2, <3>1
    <3> QED BY <3>1, <3>2 DEF ToSet
  <2>3. e \in ToSet(m)
    BY <1>3 DEF ToSet
  <2> QED BY <2>1, <2>2, <2>3
<1>6. IsInjective(m)
  <2> SUFFICES ASSUME NEW i \in DOMAIN m, NEW j \in DOMAIN m, m[i] = m[j] PROVE i = j
    BY DEF IsInjective
  <2>1. \A k \in DOMAIN m : k # r => m[k] # e
    <3> SUFFICES ASSUME NEW k \in DOMAIN m, k # r PROVE m[k] # e
      OBVIOUS
    <3>1. PICK h \in DOMAIN l : m[k] = l[h]
      BY <1>4
    <3> QED BY <3>1 DEF ToSet
  <2>2. CASE i = r \/ j = r
    BY <1>3, <2>1, <2>2
  <2>3. CASE i # r /\ j # r
    <3> DEFINE p == IF i < r THEN i ELSE i - 1
               q == IF j < r THEN j ELSE j - 1
    <3>1. p \in DOMAIN l /\ q \in DOMAIN l /\ l[p] = l[q]
      BY <1>4, <2>3
    <3>2. p = q
      BY <3>1 DEF IsInjective
    <3> QED BY <1>1, <2>3, <3>2
  <2> QED BY <2>2, <2>3
<1>7. ASSUME NEW a, NEW b, Precedes(l, a, b) PROVE Precedes(m, a, b)
  <2>1. PICK i \in DOMAIN l, j \in DOMAIN l : i < j /\ l[i] = a /\ l[j] = b
    BY <1>7 DEF Precedes
  <2> DEFINE p == IF i < r THEN i ELSE i + 1
             q == IF j < r THEN j ELSE j + 1
  <2>2. p \in DOMAIN m /\ q \in DOMAIN m /\ m[p] = a /\ m[q] = b
    BY <1>2, <2>1
  <2>3. p < q
    BY <1>1, <2>1
  <2> QED BY <2>2, <2>3 DEF Precedes
<1>8. ASSUME NEW i \in DOMAIN l PROVE IF i < r THEN Precedes(m, l[i], e) ELSE Precedes(m, e, l[i])
  <2>1. CASE i < r
    <3>1. i \in DOMAIN m /\ m[i] = l[i]
      BY <1>2, <2>1
    <3>2. Precedes(m, l[i], e)
      BY <1>3, <2>1, <3>1 DEF Precedes
    <3> QED BY <2>1, <3>2
  <2>2. CASE ~(i < r)
    <3>1. i + 1 \in DOMAIN m /\ m[i + 1] = l[i] /\ r < i + 1
      BY <1>1, <1>2, <2>2
    <3>2. Precedes(m, e, l[i])
      BY <1>3, <3>1 DEF Precedes
    <3> QED BY <2>2, <3>2
  <2> QED BY <2>1, <2>2
<1>9. ASSUME NEW a, NEW b, Precedes(m, a, b)
      PROVE  \/ Precedes(l, a, b)
             \/ b = e /\ \E i \in DOMAIN l : i < r /\ l[i] = a
             \/ a = e /\ \E i \in DOMAIN l : i >= r /\ l[i] = b
  <2>1. PICK i \in DOMAIN m, j \in DOMAIN m : i < j /\ m[i] = a /\ m[j] = b
    BY <1>9 DEF Precedes
  <2> DEFINE p == IF i < r THEN i ELSE i - 1
             q == IF j < r THEN j ELSE j - 1
  <2>2. (i # r => p \in DOMAIN l /\ l[p] = a) /\ (j # r => q \in DOMAIN l /\ l[q] = b)
    BY <1>4, <2>1
  <2>3. CASE i = r
    <3>1. j # r /\ q >= r /\ a = e
      BY <1>1, <1>3, <2>1, <2>3
    <3> QED BY <2>2, <3>1
  <2>4. CASE j = r
    <3>1. i # r /\ p < r /\ b = e
      BY <1>1, <1>3, <2>1, <2>4
    <3> QED BY <2>2, <3>1
  <2>5. CASE i # r /\ j # r
    <3>1. p < q
      BY <1>1, <2>1, <2>5
    <3> QED BY <2>2, <2>5, <3>1 DEF Precedes
  <2> QED BY <2>3, <2>4, <2>5
<1> QED BY <1>1, <1>5, <1>6, <1>7, <1>8, <1>9 DEF m

-----------------------------------------------------------------------------
(***************************************************************************)
(* What each operation does to the lists.                                  *)
(***************************************************************************)
Clock(now, first) == now \in Ticks /\ first \in {0, 1}

(* Only the timer t is touched.                                            *)
OthersStay(z, y, t) ==
  /\ \A u \in Timers : u # t => y.tm[u] = z.tm[u] /\ (InList(y, u) <=> InList(z, u))
  /\ \A l \in Lists : l # Kind(t) => y.row[l] = z.row[l]
Touches(z, y, t) ==
  OthersStay(z, y, t) /\ y.tm[t].periodic = z.tm[t].periodic /\ y.tm[t].init = z.tm[t].init

LEMMA Kinds ==
  ASSUME NEW t \in Timers
  PROVE  /\ Kind(t) \in Lists /\ LastRow \in Level /\ LastRow \in Nat
         /\ Level = 0 .. LastRow /\ (t \in Soft <=> Kind(t) = "soft")
         /\ \A z : InList(z, t) <=> t \in ToSet(z.row[Kind(t)][LastRow])
<1>1. RT_TIMER_SKIP_LIST_LEVEL \in Nat \ {0}
  BY TimerAssumption
<1>2. LastRow \in Level /\ LastRow \in Nat /\ Level = 0 .. LastRow
  BY <1>1 DEF LastRow, Level
<1> QED BY <1>2 DEF Kind, Lists, InList, bottom

LEMMA RowsTyped ==
  ASSUME NEW z, ListsTyped(z), NEW l \in Lists, NEW j \in Level
  PROVE  /\ z.row[l] \in [Level -> Seq(Timers)] /\ z.row[l][j] \in Seq(Timers)
         /\ ToSet(z.row[l][j]) \subseteq Timers
<1>1. z.row[l] \in [Level -> Seq(Timers)] /\ z.row[l][j] \in Seq(Timers)
  BY DEF ListsTyped
<1> QED BY <1>1 DEF ToSet

(* A timer that is not at the bottom is in no row.                         *)
LEMMA OneList ==
  ASSUME NEW z, ListsTyped(z), RowsAgree(z), NEW t \in Timers, NEW l \in Lists, NEW j \in Level,
         t \in ToSet(z.row[l][j])
  PROVE  l = Kind(t) /\ InList(z, t)
<1>1. ToSet(z.row[l][j]) \subseteq ToSet(bottom(z, l)) /\ Kind(t) = l
  BY DEF RowsAgree
<1> QED BY <1>1 DEF InList

(* Changes that leave the rows and the times of listed timers alone.       *)
SameLists(z, y) ==
  /\ y.row = z.row
  /\ \A u \in Timers : InList(z, u) => y.tm[u].timeout = z.tm[u].timeout
LEMMA ListsKept ==
  ASSUME NEW z, NEW y, NEW now, NEW first, ListsSound(z, now, first), ListsTyped(y), SameLists(z, y)
  PROVE  ListsSound(y, now, first)
<1>0. ListsTyped(z) /\ RowsAgree(z) /\ InOrder(z, now) /\ InWindow(z, now, first)
  BY DEF ListsSound
<1>1. y.row = z.row /\ \A l : bottom(y, l) = bottom(z, l)
  BY DEF SameLists, bottom
<1>2. RowsAgree(y)
  BY <1>0, <1>1, Zenon DEF RowsAgree
<1>3. ASSUME NEW l \in Lists, NEW j \in Level, NEW t \in ToSet(z.row[l][j])
      PROVE  y.tm[t].timeout = z.tm[t].timeout
  <2>1. t \in Timers
    BY <1>0, <1>3, RowsTyped
  <2> QED BY <1>0, <1>3, <2>1, OneList DEF SameLists
<1>4. InOrder(y, now)
  BY <1>0, <1>1, <1>3, Zenon DEF InOrder
<1>5. LastRow \in Level
  BY TimerAssumption DEF LastRow, Level
<1>6. \A l \in Lists : \A t \in ToSet(bottom(z, l)) : y.tm[t].timeout = z.tm[t].timeout
  BY <1>3, <1>5 DEF bottom
<1>7. InWindow(y, now, first)
  BY <1>0, <1>1, <1>6 DEF InWindow, Lists
<1> QED BY <1>2, <1>4, <1>7 DEF ListsSound

LEMMA FlagStep ==
  ASSUME NEW z, NEW now, NEW first, ListsSound(z, now, first), NEW t \in Timers, NEW f \in BOOLEAN
  PROVE  LET y == flagged(z, t, f) IN
         /\ ListsSound(y, now, first) /\ Touches(z, y, t)
         /\ y.tm[t].active = f /\ y.tm[t].timeout = z.tm[t].timeout
         /\ (InList(y, t) <=> InList(z, t))
<1> DEFINE y == flagged(z, t, f)
<1>1. ListsTyped(z)
  BY DEF ListsSound
<1>2. y = [tm |-> [z.tm EXCEPT ![t] = [z.tm[t] EXCEPT !.active = f]], row |-> z.row, nr |-> z.nr]
  <2>1. PICK tm, row, nr : z = [tm |-> tm, row |-> row, nr |-> nr]
    BY <1>1 DEF ListsTyped
  <2>2. z.tm = tm /\ z.row = row /\ z.nr = nr
    BY <2>1
  <2>3. y = [tm |-> [tm EXCEPT ![t] = [tm[t] EXCEPT !.active = f]], row |-> row, nr |-> nr]
    BY <2>1 DEF flagged
  <2> QED BY <2>2, <2>3
<1> HIDE DEF y
<1>3. ListsTyped(y) /\ y.row = z.row
  BY <1>1, <1>2 DEF ListsTyped
<1>4. /\ \A u \in Timers : u # t => y.tm[u] = z.tm[u]
      /\ y.tm[t].active = f /\ y.tm[t].timeout = z.tm[t].timeout
      /\ y.tm[t].periodic = z.tm[t].periodic /\ y.tm[t].init = z.tm[t].init
  BY <1>1, <1>2 DEF ListsTyped
<1>5. \A u : InList(y, u) <=> InList(z, u)
  BY <1>3 DEF InList, bottom
<1>6. SameLists(z, y)
  BY <1>3, <1>4 DEF SameLists
<1> QED BY <1>3, <1>4, <1>5, <1>6, ListsKept DEF y, Touches, OthersStay

LEMMA TimeStep ==
  ASSUME NEW z, NEW now, NEW first, ListsSound(z, now, first), NEW t \in Timers, NEW x \in Ticks,
         ~InList(z, t)
  PROVE  LET y == [z EXCEPT !.tm[t].timeout = x] IN
         /\ ListsSound(y, now, first) /\ Touches(z, y, t)
         /\ y.tm[t].active = z.tm[t].active /\ y.tm[t].timeout = x /\ ~InList(y, t)
<1> DEFINE y == [z EXCEPT !.tm[t].timeout = x]
<1>1. ListsTyped(z)
  BY DEF ListsSound
<1>2. y = [tm |-> [z.tm EXCEPT ![t] = [z.tm[t] EXCEPT !.timeout = x]], row |-> z.row, nr |-> z.nr]
  <2>1. PICK tm, row, nr : z = [tm |-> tm, row |-> row, nr |-> nr]
    BY <1>1 DEF ListsTyped
  <2>2. z.tm = tm /\ z.row = row /\ z.nr = nr
    BY <2>1
  <2>3. y = [tm |-> [tm EXCEPT ![t] = [tm[t] EXCEPT !.timeout = x]], row |-> row, nr |-> nr]
    BY <2>1
  <2> QED BY <2>2, <2>3
<1> HIDE DEF y
<1>3. ListsTyped(y) /\ y.row = z.row
  BY <1>1, <1>2 DEF ListsTyped
<1>4. /\ \A u \in Timers : u # t => y.tm[u] = z.tm[u]
      /\ y.tm[t].active = z.tm[t].active /\ y.tm[t].timeout = x
      /\ y.tm[t].periodic = z.tm[t].periodic /\ y.tm[t].init = z.tm[t].init
  BY <1>1, <1>2 DEF ListsTyped
<1>5. \A u : InList(y, u) <=> InList(z, u)
  BY <1>3 DEF InList, bottom
<1>6. SameLists(z, y)
  BY <1>3, <1>4 DEF SameLists
<1> QED BY <1>3, <1>4, <1>5, <1>6, ListsKept DEF y, Touches, OthersStay

LEMMA RemoveForm ==
  ASSUME NEW tm, NEW row, NEW nr, NEW t
  PROVE  _rt_timer_remove([tm |-> tm, row |-> row, nr |-> nr], t) =
           [tm |-> [tm EXCEPT ![t] = [tm[t] EXCEPT !.timeout =
                      IF tt.n = t /\ behind(t) = t THEN tm[t].timeout ELSE 0]],
            row |-> [row EXCEPT ![Kind(t)] = [j \in Level |-> RemoveFirst(row[Kind(t)][j], t)]],
            nr |-> nr]
<1> DEFINE z == [tm |-> tm, row |-> row, nr |-> nr]
           R == [j \in Level |-> RemoveFirst(z.row[Kind(t)][j], t)]
           b == tt.n = t /\ behind(t) = t
<1>1. _rt_timer_remove(z, t) = [z EXCEPT !.row[Kind(t)] = R, !.tm[t].timeout = IF b THEN @ ELSE 0]
  BY DEF _rt_timer_remove
<1>2. R = [j \in Level |-> RemoveFirst(row[Kind(t)][j], t)]
  <2>1. z.row = row
    OBVIOUS
  <2> HIDE DEF z
  <2> QED BY <2>1, Zenon DEF R
<1> HIDE DEF R, b
<1>3. [z EXCEPT !.row[Kind(t)] = R, !.tm[t].timeout = IF b THEN @ ELSE 0] =
        [tm |-> [tm EXCEPT ![t] = [tm[t] EXCEPT !.timeout = IF b THEN tm[t].timeout ELSE 0]],
         row |-> [row EXCEPT ![Kind(t)] = R], nr |-> nr]
  <2> DEFINE w == [tm |-> tm, row |-> [row EXCEPT ![Kind(t)] = R], nr |-> nr]
  <2>1. [z EXCEPT !.row[Kind(t)] = R] = w
    OBVIOUS
  <2>2. [w EXCEPT !.tm[t].timeout = IF b THEN @ ELSE 0] =
          [tm |-> [tm EXCEPT ![t] = [tm[t] EXCEPT !.timeout = IF b THEN tm[t].timeout ELSE 0]],
           row |-> [row EXCEPT ![Kind(t)] = R], nr |-> nr]
    OBVIOUS
  <2>3. z = [tm |-> tm, row |-> row, nr |-> nr]
    OBVIOUS
  <2> HIDE DEF w, z
  <2>4. [z EXCEPT !.row[Kind(t)] = R, !.tm[t].timeout = IF b THEN @ ELSE 0] =
          [[z EXCEPT !.row[Kind(t)] = R] EXCEPT !.tm[t].timeout = IF b THEN @ ELSE 0]
    BY <2>3
  <2> QED BY <2>1, <2>2, <2>4
<1> HIDE DEF z
<1>4. _rt_timer_remove(z, t) =
        [tm |-> [tm EXCEPT ![t] = [tm[t] EXCEPT !.timeout = IF b THEN tm[t].timeout ELSE 0]],
         row |-> [row EXCEPT ![Kind(t)] = R], nr |-> nr]
  BY <1>1, <1>3
<1> QED BY <1>2, <1>4 DEF b, z

LEMMA RemoveStep ==
  ASSUME NEW z, NEW now, NEW first, ListsSound(z, now, first), NEW t \in Timers
  PROVE  LET y == _rt_timer_remove(z, t) IN
         /\ ListsSound(y, now, first) /\ Touches(z, y, t)
         /\ y.tm[t].active = z.tm[t].active /\ ~InList(y, t)
<1> DEFINE y == _rt_timer_remove(z, t)
           kept == IF tt.n = t /\ behind(t) = t THEN z.tm[t].timeout ELSE 0
           Rows(l) == [j \in Level |-> RemoveFirst(z.row[l][j], t)]
<1>0. ListsTyped(z) /\ RowsAgree(z) /\ InOrder(z, now) /\ InWindow(z, now, first)
  BY DEF ListsSound
<1>1. Kind(t) \in Lists /\ LastRow \in Level
  BY Kinds
<1>2. y = [tm |-> [z.tm EXCEPT ![t] = [z.tm[t] EXCEPT !.timeout = kept]],
           row |-> [z.row EXCEPT ![Kind(t)] = Rows(Kind(t))], nr |-> z.nr]
  <2>1. PICK tm, row, nr : z = [tm |-> tm, row |-> row, nr |-> nr]
    BY <1>0 DEF ListsTyped
  <2>2. z.tm = tm /\ z.row = row /\ z.nr = nr
    BY <2>1
  <2>3. y = [tm |-> [tm EXCEPT ![t] = [tm[t] EXCEPT !.timeout =
                       IF tt.n = t /\ behind(t) = t THEN tm[t].timeout ELSE 0]],
             row |-> [row EXCEPT ![Kind(t)] = [j \in Level |-> RemoveFirst(row[Kind(t)][j], t)]], nr |-> nr]
    BY <2>1, RemoveForm
  <2> QED BY <2>2, <2>3
<1>3. kept \in Ticks
  BY <1>0, Sizes DEF ListsTyped
<1> HIDE DEF y, kept
<1>4. /\ \A u \in Timers : u # t => y.tm[u] = z.tm[u]
      /\ y.tm[t].active = z.tm[t].active
      /\ y.tm[t].periodic = z.tm[t].periodic /\ y.tm[t].init = z.tm[t].init
  BY <1>0, <1>2 DEF ListsTyped
<1>5. \A l \in Lists : y.row[l] = IF l = Kind(t) THEN Rows(l) ELSE z.row[l]
  BY <1>0, <1>1, <1>2 DEF ListsTyped
<1>6. ASSUME NEW l \in Lists, NEW j \in Level
      PROVE  LET m == y.row[l][j]
                 r == z.row[l][j]
             IN  /\ m \in Seq(Timers) /\ ToSet(m) = ToSet(r) \ {t} /\ IsInjective(m)
                 /\ \A a, b \in ToSet(r) : Precedes(r, a, b) /\ a # t /\ b # t => Precedes(m, a, b)
                 /\ \A a, b : Precedes(m, a, b) => Precedes(r, a, b)
  <2>1. z.row[l][j] \in Seq(Timers) /\ IsInjective(z.row[l][j])
    BY <1>0, <1>6, RowsTyped DEF RowsAgree
  <2>2. CASE l = Kind(t)
    <3>1. y.row[l][j] = RemoveFirst(z.row[l][j], t)
      BY <1>5, <1>6, <2>2
    <3> QED BY <2>1, <3>1, TakenOut
  <2>3. CASE l # Kind(t)
    <3>1. y.row[l][j] = z.row[l][j]
      BY <1>5, <1>6, <2>3
    <3>2. t \notin ToSet(z.row[l][j])
      BY <1>0, <1>6, <2>3, OneList
    <3> QED BY <2>1, <3>1, <3>2
  <2> QED BY <2>2, <2>3
<1>7. ListsTyped(y)
  <2>1. y.row \in [Lists -> [Level -> Seq(Timers)]]
    <3>1. \A l \in Lists : y.row[l] \in [Level -> Seq(Timers)]
      <4> SUFFICES ASSUME NEW l \in Lists PROVE y.row[l] \in [Level -> Seq(Timers)]
        OBVIOUS
      <4>1. CASE l = Kind(t)
        BY <1>5, <1>6, <4>1
      <4>2. CASE l # Kind(t)
        BY <1>0, <1>5, <4>2 DEF ListsTyped
      <4> QED BY <4>1, <4>2
    <3>2. y.row = [z.row EXCEPT ![Kind(t)] = Rows(Kind(t))] /\ DOMAIN z.row = Lists
      BY <1>0, <1>2 DEF ListsTyped
    <3>3. DOMAIN y.row = Lists
      BY <3>2
    <3>4. y.row = [l \in Lists |-> y.row[l]]
      BY <3>2, <3>3
    <3> QED BY <3>1, <3>4
  <2>2. y.tm \in [Timers -> [active : BOOLEAN, timeout : Ticks, periodic : BOOLEAN, init : Delays]]
    BY <1>0, <1>2, <1>3 DEF ListsTyped
  <2> QED BY <1>2, <2>1, <2>2 DEF ListsTyped
<1>8. \A l \in Lists : ToSet(bottom(y, l)) = ToSet(bottom(z, l)) \ {t}
  BY <1>1, <1>6 DEF bottom
<1>9. RowsAgree(y)
  <2> SUFFICES ASSUME NEW l \in Lists
               PROVE  /\ \A j \in Level : LET r == y.row[l][j] IN
                           IsInjective(r) /\ ToSet(r) \subseteq ToSet(bottom(y, l)) /\ \A u \in ToSet(r) : Kind(u) = l
                      /\ \A j \in Level \ {LastRow} : LET up == y.row[l][j]
                                                        down == y.row[l][j + 1] IN
                           /\ ToSet(up) \subseteq ToSet(down)
                           /\ \A a, b \in ToSet(up) : Precedes(up, a, b) => Precedes(down, a, b)
    BY DEF RowsAgree
  <2>1. ASSUME NEW j \in Level
        PROVE  LET r == y.row[l][j] IN
               IsInjective(r) /\ ToSet(r) \subseteq ToSet(bottom(y, l)) /\ \A u \in ToSet(r) : Kind(u) = l
    <3>1. ToSet(z.row[l][j]) \subseteq ToSet(bottom(z, l)) /\ \A u \in ToSet(z.row[l][j]) : Kind(u) = l
      BY <1>0, <2>1 DEF RowsAgree
    <3> QED BY <1>6, <1>8, <2>1, <3>1
  <2>2. ASSUME NEW j \in Level \ {LastRow}
        PROVE  LET up == y.row[l][j]
                   down == y.row[l][j + 1]
               IN  /\ ToSet(up) \subseteq ToSet(down)
                   /\ \A a, b \in ToSet(up) : Precedes(up, a, b) => Precedes(down, a, b)
    <3>1. j \in Level /\ j + 1 \in Level
      BY <2>2, Kinds
    <3> DEFINE up == z.row[l][j]
               down == z.row[l][j + 1]
    <3>2. ToSet(up) \subseteq ToSet(down) /\ \A a, b \in ToSet(up) : Precedes(up, a, b) => Precedes(down, a, b)
      BY <1>0, <2>2 DEF RowsAgree
    <3>3. /\ ToSet(y.row[l][j]) = ToSet(up) \ {t} /\ ToSet(y.row[l][j + 1]) = ToSet(down) \ {t}
          /\ \A a, b : Precedes(y.row[l][j], a, b) => Precedes(up, a, b)
          /\ \A a, b \in ToSet(down) : Precedes(down, a, b) /\ a # t /\ b # t => Precedes(y.row[l][j + 1], a, b)
      BY <1>6, <3>1
    <3> HIDE DEF up, down
    <3> QED BY <3>2, <3>3
  <2> QED BY <2>1, <2>2
<1>10. InOrder(y, now)
  <2> SUFFICES ASSUME NEW l \in Lists, NEW j \in Level,
                      NEW a \in ToSet(y.row[l][j]), NEW b \in ToSet(y.row[l][j]),
                      Precedes(y.row[l][j], a, b)
               PROVE  Until(y.tm[a].timeout, now) <= Until(y.tm[b].timeout, now)
    BY DEF InOrder
  <2>1. a \in ToSet(z.row[l][j]) /\ b \in ToSet(z.row[l][j]) /\ a # t /\ b # t /\ Precedes(z.row[l][j], a, b)
    BY <1>6
  <2>2. a \in Timers /\ b \in Timers
    BY <1>0, <2>1, RowsTyped
  <2>3. y.tm[a] = z.tm[a] /\ y.tm[b] = z.tm[b]
    BY <1>4, <2>1, <2>2
  <2> QED BY <1>0, <2>1, <2>3 DEF InOrder
<1>11. InWindow(y, now, first)
  <2>1. \A l \in Lists : \A u \in ToSet(bottom(y, l)) : u \in ToSet(bottom(z, l)) /\ y.tm[u] = z.tm[u]
    <3> SUFFICES ASSUME NEW l \in Lists, NEW u \in ToSet(bottom(y, l))
                 PROVE  u \in ToSet(bottom(z, l)) /\ y.tm[u] = z.tm[u]
      OBVIOUS
    <3>1. u \in ToSet(bottom(z, l)) /\ u # t
      BY <1>8
    <3>2. u \in Timers
      BY <1>0, <1>1, <3>1, RowsTyped DEF bottom
    <3> QED BY <1>4, <3>1, <3>2
  <2> QED BY <1>0, <2>1 DEF InWindow, Lists
<1>12. ASSUME NEW u \in Timers PROVE InList(y, u) <=> InList(z, u) /\ u # t
  <2>1. Kind(u) \in Lists
    BY Kinds
  <2> QED BY <1>8, <2>1 DEF InList
<1>13. Touches(z, y, t)
  BY <1>4, <1>5, <1>12 DEF Touches, OthersStay
<1> QED BY <1>4, <1>7, <1>9, <1>10, <1>11, <1>12, <1>13 DEF y, ListsSound

LEMMA LeastOf ==
  ASSUME NEW N, N \subseteq Nat, N # {}
  PROVE  \E i \in N : \A j \in N : i <= j
<1>1. PICK i \in N : \A j \in N : ~ (<<j, i>> \in OpToRel(<, Nat))
  BY NatLessThanWellFounded, WFMin
<1>2. ASSUME NEW j \in N PROVE i <= j
  <2>1. i \in Nat /\ j \in Nat
    OBVIOUS
  <2>2. ~ (j < i)
    BY <1>1, <2>1 DEF OpToRel
  <2> QED BY <2>1, <2>2
<1> QED BY <1>2

(***************************************************************************)
(* The search for the place of a timer finds the same frontier in every    *)
(* row: in front of it the timers that are due no later than the timer,    *)
(* behind it those that are due later.                                     *)
(***************************************************************************)
Frontier(z, now, seq, t, i) ==
  /\ i \in 0 .. Len(seq)
  /\ \A k \in 1 .. Len(seq) :
       k <= i <=> Until(z.tm[seq[k]].timeout, now) <= Until(z.tm[t].timeout, now)

(* A row in its order, and a place to start from.                          *)
Searchable(z, now, seq, from, t) ==
  /\ seq \in Seq(Timers) /\ z.tm[t].timeout \in Ticks /\ now \in Ticks
  /\ Until(z.tm[t].timeout, now) < Limit
  /\ \A k \in 1 .. Len(seq) :
       z.tm[seq[k]].timeout \in Ticks /\ Until(z.tm[seq[k]].timeout, now) < Limit
  /\ \A i, k \in 1 .. Len(seq) :
       i < k => Until(z.tm[seq[i]].timeout, now) <= Until(z.tm[seq[k]].timeout, now)
  /\ from # NONE => /\ \E k \in DOMAIN seq : seq[k] = from
                    /\ Until(z.tm[from].timeout, now) <= Until(z.tm[t].timeout, now)

LEMMA SearchStep ==
  ASSUME NEW z, NEW now, NEW seq, NEW from, NEW t, Searchable(z, now, seq, from, t)
  PROVE  Frontier(z, now, seq, t, searched(z, seq, from, t))
<1> DEFINE start == IF from = NONE THEN 0 ELSE CHOOSE i \in DOMAIN seq : seq[i] = from
           U(k) == Until(z.tm[seq[k]].timeout, now)
           u == Until(z.tm[t].timeout, now)
           d(v) == minus(z.tm[v].timeout, z.tm[t].timeout)
           later(v) == d(v) # 0 /\ half(d(v))
           n == Len(seq)
           stop == {i \in start .. n : i < n => later(seq[i + 1])}
           i == CHOOSE j \in stop : \A k \in stop : j <= k
<1>1. searched(z, seq, from, t) = i
  BY DEF searched
<1>2. n \in Nat /\ DOMAIN seq = 1 .. n
  BY DEF Searchable
<1>3. u \in Nat /\ \A k \in 1 .. n : U(k) \in Nat
  <2>1. \A x \in Ticks : Until(x, now) \in Nat
    <3>1. now \in Ticks /\ Ticks \subseteq Nat
      BY Sizes DEF Searchable
    <3> QED BY <3>1, UntilValue
  <2> QED BY <2>1 DEF Searchable
<1>4. \A k \in 1 .. n : later(seq[k]) <=> u < U(k)
  <2> SUFFICES ASSUME NEW k \in 1 .. n PROVE later(seq[k]) <=> u < U(k)
    OBVIOUS
  <2>1. /\ z.tm[seq[k]].timeout \in Ticks /\ z.tm[t].timeout \in Ticks /\ now \in Ticks
        /\ U(k) < Limit /\ u < Limit
    BY DEF Searchable
  <2>2. (half(d(seq[k])) <=> u <= U(k)) /\ (d(seq[k]) = 0 <=> u = U(k))
    BY <2>1, TickOrder
  <2> QED BY <1>3, <2>2
<1>5. \A j, k \in 1 .. n : j < k => U(j) <= U(k)
  BY DEF Searchable
<1>6. start \in 0 .. n /\ (start # 0 => U(start) <= u)
  <2>1. CASE from = NONE
    BY <1>2, <2>1
  <2>2. CASE from # NONE
    <3>1. start \in DOMAIN seq /\ seq[start] = from
      BY <2>2 DEF Searchable
    <3>2. Until(z.tm[from].timeout, now) <= u
      BY <2>2 DEF Searchable
    <3> QED BY <1>2, <3>1, <3>2
  <2> QED BY <2>1, <2>2
<1> HIDE DEF start, u, U, later, n
<1>7. i \in stop /\ \A k \in stop : i <= k
  <2>1. stop \subseteq Nat /\ n \in stop
    BY <1>2, <1>6
  <2>2. \E j \in stop : \A k \in stop : j <= k
    BY <2>1, LeastOf
  <2> QED BY <2>2
<1> HIDE DEF i
<1>8. i \in start .. n /\ (i < n => u < U(i + 1))
  <2>1. i < n => i + 1 \in 1 .. n
    BY <1>2, <1>6, <1>7
  <2> QED BY <1>4, <1>7, <2>1
<1>9. ASSUME NEW k \in 1 .. n PROVE k <= i <=> U(k) <= u
  <2>0. k \in Nat /\ i \in Nat /\ n \in Nat /\ start \in Nat /\ start <= i /\ i <= n /\ k >= 1 /\ k <= n
    BY <1>2, <1>6, <1>8
  <2>1. CASE k <= start
    <3>1. start \in 1 .. n
      BY <2>0, <2>1
    <3>2. U(k) <= U(start)
      BY <1>3, <1>5, <2>0, <2>1, <3>1
    <3> QED BY <1>3, <1>6, <2>0, <2>1, <3>1, <3>2
  <2>2. CASE start < k /\ k <= i
    <3>1. k - 1 \in start .. n /\ k - 1 < n /\ (k - 1) + 1 = k /\ k - 1 < i
      BY <2>0, <2>2
    <3>2. k - 1 \notin stop
      BY <1>7, <2>0, <3>1
    <3>3. ~later(seq[k])
      BY <3>1, <3>2
    <3> QED BY <1>3, <1>4, <2>2, <3>3
  <2>3. CASE i < k
    <3>1. i + 1 \in 1 .. n /\ i < n
      BY <2>0, <2>3
    <3>2. u < U(i + 1)
      BY <1>8, <3>1
    <3>3. U(i + 1) <= U(k)
      BY <1>3, <1>5, <2>0, <2>3, <3>1
    <3>4. u < U(k)
      BY <1>3, <3>1, <3>2, <3>3
    <3> QED BY <1>3, <2>0, <2>3, <3>4
  <2> QED BY <2>0, <2>1, <2>2, <2>3
<1>10. i \in 0 .. n
  BY <1>2, <1>6, <1>8
<1> QED BY <1>1, <1>9, <1>10 DEF Frontier, U, u, n

LEMMA OneFrontier ==
  ASSUME NEW z, NEW now, NEW seq, NEW t, NEW i, NEW k,
         seq \in Seq(Timers), Frontier(z, now, seq, t, i), Frontier(z, now, seq, t, k)
  PROVE  i = k
<1>1. Len(seq) \in Nat /\ i \in 0 .. Len(seq) /\ k \in 0 .. Len(seq)
  BY DEF Frontier
<1>2. \A h \in 1 .. Len(seq) : h <= i <=> h <= k
  BY DEF Frontier
<1>3. CASE i < k
  <2>1. k \in 1 .. Len(seq) /\ ~(k <= i) /\ k <= k
    BY <1>1, <1>3
  <2> QED BY <1>2, <2>1
<1>4. CASE k < i
  <2>1. i \in 1 .. Len(seq) /\ ~(i <= k) /\ i <= i
    BY <1>1, <1>4
  <2> QED BY <1>2, <2>1
<1> QED BY <1>1, <1>3, <1>4

LEMMA RowSearchable ==
  ASSUME NEW z, NEW now, NEW first, Clock(now, first), ListsSound(z, now, first),
         NEW t \in Timers, OnTime(z.tm[t].timeout, now), NEW j \in Level
  PROVE  Searchable(z, now, z.row[Kind(t)][j], NONE, t)
<1> DEFINE l == Kind(t)
           seq == z.row[l][j]
<1>0. ListsTyped(z) /\ RowsAgree(z) /\ InOrder(z, now) /\ InWindow(z, now, first) /\ l \in Lists
  BY Kinds DEF ListsSound
<1>1. seq \in Seq(Timers) /\ ToSet(seq) \subseteq Timers
  BY <1>0, RowsTyped
<1>2. z.tm[t].timeout \in Ticks /\ now \in Ticks /\ Until(z.tm[t].timeout, now) < Limit
  BY <1>0, Sizes DEF ListsTyped, Clock, OnTime
<1>3. ASSUME NEW u \in ToSet(seq)
      PROVE  z.tm[u].timeout \in Ticks /\ Until(z.tm[u].timeout, now) < Limit
  <2>1. u \in ToSet(bottom(z, l)) /\ u \in Timers
    BY <1>0, <1>1 DEF RowsAgree
  <2>2. Until(z.tm[u].timeout, now) \in 0 .. Limit - 1
    BY <1>0, <2>1, Sizes DEF InWindow, Lists, Clock, OnTime
  <2> QED BY <1>0, <2>1, <2>2, Sizes DEF ListsTyped
<1>4. DOMAIN seq = 1 .. Len(seq) /\ \A k \in 1 .. Len(seq) : seq[k] \in ToSet(seq)
  BY <1>1 DEF ToSet
<1>5. ASSUME NEW i \in 1 .. Len(seq), NEW k \in 1 .. Len(seq), i < k
      PROVE  Until(z.tm[seq[i]].timeout, now) <= Until(z.tm[seq[k]].timeout, now)
  <2>1. Precedes(seq, seq[i], seq[k])
    BY <1>4, <1>5 DEF Precedes
  <2> QED BY <1>0, <1>4, <2>1 DEF InOrder
<1> QED BY <1>1, <1>2, <1>3, <1>4, <1>5 DEF Searchable

(* Where the search of a row starts when the row above has been searched.  *)
From(z, t, h, j) ==
  IF j = 0 \/ h[j - 1] = 0 THEN NONE ELSE z.row[Kind(t)][j - 1][h[j - 1]]
Frontiers(z, now, t, h) ==
  \A j \in Level : Frontier(z, now, z.row[Kind(t)][j], t, h[j])

LEMMA DownARow ==
  ASSUME NEW z, NEW now, NEW first, Clock(now, first), ListsSound(z, now, first),
         NEW t \in Timers, OnTime(z.tm[t].timeout, now), NEW h, NEW j \in Level,
         j = 0 \/ Frontier(z, now, z.row[Kind(t)][j - 1], t, h[j - 1])
  PROVE  Frontier(z, now, z.row[Kind(t)][j], t,
                  searched(z, z.row[Kind(t)][j], From(z, t, h, j), t))
<1> DEFINE seq == z.row[Kind(t)][j]
           from == From(z, t, h, j)
<1>1. Searchable(z, now, seq, NONE, t)
  BY RowSearchable
<1>2. CASE from = NONE
  BY <1>1, <1>2, SearchStep
<1>3. CASE from # NONE
  <2> DEFINE up == z.row[Kind(t)][j - 1]
             i == h[j - 1]
  <2>1. j # 0 /\ i # 0 /\ from = up[i] /\ Frontier(z, now, up, t, i)
    BY <1>3 DEF From
  <2>2. Kind(t) \in Lists /\ j - 1 \in Level \ {LastRow} /\ (j - 1) + 1 = j
    BY <2>1, Kinds
  <2>3. up \in Seq(Timers) /\ ToSet(up) \subseteq ToSet(seq)
    <3>1. ListsTyped(z) /\ RowsAgree(z)
      BY DEF ListsSound
    <3>2. up \in Seq(Timers)
      BY <2>2, <3>1, RowsTyped
    <3>3. ToSet(up) \subseteq ToSet(seq)
      BY <2>2, <3>1 DEF RowsAgree
    <3> QED BY <3>2, <3>3
  <2>4. i \in 1 .. Len(up) /\ Until(z.tm[up[i]].timeout, now) <= Until(z.tm[t].timeout, now)
    <3>1. i \in 1 .. Len(up) /\ i <= i
      BY <2>1, <2>3 DEF Frontier
    <3> QED BY <2>1, <3>1 DEF Frontier
  <2>5. from \in ToSet(seq)
    BY <2>1, <2>3, <2>4 DEF ToSet
  <2>6. \E k \in DOMAIN seq : seq[k] = from
    BY <2>5 DEF ToSet
  <2>7. Searchable(z, now, seq, from, t)
    BY <1>1, <2>1, <2>4, <2>6 DEF Searchable
  <2> QED BY <2>7, SearchStep
<1> QED BY <1>2, <1>3

LEMMA RowHeads ==
  ASSUME NEW z, NEW now, NEW first, Clock(now, first), ListsSound(z, now, first),
         NEW t \in Timers, OnTime(z.tm[t].timeout, now)
  PROVE  Frontiers(z, now, t, row_head(z, t))
<1> DEFINE rows == z.row[Kind(t)]
           F(h) == [j \in Level |-> searched(z, rows[j], From(z, t, h, j), t)]
           h == row_head(z, t)
           b == [j \in Level |-> searched(z, rows[j], NONE, t)]
<1>1. h = CHOOSE g : g = F(g)
  BY Zenon DEF row_head, From
<1>2. Kind(t) \in Lists /\ Level = 0 .. LastRow /\ LastRow \in Nat
  BY Kinds
<1>3. \A j \in Level : rows[j] \in Seq(Timers)
  BY <1>2, RowsTyped DEF ListsSound
<1>4. \A j \in Level : Frontier(z, now, rows[j], t, b[j])
  <2> SUFFICES ASSUME NEW j \in Level PROVE Frontier(z, now, rows[j], t, b[j])
    OBVIOUS
  <2>1. Searchable(z, now, rows[j], NONE, t)
    BY RowSearchable
  <2> QED BY <2>1, SearchStep
<1>5. b = F(b)
  <2>1. ASSUME NEW j \in Level PROVE b[j] = F(b)[j]
    <3>1. j = 0 \/ Frontier(z, now, rows[j - 1], t, b[j - 1])
      <4>1. j = 0 \/ j - 1 \in Level
        BY <1>2
      <4> HIDE DEF b, rows
      <4> QED BY <1>4, <4>1
    <3>2. Frontier(z, now, rows[j], t, searched(z, rows[j], From(z, t, b, j), t))
      <4> HIDE DEF b
      <4> QED BY <3>1, DownARow
    <3>3. Frontier(z, now, rows[j], t, b[j]) /\ rows[j] \in Seq(Timers)
      BY <1>3, <1>4
    <3>4. b[j] = searched(z, rows[j], From(z, t, b, j), t)
      <4> HIDE DEF b, rows
      <4> QED BY <3>2, <3>3, OneFrontier
    <3> HIDE DEF b, rows
    <3> QED BY <3>4
  <2>2. b = [j \in Level |-> b[j]] /\ F(b) = [j \in Level |-> F(b)[j]]
    OBVIOUS
  <2> HIDE DEF b, F
  <2> QED BY <2>1, <2>2
<1> HIDE DEF F, b
<1>6. h = F(h)
  <2> HIDE DEF h
  <2> QED BY <1>1, <1>5
<1> HIDE DEF h
<1>7. ASSUME NEW j \in Level, j = 0 \/ Frontier(z, now, rows[j - 1], t, h[j - 1])
      PROVE  Frontier(z, now, rows[j], t, h[j])
  <2>1. Frontier(z, now, rows[j], t, searched(z, rows[j], From(z, t, h, j), t))
    BY <1>7, DownARow
  <2>2. h[j] = searched(z, rows[j], From(z, t, h, j), t)
    <3>1. F(h)[j] = searched(z, rows[j], From(z, t, h, j), t)
      BY DEF F
    <3> QED BY <1>6, <3>1
  <2> QED BY <2>1, <2>2
<1> HIDE DEF rows
<1> DEFINE bad == {j \in Level : ~Frontier(z, now, rows[j], t, h[j])}
<1>8. bad = {}
  <2> SUFFICES ASSUME bad # {} PROVE FALSE
    OBVIOUS
  <2>1. bad \subseteq Nat
    BY <1>2
  <2>2. PICK j \in bad : \A k \in bad : j <= k
    BY <2>1, LeastOf
  <2>3. j = 0 \/ j - 1 \in Level \ bad
    BY <1>2, <2>2
  <2> QED BY <1>7, <2>2, <2>3
<1> QED BY <1>8 DEF Frontiers, rows, h

LEMMA HeightFacts ==
  ASSUME NEW nr
  PROVE  /\ LastRow \in height(nr) /\ height(nr) \subseteq Level
         /\ \A j \in height(nr) : j # LastRow => j + 1 \in height(nr)
<1> DEFINE P(k) == (nr \div 2 ^ (MaskShift * (LastRow - k))) % (RT_TIMER_SKIP_LIST_MASK + 1) = 0
<1>1. height(nr) = {j \in Level : \A k \in j + 1 .. LastRow : P(k)}
  BY DEF height
<1> HIDE DEF P
<1>2. LastRow \in Level /\ LastRow \in Nat /\ Level = 0 .. LastRow
  BY TimerAssumption DEF LastRow, Level
<1>3. \A k : k \notin LastRow + 1 .. LastRow
  BY <1>2
<1>4. ASSUME NEW j \in Level, j # LastRow
      PROVE  j + 1 \in Level /\ ((j + 1) + 1) .. LastRow \subseteq (j + 1) .. LastRow
  BY <1>2, <1>4
<1> QED BY <1>1, <1>2, <1>3, <1>4

PutRows(z, t, h, high) ==
  [j \in Level |-> IF j \in high THEN InsertAt(z.row[Kind(t)][j], h[j] + 1, t) ELSE z.row[Kind(t)][j]]
LEMMA InsertForm ==
  ASSUME NEW z, NEW t, ListsTyped(z)
  PROVE  \E nr : inserted(z, t) =
           [tm |-> [z.tm EXCEPT ![t] = [z.tm[t] EXCEPT !.active = TRUE]],
            row |-> [z.row EXCEPT ![Kind(t)] = PutRows(z, t, row_head(z, t), height(nr))],
            nr |-> nr]
<1> DEFINE nr == (z.nr + 1) % (2 ^ (MaskShift * LastRow))
           R == PutRows(z, t, row_head(z, t), height(nr))
           y == [z EXCEPT !.nr = nr, !.tm[t].active = TRUE, !.row[Kind(t)] = R]
           yes == TRUE
<1>1. inserted(z, t) = y
  BY Zenon DEF inserted, PutRows
<1> HIDE DEF nr, R, yes
<1>2. [z EXCEPT !.nr = nr, !.tm[t].active = yes, !.row[Kind(t)] = R] =
        [tm |-> [z.tm EXCEPT ![t] = [z.tm[t] EXCEPT !.active = yes]],
         row |-> [z.row EXCEPT ![Kind(t)] = R], nr |-> nr]
  <2>1. PICK tm, row, n : z = [tm |-> tm, row |-> row, nr |-> n]
    BY DEF ListsTyped
  <2>2. z.tm = tm /\ z.row = row
    BY <2>1
  <2> DEFINE w == [tm |-> tm, row |-> row, nr |-> nr]
             x == [tm |-> [tm EXCEPT ![t] = [tm[t] EXCEPT !.active = yes]], row |-> row, nr |-> nr]
  <2>3. [z EXCEPT !.nr = nr] = w
    BY <2>1
  <2>4. [w EXCEPT !.tm[t].active = yes] = x
    OBVIOUS
  <2>5. [x EXCEPT !.row[Kind(t)] = R] =
          [tm |-> [tm EXCEPT ![t] = [tm[t] EXCEPT !.active = yes]],
           row |-> [row EXCEPT ![Kind(t)] = R], nr |-> nr]
    OBVIOUS
  <2> HIDE DEF w, x
  <2>6. [z EXCEPT !.nr = nr, !.tm[t].active = yes, !.row[Kind(t)] = R] =
          [[[z EXCEPT !.nr = nr] EXCEPT !.tm[t].active = yes] EXCEPT !.row[Kind(t)] = R]
    BY <2>1
  <2> QED BY <2>2, <2>3, <2>4, <2>5, <2>6
<1>3. inserted(z, t) =
        [tm |-> [z.tm EXCEPT ![t] = [z.tm[t] EXCEPT !.active = TRUE]],
         row |-> [z.row EXCEPT ![Kind(t)] = R], nr |-> nr]
  BY <1>1, <1>2, Zenon DEF yes
<1> QED BY <1>3 DEF R

LEMMA InsertStep ==
  ASSUME NEW z, NEW now, NEW first, Clock(now, first), ListsSound(z, now, first),
         NEW t \in Timers, OnTime(z.tm[t].timeout, now), ~InList(z, t)
  PROVE  LET y == inserted(z, t) IN
         /\ ListsSound(y, now, first) /\ Touches(z, y, t)
         /\ y.tm[t].active /\ InList(y, t)
<1> DEFINE y == inserted(z, t)
           h == row_head(z, t)
           K == Kind(t)
<1>0. /\ ListsTyped(z) /\ RowsAgree(z) /\ InOrder(z, now) /\ InWindow(z, now, first)
      /\ K \in Lists /\ LastRow \in Level /\ Level = 0 .. LastRow /\ LastRow \in Nat
  BY Kinds DEF ListsSound
<1>1. PICK nr : y = [tm |-> [z.tm EXCEPT ![t] = [z.tm[t] EXCEPT !.active = TRUE]],
                     row |-> [z.row EXCEPT ![K] = PutRows(z, t, h, height(nr))], nr |-> nr]
  BY <1>0, InsertForm
<1> DEFINE high == height(nr)
           Rows == PutRows(z, t, h, high)
<1>2. LastRow \in high /\ high \subseteq Level /\ \A j \in high : j # LastRow => j + 1 \in high
  BY HeightFacts
<1>3. \A j \in Level : Frontier(z, now, z.row[K][j], t, h[j])
  BY RowHeads DEF Frontiers
<1> HIDE DEF y, h, high
<1>4. /\ \A u \in Timers : u # t => y.tm[u] = z.tm[u]
      /\ y.tm[t].active /\ y.tm[t].timeout = z.tm[t].timeout
      /\ y.tm[t].periodic = z.tm[t].periodic /\ y.tm[t].init = z.tm[t].init
  BY <1>0, <1>1 DEF ListsTyped
<1>5. \A l \in Lists : y.row[l] = IF l = K THEN Rows ELSE z.row[l]
  BY <1>0, <1>1 DEF ListsTyped, high
<1>6. \A j \in Level : Rows[j] = IF j \in high THEN InsertAt(z.row[K][j], h[j] + 1, t) ELSE z.row[K][j]
  BY DEF PutRows
<1> HIDE DEF Rows
<1> DEFINE Before(u) == Until(z.tm[u].timeout, now) <= Until(z.tm[t].timeout, now)
<1>7. ASSUME NEW j \in high
      PROVE  LET m == y.row[K][j]
                 r == z.row[K][j]
             IN  /\ m \in Seq(Timers) /\ ToSet(m) = ToSet(r) \cup {t} /\ IsInjective(m) /\ t \notin ToSet(r)
                 /\ \A a, b : Precedes(r, a, b) => Precedes(m, a, b)
                 /\ \A a \in ToSet(r) : IF Before(a) THEN Precedes(m, a, t) ELSE Precedes(m, t, a)
                 /\ \A a, b : Precedes(m, a, b) =>
                      \/ Precedes(r, a, b)
                      \/ b = t /\ a \in ToSet(r) /\ Before(a)
                      \/ a = t /\ b \in ToSet(r) /\ ~Before(b)
  <2> DEFINE r == z.row[K][j]
             m == InsertAt(r, h[j] + 1, t)
  <2>1. j \in Level /\ y.row[K][j] = m
    BY <1>0, <1>2, <1>5, <1>6, <1>7
  <2>2. r \in Seq(Timers) /\ IsInjective(r)
    BY <1>0, <2>1, RowsTyped DEF RowsAgree
  <2>3. t \notin ToSet(r)
    BY <1>0, <2>1, OneList
  <2>4. Frontier(z, now, r, t, h[j]) /\ Len(r) \in Nat /\ DOMAIN r = 1 .. Len(r)
    BY <1>3, <2>1, <2>2
  <2>5. h[j] \in 0 .. Len(r) /\ \A k \in DOMAIN r : k <= h[j] <=> Before(r[k])
    BY <2>4 DEF Frontier
  <2> HIDE DEF Before
  <2>6. h[j] + 1 \in 1 .. (Len(r) + 1) /\ \A k \in DOMAIN r : k < h[j] + 1 <=> Before(r[k])
    BY <2>4, <2>5
  <2> HIDE DEF r
  <2>7. /\ m \in Seq(Timers) /\ ToSet(m) = ToSet(r) \cup {t} /\ IsInjective(m)
        /\ \A a, b : Precedes(r, a, b) => Precedes(m, a, b)
        /\ \A i \in DOMAIN r : IF i < h[j] + 1 THEN Precedes(m, r[i], t) ELSE Precedes(m, t, r[i])
        /\ \A a, b : Precedes(m, a, b) =>
             \/ Precedes(r, a, b)
             \/ b = t /\ \E i \in DOMAIN r : i < h[j] + 1 /\ r[i] = a
             \/ a = t /\ \E i \in DOMAIN r : i >= h[j] + 1 /\ r[i] = b
    BY <2>2, <2>3, <2>6, PutIn
  <2> HIDE DEF m
  <2>8. ASSUME NEW a \in ToSet(r) PROVE IF Before(a) THEN Precedes(m, a, t) ELSE Precedes(m, t, a)
    <3>1. PICK i \in DOMAIN r : r[i] = a
      BY <2>8 DEF ToSet
    <3> QED BY <2>6, <2>7, <3>1
  <2>9. ASSUME NEW a, NEW b, Precedes(m, a, b)
        PROVE  \/ Precedes(r, a, b)
               \/ b = t /\ a \in ToSet(r) /\ Before(a)
               \/ a = t /\ b \in ToSet(r) /\ ~Before(b)
    <3>1. \A i \in DOMAIN r : i \in Nat /\ r[i] \in ToSet(r) /\ h[j] \in Nat
      BY <2>4, <2>5 DEF ToSet
    <3>2. \A i \in DOMAIN r : i >= h[j] + 1 => ~Before(r[i])
      BY <2>6, <3>1
    <3> QED BY <2>6, <2>7, <2>9, <3>1, <3>2
  <2> QED BY <2>1, <2>3, <2>7, <2>8, <2>9 DEF r
<1>8. ASSUME NEW l \in Lists, NEW j \in Level, l # K \/ j \notin high
      PROVE  y.row[l][j] = z.row[l][j]
  BY <1>5, <1>6, <1>8
<1>9. ASSUME NEW l \in Lists, NEW j \in Level
      PROVE  LET m == y.row[l][j]
                 r == z.row[l][j]
             IN  /\ m \in Seq(Timers) /\ IsInjective(m)
                 /\ ToSet(m) = IF l = K /\ j \in high THEN ToSet(r) \cup {t} ELSE ToSet(r)
                 /\ \A a, b : Precedes(r, a, b) => Precedes(m, a, b)
  <2>1. CASE l = K /\ j \in high
    BY <1>7, <2>1
  <2>2. CASE l # K \/ j \notin high
    <3>1. z.row[l][j] \in Seq(Timers) /\ IsInjective(z.row[l][j])
      BY <1>0, <1>9, RowsTyped DEF RowsAgree
    <3> QED BY <1>8, <1>9, <2>2, <3>1
  <2> QED BY <2>1, <2>2
<1>10. ListsTyped(y)
  <2>1. y.row \in [Lists -> [Level -> Seq(Timers)]]
    <3>1. \A l \in Lists : y.row[l] \in [Level -> Seq(Timers)]
      <4> SUFFICES ASSUME NEW l \in Lists PROVE y.row[l] \in [Level -> Seq(Timers)]
        OBVIOUS
      <4>1. CASE l = K
        <5>1. y.row[l] = Rows
          BY <1>5, <4>1
        <5>2. Rows = [j \in Level |-> Rows[j]]
          BY DEF Rows, PutRows
        <5>3. \A j \in Level : Rows[j] \in Seq(Timers)
          BY <1>9, <5>1
        <5> QED BY <5>1, <5>2, <5>3
      <4>2. CASE l # K
        BY <1>0, <1>5, <4>2 DEF ListsTyped
      <4> QED BY <4>1, <4>2
    <3>2. DOMAIN y.row = Lists
      BY <1>0, <1>1 DEF ListsTyped
    <3>3. y.row = [l \in Lists |-> y.row[l]]
      <4>1. y.row = [z.row EXCEPT ![K] = PutRows(z, t, h, height(nr))]
        BY <1>1
      <4> QED BY <3>2, <4>1
    <3> QED BY <3>1, <3>3
  <2>2. y.tm \in [Timers -> [active : BOOLEAN, timeout : Ticks, periodic : BOOLEAN, init : Delays]]
    BY <1>0, <1>1 DEF ListsTyped
  <2>3. y = [tm |-> y.tm, row |-> y.row, nr |-> y.nr]
    BY <1>1
  <2> QED BY <2>1, <2>2, <2>3 DEF ListsTyped
<1>11. \A l \in Lists : ToSet(bottom(y, l)) = IF l = K THEN ToSet(bottom(z, l)) \cup {t} ELSE ToSet(bottom(z, l))
  BY <1>0, <1>2, <1>9 DEF bottom
<1>12. RowsAgree(y)
  <2> SUFFICES ASSUME NEW l \in Lists
               PROVE  /\ \A j \in Level : LET r == y.row[l][j] IN
                           IsInjective(r) /\ ToSet(r) \subseteq ToSet(bottom(y, l)) /\ \A u \in ToSet(r) : Kind(u) = l
                      /\ \A j \in Level \ {LastRow} : LET up == y.row[l][j]
                                                        down == y.row[l][j + 1] IN
                           /\ ToSet(up) \subseteq ToSet(down)
                           /\ \A a, b \in ToSet(up) : Precedes(up, a, b) => Precedes(down, a, b)
    BY DEF RowsAgree
  <2>1. ASSUME NEW j \in Level
        PROVE  LET r == y.row[l][j] IN
               IsInjective(r) /\ ToSet(r) \subseteq ToSet(bottom(y, l)) /\ \A u \in ToSet(r) : Kind(u) = l
    <3>1. ToSet(z.row[l][j]) \subseteq ToSet(bottom(z, l)) /\ \A u \in ToSet(z.row[l][j]) : Kind(u) = l
      BY <1>0, <2>1 DEF RowsAgree
    <3>2. t \in Timers /\ (l = K => Kind(t) = l)
      OBVIOUS
    <3>3. IsInjective(y.row[l][j]) /\ (ToSet(y.row[l][j]) \subseteq
            IF l = K THEN ToSet(z.row[l][j]) \cup {t} ELSE ToSet(z.row[l][j]))
      BY <1>9, <2>1
    <3>4. ToSet(y.row[l][j]) \subseteq ToSet(bottom(y, l))
      BY <1>9, <1>2, <1>11, <2>1, <3>1
    <3> QED BY <3>1, <3>2, <3>3, <3>4
  <2>2. ASSUME NEW j \in Level \ {LastRow}
        PROVE  LET up == y.row[l][j]
                   down == y.row[l][j + 1]
               IN  /\ ToSet(up) \subseteq ToSet(down)
                   /\ \A a, b \in ToSet(up) : Precedes(up, a, b) => Precedes(down, a, b)
    <3>1. j \in Level /\ j + 1 \in Level
      BY <1>0, <2>2
    <3>2. /\ ToSet(z.row[l][j]) \subseteq ToSet(z.row[l][j + 1])
          /\ \A a, b \in ToSet(z.row[l][j]) : Precedes(z.row[l][j], a, b) => Precedes(z.row[l][j + 1], a, b)
      BY <1>0, <2>2 DEF RowsAgree
    <3>3. \A a, b : Precedes(z.row[l][j + 1], a, b) => Precedes(y.row[l][j + 1], a, b)
      BY <1>9, <3>1
    <3>4. \A a, b : Precedes(z.row[l][j], a, b) => a \in ToSet(z.row[l][j]) /\ b \in ToSet(z.row[l][j])
      BY DEF Precedes, ToSet
    <3>5. CASE l = K /\ j \in high
      <4>1. j + 1 \in high
        BY <1>2, <2>2, <3>5
      <4>2. ToSet(y.row[l][j]) \subseteq ToSet(y.row[l][j + 1])
        BY <1>7, <3>2, <3>5, <4>1
      <4>3. ASSUME NEW a, NEW b, Precedes(y.row[l][j], a, b) PROVE Precedes(y.row[l][j + 1], a, b)
        <5>1. \/ Precedes(z.row[l][j], a, b)
              \/ b = t /\ a \in ToSet(z.row[l][j]) /\ Before(a)
              \/ a = t /\ b \in ToSet(z.row[l][j]) /\ ~Before(b)
          BY <1>7, <3>5, <4>3
        <5>2. \A u \in ToSet(z.row[l][j + 1]) :
                IF Before(u) THEN Precedes(y.row[l][j + 1], u, t) ELSE Precedes(y.row[l][j + 1], t, u)
          BY <1>7, <3>5, <4>1
        <5> HIDE DEF Before
        <5> QED BY <3>2, <3>3, <3>4, <5>1, <5>2
      <4> QED BY <4>2, <4>3
    <3>6. CASE ~(l = K /\ j \in high)
      <4>1. y.row[l][j] = z.row[l][j]
        BY <1>8, <3>1, <3>6
      <4>2. ToSet(z.row[l][j + 1]) \subseteq ToSet(y.row[l][j + 1])
        BY <1>9, <3>1
      <4> QED BY <3>2, <3>3, <4>1, <4>2
    <3> QED BY <3>5, <3>6
  <2> QED BY <2>1, <2>2
<1>13. \A u \in Timers : y.tm[u].timeout = z.tm[u].timeout
  BY <1>4
<1>14. \A l \in Lists : \A j \in Level : ToSet(y.row[l][j]) \subseteq Timers
  BY <1>9 DEF ToSet
<1>15. InOrder(y, now)
  <2> SUFFICES ASSUME NEW l \in Lists, NEW j \in Level,
                      NEW a \in ToSet(y.row[l][j]), NEW b \in ToSet(y.row[l][j]),
                      Precedes(y.row[l][j], a, b)
               PROVE  Until(y.tm[a].timeout, now) <= Until(y.tm[b].timeout, now)
    BY DEF InOrder
  <2>1. a \in Timers /\ b \in Timers
    BY <1>14
  <2>2. SUFFICES Until(z.tm[a].timeout, now) <= Until(z.tm[b].timeout, now)
    BY <1>13, <2>1
  <2>3. \A c, d \in ToSet(z.row[l][j]) : Precedes(z.row[l][j], c, d) =>
          Until(z.tm[c].timeout, now) <= Until(z.tm[d].timeout, now)
    BY <1>0 DEF InOrder
  <2>4. \A c, d : Precedes(z.row[l][j], c, d) => c \in ToSet(z.row[l][j]) /\ d \in ToSet(z.row[l][j])
    BY DEF Precedes, ToSet
  <2>5. CASE l = K /\ j \in high
    <3>1. \/ Precedes(z.row[l][j], a, b)
          \/ b = t /\ Before(a)
          \/ a = t /\ ~Before(b)
      BY <1>7, <2>5
    <3>2. \A u \in Timers : Until(z.tm[u].timeout, now) \in Int
      <4>1. now \in Ticks /\ \A u \in Timers : z.tm[u].timeout \in Ticks
        BY <1>0 DEF ListsTyped, Clock
      <4>2. \A x \in Ticks : Until(x, now) \in Ticks
        BY <4>1, UntilValue
      <4> QED BY <4>1, <4>2, Sizes
    <3> QED BY <2>1, <2>3, <2>4, <3>1, <3>2
  <2>6. CASE ~(l = K /\ j \in high)
    BY <1>8, <2>3, <2>4, <2>6
  <2> QED BY <2>5, <2>6
<1>16. InWindow(y, now, first)
  <2>1. ASSUME NEW l \in Lists, NEW u \in ToSet(bottom(y, l))
        PROVE  /\ u \in ToSet(bottom(z, l)) \/ OnTime(z.tm[u].timeout, now)
               /\ y.tm[u].timeout = z.tm[u].timeout
    <3>1. u \in ToSet(bottom(z, l)) \/ u = t
      BY <1>11, <2>1
    <3>2. u \in Timers
      BY <1>0, <1>14, <2>1 DEF bottom
    <3> QED BY <1>13, <3>1, <3>2
  <2>2. first \in {0, 1} /\ Limit \in Nat
    BY Sizes DEF Clock
  <2>3. \A x : OnTime(x, now) => Until(x, now) \in first .. Limit - 1
    BY <2>2 DEF OnTime
  <2> QED BY <1>0, <2>1, <2>3 DEF InWindow, Lists
<1>17. ASSUME NEW u \in Timers PROVE InList(y, u) <=> InList(z, u) \/ u = t
  <2>1. Kind(u) \in Lists
    BY Kinds
  <2>2. InList(y, u) => InList(z, u) \/ u = t
    BY <1>11, <2>1 DEF InList
  <2>3. InList(z, u) => InList(y, u)
    BY <1>11, <2>1 DEF InList
  <2>4. u = t => InList(y, u)
    BY <1>11, <2>1 DEF InList
  <2> QED BY <2>2, <2>3, <2>4
<1>18. Touches(z, y, t)
  BY <1>4, <1>5, <1>17 DEF Touches, OthersStay
<1> QED BY <1>4, <1>10, <1>12, <1>15, <1>16, <1>17, <1>18 DEF y, ListsSound

LEMMA TouchesTwice ==
  ASSUME NEW z, NEW y, NEW x, NEW t, Touches(z, y, t), Touches(y, x, t)
  PROVE  Touches(z, x, t)
BY DEF Touches, OthersStay

LEMMA PrepareStep ==
  ASSUME NEW z, NEW first, Clock(tick, first), ListsSound(z, tick, first), NEW t \in Timers
  PROVE  LET y == prepared(z, t) IN
         /\ ListsSound(y, tick, first) /\ Touches(z, y, t)
         /\ ~y.tm[t].active /\ OnTime(y.tm[t].timeout, tick) /\ ~InList(y, t)
<1> DEFINE x == _rt_timer_remove(z, t)
           w == flagged(x, t, FALSE)
           d == w.tm[t].init
           y == [w EXCEPT !.tm[t].timeout = (tick + d) % TickMod]
<1>1. ListsSound(x, tick, first) /\ Touches(z, x, t) /\ ~InList(x, t)
  BY RemoveStep
<1> HIDE DEF x
<1>2. ListsSound(w, tick, first) /\ Touches(x, w, t) /\ ~w.tm[t].active /\ ~InList(w, t)
  <2>1. FALSE \in BOOLEAN
    OBVIOUS
  <2> QED BY <1>1, <2>1, FlagStep
<1>3. prepared(z, t) = y
  BY Zenon DEF prepared, x
<1> HIDE DEF w
<1>4. d \in Delays
  BY <1>2 DEF ListsSound, ListsTyped
<1>5. (tick + d) % TickMod \in Ticks /\ OnTime((tick + d) % TickMod, tick)
  BY <1>4, NewTimeout DEF Clock
<1> HIDE DEF d
<1>6. /\ ListsSound(y, tick, first) /\ Touches(w, y, t)
      /\ y.tm[t].active = w.tm[t].active /\ y.tm[t].timeout = (tick + d) % TickMod /\ ~InList(y, t)
  BY <1>2, <1>5, TimeStep
<1> HIDE DEF y
<1>7. Touches(z, y, t)
  BY <1>1, <1>2, <1>6, TouchesTwice
<1> QED BY <1>2, <1>3, <1>5, <1>6, <1>7

LEMMA StartStep ==
  ASSUME NEW z, NEW first, Clock(tick, first), ListsSound(z, tick, first), NEW t \in Timers
  PROVE  LET y == started(z, t) IN
         /\ ListsSound(y, tick, first) /\ Touches(z, y, t)
         /\ y.tm[t].active /\ InList(y, t)
<1> DEFINE x == prepared(z, t)
           y == started(z, t)
<1>1. /\ ListsSound(x, tick, first) /\ Touches(z, x, t)
      /\ OnTime(x.tm[t].timeout, tick) /\ ~InList(x, t)
  BY PrepareStep
<1>2. y = inserted(x, t)
  BY DEF started
<1> HIDE DEF x, y
<1>3. ListsSound(y, tick, first) /\ Touches(x, y, t) /\ y.tm[t].active /\ InList(y, t)
  BY <1>1, <1>2, InsertStep
<1> QED BY <1>1, <1>3, TouchesTwice DEF y

LEMMA StopStep ==
  ASSUME NEW z, NEW first, Clock(tick, first), ListsSound(z, tick, first), NEW t \in Timers,
         InList(z, t) => z.tm[t].active
  PROVE  LET y == stopped(z, t) IN
         /\ ListsSound(y, tick, first) /\ Touches(z, y, t)
         /\ ~y.tm[t].active /\ ~InList(y, t)
         /\ ~z.tm[t].active => y = z
<1> DEFINE x == _rt_timer_remove(z, t)
           y == stopped(z, t)
<1>1. CASE z.tm[t].active
  <2>1. ListsSound(x, tick, first) /\ Touches(z, x, t) /\ ~InList(x, t)
    BY RemoveStep
  <2>2. y = flagged(x, t, FALSE)
    BY <1>1 DEF stopped
  <2> HIDE DEF x, y
  <2>3. FALSE \in BOOLEAN
    OBVIOUS
  <2>4. ListsSound(y, tick, first) /\ Touches(x, y, t) /\ ~y.tm[t].active /\ ~InList(y, t)
    BY <2>1, <2>2, <2>3, FlagStep
  <2> QED BY <1>1, <2>1, <2>4, TouchesTwice DEF y
<1>2. CASE ~z.tm[t].active
  <2>1. y = z
    BY <1>2 DEF stopped
  <2> HIDE DEF y
  <2>2. Touches(z, z, t)
    BY DEF Touches, OthersStay
  <2> QED BY <1>2, <2>1, <2>2 DEF y
<1> QED BY <1>1, <1>2

(* The first of a list is due first.                                       *)
LEMMA HeadFirst ==
  ASSUME NEW z, NEW now, NEW first, Clock(now, first), ListsSound(z, now, first), NEW l \in Lists,
         bottom(z, l) # <<>>
  PROVE  LET h == Head(bottom(z, l)) IN
         /\ h \in ToSet(bottom(z, l)) /\ h \in Timers /\ Kind(h) = l /\ InList(z, h)
         /\ z.tm[h].timeout \in Ticks /\ Until(z.tm[h].timeout, now) \in first .. Limit - 1
         /\ \A u \in ToSet(bottom(z, l)) :
              Until(z.tm[h].timeout, now) <= Until(z.tm[u].timeout, now)
<1> DEFINE r == bottom(z, l)
           h == Head(r)
<1>0. /\ ListsTyped(z) /\ RowsAgree(z) /\ InOrder(z, now) /\ InWindow(z, now, first)
      /\ LastRow \in Level /\ r = z.row[l][LastRow]
  BY TimerAssumption DEF ListsSound, bottom, LastRow, Level
<1>1. r \in Seq(Timers) /\ ToSet(r) \subseteq Timers
  BY <1>0, RowsTyped
<1>2. Len(r) \in Nat \ {0} /\ DOMAIN r = 1 .. Len(r) /\ 1 \in DOMAIN r /\ h = r[1]
  BY <1>1
<1>3. h \in ToSet(r) /\ h \in Timers
  BY <1>1, <1>2 DEF ToSet
<1>4. Kind(h) = l /\ InList(z, h)
  BY <1>0, <1>3, OneList
<1>5. z.tm[h].timeout \in Ticks
  BY <1>0, <1>3 DEF ListsTyped
<1>6. Until(z.tm[h].timeout, now) \in first .. Limit - 1
  <2>1. first \in {0, 1} /\ Limit \in Nat
    BY Sizes DEF Clock
  <2> QED BY <1>0, <1>3, <2>1 DEF InWindow, Lists, OnTime
<1>7. ASSUME NEW u \in ToSet(r)
      PROVE  Until(z.tm[h].timeout, now) <= Until(z.tm[u].timeout, now)
  <2>1. PICK i \in DOMAIN r : r[i] = u
    BY <1>7 DEF ToSet
  <2>2. CASE i = 1
    <3>1. Until(z.tm[h].timeout, now) \in Int
      BY <1>6, Sizes DEF Clock
    <3> QED BY <1>2, <2>1, <2>2, <3>1
  <2>3. CASE i # 1
    <3>1. 1 < i
      BY <1>2, <2>3
    <3>2. Precedes(r, h, u)
      BY <1>2, <2>1, <3>1 DEF Precedes
    <3> QED BY <1>0, <1>3, <3>2 DEF InOrder
  <2> QED BY <2>2, <2>3
<1> QED BY <1>3, <1>4, <1>5, <1>6, <1>7

(* The tick goes on, and the interrupt looks at the hard timers.           *)
LEMMA TickLists ==
  ASSUME NEW z, NEW now \in Ticks, ListsSound(z, now, 1),
         \A t \in ToSet(bottom(z, "soft")) : Until(z.tm[t].timeout, now) >= 2
  PROVE  ListsSound(z, (now + 1) % TickMod, 0)
<1> DEFINE next == (now + 1) % TickMod
<1>0. ListsTyped(z) /\ RowsAgree(z) /\ InOrder(z, now) /\ InWindow(z, now, 1)
  BY DEF ListsSound
<1>1. ASSUME NEW l \in Lists, NEW t \in ToSet(bottom(z, l))
      PROVE  /\ z.tm[t].timeout \in Ticks /\ Until(z.tm[t].timeout, now) \in 1 .. Limit - 1
             /\ Until(z.tm[t].timeout, next) = Until(z.tm[t].timeout, now) - 1
  <2>1. LastRow \in Level
    BY TimerAssumption DEF LastRow, Level
  <2>2. t \in Timers
    BY <1>0, <1>1, <2>1, RowsTyped DEF bottom
  <2>3. z.tm[t].timeout \in Ticks
    BY <1>0, <2>2 DEF ListsTyped
  <2>4. Until(z.tm[t].timeout, now) \in 1 .. Limit - 1
    BY <1>0, <1>1 DEF InWindow, Lists, OnTime
  <2>5. Until(z.tm[t].timeout, now) >= 1
    BY <2>4, Sizes
  <2> QED BY <2>3, <2>4, <2>5, TickPasses
<1> HIDE DEF next
<1>2. InOrder(z, next)
  <2> SUFFICES ASSUME NEW l \in Lists, NEW j \in Level,
                      NEW a \in ToSet(z.row[l][j]), NEW b \in ToSet(z.row[l][j]),
                      Precedes(z.row[l][j], a, b)
               PROVE  Until(z.tm[a].timeout, next) <= Until(z.tm[b].timeout, next)
    BY DEF InOrder
  <2>1. a \in ToSet(bottom(z, l)) /\ b \in ToSet(bottom(z, l))
    BY <1>0 DEF RowsAgree
  <2>2. Until(z.tm[a].timeout, now) <= Until(z.tm[b].timeout, now)
    BY <1>0 DEF InOrder
  <2>3. Until(z.tm[a].timeout, now) \in Int /\ Until(z.tm[b].timeout, now) \in Int
    BY <1>1, <2>1, Sizes
  <2> QED BY <1>1, <2>1, <2>2, <2>3
<1>3. InWindow(z, next, 0)
  <2>1. Limit \in Nat
    BY Sizes
  <2>2. ASSUME NEW t \in ToSet(bottom(z, "hard")) PROVE Until(z.tm[t].timeout, next) \in 0 .. Limit - 1
    BY <1>1, <2>1, <2>2 DEF Lists
  <2>3. ASSUME NEW t \in ToSet(bottom(z, "soft")) PROVE Until(z.tm[t].timeout, next) \in 1 .. Limit - 1
    BY <1>1, <2>1, <2>3 DEF Lists
  <2> QED BY <2>2, <2>3 DEF InWindow, OnTime
<1> QED BY <1>0, <1>2, <1>3 DEF ListsSound, next

LEMMA CheckedLists ==
  ASSUME NEW z, Clock(tick, 0), ListsSound(z, tick, 0), ~checks(z)
  PROVE  /\ ListsSound(z, tick, 1)
         /\ \A t \in ToSet(bottom(z, "hard")) : ~due(z, t, tick)
<1> DEFINE r == bottom(z, "hard")
           h == Head(r)
           U(t) == Until(z.tm[t].timeout, tick)
<1>0. ListsTyped(z) /\ RowsAgree(z) /\ InOrder(z, tick) /\ InWindow(z, tick, 0) /\ tick \in Ticks
  BY DEF ListsSound, Clock
<1>1. ASSUME NEW t \in ToSet(r)
      PROVE  U(t) \in MaxLate + 2 .. Limit - 1 /\ ~due(z, t, tick)
  <2>1. r # <<>> /\ "hard" \in Lists
    BY <1>1 DEF ToSet, Lists
  <2>2. z.tm[h].timeout \in Ticks /\ U(h) \in 0 .. Limit - 1 /\ U(h) <= U(t)
    BY <1>1, <2>1, HeadFirst
  <2>3. t \in Timers
    <3>1. LastRow \in Level
      BY TimerAssumption DEF LastRow, Level
    <3> QED BY <1>0, <1>1, <2>1, <3>1, RowsTyped DEF bottom
  <2>4. z.tm[t].timeout \in Ticks /\ U(t) \in 0 .. Limit - 1
    BY <1>0, <1>1, <2>3 DEF ListsTyped, InWindow
  <2>5. ~half(minus(tick, z.tm[h].timeout))
    BY <2>1 DEF checks, checks_due, due
  <2>6. U(h) < Limit /\ U(t) < Limit
    BY <2>2, <2>4, Sizes
  <2>7. ~(U(h) <= MaxLate + 1)
    BY <1>0, <2>2, <2>5, <2>6, DueWhen
  <2>8. ~(U(t) <= MaxLate + 1)
    BY <2>2, <2>4, <2>7, Sizes
  <2>9. ~due(z, t, tick)
    BY <1>0, <2>4, <2>6, <2>8, DueWhen DEF due
  <2> QED BY <2>4, <2>8, <2>9, Sizes
<1>2. InWindow(z, tick, 1)
  <2>1. \A t \in ToSet(r) : U(t) \in 1 .. Limit - 1
    BY <1>1, Sizes
  <2> QED BY <1>0, <2>1 DEF InWindow
<1> QED BY <1>0, <1>1, <1>2 DEF ListsSound

-----------------------------------------------------------------------------
(***************************************************************************)
(* The invariant holds at the beginning.                                   *)
(***************************************************************************)
LEMMA ProgramFacts ==
  ASSUME program \in Programs
  PROVE  /\ \A t \in Timers : program.func[t] \in Does /\ program.func[t].on \in Timers
         /\ program.owned \subseteq Timers /\ program.set \subseteq Timers
         /\ program.periodic \subseteq Timers
         /\ NONE \notin Timers /\ Soft \subseteq Timers
         /\ Careful => Disciplined(program)
<1>1. program \in [func : [Timers -> Does], periodic : SUBSET Timers,
                   owned : SUBSET Timers, set : SUBSET Timers]
  BY TimerAssumption
<1> QED BY <1>1, TimerAssumption DEF Does

LEMMA LongestDelay == \E d \in Delays : \A e \in Delays : d >= e
<1> DEFINE N == {Limit - d : d \in Delays}
<1>1. N \subseteq Nat /\ N # {}
  BY Sizes, TimerAssumption
<1>2. PICK i \in N : \A j \in N : i <= j
  BY <1>1, LeastOf
<1>3. PICK d \in Delays : i = Limit - d
  BY <1>2
<1>4. ASSUME NEW e \in Delays PROVE d >= e
  <2>1. i <= Limit - e
    BY <1>2, <1>4
  <2> QED BY <1>3, <2>1, Sizes
<1> QED BY <1>4

LEMMA TimerInitial ==
  ASSUME Careful, TimerInit
  PROVE  TimerInv
<1> DEFINE longest == CHOOSE d \in Delays : \A e \in Delays : d >= e
<1>1. longest \in Delays
  BY LongestDelay
<1>2. program \in Programs /\ tick = 0 /\ isr = "off"
  BY DEF TimerInit
<1>3. /\ \A t \in Timers : program.func[t] \in Does /\ program.func[t].on \in Timers
      /\ NONE \notin Timers /\ Disciplined(program)
  BY <1>2, ProgramFacts
<1>4. s = [tm |-> [t \in Timers |-> [active |-> FALSE, timeout |-> 0,
                                     periodic |-> t \in program.periodic, init |-> longest]],
           row |-> [l \in Lists |-> [j \in Level |-> <<>>]], nr |-> 0]
  BY DEF TimerInit, Lists
<1> HIDE DEF longest
<1>5. 0 \in Ticks
  BY Sizes
<1>6. s.tm = [t \in Timers |-> [active |-> FALSE, timeout |-> 0,
                                periodic |-> t \in program.periodic, init |-> longest]]
  BY <1>4
<1>7. /\ s.row = [l \in Lists |-> [j \in Level |-> <<>>]]
      /\ s = [tm |-> s.tm, row |-> s.row, nr |-> s.nr]
  BY <1>4
<1>8. s.tm \in [Timers -> [active : BOOLEAN, timeout : Ticks, periodic : BOOLEAN, init : Delays]]
  BY <1>1, <1>5, <1>6
<1>9. ListsTyped(s)
  <2>1. <<>> \in Seq(Timers)
    OBVIOUS
  <2> QED BY <1>7, <1>8, <2>1 DEF ListsTyped
<1>10. \A l \in Lists : \A j \in Level : s.row[l][j] = <<>>
  BY <1>7
<1>11. LastRow \in Level /\ LastRow \in Nat /\ Level = 0 .. LastRow
  BY TimerAssumption DEF LastRow, Level
<1>12. \A l \in Lists : bottom(s, l) = <<>>
  BY <1>10, <1>11 DEF bottom
<1>13. ToSet(<<>>) = {} /\ IsInjective(<<>>)
  BY DEF ToSet, IsInjective
<1>14. ListsSound(s, tick, First)
  <2>1. RowsAgree(s)
    BY <1>10, <1>11, <1>12, <1>13 DEF RowsAgree
  <2>2. InOrder(s, tick)
    BY <1>10, <1>13 DEF InOrder
  <2>3. InWindow(s, tick, First)
    BY <1>12, <1>13 DEF InWindow, Lists
  <2> QED BY <1>9, <2>1, <2>2, <2>3 DEF ListsSound
<1>15. \A t \in Timers : ~s.tm[t].active /\ ~InList(s, t) /\ (s.tm[t].periodic <=> t \in program.periodic)
  <2>1. \A t \in Timers : ~InList(s, t)
    BY <1>12, <1>13, Kinds DEF InList
  <2>2. \A t \in Timers : s.tm[t].active = FALSE /\ s.tm[t].periodic = (t \in program.periodic)
    <3> SUFFICES ASSUME NEW t \in Timers
                 PROVE  s.tm[t].active = FALSE /\ s.tm[t].periodic = (t \in program.periodic)
      OBVIOUS
    <3>1. s.tm[t] = [active |-> FALSE, timeout |-> 0, periodic |-> t \in program.periodic,
                     init |-> longest]
      BY <1>6
    <3> QED BY <3>1
  <2> QED BY <2>1, <2>2
<1>16. \A c \in Clients : tcall[c] = NoTcall
  BY DEF TimerInit
<1>17. tt = [pc |-> "entry", n |-> NONE, t |-> NONE, next |-> 0, cur |-> 0]
  BY DEF TimerInit
<1>18. TimerTypes
  <2>1. tcall \in [Clients -> [stage : TimerStages, t : Timers \cup {NONE}]]
    BY DEF TimerInit, NoTcall, TimerStages
  <2> QED BY <1>2, <1>5, <1>17, <2>1 DEF TimerTypes, ThreadStages
<1>19. FlagsTell
  BY <1>3, <1>15 DEF FlagsTell, Disciplined
<1>20. CallsSound
  BY <1>16 DEF CallsSound, CallSound, NoTcall
<1>21. ThreadSound
  BY <1>17 DEF ThreadSound, FunctionSound, NoteSound, SleepSound
<1> QED BY <1>14, <1>18, <1>19, <1>20, <1>21 DEF TimerInv

-----------------------------------------------------------------------------
(***************************************************************************)
(* The flags, the calls and the timer thread, when one timer is touched.   *)
(***************************************************************************)
SelfStarts(t) == t \notin Soft /\ program.func[t].op = "start" /\ program.func[t].on = t
Clears(c, t) == tcall[c] = [stage |-> "clear", t |-> t]

LEMMA NowClock ==
  ASSUME TimerInv
  PROVE  Clock(tick, First) /\ ListsSound(s, tick, First) /\ (isr = "off" => First = 1)
         /\ (isr = "check" => First = 0) /\ ListsTyped(s)
BY DEF TimerInv, TimerTypes, Clock, First, ListsSound

(* The flag of the timer t fits, the others and who excuses them stay.     *)
FlagFits(t) ==
  /\ InList(s, t) => s.tm[t].active
  /\ s.tm[t].active /\ ~InList(s, t) => tt.t = t \/ \E c \in Clients : Clears(c, t)
  /\ SelfStarts(t) => s.tm[t].periodic
LEMMA FlagsByTimer == FlagsTell <=> \A t \in Timers : FlagFits(t)
BY DEF FlagsTell, FlagFits, SelfStarts, Clears

LEMMA FlagsKept ==
  ASSUME FlagsTell, NEW t \in Timers, OthersStay(s, s', t), program' = program, FlagFits(t)',
         \A u \in Timers : u # t /\ tt.t = u => tt'.t = u,
         \A c \in Clients, u \in Timers : u # t /\ Clears(c, u) => Clears(c, u)'
  PROVE  FlagsTell'
<1> SUFFICES ASSUME NEW u \in Timers PROVE FlagFits(u)'
  BY DEF FlagsTell, FlagFits, SelfStarts, Clears
<1>1. CASE u = t
  BY <1>1
<1>2. CASE u # t
  <2>1. FlagFits(u)
    BY FlagsByTimer
  <2>2. s'.tm[u] = s.tm[u] /\ (InList(s', u) <=> InList(s, u))
    BY <1>2 DEF OthersStay
  <2>3. SelfStarts(u)' <=> SelfStarts(u)
    BY DEF SelfStarts
  <2>4. InList(s, u)' <=> InList(s', u)
    BY DEF InList, bottom
  <2>5. (\E c \in Clients : Clears(c, u)) => (\E c \in Clients : Clears(c, u)')
    BY <1>2
  <2>6. tt.t = u => tt'.t = u
    BY <1>2
  <2> QED BY <2>1, <2>2, <2>3, <2>4, <2>5, <2>6 DEF FlagFits
<1> QED BY <1>1, <1>2

(* A call of the thread c on the timer t goes on.                          *)
Calls(c, t, stage) ==
  /\ tcall' = [tcall EXCEPT ![c] = [stage |-> stage, t |-> t]]
LEMMA CallsKept ==
  ASSUME TimerTypes, CallsSound, NEW c \in Clients, NEW t \in Timers, OthersStay(s, s', t),
         tick' = tick, program' = program, tt'.t = tt.t,
         NEW stage \in TimerStages, NEW u \in {t, NONE}, Calls(c, u, stage),
         tcall[c].t = t \/ Unclaimed(t), CallSound(c)'
  PROVE  CallsSound' /\ tcall' \in [Clients -> [stage : TimerStages, t : Timers \cup {NONE}]]
<1>1. tcall' \in [Clients -> [stage : TimerStages, t : Timers \cup {NONE}]]
  BY DEF TimerTypes, Calls
<1>2. tcall'[c] = [stage |-> stage, t |-> u] /\ \A d \in Clients : d # c => tcall'[d] = tcall[d]
  BY DEF TimerTypes, Calls
<1>3. ASSUME NEW d \in Clients, d # c PROVE tcall[d].t # t
  BY <1>3, TimerAssumption DEF CallsSound, Unclaimed
<1>4. ASSUME NEW d \in Clients PROVE CallSound(d)'
  <2>1. CASE d = c
    BY <2>1
  <2>2. CASE d # c
    <3> DEFINE v == tcall[d].t
    <3>1. tcall'[d] = tcall[d] /\ v # t /\ CallSound(d)
      BY <1>2, <1>3, <2>2 DEF CallsSound
    <3>2. v = NONE \/ v \in Timers
      BY DEF TimerTypes
    <3>3. v \in Timers => s'.tm[v] = s.tm[v] /\ (InList(s, v)' <=> InList(s, v))
      <4>1. InList(s, v)' <=> InList(s', v)
        BY <3>1 DEF InList, bottom
      <4> QED BY <3>1, <4>1 DEF OthersStay
    <3>4. v = NONE => tcall[d].stage = "idle"
      BY <3>1 DEF CallSound
    <3>5. tcall'[d].t = v /\ tcall'[d].stage = tcall[d].stage
      BY <3>1
    <3>6. CASE v = NONE
      BY <3>1, <3>4, <3>5, <3>6 DEF CallSound
    <3>7. CASE v \in Timers
      <4>1. InList(s', v) <=> InList(s, v)
        BY <3>1, <3>7 DEF OthersStay
      <4>2. s'.tm[v] = s.tm[v]
        BY <3>1, <3>7 DEF OthersStay
      <4> HIDE DEF v
      <4> QED BY <3>1, <3>5, <4>1, <4>2 DEF CallSound, v, OnTime, Until, minus
    <3> QED BY <3>2, <3>6, <3>7
  <2> QED BY <2>1, <2>2
<1>5. ASSUME NEW d \in Clients, NEW e \in Clients, tcall'[d].t = tcall'[e].t, tcall'[d].t # NONE
      PROVE  d = e
  <2>1. CASE d # c /\ e # c
    BY <1>2, <1>5, <2>1 DEF CallsSound
  <2>2. CASE d = c /\ e # c
    BY <1>2, <1>3, <1>5, <2>2
  <2>3. CASE d # c /\ e = c
    BY <1>2, <1>3, <1>5, <2>3
  <2> QED BY <2>1, <2>2, <2>3
<1> QED BY <1>1, <1>4, <1>5 DEF CallsSound

(* The timer thread waits or runs a function while others run.             *)
NobodyResumes == \A c \in Clients : tcall[c].stage # "resume"
LEMMA ThreadKept ==
  ASSUME TimerInv, ClientMay, NEW t \in Timers, OthersStay(s, s', t), tick' = tick, tt' = tt,
         tt.n = t => InList(s', t), tt.t = t /\ InList(s', t) => s'.tm[t].periodic,
         tt.pc = "asleep" /\ NobodyResumes' =>
           NobodyResumes /\ \A u \in ToSet(bottom(s', "soft")) :
             u \in ToSet(bottom(s, "soft")) /\ s'.tm[u].timeout = s.tm[u].timeout
  PROVE  ThreadSound'
<1>0. FunctionSound /\ NoteSound /\ SleepSound /\ TimerTypes
  BY DEF TimerInv, ThreadSound
<1>1. tt.pc \in {"suspended", "asleep", "function"}
  BY DEF ClientMay
<1>2. FunctionSound'
  <2>1. tt.t # NONE => tt.t \in Timers
    BY <1>0, TimerAssumption DEF TimerTypes
  <2>2. tt.t # NONE /\ tt.t # t => s'.tm[tt.t] = s.tm[tt.t] /\ (InList(s', tt.t) <=> InList(s, tt.t))
    BY <2>1 DEF OthersStay
  <2>3. tt.t # NONE => (InList(s', tt.t) => s'.tm[tt.t].periodic)
    BY <1>0, <2>2 DEF FunctionSound
  <2> QED BY <1>0, <1>1, <2>3 DEF FunctionSound
<1>3. NoteSound'
  <2>1. tt.n # NONE => tt.n \in Timers
    BY <1>0, TimerAssumption DEF TimerTypes
  <2>2. tt.n # NONE => tt.pc = "function" /\ tt.n # tt.t /\ InList(s', tt.n)
    BY <1>0, <1>1, <2>1 DEF NoteSound, InCheck, OthersStay
  <2> QED BY <2>2 DEF NoteSound, InCheck
<1>4. SleepSound'
  BY <1>0, <1>1 DEF SleepSound, NobodyResumes
<1> QED BY <1>2, <1>3, <1>4 DEF ThreadSound

(***************************************************************************)
(* The threads.                                                            *)
(***************************************************************************)
LEMMA AtBottom ==
  ASSUME NEW z, ListsTyped(z), RowsAgree(z), NEW l \in Lists, NEW u
  PROVE  u \in ToSet(bottom(z, l)) <=> u \in Timers /\ Kind(u) = l /\ InList(z, u)
<1>1. LastRow \in Level
  BY TimerAssumption DEF LastRow, Level
<1>2. ASSUME u \in ToSet(bottom(z, l)) PROVE u \in Timers /\ Kind(u) = l /\ InList(z, u)
  <2>1. u \in Timers
    BY <1>1, <1>2, RowsTyped DEF bottom
  <2> QED BY <1>1, <1>2, <2>1, OneList DEF bottom
<1> QED BY <1>2 DEF InList

(* A soft list that a timer has left, or has never been in.                *)
LEMMA Shrinks ==
  ASSUME NEW z, NEW y, NEW t \in Timers, ListsTyped(z), RowsAgree(z), ListsTyped(y), RowsAgree(y),
         OthersStay(z, y, t), ~InList(y, t) \/ t \notin Soft
  PROVE  \A u \in ToSet(bottom(y, "soft")) :
           u \in ToSet(bottom(z, "soft")) /\ y.tm[u].timeout = z.tm[u].timeout
<1> SUFFICES ASSUME NEW u \in ToSet(bottom(y, "soft"))
             PROVE  u \in ToSet(bottom(z, "soft")) /\ y.tm[u].timeout = z.tm[u].timeout
  OBVIOUS
<1>0. "soft" \in Lists /\ (t \in Soft <=> Kind(t) = "soft")
  BY Kinds DEF Lists
<1>1. u \in Timers /\ Kind(u) = "soft" /\ InList(y, u)
  BY <1>0, AtBottom
<1>2. u # t
  BY <1>0, <1>1
<1>3. y.tm[u] = z.tm[u] /\ InList(z, u)
  BY <1>1, <1>2 DEF OthersStay
<1> QED BY <1>0, <1>1, <1>3, AtBottom

LEMMA ClientFrame ==
  ASSUME TimerInv, ClientMay, NEW c \in Clients, NEW t \in Timers, OthersStay(s, s', t),
         UNCHANGED <<program, tick, isr, tt>>, ListsSound(s', tick, First),
         NEW stage \in TimerStages, NEW u \in {t, NONE}, Calls(c, u, stage),
         tcall[c].t = t \/ (tcall[c].t = NONE /\ Unclaimed(t)),
         CallSound(c)', FlagFits(t)', tt.n = t => InList(s', t),
         tt.t = t /\ InList(s', t) => s'.tm[t].periodic,
         tt.pc = "asleep" /\ NobodyResumes' =>
           NobodyResumes /\ \A v \in ToSet(bottom(s', "soft")) :
             v \in ToSet(bottom(s, "soft")) /\ s'.tm[v].timeout = s.tm[v].timeout
  PROVE  TimerInv'
<1>0. TimerTypes /\ FlagsTell /\ CallsSound /\ NONE \notin Timers
  BY TimerAssumption DEF TimerInv
<1>1. CallsSound' /\ tcall' \in [Clients -> [stage : TimerStages, t : Timers \cup {NONE}]]
  BY <1>0, CallsKept
<1>2. TimerTypes'
  BY <1>0, <1>1 DEF TimerTypes
<1>3. FlagsTell'
  <2>1. \A d \in Clients, v \in Timers : v # t /\ Clears(d, v) => Clears(d, v)'
    <3> SUFFICES ASSUME NEW d \in Clients, NEW v \in Timers, v # t, Clears(d, v) PROVE Clears(d, v)'
      OBVIOUS
    <3>1. d # c
      BY <1>0 DEF Clears
    <3>2. tcall'[d] = tcall[d]
      BY <1>0, <3>1 DEF Calls, TimerTypes
    <3> QED BY <3>2 DEF Clears
  <2> QED BY <1>0, <2>1, FlagsKept
<1>4. ThreadSound'
  BY ThreadKept
<1>5. ListsSound(s, tick, First)'
  <2>1. First' = First
    BY DEF First
  <2>2. ListsSound(s', tick', First')
    BY <2>1
  <2> QED BY <2>2 DEF ListsSound, ListsTyped, RowsAgree, InOrder, InWindow, bottom, OnTime, Until, minus
<1> QED BY <1>1, <1>2, <1>3, <1>4, <1>5 DEF TimerInv

LEMMA StartBeginsStep ==
  ASSUME TimerInv, Careful, NEW c \in Clients, StartBegins(c)
  PROVE  TimerInv'
<1>1. PICK t \in program.owned :
        /\ tcall[c].stage = "idle" /\ ClientMay /\ Unclaimed(t) /\ MayStart(t)
        /\ s' = prepared(s, t) /\ Step(c, "insert", t)
        /\ UNCHANGED <<program, tick, isr, tt>>
  BY DEF StartBegins
<1>2. /\ TimerTypes /\ CallsSound /\ FlagsTell /\ t \in Timers /\ CallSound(c) /\ NONE \notin Timers
      /\ ListsTyped(s) /\ RowsAgree(s) /\ FlagFits(t)
  BY ProgramFacts, FlagsByTimer DEF TimerInv, TimerTypes, CallsSound, ListsSound
<1>3. /\ ListsSound(s', tick, First) /\ Touches(s, s', t)
      /\ ~s'.tm[t].active /\ OnTime(s'.tm[t].timeout, tick) /\ ~InList(s', t)
  BY <1>1, <1>2, NowClock, PrepareStep
<1>4. OthersStay(s, s', t) /\ s'.tm[t].periodic = s.tm[t].periodic
  BY <1>3 DEF Touches
<1>5. tcall[c].t = NONE /\ tt.n # t /\ (tt.t = t => s.tm[t].periodic)
  BY <1>1, <1>2 DEF CallSound, MayStart
<1>6. Calls(c, t, "insert") /\ tcall'[c] = [stage |-> "insert", t |-> t]
      /\ \A d \in Clients : d # c => tcall'[d] = tcall[d]
  BY <1>1, <1>2 DEF Step, Calls, TimerTypes
<1>7. CallSound(c)'
  <2>1. tick' = tick /\ tt' = tt /\ program' = program
    BY <1>1
  <2> QED BY <1>2, <1>3, <1>4, <1>5, <1>6, <2>1 DEF CallSound, OnTime, Until, minus
<1>8. FlagFits(t)'
  <2>1. program' = program
    BY <1>1
  <2> QED BY <1>2, <1>3, <1>4, <2>1 DEF FlagFits, SelfStarts, InList, bottom
<1>9. tt.pc = "asleep" /\ NobodyResumes' =>
        NobodyResumes /\ \A v \in ToSet(bottom(s', "soft")) :
          v \in ToSet(bottom(s, "soft")) /\ s'.tm[v].timeout = s.tm[v].timeout
  <2>1. NobodyResumes' => NobodyResumes
    BY <1>1, <1>6 DEF NobodyResumes
  <2>2. ListsTyped(s') /\ RowsAgree(s')
    BY <1>3 DEF ListsSound
  <2> QED BY <1>2, <1>3, <1>4, <2>1, <2>2, Shrinks
<1>10. "insert" \in TimerStages
  BY DEF TimerStages
<1> QED BY <1>1, <1>2, <1>3, <1>4, <1>5, <1>6, <1>7, <1>8, <1>9, <1>10, ClientFrame

(* The timer of a call.                                                    *)
LEMMA InCall ==
  ASSUME TimerInv, NEW c \in Clients, tcall[c].stage # "idle"
  PROVE  LET t == tcall[c].t IN
         /\ t \in Timers /\ t \in program.owned /\ CallSound(c) /\ FlagFits(t)
         /\ tt.n = t => InList(s, t)
         /\ TimerTypes /\ CallsSound /\ FlagsTell /\ NONE \notin Timers
         /\ ListsTyped(s) /\ RowsAgree(s)
<1>1. /\ TimerTypes /\ CallsSound /\ FlagsTell /\ CallSound(c) /\ NONE \notin Timers /\ NoteSound
      /\ ListsTyped(s) /\ RowsAgree(s)
  BY ProgramFacts DEF TimerInv, TimerTypes, CallsSound, ListsSound, ThreadSound
<1>2. tcall[c].t # NONE
  BY <1>1 DEF CallSound
<1>3. tcall[c].t \in Timers /\ tcall[c].t \in program.owned
  BY <1>1, <1>2 DEF TimerTypes, CallSound
<1>4. FlagFits(tcall[c].t)
  BY <1>1, <1>3, FlagsByTimer
<1>5. tt.n = tcall[c].t => InList(s, tcall[c].t)
  BY <1>1, <1>2 DEF NoteSound
<1> QED BY <1>1, <1>3, <1>4, <1>5

LEMMA StartInsertsStep ==
  ASSUME TimerInv, Careful, NEW c \in Clients, StartInserts(c)
  PROVE  TimerInv'
<1>0. PICK t : t = tcall[c].t
  OBVIOUS
<1> DEFINE stage == IF t \in Soft THEN "resume" ELSE "idle"
           u == IF t \in Soft THEN t ELSE NONE
<1>1. /\ tcall[c].stage = "insert" /\ ClientMay /\ s' = inserted(s, t)
      /\ tcall' = [tcall EXCEPT ![c] = [stage |-> stage, t |-> u]]
      /\ UNCHANGED <<program, tick, isr, tt>>
  BY <1>0 DEF StartInserts, Step
<1>2. /\ t \in Timers /\ t \in program.owned /\ CallSound(c) /\ FlagFits(t)
      /\ TimerTypes /\ CallsSound /\ NONE \notin Timers /\ ListsTyped(s) /\ RowsAgree(s)
  BY <1>0, <1>1, InCall
<1>3. ~s.tm[t].active /\ OnTime(s.tm[t].timeout, tick) /\ (tt.t = t => s.tm[t].periodic)
  BY <1>0, <1>1, <1>2 DEF CallSound
<1>4. ~InList(s, t)
  BY <1>2, <1>3 DEF FlagFits
<1>5. /\ ListsSound(s', tick, First) /\ Touches(s, s', t)
      /\ s'.tm[t].active /\ InList(s', t)
  BY <1>1, <1>2, <1>3, <1>4, NowClock, InsertStep
<1>6. OthersStay(s, s', t) /\ s'.tm[t].periodic = s.tm[t].periodic
  BY <1>5 DEF Touches
<1>7. Calls(c, u, stage) /\ tcall'[c] = [stage |-> stage, t |-> u]
      /\ \A d \in Clients : d # c => tcall'[d] = tcall[d]
  BY <1>1, <1>2 DEF Calls, TimerTypes
<1>8. stage \in TimerStages /\ u \in {t, NONE}
  BY DEF TimerStages
<1>9. (stage = "idle" <=> u = NONE) /\ (u # NONE => u = t) /\ (stage = "resume" <=> t \in Soft)
      /\ stage \in {"idle", "resume"}
  BY <1>2
<1> HIDE DEF stage, u
<1>10. CallSound(c)'
  <2>1. program' = program
    BY <1>1
  <2> QED BY <1>2, <1>7, <1>9, <2>1 DEF CallSound
<1>11. FlagFits(t)'
  <2>1. program' = program
    BY <1>1
  <2>2. InList(s, t)'
    BY <1>5 DEF InList, bottom
  <2> QED BY <1>2, <1>5, <1>6, <2>1, <2>2 DEF FlagFits, SelfStarts
<1>12. tt.pc = "asleep" /\ NobodyResumes' =>
        NobodyResumes /\ \A v \in ToSet(bottom(s', "soft")) :
          v \in ToSet(bottom(s, "soft")) /\ s'.tm[v].timeout = s.tm[v].timeout
  <2> SUFFICES ASSUME NobodyResumes'
               PROVE  NobodyResumes /\ \A v \in ToSet(bottom(s', "soft")) :
                        v \in ToSet(bottom(s, "soft")) /\ s'.tm[v].timeout = s.tm[v].timeout
    OBVIOUS
  <2>1. NobodyResumes
    BY <1>1, <1>7 DEF NobodyResumes
  <2>2. ListsTyped(s') /\ RowsAgree(s')
    BY <1>5 DEF ListsSound
  <2>3. t \notin Soft
    BY <1>7, <1>9 DEF NobodyResumes
  <2> QED BY <1>2, <1>6, <2>1, <2>2, <2>3, Shrinks
<1> QED BY <1>0, <1>1, <1>2, <1>3, <1>5, <1>6, <1>7, <1>8, <1>10, <1>11, <1>12, ClientFrame

LEMMA StopBeginsStep ==
  ASSUME TimerInv, Careful, NEW c \in Clients, StopBegins(c)
  PROVE  TimerInv'
<1>1. PICK t \in program.owned :
        /\ tcall[c].stage = "idle" /\ ClientMay /\ Unclaimed(t) /\ MayStop(t) /\ Unfired(t)
        /\ s.tm[t].active /\ Step(c, "remove", t)
        /\ UNCHANGED <<program, tick, s, isr, tt>>
  BY DEF StopBegins
<1>2. /\ TimerTypes /\ CallsSound /\ FlagsTell /\ t \in Timers /\ CallSound(c) /\ NONE \notin Timers
      /\ FlagFits(t) /\ ListsSound(s, tick, First)
  BY ProgramFacts, FlagsByTimer DEF TimerInv, TimerTypes, CallsSound
<1>3. OthersStay(s, s', t) /\ ListsSound(s', tick, First)
  BY <1>1, <1>2 DEF OthersStay
<1>4. tcall[c].t = NONE /\ tt.n # t /\ tt.t # t
  BY <1>1, <1>2 DEF CallSound, MayStop, Unfired
<1>5. Calls(c, t, "remove") /\ tcall'[c] = [stage |-> "remove", t |-> t]
      /\ \A d \in Clients : d # c => tcall'[d] = tcall[d]
  BY <1>1, <1>2 DEF Step, Calls, TimerTypes
<1>6. CallSound(c)'
  <2>1. program' = program
    BY <1>1
  <2> QED BY <1>2, <1>5, <2>1 DEF CallSound
<1>7. FlagFits(t)'
  <2>1. program' = program /\ s' = s /\ tt' = tt
    BY <1>1
  <2>2. ~\E d \in Clients : Clears(d, t)
    BY <1>1 DEF Unclaimed, Clears
  <2>3. InList(s, t)' <=> InList(s, t)
    BY <2>1 DEF InList, bottom
  <2> QED BY <1>2, <2>1, <2>2, <2>3 DEF FlagFits, SelfStarts
<1>8. NobodyResumes' => NobodyResumes
  BY <1>1, <1>5 DEF NobodyResumes
<1>9. "remove" \in TimerStages
  BY DEF TimerStages
<1>10. \A v \in ToSet(bottom(s', "soft")) :
         v \in ToSet(bottom(s, "soft")) /\ s'.tm[v].timeout = s.tm[v].timeout
  BY <1>1
<1> QED BY <1>1, <1>2, <1>3, <1>4, <1>5, <1>6, <1>7, <1>8, <1>9, <1>10, ClientFrame

LEMMA StopRemovesStep ==
  ASSUME TimerInv, Careful, NEW c \in Clients, StopRemoves(c)
  PROVE  TimerInv'
<1>0. PICK t : t = tcall[c].t
  OBVIOUS
<1>1. /\ tcall[c].stage = "remove" /\ ClientMay /\ MayStop(t) /\ Unfired(t)
      /\ s' = _rt_timer_remove(s, t) /\ Step(c, "clear", t)
      /\ UNCHANGED <<program, tick, isr, tt>>
  BY <1>0 DEF StopRemoves
<1>2. /\ t \in Timers /\ t \in program.owned /\ CallSound(c) /\ FlagFits(t)
      /\ TimerTypes /\ CallsSound /\ NONE \notin Timers /\ ListsTyped(s) /\ RowsAgree(s)
  BY <1>0, <1>1, InCall
<1>3. /\ ListsSound(s', tick, First) /\ Touches(s, s', t)
      /\ s'.tm[t].active = s.tm[t].active /\ ~InList(s', t)
  BY <1>1, <1>2, NowClock, RemoveStep
<1>4. OthersStay(s, s', t) /\ s'.tm[t].periodic = s.tm[t].periodic
  BY <1>3 DEF Touches
<1>5. tt.n # t /\ tt.t # t
  BY <1>1 DEF MayStop, Unfired
<1>6. Calls(c, t, "clear") /\ tcall'[c] = [stage |-> "clear", t |-> t]
      /\ \A d \in Clients : d # c => tcall'[d] = tcall[d]
  BY <1>1, <1>2 DEF Step, Calls, TimerTypes
<1>7. ~InList(s, t)' /\ program' = program /\ tt' = tt
  BY <1>1, <1>3 DEF InList, bottom
<1>8. CallSound(c)'
  <2>1. ~(InList(s, t))'
    BY <1>6, <1>3 DEF InList, bottom
  <2> QED BY <1>2, <1>5, <1>6, <1>7, <2>1 DEF CallSound
<1>9. FlagFits(t)'
  <2>1. Clears(c, t)'
    BY <1>6 DEF Clears
  <2> QED BY <1>2, <1>3, <1>4, <1>7, <2>1 DEF FlagFits, SelfStarts
<1>10. tt.pc = "asleep" /\ NobodyResumes' =>
        NobodyResumes /\ \A v \in ToSet(bottom(s', "soft")) :
          v \in ToSet(bottom(s, "soft")) /\ s'.tm[v].timeout = s.tm[v].timeout
  <2>1. NobodyResumes' => NobodyResumes
    BY <1>1, <1>6 DEF NobodyResumes
  <2>2. ListsTyped(s') /\ RowsAgree(s')
    BY <1>3 DEF ListsSound
  <2> QED BY <1>2, <1>3, <1>4, <2>1, <2>2, Shrinks
<1>11. "clear" \in TimerStages
  BY DEF TimerStages
<1> QED BY <1>0, <1>1, <1>2, <1>3, <1>4, <1>5, <1>6, <1>8, <1>9, <1>10, <1>11, ClientFrame

LEMMA StopClearsStep ==
  ASSUME TimerInv, Careful, NEW c \in Clients, StopClears(c)
  PROVE  TimerInv'
<1>0. PICK t : t = tcall[c].t
  OBVIOUS
<1>1. /\ tcall[c].stage = "clear" /\ ClientMay
      /\ s' = flagged(s, t, FALSE) /\ Step(c, "idle", NONE)
      /\ UNCHANGED <<program, tick, isr, tt>>
  BY <1>0 DEF StopClears
<1>2. /\ t \in Timers /\ t \in program.owned /\ CallSound(c) /\ FlagFits(t)
      /\ tt.n = t => InList(s, t)
      /\ TimerTypes /\ CallsSound /\ NONE \notin Timers /\ ListsTyped(s) /\ RowsAgree(s)
  BY <1>0, <1>1, InCall
<1>3. ~InList(s, t) /\ tt.t # t
  BY <1>0, <1>1, <1>2 DEF CallSound
<1>4. /\ ListsSound(s', tick, First) /\ Touches(s, s', t)
      /\ s'.tm[t].active = FALSE /\ ~InList(s', t)
  BY <1>1, <1>2, <1>3, NowClock, FlagStep
<1>5. OthersStay(s, s', t) /\ s'.tm[t].periodic = s.tm[t].periodic
  BY <1>4 DEF Touches
<1>6. Calls(c, NONE, "idle") /\ tcall'[c] = [stage |-> "idle", t |-> NONE]
      /\ \A d \in Clients : d # c => tcall'[d] = tcall[d]
  BY <1>1, <1>2 DEF Step, Calls, TimerTypes
<1>7. CallSound(c)'
  BY <1>6 DEF CallSound
<1>8. FlagFits(t)'
  <2>1. ~InList(s', t) /\ program' = program
    BY <1>1, <1>4
  <2>2. ~InList(s, t)'
    BY <1>4 DEF InList, bottom
  <2> QED BY <1>2, <1>4, <1>5, <2>1, <2>2 DEF FlagFits, SelfStarts
<1>9. tt.pc = "asleep" /\ NobodyResumes' =>
        NobodyResumes /\ \A v \in ToSet(bottom(s', "soft")) :
          v \in ToSet(bottom(s, "soft")) /\ s'.tm[v].timeout = s.tm[v].timeout
  <2>1. NobodyResumes' => NobodyResumes
    BY <1>1, <1>6 DEF NobodyResumes
  <2>2. ListsTyped(s') /\ RowsAgree(s')
    BY <1>4 DEF ListsSound
  <2> QED BY <1>2, <1>4, <1>5, <2>1, <2>2, Shrinks
<1>10. "idle" \in TimerStages
  BY DEF TimerStages
<1> QED BY <1>0, <1>1, <1>2, <1>3, <1>4, <1>5, <1>6, <1>7, <1>8, <1>9, <1>10, ClientFrame

LEMMA StartResumesStep ==
  ASSUME TimerInv, Careful, NEW c \in Clients, StartResumes(c)
  PROVE  TimerInv'
<1>0. PICK t : t = tcall[c].t
  OBVIOUS
<1>1. /\ tcall[c].stage = "resume" /\ ClientMay /\ tt' = resumed /\ Step(c, "idle", NONE)
      /\ UNCHANGED <<program, tick, s, isr>>
  BY DEF StartResumes
<1>2. /\ t \in Timers /\ t \in program.owned /\ CallSound(c) /\ FlagFits(t)
      /\ TimerTypes /\ CallsSound /\ FlagsTell /\ NONE \notin Timers
  BY <1>0, <1>1, InCall
<1>3. OthersStay(s, s', t)
  BY <1>1 DEF OthersStay
<1>4. Calls(c, NONE, "idle") /\ tcall'[c] = [stage |-> "idle", t |-> NONE]
      /\ \A d \in Clients : d # c => tcall'[d] = tcall[d]
  BY <1>1, <1>2 DEF Step, Calls, TimerTypes
<1>5. CallSound(c)'
  BY <1>4 DEF CallSound
<1>6. /\ tt' \in [pc : ThreadStages, n : Soft \cup {NONE}, t : Soft \cup {NONE},
                  next : Ticks, cur : Ticks]
      /\ tt'.t = tt.t /\ tt'.n = tt.n
      /\ \/ tt.pc = "function" /\ tt' = tt
         \/ tt.pc \in {"asleep", "suspended"} /\ tt'.pc = "check"
  <2>1. /\ tt \in [pc : ThreadStages, n : Soft \cup {NONE}, t : Soft \cup {NONE}, next : Ticks, cur : Ticks]
        /\ tt.pc \in {"suspended", "asleep", "function"} /\ "check" \in ThreadStages
    BY <1>1, <1>2 DEF TimerTypes, ClientMay, ThreadStages
  <2>2. CASE tt.pc = "function"
    <3>1. tt' = tt
      BY <1>1, <2>2 DEF resumed
    <3>2. tt' \in [pc : ThreadStages, n : Soft \cup {NONE}, t : Soft \cup {NONE},
                   next : Ticks, cur : Ticks]
      BY <2>1, <3>1
    <3>3. tt'.t = tt.t /\ tt'.n = tt.n
      BY <3>1
    <3> QED BY <2>2, <3>1, <3>2, <3>3
  <2>3. CASE tt.pc # "function"
    <3>1. tt.pc \in {"asleep", "suspended"} /\ tt' = [tt EXCEPT !.pc = "check"]
      BY <1>1, <2>1, <2>3 DEF resumed
    <3> QED BY <2>1, <3>1
  <2> QED BY <2>2, <2>3
<1>7. CallsSound' /\ tcall' \in [Clients -> [stage : TimerStages, t : Timers \cup {NONE}]]
  <2>1. "idle" \in TimerStages
    BY DEF TimerStages
  <2> QED BY <1>0, <1>1, <1>2, <1>3, <1>4, <1>5, <1>6, <2>1, CallsKept
<1>8. TimerTypes'
  BY <1>1, <1>2, <1>6, <1>7 DEF TimerTypes
<1>9. FlagsTell'
  <2> SUFFICES ASSUME NEW u \in Timers PROVE FlagFits(u)'
    BY DEF FlagsTell, FlagFits, SelfStarts, Clears
  <2>1. FlagFits(u)
    BY <1>2, FlagsByTimer
  <2>2. program' = program /\ s' = s /\ tt'.t = tt.t
    BY <1>1, <1>6
  <2>3. \A d \in Clients : Clears(d, u) => Clears(d, u)'
    BY <1>0, <1>1, <1>4 DEF Clears
  <2>4. InList(s, u)' <=> InList(s, u)
    BY <2>2 DEF InList, bottom
  <2> QED BY <2>1, <2>2, <2>3, <2>4 DEF FlagFits, SelfStarts
<1>10. ThreadSound'
  <2>1. FunctionSound /\ NoteSound /\ SleepSound
    BY DEF TimerInv, ThreadSound
  <2>2. s' = s /\ tick' = tick
    BY <1>1
  <2>3. CASE tt.pc = "function" /\ tt' = tt
    BY <2>1, <2>2, <2>3 DEF ThreadSound, FunctionSound, NoteSound, SleepSound
  <2>4. CASE tt.pc \in {"asleep", "suspended"} /\ tt'.pc = "check"
    BY <1>6, <2>1, <2>4 DEF ThreadSound, FunctionSound, NoteSound, SleepSound, InCheck
  <2> QED BY <1>6, <2>3, <2>4
<1>11. ListsSound(s, tick, First)'
  <2>1. ListsSound(s, tick, First)
    BY NowClock
  <2>2. s' = s /\ tick' = tick /\ isr' = isr
    BY <1>1
  <2> QED BY <2>1, <2>2 DEF ListsSound, ListsTyped, RowsAgree, InOrder, InWindow, bottom, OnTime,
                           Until, minus, First, InList
<1> QED BY <1>7, <1>8, <1>9, <1>10, <1>11 DEF TimerInv

(* rt_timer_control sets a timer nobody has claimed.                       *)
LEMMA ControlStep ==
  ASSUME TimerInv, Careful, NEW c \in Clients, rt_timer_control(c)
  PROVE  TimerInv'
<1>1. PICK t \in program.set :
        /\ tcall[c].stage = "idle" /\ ClientMay /\ Unclaimed(t) /\ Unfired(t)
        /\ \/ \E d \in Delays : s' = [s EXCEPT !.tm[t].init = d]
           \/ \E p \in BOOLEAN : s' = [s EXCEPT !.tm[t].periodic = p]
        /\ UNCHANGED <<program, tick, isr, tcall, tt>>
  BY DEF rt_timer_control
<1>2. /\ TimerTypes /\ CallsSound /\ FlagsTell /\ t \in Timers /\ CallSound(c) /\ NONE \notin Timers
      /\ FlagFits(t) /\ ListsSound(s, tick, First) /\ NoteSound /\ ListsTyped(s) /\ RowsAgree(s)
      /\ Disciplined(program)
  BY ProgramFacts, FlagsByTimer DEF TimerInv, TimerTypes, CallsSound, ThreadSound, ListsSound
<1>3. /\ ListsTyped(s') /\ s'.row = s.row /\ s'.tm[t].timeout = s.tm[t].timeout
      /\ s'.tm[t].active = s.tm[t].active /\ \A u \in Timers : u # t => s'.tm[u] = s.tm[u]
  <2> DEFINE old == s.tm[t]
  <2>0. s = [tm |-> s.tm, row |-> s.row, nr |-> s.nr] /\ s.tm[t] = old
        /\ s.tm \in [Timers -> [active : BOOLEAN, timeout : Ticks, periodic : BOOLEAN, init : Delays]]
        /\ s.row \in [Lists -> [Level -> Seq(Timers)]]
    BY <1>2 DEF ListsTyped
  <2>1. old \in [active : BOOLEAN, timeout : Ticks, periodic : BOOLEAN, init : Delays]
    BY <1>2, <2>0
  <2> HIDE DEF old
  <2>2. PICK new \in [active : BOOLEAN, timeout : Ticks, periodic : BOOLEAN, init : Delays] :
          /\ new.active = old.active /\ new.timeout = old.timeout
          /\ s' = [s EXCEPT !.tm[t] = new]
    <3>1. CASE \E d \in Delays : s' = [s EXCEPT !.tm[t].init = d]
      <4>1. PICK d \in Delays : s' = [s EXCEPT !.tm[t].init = d]
        BY <3>1
      <4> DEFINE new == [old EXCEPT !.init = d]
      <4>2. s' = [s EXCEPT !.tm[t] = new]
        BY <4>1, <2>0
      <4> QED BY <2>1, <4>2
    <3>2. CASE \E p \in BOOLEAN : s' = [s EXCEPT !.tm[t].periodic = p]
      <4>1. PICK p \in BOOLEAN : s' = [s EXCEPT !.tm[t].periodic = p]
        BY <3>2
      <4> DEFINE new == [old EXCEPT !.periodic = p]
      <4>2. s' = [s EXCEPT !.tm[t] = new]
        BY <4>1, <2>0
      <4> QED BY <2>1, <4>2
    <3> QED BY <1>1, <3>1, <3>2
  <2>3. s' = [tm |-> [s.tm EXCEPT ![t] = new], row |-> s.row, nr |-> s.nr]
    BY <2>0, <2>2
  <2>4. s'.tm = [s.tm EXCEPT ![t] = new] /\ s'.row = s.row /\ s'.nr = s.nr
    BY <2>3
  <2>5. s'.tm \in [Timers -> [active : BOOLEAN, timeout : Ticks, periodic : BOOLEAN, init : Delays]]
    BY <2>0, <2>2, <2>4
  <2>6. ListsTyped(s')
    BY <2>0, <2>3, <2>4, <2>5 DEF ListsTyped
  <2> QED BY <1>2, <2>0, <2>2, <2>4, <2>6
<1>4. \A u \in Timers : (InList(s', u) <=> InList(s, u)) /\ s'.tm[u].timeout = s.tm[u].timeout
  BY <1>3 DEF InList, bottom
<1>5. OthersStay(s, s', t)
  BY <1>3, <1>4 DEF OthersStay
<1>6. ListsSound(s', tick, First)
  BY <1>2, <1>3, <1>4, ListsKept DEF SameLists
<1>7. tcall[c].t = NONE /\ tt.t # t
  BY <1>1, <1>2 DEF CallSound, Unfired
<1>8. Calls(c, NONE, "idle") /\ tcall' = tcall
  <2>1. tcall[c] = [stage |-> "idle", t |-> NONE]
    BY <1>1, <1>2, <1>7 DEF TimerTypes
  <2> QED BY <1>1, <1>2, <2>1 DEF TimerTypes, Calls
<1>9. CallSound(c)'
  BY <1>1, <1>7, <1>8 DEF CallSound
<1>10. FlagFits(t)'
  <2>1. program' = program /\ tt' = tt
    BY <1>1
  <2>2. InList(s, t)' <=> InList(s, t)
    BY <1>2, <1>4 DEF InList, bottom
  <2>3. ~SelfStarts(t)
    BY <1>1, <1>2 DEF SelfStarts, Disciplined
  <2>4. \A d \in Clients : Clears(d, t) <=> Clears(d, t)'
    BY <1>8 DEF Clears
  <2> QED BY <1>2, <1>3, <2>1, <2>2, <2>3, <2>4 DEF FlagFits, SelfStarts
<1>11. tt.pc = "asleep" /\ NobodyResumes' =>
        NobodyResumes /\ \A v \in ToSet(bottom(s', "soft")) :
          v \in ToSet(bottom(s, "soft")) /\ s'.tm[v].timeout = s.tm[v].timeout
  <2>1. NobodyResumes' => NobodyResumes
    BY <1>8 DEF NobodyResumes
  <2>2. bottom(s', "soft") = bottom(s, "soft")
    BY <1>3 DEF bottom
  <2>3. \A v \in ToSet(bottom(s, "soft")) : v \in Timers
    BY <1>2, AtBottom DEF Lists
  <2> QED BY <1>4, <2>1, <2>2, <2>3
<1>12. "idle" \in TimerStages
  BY DEF TimerStages
<1>13. tt.n = t => InList(s', t)
  BY <1>2, <1>4 DEF NoteSound
<1> QED BY <1>1, <1>2, <1>5, <1>6, <1>7, <1>8, <1>9, <1>10, <1>11, <1>12, <1>13, ClientFrame

LEMMA ClientSteps ==
  ASSUME TimerInv, Careful, NEW c \in Clients, ClientStep(c)
  PROVE  TimerInv'
BY StartBeginsStep, StartInsertsStep, StartResumesStep, StopBeginsStep, StopRemovesStep,
   StopClearsStep, ControlStep DEF ClientStep, rt_timer_start, rt_timer_stop

(***************************************************************************)
(* The timer thread.                                                       *)
(***************************************************************************)
ThreadType == [pc : ThreadStages, n : Soft \cup {NONE}, t : Soft \cup {NONE}, next : Ticks, cur : Ticks]

LEMMA ListsPrimed ==
  ASSUME ListsSound(s', tick', First')
  PROVE  ListsSound(s, tick, First)'
BY DEF ListsSound, ListsTyped, RowsAgree, InOrder, InWindow, bottom, OnTime, Until, minus

(* The thread alone takes a step.                                          *)
LEMMA Quiet ==
  ASSUME TimerInv, UNCHANGED <<program, tick, s, isr, tcall>>, tt' \in ThreadType,
         tt'.t = tt.t, ThreadSound'
  PROVE  TimerInv'
<1>1. TimerTypes'
  BY DEF TimerInv, TimerTypes, ThreadType
<1>2. ListsSound(s, tick, First)'
  <2>1. First' = First /\ s' = s /\ tick' = tick
    BY DEF First
  <2> QED BY <2>1, ListsPrimed DEF TimerInv
<1>3. FlagsTell'
  BY DEF TimerInv, FlagsTell, InList, bottom
<1>4. CallsSound'
  BY DEF TimerInv, CallsSound, CallSound, InList, bottom, OnTime, Until, minus
<1> QED BY <1>1, <1>2, <1>3, <1>4 DEF TimerInv

(* The thread works at the timer t.                                        *)
LEMMA ThreadFrame ==
  ASSUME TimerInv, UNCHANGED <<program, tick, isr, tcall>>, NEW t \in Timers, OthersStay(s, s', t),
         ListsSound(s', tick, First), tt' \in ThreadType, tt'.t \in {tt.t, t, NONE},
         tt.t \in {tt'.t, t, NONE}, FlagFits(t)', ThreadSound',
         \A c \in Clients : tcall[c].t = t => CallSound(c)'
  PROVE  TimerInv'
<1>0. TimerTypes /\ FlagsTell /\ CallsSound /\ NONE \notin Timers
  BY TimerAssumption DEF TimerInv
<1>1. TimerTypes'
  BY <1>0 DEF TimerTypes, ThreadType
<1>2. ListsSound(s, tick, First)'
  <2>1. First' = First /\ tick' = tick
    BY DEF First
  <2> QED BY <2>1, ListsPrimed
<1>3. FlagsTell'
  <2>1. \A c \in Clients, u \in Timers : u # t /\ Clears(c, u) => Clears(c, u)'
    BY DEF Clears
  <2>2. \A u \in Timers : u # t /\ tt.t = u => tt'.t = u
    BY <1>0
  <2> QED BY <1>0, <2>1, <2>2, FlagsKept
<1>4. ASSUME NEW d \in Clients PROVE CallSound(d)'
  <2>0. PICK v : v = tcall[d].t
    OBVIOUS
  <2>1. CASE v = t
    BY <2>0, <2>1
  <2>2. CASE v # t
    <3>1. tcall'[d] = tcall[d] /\ CallSound(d) /\ program' = program /\ tick' = tick
      BY <1>0 DEF CallsSound
    <3>2. v = NONE \/ v \in Timers
      BY <1>0, <2>0 DEF TimerTypes
    <3>3. CASE v = NONE
      <4>1. tcall[d].stage = "idle"
        BY <2>0, <3>1, <3>3 DEF CallSound
      <4> QED BY <2>0, <3>1, <3>3, <4>1 DEF CallSound
    <3>4. CASE v \in Timers
      <4>1. InList(s', v) <=> InList(s, v)
        BY <2>2, <3>4 DEF OthersStay
      <4>2. s'.tm[v] = s.tm[v]
        BY <2>2, <3>4 DEF OthersStay
      <4>3. tt'.t = v => tt.t = v
        BY <1>0, <2>2, <3>4
      <4>4. InList(s, tcall[d].t)' <=> InList(s, tcall[d].t)
        BY <2>0, <3>1, <4>1 DEF InList, bottom
      <4>5. OnTime(s.tm[v].timeout, tick)' <=> OnTime(s.tm[v].timeout, tick)
        BY <3>1, <4>2 DEF OnTime, Until, minus
      <4>6. OnTime(s.tm[tcall[d].t].timeout, tick)' <=> OnTime(s.tm[v].timeout, tick)
        BY <2>0, <3>1, <4>2 DEF OnTime, Until, minus
      <4> QED BY <2>0, <3>1, <4>2, <4>3, <4>4, <4>6 DEF CallSound
    <3> QED BY <3>2, <3>3, <3>4
  <2> QED BY <2>1, <2>2
<1>5. CallsSound'
  <2>1. \A c, d \in Clients : tcall'[c].t = tcall'[d].t /\ tcall'[c].t # NONE => c = d
    BY <1>0 DEF CallsSound
  <2> QED BY <1>4, <2>1 DEF CallsSound
<1> QED BY <1>1, <1>2, <1>3, <1>5 DEF TimerInv

LEMMA FutureWhen ==
  ASSUME NEW x \in Ticks, NEW now \in Ticks, OnTime(x, now), half(minus(x, now))
  PROVE  Until(x, now) \in MaxLate + 1 .. Limit - 1
<1> DEFINE a == Until(x, now)
           v == x + MaxLate + 1 - now
           m == minus(x, now)
<1>1. a = (IF v < 0 THEN v + TickMod ELSE IF v < TickMod THEN v ELSE v - TickMod) /\ a \in 1 .. Limit - 1
  BY UntilValue DEF OnTime
<1>2. x \in Nat /\ now \in Nat /\ x < TickMod /\ now < TickMod /\ x <= TickMod
  BY Sizes
<1>3. m = IF x < now THEN x - now + TickMod ELSE x - now
  <2>1. m = IF x < now THEN x - now + TickMod ELSE IF x - now < TickMod THEN x - now ELSE 0
    BY <1>2, MinusValue
  <2>2. x - now < TickMod
    BY <1>2, Sizes
  <2> QED BY <2>1, <2>2
<1>4. m < Limit /\ 2 * Limit <= TickMod - 1 /\ Limit \in Nat /\ TickMod \in Nat /\ MaxLate \in Nat
      /\ MaxLate + 1 < Limit
  BY Sizes DEF half, Limit
<1> HIDE DEF a, m
<1>5. a >= MaxLate + 1
  BY <1>1, <1>2, <1>3, <1>4
<1> QED BY <1>1, <1>4, <1>5 DEF a

LEMMA ThreadFacts ==
  ASSUME TimerInv
  PROVE  /\ tt \in ThreadType /\ TimerTypes /\ FunctionSound /\ NoteSound /\ SleepSound
         /\ CallsSound /\ FlagsTell /\ ListsTyped(s) /\ RowsAgree(s) /\ NONE \notin Timers
         /\ tick \in Ticks /\ Clock(tick, First) /\ ListsSound(s, tick, First)
         /\ \A u \in Timers : FlagFits(u)
<1>1. TimerTypes /\ FunctionSound /\ NoteSound /\ SleepSound /\ CallsSound /\ FlagsTell
      /\ ListsTyped(s) /\ RowsAgree(s) /\ NONE \notin Timers
  BY TimerAssumption DEF TimerInv, ThreadSound, ListsSound
<1>2. tt \in ThreadType /\ tick \in Ticks
  BY <1>1 DEF TimerTypes, ThreadType
<1> QED BY <1>1, <1>2, NowClock, FlagsByTimer

(* The first soft timer.                                                   *)
LEMMA NextTimeout ==
  ASSUME TimerInv
  PROVE  /\ next_timeout \in Ticks /\ "soft" \in Lists
         /\ bottom(s, "soft") = <<>> => next_timeout = RT_TICK_MAX
         /\ bottom(s, "soft") # <<>> => LET h == Head(bottom(s, "soft")) IN
              /\ h \in Soft /\ h \in Timers /\ InList(s, h) /\ next_timeout = s.tm[h].timeout
              /\ s.tm[h].timeout \in Ticks /\ OnTime(s.tm[h].timeout, tick)
              /\ \A u \in ToSet(bottom(s, "soft")) :
                   Until(s.tm[h].timeout, tick) <= Until(s.tm[u].timeout, tick)
<1>0. "soft" \in Lists
  BY DEF Lists
<1>1. CASE bottom(s, "soft") = <<>>
  BY <1>0, <1>1, Sizes DEF next_timeout
<1>2. CASE bottom(s, "soft") # <<>>
  <2>1. PICK h : h = Head(bottom(s, "soft"))
    OBVIOUS
  <2>2. /\ h \in ToSet(bottom(s, "soft")) /\ h \in Timers /\ Kind(h) = "soft" /\ InList(s, h)
        /\ s.tm[h].timeout \in Ticks
        /\ \A u \in ToSet(bottom(s, "soft")) :
             Until(s.tm[h].timeout, tick) <= Until(s.tm[u].timeout, tick)
    BY <1>0, <1>2, <2>1, ThreadFacts, HeadFirst
  <2>3. OnTime(s.tm[h].timeout, tick)
    BY <2>2, ThreadFacts DEF ListsSound, InWindow
  <2>4. h \in Soft
    BY <2>2, Kinds
  <2>5. next_timeout = s.tm[h].timeout
    BY <1>2, <2>1 DEF next_timeout
  <2> QED BY <1>0, <1>2, <2>1, <2>2, <2>3, <2>4, <2>5
<1> QED BY <1>1, <1>2

LEMMA SameNext ==
  ASSUME s' = s
  PROVE  next_timeout' = next_timeout /\ bottom(s, "soft")' = bottom(s, "soft")
BY DEF next_timeout, bottom

LEMMA WatchesStep ==
  ASSUME TimerInv, Watches
  PROVE  TimerInv'
<1> DEFINE pc == IF next_timeout = RT_TICK_MAX THEN "suspend" ELSE "delay"
<1>1. /\ tt.pc = "entry" /\ tt' = [tt EXCEPT !.next = next_timeout, !.pc = pc]
      /\ UNCHANGED <<program, tick, s, isr, tcall>>
  BY DEF Watches, Runs
<1>2. pc \in ThreadStages /\ pc \in {"suspend", "delay"}
      /\ (pc = "suspend" => next_timeout = RT_TICK_MAX) /\ (pc = "delay" => next_timeout # RT_TICK_MAX)
  BY DEF ThreadStages
<1> HIDE DEF pc
<1>3. tt \in ThreadType /\ next_timeout \in Ticks
  BY ThreadFacts, NextTimeout
<1>4. tt' \in ThreadType /\ tt'.t = tt.t /\ tt'.n = tt.n /\ tt'.pc = pc /\ tt'.next = next_timeout
  BY <1>1, <1>2, <1>3 DEF ThreadType
<1>5. tt.t = NONE /\ tt.n = NONE
  BY <1>1, ThreadFacts DEF FunctionSound, NoteSound, InCheck
<1>6. FunctionSound' /\ NoteSound'
  BY <1>2, <1>4, <1>5 DEF FunctionSound, NoteSound
<1>7. pc = "delay" => bottom(s, "soft") # <<>>
  BY <1>2, NextTimeout
<1>8. SleepSound'
  BY <1>1, <1>2, <1>4, <1>7, SameNext DEF SleepSound
<1> QED BY <1>1, <1>4, <1>6, <1>8, Quiet DEF ThreadSound

LEMMA SuspendsStep ==
  ASSUME TimerInv, Suspends
  PROVE  TimerInv'
<1>1. tt.pc = "suspend" /\ tt' = [tt EXCEPT !.pc = "suspended"] /\ UNCHANGED <<program, tick, s, isr, tcall>>
  BY DEF Suspends, Runs
<1>2. tt \in ThreadType /\ "suspended" \in ThreadStages
  BY ThreadFacts DEF ThreadStages
<1>3. tt' \in ThreadType /\ tt'.t = tt.t /\ tt'.n = tt.n /\ tt'.pc = "suspended"
  BY <1>1, <1>2 DEF ThreadType
<1>4. tt.t = NONE /\ tt.n = NONE
  BY <1>1, ThreadFacts DEF FunctionSound, NoteSound, InCheck
<1>5. ThreadSound'
  BY <1>3, <1>4 DEF ThreadSound, FunctionSound, NoteSound, SleepSound
<1> QED BY <1>1, <1>3, <1>5, Quiet

LEMMA SleepsStep ==
  ASSUME TimerInv, Sleeps
  PROVE  TimerInv'
<1> DEFINE pc == IF sleeps THEN "asleep" ELSE "check"
<1>1. tt.pc = "delay" /\ tt' = [tt EXCEPT !.pc = pc] /\ UNCHANGED <<program, tick, s, isr, tcall>>
  BY DEF Sleeps, Runs
<1>2. pc \in ThreadStages /\ pc \in {"asleep", "check"} /\ (pc = "asleep" => sleeps)
  BY DEF ThreadStages
<1> HIDE DEF pc
<1>3. tt \in ThreadType
  BY ThreadFacts
<1>4. tt' \in ThreadType /\ tt'.t = tt.t /\ tt'.n = tt.n /\ tt'.pc = pc /\ tt'.next = tt.next
  BY <1>1, <1>2, <1>3 DEF ThreadType
<1>5. tt.t = NONE /\ tt.n = NONE
  BY <1>1, ThreadFacts DEF FunctionSound, NoteSound, InCheck
<1>6. FunctionSound' /\ NoteSound'
  BY <1>2, <1>4, <1>5 DEF FunctionSound, NoteSound
<1>7. bottom(s, "soft") # <<>> /\ tt.next = next_timeout
  BY <1>1, ThreadFacts DEF SleepSound
<1>8. /\ tt.next \in Ticks /\ OnTime(tt.next, tick)
      /\ \A u \in ToSet(bottom(s, "soft")) : Until(tt.next, tick) <= Until(s.tm[u].timeout, tick)
  BY <1>7, NextTimeout
<1>9. sleeps => Until(tt.next, tick) \in MaxLate + 1 .. Limit - 1
  BY <1>8, ThreadFacts, FutureWhen DEF sleeps
<1>10. SleepSound'
  <2>1. Until(tt.next, tick)' = Until(tt.next, tick) /\ s' = s /\ tick' = tick
    BY <1>1, <1>4 DEF Until, minus
  <2>2. ASSUME tt'.pc = "asleep"
        PROVE  /\ Until(tt.next, tick)' \in MaxLate + 1 .. Limit - 1
               /\ \A u \in ToSet(bottom(s, "soft"))' :
                    Until(tt.next, tick)' <= Until(s.tm[u].timeout, tick)'
    <3>1. sleeps
      BY <1>2, <1>4, <2>2
    <3>2. \A u : Until(s.tm[u].timeout, tick)' = Until(s.tm[u].timeout, tick)
      BY <2>1 DEF Until, minus
    <3> QED BY <1>8, <1>9, <2>1, <3>1, <3>2, SameNext
  <2>3. tt'.pc # "suspend" /\ tt'.pc # "delay"
    BY <1>2, <1>4
  <2> QED BY <2>2, <2>3 DEF SleepSound
<1> QED BY <1>1, <1>4, <1>6, <1>10, Quiet DEF ThreadSound

LEMMA CheckBeginsStep ==
  ASSUME TimerInv, CheckBegins
  PROVE  TimerInv'
<1> DEFINE first == IF bottom(s, "soft") = <<>> THEN NONE ELSE Head(bottom(s, "soft"))
<1>1. /\ tt.pc = "check" /\ isr = "off" /\ UNCHANGED <<program, tick, s, isr, tcall>>
      /\ tt' = [tt EXCEPT !.pc = "walk", !.cur = tick, !.next = 0, !.n = first]
  BY DEF CheckBegins, Runs
<1>2. /\ first \in Soft \cup {NONE}
      /\ first # NONE => first \in Timers /\ InList(s, first) /\ OnTime(s.tm[first].timeout, tick)
  BY NextTimeout
<1> HIDE DEF first
<1>3. tt \in ThreadType /\ "walk" \in ThreadStages /\ tick \in Ticks /\ 0 \in Ticks
  BY ThreadFacts, Sizes DEF ThreadStages
<1>4. tt' \in ThreadType /\ tt'.t = tt.t /\ tt'.n = first /\ tt'.pc = "walk" /\ tt'.cur = tick
  BY <1>1, <1>2, <1>3 DEF ThreadType
<1>5. tt.t = NONE /\ NONE \notin Timers
  BY <1>1, ThreadFacts DEF FunctionSound
<1>6. minus(tick, tick) = 0
  BY <1>3, MinusValue, Sizes
<1>7. first # NONE => 0 + Until(s.tm[first].timeout, tick) <= Limit - 1
  BY <1>2, Sizes DEF OnTime
<1>8. FunctionSound' /\ SleepSound'
  BY <1>4, <1>5 DEF FunctionSound, SleepSound
<1>9. NoteSound'
  <2>1. s' = s /\ tick' = tick
    BY <1>1
  <2>2. InList(s, tt.n)' <=> InList(s, first)
    BY <1>4, <2>1 DEF InList, bottom
  <2>3. Until(s.tm[tt.n].timeout, tick)' = Until(s.tm[first].timeout, tick)
    BY <1>4, <2>1 DEF Until, minus
  <2>4. minus(tick, tt.cur)' = 0
    BY <1>4, <1>6, <2>1 DEF minus
  <2> QED BY <1>2, <1>4, <1>5, <1>7, <2>2, <2>3, <2>4 DEF NoteSound, InCheck
<1> QED BY <1>1, <1>4, <1>8, <1>9, Quiet DEF ThreadSound

LEMMA WalkEndsStep ==
  ASSUME TimerInv, WalkEnds
  PROVE  TimerInv'
<1>1. /\ tt.pc = "walk" /\ tt' = [tt EXCEPT !.pc = "entry", !.n = NONE, !.cur = 0]
      /\ UNCHANGED <<program, tick, s, isr, tcall>>
  BY DEF WalkEnds, Runs
<1>2. tt \in ThreadType /\ "entry" \in ThreadStages /\ 0 \in Ticks
  BY ThreadFacts, Sizes DEF ThreadStages
<1>3. tt' \in ThreadType /\ tt'.t = tt.t /\ tt'.n = NONE /\ tt'.pc = "entry"
  BY <1>1, <1>2 DEF ThreadType
<1>4. tt.t = NONE
  BY <1>1, ThreadFacts DEF FunctionSound
<1>5. ThreadSound'
  BY <1>3, <1>4 DEF ThreadSound, FunctionSound, NoteSound, SleepSound
<1> QED BY <1>1, <1>3, <1>5, Quiet

(* The timer behind another one in the list.                               *)
LEMMA BehindIt ==
  ASSUME TimerInv, NEW t \in Timers, t \in Soft, InList(s, t)
  PROVE  /\ behind(t) \in Soft \cup {NONE} /\ behind(t) # t
         /\ behind(t) # NONE => behind(t) \in Timers /\ InList(s, behind(t))
<1> DEFINE l == bottom(s, "soft")
           i == CHOOSE i \in DOMAIN l : l[i] = t
<1>1. "soft" \in Lists /\ Kind(t) = "soft" /\ LastRow \in Level
  BY Kinds DEF Lists
<1>2. l \in Seq(Timers) /\ IsInjective(l) /\ t \in ToSet(l)
  BY <1>1, ThreadFacts, RowsTyped DEF RowsAgree, bottom, InList
<1>3. \E k \in DOMAIN l : l[k] = t
  BY <1>2 DEF ToSet
<1>4. i \in DOMAIN l /\ l[i] = t
  BY <1>3
<1>5. behind(t) = IF i = Len(l) THEN NONE ELSE l[i + 1]
  BY <1>2 DEF behind
<1>6. \A u \in ToSet(l) : u \in Timers /\ u \in Soft /\ InList(s, u)
  BY <1>1, ThreadFacts, AtBottom, Kinds
<1> HIDE DEF l, i
<1>7. CASE i = Len(l)
  BY <1>5, <1>7, ThreadFacts
<1>8. CASE i # Len(l)
  <2>1. i + 1 \in DOMAIN l /\ i + 1 # i
    BY <1>2, <1>4, <1>8
  <2>2. l[i + 1] \in ToSet(l) /\ l[i + 1] # t
    BY <1>2, <1>4, <2>1 DEF ToSet, IsInjective
  <2>3. behind(t) = l[i + 1]
    BY <1>5, <1>8
  <2>4. l[i + 1] \in Timers /\ l[i + 1] \in Soft /\ InList(s, l[i + 1])
    BY <1>6, <2>2
  <2> QED BY <2>2, <2>3, <2>4
<1> QED BY <1>7, <1>8

LEMMA WalkFiresStep ==
  ASSUME TimerInv, WalkFires
  PROVE  TimerInv'
<1>0. PICK t : t = tt.n
  OBVIOUS
<1>1. /\ tt.pc = "walk" /\ t # NONE /\ tt' = [tt EXCEPT !.pc = "function", !.n = behind(t), !.t = t]
      /\ s' = _rt_timer_remove(s, t) /\ UNCHANGED <<program, tick, isr, tcall>>
  BY <1>0 DEF WalkFires, Runs, walk_fires
<1>2. tt \in ThreadType /\ "function" \in ThreadStages /\ NONE \notin Timers /\ Soft \subseteq Timers
  BY ThreadFacts, TimerAssumption DEF ThreadStages
<1>3. t \in Soft /\ t \in Timers /\ InList(s, t) /\ FlagFits(t)
  BY <1>0, <1>1, <1>2, ThreadFacts DEF ThreadType, NoteSound
<1>4. /\ behind(t) \in Soft \cup {NONE} /\ behind(t) # t
      /\ behind(t) # NONE => behind(t) \in Timers /\ InList(s, behind(t))
  BY <1>3, BehindIt
<1>5. PICK m : m = behind(t)
  OBVIOUS
<1>6. tt' \in ThreadType /\ tt'.t = t /\ tt'.n = m /\ tt'.pc = "function"
  <2>1. tt' = [tt EXCEPT !.pc = "function", !.n = m, !.t = t]
    BY <1>1, <1>5
  <2> QED BY <1>2, <1>3, <1>4, <1>5, <2>1 DEF ThreadType
<1>7. /\ ListsSound(s', tick, First) /\ Touches(s, s', t)
      /\ s'.tm[t].active = s.tm[t].active /\ ~InList(s', t)
  BY <1>1, <1>3, ThreadFacts, RemoveStep
<1>8. OthersStay(s, s', t) /\ s'.tm[t].periodic = s.tm[t].periodic
  BY <1>7 DEF Touches
<1>9. tt.t = NONE
  BY <1>1, ThreadFacts DEF FunctionSound
<1>10. FlagFits(t)'
  <2>1. ~InList(s, t)' /\ program' = program
    BY <1>1, <1>7 DEF InList, bottom
  <2> QED BY <1>3, <1>6, <1>8, <2>1 DEF FlagFits, SelfStarts
<1>11. FunctionSound'
  <2>1. InList(s, tt.t)' <=> InList(s', t)
    BY <1>6 DEF InList, bottom
  <2> QED BY <1>1, <1>6, <1>7, <2>1 DEF FunctionSound
<1>12. NoteSound'
  <2>1. InList(s, tt.n)' <=> InList(s', m)
    BY <1>6 DEF InList, bottom
  <2>2. m # NONE => InList(s', m) /\ m # t
    BY <1>4, <1>5, <1>8 DEF OthersStay
  <2> QED BY <1>6, <2>1, <2>2 DEF NoteSound, InCheck
<1>13. SleepSound'
  BY <1>6 DEF SleepSound
<1>14. ASSUME NEW c \in Clients, tcall[c].t = t PROVE CallSound(c)'
  <2>1. CallSound(c) /\ s.tm[t].active /\ tcall' = tcall /\ program' = program
    BY <1>1, <1>3, ThreadFacts DEF CallsSound, FlagFits
  <2>2. tcall[c].stage # "insert" /\ tcall[c].stage # "clear"
    BY <1>3, <1>14, <2>1 DEF CallSound
  <2> QED BY <1>14, <2>1, <2>2 DEF CallSound
<1> QED BY <1>1, <1>3, <1>6, <1>7, <1>8, <1>9, <1>10, <1>11, <1>12, <1>13, <1>14, ThreadFrame DEF ThreadSound

LEMMA WalkRestartsStep ==
  ASSUME TimerInv, WalkRestarts
  PROVE  TimerInv'
<1>0. PICK t : t = tt.t
  OBVIOUS
<1>1. /\ tt.pc = "restart" /\ tt' = [tt EXCEPT !.pc = "walk", !.t = NONE]
      /\ s' = inserted(s, t) /\ UNCHANGED <<program, tick, isr, tcall>>
  BY <1>0 DEF WalkRestarts, Runs
<1>2. tt \in ThreadType /\ "walk" \in ThreadStages /\ NONE \notin Timers /\ Soft \subseteq Timers
  BY ThreadFacts, TimerAssumption DEF ThreadStages
<1>3. /\ t # NONE /\ t \in Soft /\ t \in Timers /\ FlagFits(t) /\ ~s.tm[t].active
      /\ OnTime(s.tm[t].timeout, tick)
      /\ \A c \in Clients : tcall[c].stage = "insert" => tcall[c].t # t
  BY <1>0, <1>1, <1>2, ThreadFacts DEF ThreadType, FunctionSound
<1>4. ~InList(s, t)
  BY <1>3 DEF FlagFits
<1>5. tt' \in ThreadType /\ tt'.t = NONE /\ tt'.n = tt.n /\ tt'.pc = "walk" /\ tt'.cur = tt.cur
  BY <1>1, <1>2 DEF ThreadType
<1>6. /\ ListsSound(s', tick, First) /\ Touches(s, s', t)
      /\ s'.tm[t].active /\ InList(s', t)
  BY <1>1, <1>3, <1>4, ThreadFacts, InsertStep
<1>7. OthersStay(s, s', t) /\ s'.tm[t].periodic = s.tm[t].periodic
  BY <1>6 DEF Touches
<1>8. FlagFits(t)'
  <2>1. InList(s, t)' /\ program' = program
    BY <1>1, <1>6 DEF InList, bottom
  <2> QED BY <1>3, <1>6, <1>7, <2>1 DEF FlagFits, SelfStarts
<1>9. FunctionSound' /\ SleepSound'
  BY <1>5 DEF FunctionSound, SleepSound
<1>10. NoteSound'
  <2>0. PICK m : m = tt.n
    OBVIOUS
  <2>1. m # NONE => /\ m # t /\ InList(s, m) /\ m \in Timers
                    /\ minus(tick, tt.cur) + Until(s.tm[m].timeout, tick) <= Limit - 1
    BY <1>0, <1>1, <1>2, <2>0, ThreadFacts DEF NoteSound, ThreadType
  <2>2. m # NONE => InList(s', m) /\ s'.tm[m] = s.tm[m]
    BY <1>7, <2>1 DEF OthersStay
  <2>3. InList(s, tt.n)' <=> InList(s', m)
    BY <1>5, <2>0 DEF InList, bottom
  <2>4. minus(tick, tt.cur)' = minus(tick, tt.cur)
    BY <1>1, <1>5 DEF minus
  <2>5. Until(s.tm[tt.n].timeout, tick)' = Until(s'.tm[m].timeout, tick)
    BY <1>1, <1>5, <2>0 DEF Until, minus
  <2> QED BY <1>5, <2>0, <2>1, <2>2, <2>3, <2>4, <2>5 DEF NoteSound, InCheck
<1>11. ASSUME NEW c \in Clients, tcall[c].t = t PROVE CallSound(c)'
  <2>1. CallSound(c) /\ tcall' = tcall /\ program' = program
    BY <1>1, ThreadFacts DEF CallsSound
  <2>2. tcall[c].stage # "insert" /\ tcall[c].stage # "clear"
    BY <1>0, <1>3, <1>11, <2>1 DEF CallSound
  <2> QED BY <1>11, <2>1, <2>2 DEF CallSound
<1> QED BY <1>0, <1>1, <1>3, <1>5, <1>6, <1>7, <1>8, <1>9, <1>10, <1>11, ThreadFrame DEF ThreadSound

LEMMA WalkOverStep ==
  ASSUME TimerInv, WalkOver
  PROVE  TimerInv'
<1>0. PICK t : t = tt.t
  OBVIOUS
<1>1. /\ tt.pc = "over" /\ UNCHANGED <<program, tick, isr, tcall>>
      /\ \/ renews(s, t) /\ s' = prepared(s, t) /\ tt' = [tt EXCEPT !.pc = "restart"]
         \/ ~renews(s, t) /\ s' = flagged(s, t, FALSE) /\ tt' = [tt EXCEPT !.pc = "walk", !.t = NONE]
  BY <1>0 DEF WalkOver, Runs
<1>2. tt \in ThreadType /\ {"walk", "restart"} \subseteq ThreadStages /\ NONE \notin Timers
      /\ Soft \subseteq Timers
  BY ThreadFacts, TimerAssumption DEF ThreadStages
<1>3. /\ t # NONE /\ t \in Soft /\ t \in Timers /\ FlagFits(t)
      /\ InList(s, t) => s.tm[t].periodic
  BY <1>0, <1>1, <1>2, ThreadFacts DEF ThreadType, FunctionSound
<1>4. PICK m : m = tt.n
  OBVIOUS
<1>5. m # NONE => /\ m # t /\ InList(s, m) /\ m \in Timers
                  /\ minus(tick, tt.cur) + Until(s.tm[m].timeout, tick) <= Limit - 1
  BY <1>0, <1>1, <1>2, <1>4, ThreadFacts DEF NoteSound, ThreadType
<1>6. ASSUME tt'.n = m, tt'.cur = tt.cur, tt'.pc \in InCheck, tt'.t \in {t, NONE}, OthersStay(s, s', t)
      PROVE  NoteSound'
  <2>2. m # NONE => InList(s', m) /\ s'.tm[m] = s.tm[m]
    BY <1>5, <1>6 DEF OthersStay
  <2>3. InList(s, tt.n)' <=> InList(s', m)
    BY <1>6 DEF InList, bottom
  <2>4. minus(tick, tt.cur)' = minus(tick, tt.cur)
    BY <1>1, <1>6 DEF minus
  <2>5. Until(s.tm[tt.n].timeout, tick)' = Until(s'.tm[m].timeout, tick)
    BY <1>1, <1>6 DEF Until, minus
  <2> QED BY <1>5, <1>6, <2>2, <2>3, <2>4, <2>5 DEF NoteSound
<1>7. CASE renews(s, t)
  <2>1. s' = prepared(s, t) /\ tt' = [tt EXCEPT !.pc = "restart"]
    BY <1>1, <1>7
  <2>2. tt' \in ThreadType /\ tt'.t = t /\ tt'.n = m /\ tt'.pc = "restart" /\ tt'.cur = tt.cur
    BY <1>0, <1>2, <1>4, <2>1 DEF ThreadType
  <2>3. /\ ListsSound(s', tick, First) /\ Touches(s, s', t)
        /\ ~s'.tm[t].active /\ OnTime(s'.tm[t].timeout, tick) /\ ~InList(s', t)
    BY <1>3, <2>1, ThreadFacts, PrepareStep
  <2>4. OthersStay(s, s', t) /\ s'.tm[t].periodic = s.tm[t].periodic
    BY <2>3 DEF Touches
  <2>5. s.tm[t].active
    BY <1>7 DEF renews
  <2>6. ~InList(s, t)' /\ program' = program /\ tick' = tick /\ tcall' = tcall
    BY <1>1, <2>3 DEF InList, bottom
  <2>7. FlagFits(t)'
    BY <1>3, <2>3, <2>4, <2>6 DEF FlagFits, SelfStarts
  <2>8. ASSUME NEW c \in Clients, tcall[c].t = t
        PROVE  tcall[c].stage # "insert" /\ CallSound(c)'
    <3>1. CallSound(c)
      BY ThreadFacts DEF CallsSound
    <3>2. tcall[c].stage # "insert" /\ tcall[c].stage # "clear"
      BY <1>0, <2>5, <2>8, <3>1 DEF CallSound
    <3> QED BY <2>6, <2>8, <3>1, <3>2 DEF CallSound
  <2>9. FunctionSound'
    <3>1. ~InList(s, tt.t)'
      BY <2>2, <2>3 DEF InList, bottom
    <3>2. OnTime(s.tm[tt.t].timeout, tick)'
      BY <2>2, <2>3, <2>6 DEF OnTime, Until, minus
    <3> QED BY <1>3, <2>2, <2>3, <2>6, <2>8, <3>1, <3>2 DEF FunctionSound
  <2>10. NoteSound' /\ SleepSound'
    BY <1>6, <2>2, <2>4 DEF InCheck, SleepSound
  <2> QED BY <1>0, <1>1, <1>3, <2>2, <2>3, <2>4, <2>7, <2>8, <2>9, <2>10, ThreadFrame DEF ThreadSound
<1>8. CASE ~renews(s, t)
  <2>1. s' = flagged(s, t, FALSE) /\ tt' = [tt EXCEPT !.pc = "walk", !.t = NONE]
    BY <1>1, <1>8
  <2>2. tt' \in ThreadType /\ tt'.t = NONE /\ tt'.n = m /\ tt'.pc = "walk" /\ tt'.cur = tt.cur
    BY <1>2, <1>4, <2>1 DEF ThreadType
  <2>3. ~InList(s, t)
    BY <1>3, <1>8 DEF FlagFits, renews
  <2>4. /\ ListsSound(s', tick, First) /\ Touches(s, s', t) /\ s'.tm[t].active = FALSE
        /\ s'.tm[t].timeout = s.tm[t].timeout /\ ~InList(s', t)
    BY <1>3, <2>1, <2>3, ThreadFacts, FlagStep
  <2>5. OthersStay(s, s', t) /\ s'.tm[t].periodic = s.tm[t].periodic
    BY <2>4 DEF Touches
  <2>6. ~InList(s, t)' /\ program' = program /\ tick' = tick /\ tcall' = tcall
    BY <1>1, <2>4 DEF InList, bottom
  <2>7. FlagFits(t)'
    BY <1>3, <2>4, <2>5, <2>6 DEF FlagFits, SelfStarts
  <2>8. ASSUME NEW c \in Clients, tcall[c].t = t PROVE CallSound(c)'
    <3>1. CallSound(c)
      BY ThreadFacts DEF CallsSound
    <3>2. OnTime(s.tm[t].timeout, tick)' <=> OnTime(s.tm[t].timeout, tick)
      BY <2>4, <2>6 DEF OnTime, Until, minus
    <3>3. OnTime(s.tm[tcall[c].t].timeout, tick)' <=> OnTime(s.tm[t].timeout, tick)
      BY <2>4, <2>6, <2>8 DEF OnTime, Until, minus
    <3>4. ~InList(s, tcall[c].t)'
      BY <2>4, <2>6, <2>8 DEF InList, bottom
    <3> QED BY <1>3, <2>2, <2>4, <2>5, <2>6, <2>8, <3>1, <3>3, <3>4 DEF CallSound
  <2>9. FunctionSound'
    BY <2>2 DEF FunctionSound
  <2>10. NoteSound' /\ SleepSound'
    BY <1>6, <2>2, <2>5 DEF InCheck, SleepSound
  <2> QED BY <1>0, <1>1, <1>3, <2>2, <2>4, <2>5, <2>7, <2>8, <2>9, <2>10, ThreadFrame DEF ThreadSound
<1> QED BY <1>7, <1>8

LEMMA CalledForm ==
  ASSUME program \in Programs, NEW z, NEW t \in Timers
  PROVE  LET f == program.func[t] IN
         /\ f.on \in Timers /\ f.op \in {"none", "start", "stop"}
         /\ f.op = "start" => called(z, t) = started(z, f.on)
         /\ f.op = "stop" => called(z, t) = stopped(z, f.on)
         /\ f.op = "none" => called(z, t) = z
<1>1. program.func[t] \in Does
  BY ProgramFacts
<1>2. program.func[t].on \in Timers /\ program.func[t].op \in {"none", "start", "stop"}
  BY <1>1 DEF Does
<1> QED BY <1>2 DEF called

(* The timer thread has noted no timer that it may miss.                   *)
LEMMA NoteAtFunction ==
  ASSUME TimerInv, tt.pc = "function", tt' \in ThreadType, tt'.n = tt.n, tt'.t = tt.t,
         tt'.pc = "over", tt'.cur = tick, tick' = tick, ListsSound(s', tick, First),
         tt.n # NONE => InList(s', tt.n)
  PROVE  NoteSound'
<1>1. PICK m : m = tt.n
  OBVIOUS
<1>2. m # NONE => m \in Soft /\ m \in Timers /\ m # tt.t
  BY <1>1, ThreadFacts, TimerAssumption DEF ThreadType, NoteSound
<1>3. m # NONE => OnTime(s'.tm[m].timeout, tick)
  <2> SUFFICES ASSUME m # NONE PROVE OnTime(s'.tm[m].timeout, tick)
    OBVIOUS
  <2>1. InList(s', m) /\ Kind(m) = "soft"
    BY <1>1, <1>2, Kinds
  <2> QED BY <2>1 DEF ListsSound, InWindow, InList
<1>4. minus(tick, tick) = 0
  BY ThreadFacts, MinusValue, Sizes
<1>5. minus(tick, tt.cur)' = 0
  BY <1>4 DEF minus
<1>6. InList(s, tt.n)' <=> InList(s', m)
  BY <1>1 DEF InList, bottom
<1>7. Until(s.tm[tt.n].timeout, tick)' = Until(s'.tm[m].timeout, tick)
  BY <1>1 DEF Until, minus
<1>8. m # NONE => 0 + Until(s'.tm[m].timeout, tick) <= Limit - 1
  BY <1>3, Sizes DEF OnTime
<1> QED BY <1>1, <1>2, <1>5, <1>6, <1>7, <1>8 DEF NoteSound, InCheck

LEMMA FunctionRunsStep ==
  ASSUME TimerInv, Careful, FunctionRuns
  PROVE  TimerInv'
<1>0. PICK t : t = tt.t
  OBVIOUS
<1>1. /\ tt.pc = "function" /\ s' = (IF MayRun(program.func[t]) THEN called(s, t) ELSE s)
      /\ tt' = [tt EXCEPT !.pc = "over", !.cur = tick] /\ UNCHANGED <<program, tick, isr, tcall>>
  BY <1>0 DEF FunctionRuns, Runs
<1>2. tt \in ThreadType /\ "over" \in ThreadStages /\ NONE \notin Timers /\ Soft \subseteq Timers
      /\ tick \in Ticks /\ program \in Programs
  BY ThreadFacts, TimerAssumption DEF ThreadStages, TimerTypes
<1>3. tt' \in ThreadType /\ tt'.t = t /\ tt'.n = tt.n /\ tt'.pc = "over" /\ tt'.cur = tick
  BY <1>0, <1>1, <1>2 DEF ThreadType
<1>4. /\ t # NONE /\ t \in Soft /\ t \in Timers /\ (InList(s, t) => s.tm[t].periodic)
      /\ tt.n # NONE => InList(s, tt.n) /\ tt.n \in Timers
  BY <1>0, <1>1, <1>2, ThreadFacts DEF ThreadType, FunctionSound, NoteSound
<1>5. PICK f : f = program.func[t]
  OBVIOUS
<1>6. PICK u : u = f.on
  OBVIOUS
<1>7. /\ u \in Timers /\ f.op \in {"none", "start", "stop"}
      /\ f.op = "start" => called(s, t) = started(s, u)
      /\ f.op = "stop" => called(s, t) = stopped(s, u)
      /\ f.op = "none" => called(s, t) = s
  BY <1>2, <1>4, <1>5, <1>6, CalledForm
<1>8. FlagFits(u) /\ SleepSound'
  BY <1>3, <1>7, ThreadFacts DEF SleepSound
<1>9. CASE s' = s
  <2>1. NoteSound'
    BY <1>0, <1>1, <1>3, <1>4, <1>9, ThreadFacts, NoteAtFunction
  <2>2. FunctionSound'
    <3>1. InList(s, tt.t)' <=> InList(s, t)
      BY <1>3, <1>9 DEF InList, bottom
    <3> QED BY <1>3, <1>4, <1>9, <3>1 DEF FunctionSound
  <2> QED BY <1>0, <1>1, <1>3, <1>8, <1>9, <2>1, <2>2, Quiet DEF ThreadSound
<1>10. ASSUME ListsSound(s', tick, First), Touches(s, s', u), tt.n # u, FlagFits(u)',
              InList(s', t) => s'.tm[t].periodic, \A c \in Clients : tcall[c].t = u => CallSound(c)'
       PROVE  TimerInv'
  <2>1. OthersStay(s, s', u)
    BY <1>10 DEF Touches
  <2>2. tt.n # NONE => InList(s', tt.n)
    BY <1>4, <1>10, <2>1 DEF OthersStay
  <2>3. NoteSound'
    BY <1>0, <1>1, <1>3, <1>10, <2>2, NoteAtFunction
  <2>4. FunctionSound'
    <3>1. InList(s, tt.t)' <=> InList(s', t)
      BY <1>3 DEF InList, bottom
    <3> QED BY <1>3, <1>4, <1>10, <3>1 DEF FunctionSound
  <2> QED BY <1>0, <1>1, <1>3, <1>7, <1>8, <1>10, <2>1, <2>3, <2>4, ThreadFrame DEF ThreadSound
<1>11. CASE f.op = "start" /\ s' # s
  <2>1. MayStart(u) /\ s' = started(s, u)
    BY <1>1, <1>5, <1>6, <1>7, <1>11 DEF MayRun
  <2>2. tt.n # u /\ (t = u => s.tm[t].periodic)
    BY <1>0, <2>1 DEF MayStart
  <2>3. /\ ListsSound(s', tick, First) /\ Touches(s, s', u)
        /\ s'.tm[u].active /\ InList(s', u)
    BY <1>7, <2>1, ThreadFacts, StartStep
  <2>4. OthersStay(s, s', u) /\ s'.tm[u].periodic = s.tm[u].periodic
    BY <2>3 DEF Touches
  <2>5. u \notin program.owned
    BY <1>2, <1>4, <1>5, <1>6, <1>11, ProgramFacts DEF Disciplined
  <2>6. \A c \in Clients : tcall[c].t # u
    BY <1>2, <1>7, <2>5, ThreadFacts DEF CallsSound, CallSound
  <2>7. FlagFits(u)'
    <3>1. InList(s, u)' /\ program' = program
      BY <1>1, <2>3 DEF InList, bottom
    <3> QED BY <1>8, <2>3, <2>4, <3>1 DEF FlagFits, SelfStarts
  <2>8. InList(s', t) => s'.tm[t].periodic
    BY <1>4, <2>2, <2>4 DEF OthersStay
  <2> QED BY <1>10, <2>2, <2>3, <2>6, <2>7, <2>8
<1>12. CASE f.op = "stop" /\ s' # s
  <2>1. MayStop(u) /\ s' = stopped(s, u)
    BY <1>1, <1>5, <1>6, <1>7, <1>12 DEF MayRun
  <2>2. tt.n # u
    BY <2>1 DEF MayStop
  <2>3. /\ ListsSound(s', tick, First) /\ Touches(s, s', u)
        /\ ~s'.tm[u].active /\ ~InList(s', u) /\ s.tm[u].active
    BY <1>7, <1>8, <1>12, <2>1, ThreadFacts, StopStep DEF FlagFits
  <2>4. OthersStay(s, s', u) /\ s'.tm[u].periodic = s.tm[u].periodic
    BY <2>3 DEF Touches
  <2>5. ASSUME NEW c \in Clients, tcall[c].t = u PROVE CallSound(c)'
    <3>1. CallSound(c) /\ tcall' = tcall /\ program' = program
      BY <1>1, ThreadFacts DEF CallsSound
    <3>2. tcall[c].stage # "insert"
      BY <2>3, <2>5, <3>1 DEF CallSound
    <3>3. ~InList(s, tcall[c].t)'
      BY <2>3, <2>5, <3>1 DEF InList, bottom
    <3>4. tt'.t = tt.t
      BY <1>0, <1>3
    <3> QED BY <3>1, <3>2, <3>3, <3>4 DEF CallSound
  <2>6. FlagFits(u)'
    <3>1. ~InList(s, u)' /\ program' = program
      BY <1>1, <2>3 DEF InList, bottom
    <3> QED BY <1>8, <2>3, <2>4, <3>1 DEF FlagFits, SelfStarts
  <2>7. InList(s', t) => s'.tm[t].periodic
    BY <1>4, <2>3, <2>4 DEF OthersStay
  <2> QED BY <1>10, <2>2, <2>3, <2>5, <2>6, <2>7
<1> QED BY <1>1, <1>5, <1>7, <1>9, <1>11, <1>12

LEMMA ThreadSteps ==
  ASSUME TimerInv, Careful, rt_thread_timer_entry
  PROVE  TimerInv'
BY WatchesStep, SuspendsStep, SleepsStep, CheckBeginsStep, WalkEndsStep, WalkFiresStep,
   FunctionRunsStep, WalkOverStep, WalkRestartsStep DEF rt_thread_timer_entry, rt_soft_timer_check

(***************************************************************************)
(* The tick interrupt.                                                     *)
(***************************************************************************)
HardOnly(z, y) ==
  y.row["soft"] = z.row["soft"] /\ \A v \in Timers : v \in Soft => y.tm[v] = z.tm[v]
LEMMA TouchesHard ==
  ASSUME NEW z, NEW y, NEW t \in Timers, t \notin Soft, Touches(z, y, t)
  PROVE  HardOnly(z, y)
<1>1. Kind(t) # "soft" /\ "soft" \in Lists
  BY DEF Kind, Lists
<1> QED BY <1>1 DEF HardOnly, Touches, OthersStay

LEMMA HardFrame ==
  ASSUME TimerInv, UNCHANGED <<program, tick, isr, tcall, tt>>, HardOnly(s, s'),
         ListsSound(s', tick, First), FlagsTell', \A c \in Clients : CallSound(c)'
  PROVE  TimerInv'
<1>1. TimerTypes'
  BY ThreadFacts DEF TimerTypes
<1>2. ListsSound(s, tick, First)'
  <2>1. First' = First /\ tick' = tick
    BY DEF First
  <2> QED BY <2>1, ListsPrimed
<1>3. CallsSound'
  <2>1. \A c, d \in Clients : tcall'[c].t = tcall'[d].t /\ tcall'[c].t # NONE => c = d
    BY ThreadFacts DEF CallsSound
  <2> QED BY <2>1 DEF CallsSound
<1>4. \A v \in Timers : v \in Soft => s'.tm[v] = s.tm[v] /\ (InList(s, v)' <=> InList(s, v))
  BY Kinds DEF HardOnly, InList, bottom
<1>5. bottom(s, "soft")' = bottom(s, "soft")
  BY DEF HardOnly, bottom
<1>6. \A v \in ToSet(bottom(s, "soft")) : v \in Soft /\ v \in Timers
  BY ThreadFacts, NextTimeout, AtBottom, Kinds
<1>7. /\ tt \in ThreadType /\ FunctionSound /\ NoteSound /\ SleepSound /\ NONE \notin Timers
      /\ tick' = tick /\ tt' = tt /\ tcall' = tcall /\ Soft \subseteq Timers
  BY ThreadFacts, TimerAssumption
<1>8. FunctionSound'
  <2>1. PICK t : t = tt.t
    OBVIOUS
  <2>2. t # NONE => s'.tm[t] = s.tm[t] /\ (InList(s, t)' <=> InList(s, t))
    BY <1>4, <1>7, <2>1 DEF ThreadType
  <2>3. (InList(s, tt.t)' <=> InList(s, t)') /\ tt'.t = t
    BY <1>7, <2>1 DEF InList, bottom
  <2>4. t # NONE => (OnTime(s.tm[tt.t].timeout, tick)' <=> OnTime(s.tm[t].timeout, tick))
    BY <1>7, <2>1, <2>2 DEF OnTime, Until, minus
  <2>5. tt'.pc = "restart" => t # NONE
    BY <1>7, <2>1 DEF FunctionSound
  <2> QED BY <1>7, <2>1, <2>2, <2>3, <2>4, <2>5 DEF FunctionSound
<1>9. NoteSound'
  <2>1. PICK m : m = tt.n
    OBVIOUS
  <2>2. m # NONE => s'.tm[m] = s.tm[m] /\ (InList(s, m)' <=> InList(s, m))
    BY <1>4, <1>7, <2>1 DEF ThreadType
  <2>3. (InList(s, tt.n)' <=> InList(s, m)') /\ tt'.n = m
    BY <1>7, <2>1 DEF InList, bottom
  <2>4. m # NONE => Until(s.tm[tt.n].timeout, tick)' = Until(s.tm[m].timeout, tick)
    BY <1>7, <2>1, <2>2 DEF Until, minus
  <2>5. minus(tick, tt.cur)' = minus(tick, tt.cur)
    BY <1>7 DEF minus
  <2> QED BY <1>7, <2>1, <2>2, <2>3, <2>4, <2>5 DEF NoteSound
<1>10. SleepSound'
  <2>1. next_timeout' = next_timeout
    <3>1. CASE bottom(s, "soft") = <<>>
      BY <1>5, <3>1 DEF next_timeout
    <3>2. CASE bottom(s, "soft") # <<>>
      <4>1. PICK h : h = Head(bottom(s, "soft"))
        OBVIOUS
      <4>2. h \in Soft /\ h \in Timers
        BY <3>2, <4>1, NextTimeout
      <4>3. s'.tm[h] = s.tm[h]
        BY <1>4, <4>2
      <4> QED BY <1>5, <3>2, <4>1, <4>3 DEF next_timeout
    <3> QED BY <3>1, <3>2
  <2>2. \A v \in ToSet(bottom(s, "soft")) : Until(s.tm[v].timeout, tick)' = Until(s.tm[v].timeout, tick)
    BY <1>4, <1>6, <1>7 DEF Until, minus
  <2>3. Until(tt.next, tick)' = Until(tt.next, tick)
    BY <1>7 DEF Until, minus
  <2>4. ASSUME tt'.pc = "asleep"
        PROVE  /\ Until(tt.next, tick)' \in MaxLate + 1 .. Limit - 1
               /\ (\A c \in Clients : tcall'[c].stage # "resume") =>
                     \A v \in ToSet(bottom(s, "soft"))' :
                       Until(tt.next, tick)' <= Until(s.tm[v].timeout, tick)'
    <3>1. tt.pc = "asleep"
      BY <1>7, <2>4
    <3> QED BY <1>5, <1>7, <2>2, <2>3, <3>1 DEF SleepSound
  <2> QED BY <1>5, <1>7, <2>1, <2>4 DEF SleepSound
<1> QED BY <1>1, <1>2, <1>3, <1>8, <1>9, <1>10 DEF TimerInv, ThreadSound

(* The three things the interrupt does with a timer t that is due: it is   *)
(* taken out, its function is called on u, and it is renewed or left.      *)
Taken(z, y, t) ==
  ListsSound(y, tick, 0) /\ Touches(z, y, t) /\ y.tm[t].active = z.tm[t].active /\ ~InList(y, t)
Done(z, y, op, u) ==
  /\ ListsSound(y, tick, 0)
  /\ op = "start" => Touches(z, y, u) /\ y.tm[u].active /\ InList(y, u)
  /\ op = "stop" => Touches(z, y, u) /\ ~y.tm[u].active /\ ~InList(y, u) /\ (~z.tm[u].active => y = z)
  /\ op = "none" => y = z
Renewed(z, y, t) ==
  /\ ListsSound(y, tick, 0) /\ Touches(z, y, t)
  /\ renews(z, t) => y.tm[t].active /\ InList(y, t)
  /\ ~renews(z, t) => ~y.tm[t].active /\ (InList(y, t) <=> InList(z, t))
LEMMA OverStep ==
  ASSUME NEW z, Clock(tick, 0), ListsSound(z, tick, 0), NEW t \in Timers
  PROVE  Renewed(z, over(z, t), t)
<1>1. CASE renews(z, t)
  BY <1>1, StartStep DEF Renewed, over
<1>2. CASE ~renews(z, t)
  BY <1>2, FlagStep DEF Renewed, over
<1> QED BY <1>1, <1>2

LEMMA FiresStep ==
  ASSUME TimerInv, Careful, Fires
  PROVE  TimerInv'
<1>0. PICK t : t = Head(bottom(s, "hard"))
  OBVIOUS
<1>1. /\ isr = "check" /\ checks(s) /\ s' = over(called(_rt_timer_remove(s, t), t), t)
      /\ tt' = (IF program.func[t].op = "start" /\ program.func[t].on \in Soft THEN resumed ELSE tt)
      /\ UNCHANGED <<program, tick, isr, tcall>>
  BY <1>0 DEF Fires
<1>2. Clock(tick, 0) /\ ListsSound(s, tick, 0) /\ First = 0 /\ "hard" \in Lists
  BY <1>1, NowClock DEF Lists
<1>3. t \in Timers /\ Kind(t) = "hard" /\ InList(s, t) /\ t \notin Soft /\ FlagFits(t) /\ s.tm[t].active
  <2>1. bottom(s, "hard") # <<>>
    BY <1>1 DEF checks, checks_due
  <2>2. t \in Timers /\ Kind(t) = "hard" /\ InList(s, t)
    BY <1>0, <1>2, <2>1, HeadFirst
  <2>3. t \notin Soft /\ FlagFits(t)
    BY <2>2, Kinds, ThreadFacts
  <2> QED BY <2>2, <2>3 DEF FlagFits
<1>4. /\ program \in Programs /\ NONE \notin Timers /\ Soft \subseteq Timers /\ Disciplined(program)
      /\ tt \in ThreadType /\ program' = program
  BY <1>1, ThreadFacts, ProgramFacts DEF TimerTypes
<1>5. PICK f : f = program.func[t]
  OBVIOUS
<1>6. PICK u : u = f.on
  OBVIOUS
<1>7. PICK z1 : z1 = _rt_timer_remove(s, t)
  OBVIOUS
<1>8. PICK z2 : z2 = called(z1, t)
  OBVIOUS
<1>9. s' = over(z2, t)
  BY <1>1, <1>7, <1>8
<1>10. /\ u \in Timers /\ f.op \in {"none", "start", "stop"}
       /\ f.op = "start" => z2 = started(z1, u)
       /\ f.op = "stop" => z2 = stopped(z1, u)
       /\ f.op = "none" => z2 = z1
  BY <1>3, <1>4, <1>5, <1>6, <1>8, CalledForm
<1>11. /\ f.op = "start" /\ u \in program.owned => u = t
       /\ f.op = "start" /\ u = t => SelfStarts(t)
       /\ f.op # "none" => u \notin Soft
  BY <1>3, <1>4, <1>5, <1>6 DEF Disciplined, SelfStarts
<1>12. tt' = tt
  BY <1>1, <1>5, <1>6, <1>11
<1>13. Taken(s, z1, t)
  BY <1>2, <1>3, <1>7, RemoveStep DEF Taken
<1>14. \A v \in Timers : v # t => z1.tm[v] = s.tm[v] /\ (InList(z1, v) <=> InList(s, v))
  BY <1>13 DEF Taken, Touches, OthersStay
<1>15. InList(z1, u) => z1.tm[u].active
  <2>1. CASE u = t
    BY <1>13, <2>1 DEF Taken
  <2>2. CASE u # t
    BY <1>10, <1>14, <2>2, ThreadFacts DEF FlagFits
  <2> QED BY <2>1, <2>2
<1>16. Done(z1, z2, f.op, u)
  <2>1. ListsSound(z1, tick, 0)
    BY <1>13 DEF Taken
  <2>2. CASE f.op = "start"
    BY <1>2, <1>10, <2>1, <2>2, StartStep DEF Done
  <2>3. CASE f.op = "stop"
    BY <1>2, <1>10, <1>15, <2>1, <2>3, StopStep DEF Done
  <2>4. CASE f.op = "none"
    BY <1>10, <2>1, <2>4 DEF Done
  <2> QED BY <1>10, <2>2, <2>3, <2>4
<1>17. Renewed(z2, s', t)
  BY <1>2, <1>3, <1>9, <1>16, OverStep DEF Done
<1>18. \A v \in Timers : v # u \/ f.op = "none" =>
         z2.tm[v] = z1.tm[v] /\ (InList(z2, v) <=> InList(z1, v))
  BY <1>10, <1>16 DEF Done, Touches, OthersStay
<1>19. \A v \in Timers : v # t => s'.tm[v] = z2.tm[v] /\ (InList(s', v) <=> InList(z2, v))
  BY <1>17 DEF Renewed, Touches, OthersStay
<1>20. \A v \in Timers : (v # u \/ f.op = "none") /\ v # t =>
         s'.tm[v] = s.tm[v] /\ (InList(s', v) <=> InList(s, v))
  BY <1>14, <1>18, <1>19
<1>21. \A v \in Timers : s'.tm[v].periodic = s.tm[v].periodic /\ z2.tm[v].periodic = s.tm[v].periodic
  <2>1. \A v \in Timers : z1.tm[v].periodic = s.tm[v].periodic
    BY <1>13, <1>14 DEF Taken, Touches
  <2>2. \A v \in Timers : z2.tm[v].periodic = z1.tm[v].periodic
    BY <1>10, <1>16, <1>18 DEF Done, Touches
  <2>3. \A v \in Timers : s'.tm[v].periodic = z2.tm[v].periodic
    BY <1>17, <1>19 DEF Renewed, Touches
  <2> QED BY <2>1, <2>2, <2>3
<1>22. HardOnly(s, s')
  <2>1. HardOnly(s, z1)
    BY <1>3, <1>13, TouchesHard DEF Taken
  <2>2. HardOnly(z1, z2)
    <3>1. CASE f.op = "none"
      BY <1>10, <3>1 DEF HardOnly
    <3>2. CASE f.op # "none"
      BY <1>10, <1>11, <1>16, <3>2, TouchesHard DEF Done
    <3> QED BY <3>1, <3>2
  <2>3. HardOnly(z2, s')
    BY <1>3, <1>17, TouchesHard DEF Renewed
  <2> QED BY <2>1, <2>2, <2>3 DEF HardOnly
<1>23. InList(s', t) => s'.tm[t].active
  <2>1. CASE renews(z2, t)
    BY <1>17, <2>1 DEF Renewed
  <2>2. CASE ~renews(z2, t)
    <3>1. ~InList(z2, t)
      <4>1. CASE f.op = "start" /\ u = t
        BY <1>3, <1>11, <1>16, <1>21, <2>2, <4>1 DEF FlagFits, Done, renews
      <4>2. CASE f.op = "stop" /\ u = t
        BY <1>16, <4>2 DEF Done
      <4>3. CASE f.op = "none" \/ u # t
        BY <1>3, <1>13, <1>18, <4>3 DEF Taken
      <4> QED BY <1>10, <4>1, <4>2, <4>3
    <3> QED BY <1>17, <2>2, <3>1 DEF Renewed
  <2> QED BY <2>1, <2>2
<1>24. s'.tm[t].active => InList(s', t)
  BY <1>17 DEF Renewed
<1>25. ASSUME NEW v \in Timers PROVE FlagFits(v)'
  <2>0. FlagFits(v) /\ (InList(s, v)' <=> InList(s', v)) /\ (SelfStarts(v)' <=> SelfStarts(v))
        /\ (\E c \in Clients : Clears(c, v))' = (\E c \in Clients : Clears(c, v))
    BY <1>1, ThreadFacts DEF InList, bottom, SelfStarts, Clears
  <2>1. CASE v = t
    BY <1>21, <1>23, <1>24, <2>0, <2>1 DEF FlagFits
  <2>2. CASE v # t /\ (v # u \/ f.op = "none")
    BY <1>12, <1>20, <2>0, <2>2 DEF FlagFits
  <2>3. CASE v # t /\ v = u /\ f.op # "none"
    <3>1. z2.tm[u].active <=> InList(z2, u)
      BY <1>10, <1>16, <2>3 DEF Done
    <3>2. s'.tm[v].active <=> InList(s', v)
      BY <1>19, <2>3, <3>1
    <3> QED BY <1>21, <2>0, <3>2 DEF FlagFits
  <2> QED BY <2>1, <2>2, <2>3
<1>26. FlagsTell'
  BY <1>25 DEF FlagsTell, FlagFits, SelfStarts, Clears
<1>27. ASSUME NEW c \in Clients PROVE CallSound(c)'
  <2>0. PICK v : v = tcall[c].t
    OBVIOUS
  <2>1. CallSound(c) /\ tcall' = tcall /\ tt' = tt /\ tick' = tick /\ (v = NONE \/ v \in Timers)
        /\ (v \in Timers => FlagFits(v)) /\ tt.t # t
    BY <1>1, <1>3, <1>4, <1>12, <2>0, ThreadFacts DEF CallsSound, TimerTypes, ThreadType
  <2>2. CASE v = NONE
    <3>1. tcall[c].stage = "idle"
      BY <2>0, <2>1, <2>2 DEF CallSound
    <3> QED BY <2>0, <2>1, <2>2, <3>1 DEF CallSound
  <2>3. CASE v \in Timers
    <3>1. InList(s, tcall[c].t)' <=> InList(s', v)
      BY <2>0, <2>1 DEF InList, bottom
    <3>2. OnTime(s.tm[tcall[c].t].timeout, tick)' <=> OnTime(s'.tm[v].timeout, tick)
      BY <2>0, <2>1 DEF OnTime, Until, minus
    <3>3. tcall[c].stage = "insert" => /\ ~s.tm[v].active /\ ~InList(s, v) /\ v # t
                                       /\ s'.tm[v] = s.tm[v]
      <4> SUFFICES ASSUME tcall[c].stage = "insert"
                   PROVE  ~s.tm[v].active /\ ~InList(s, v) /\ v # t /\ s'.tm[v] = s.tm[v]
        OBVIOUS
      <4>1. ~s.tm[v].active /\ v \in program.owned
        BY <1>4, <2>0, <2>1, <2>3 DEF CallSound
      <4>2. ~InList(s, v) /\ v # t
        BY <1>3, <2>1, <2>3, <4>1 DEF FlagFits
      <4>3. CASE v # u \/ f.op = "none"
        BY <1>20, <2>3, <4>1, <4>2, <4>3
      <4>4. CASE v = u /\ f.op = "stop"
        <5>1. ~z1.tm[u].active
          BY <1>14, <2>3, <4>1, <4>2, <4>4
        <5>2. z2 = z1
          BY <1>16, <4>4, <5>1 DEF Done
        <5> QED BY <1>14, <1>19, <2>3, <4>1, <4>2, <5>2
      <4>5. CASE v = u /\ f.op = "start"
        BY <1>11, <4>1, <4>2, <4>5
      <4> QED BY <1>10, <4>3, <4>4, <4>5
    <3>4. tcall[c].stage = "clear" => ~InList(s', v)
      <4> SUFFICES ASSUME tcall[c].stage = "clear" PROVE ~InList(s', v)
        OBVIOUS
      <4>1. ~InList(s, v) /\ v # t /\ v \in program.owned
        BY <1>3, <1>4, <2>0, <2>1, <2>3 DEF CallSound
      <4>2. CASE v # u \/ f.op = "none"
        BY <1>20, <2>3, <4>1, <4>2
      <4>3. CASE v = u /\ f.op = "stop"
        BY <1>16, <1>19, <2>3, <4>1, <4>3 DEF Done
      <4>4. CASE v = u /\ f.op = "start"
        BY <1>11, <4>1, <4>4
      <4> QED BY <1>10, <4>2, <4>3, <4>4
    <3>5. tcall[c].stage = "clear" => tt.t # v
      BY <2>0, <2>1 DEF CallSound
    <3> QED BY <1>4, <2>0, <2>1, <2>3, <3>1, <3>2, <3>3, <3>4, <3>5 DEF CallSound
  <2> QED BY <2>1, <2>2, <2>3
<1>28. ListsSound(s', tick, First)
  BY <1>2, <1>17 DEF Renewed
<1> QED BY <1>1, <1>12, <1>22, <1>26, <1>27, <1>28, HardFrame

LEMMA CheckedStep ==
  ASSUME TimerInv, Checked
  PROVE  TimerInv' /\ \A t \in ToSet(bottom(s, "hard")) : ~due(s, t, tick)
<1>1. /\ isr = "check" /\ ~checks(s) /\ isr' = "off"
      /\ UNCHANGED <<program, tick, s, tcall, tt>>
  BY DEF Checked
<1>2. Clock(tick, 0) /\ ListsSound(s, tick, 0)
  BY <1>1, NowClock
<1>3. ListsSound(s, tick, 1) /\ \A t \in ToSet(bottom(s, "hard")) : ~due(s, t, tick)
  BY <1>1, <1>2, CheckedLists
<1>4. ListsSound(s, tick, First)'
  <2>1. First' = 1 /\ s' = s /\ tick' = tick
    BY <1>1 DEF First
  <2> QED BY <1>3, <2>1, ListsPrimed
<1>5. TimerTypes'
  BY <1>1, ThreadFacts DEF TimerTypes
<1>6. FlagsTell' /\ CallsSound'
  BY <1>1, ThreadFacts DEF FlagsTell, CallsSound, CallSound, InList, bottom, OnTime, Until, minus
<1>7. ThreadSound'
  <2>1. FunctionSound' /\ NoteSound'
    BY <1>1, ThreadFacts DEF FunctionSound, NoteSound, InList, bottom, OnTime, Until, minus
  <2>2. SleepSound'
    BY <1>1, ThreadFacts DEF SleepSound, next_timeout, bottom, Until, minus
  <2> QED BY <2>1, <2>2 DEF ThreadSound
<1> QED BY <1>3, <1>4, <1>5, <1>6, <1>7 DEF TimerInv

(* The next tick.                                                          *)
LEMMA SameMinus ==
  ASSUME NEW now \in Ticks, NEW x \in Ticks
  PROVE  LET next == (now + 1) % TickMod IN
         minus(now + 1, x) = minus(next, x) /\ minus(next, x) <= minus(now, x) + 1
         /\ minus(next, x) \in Nat
<1>1. now \in Nat /\ x \in Nat /\ now < TickMod /\ x < TickMod /\ TickMod \in Nat /\ TickMod > 3
      /\ now + 1 \in Nat /\ now + 1 <= TickMod /\ Ticks = 0 .. TickMod - 1
  BY Sizes
<1>2. PICK next : next = (now + 1) % TickMod
  OBVIOUS
<1>3. next = (IF now + 1 < TickMod THEN now + 1 ELSE 0) /\ next \in Nat /\ next <= TickMod
  BY <1>1, <1>2, WrapsTo
<1>4. minus(now + 1, x) = IF now + 1 < x THEN now + 1 - x + TickMod
                          ELSE IF now + 1 - x < TickMod THEN now + 1 - x ELSE 0
  BY <1>1, MinusValue
<1>5. minus(next, x) = IF next < x THEN next - x + TickMod
                       ELSE IF next - x < TickMod THEN next - x ELSE 0
  BY <1>3, MinusValue
<1>6. minus(now, x) = IF now < x THEN now - x + TickMod
                      ELSE IF now - x < TickMod THEN now - x ELSE 0
  <2>1. now \in Nat /\ now <= TickMod
    BY <1>1
  <2> QED BY <2>1, MinusValue
<1> QED BY <1>1, <1>2, <1>3, <1>4, <1>5, <1>6

LEMMA StaysOnTime ==
  ASSUME NEW now \in Ticks, NEW x \in Ticks, OnTime(x, now),
         minus(now + 1, x) \notin (MaxLate + 1) .. Limit
  PROVE  LET next == (now + 1) % TickMod IN
         OnTime(x, next) /\ Until(x, next) = Until(x, now) - 1
<1>1. Until(x, now) >= 2 /\ Until(x, now) \in 1 .. Limit - 1 /\ Limit \in Nat
  BY NotLate, Sizes DEF OnTime
<1>2. Until(x, now) >= 1 /\ Until(x, now) - 1 \in 1 .. Limit - 1
  BY <1>1
<1>3. Until(x, (now + 1) % TickMod) = Until(x, now) - 1
  BY <1>2, TickPasses
<1> QED BY <1>2, <1>3 DEF OnTime

LEMMA TickStep ==
  ASSUME TimerInv, rt_tick_increase
  PROVE  TimerInv'
<1> DEFINE wakes == tt.pc = "asleep" /\ half(minus(tick + 1, tt.next))
           pc == IF wakes THEN "check" ELSE tt.pc
<1>1. /\ isr = "off" /\ InTime /\ tick' = (tick + 1) % TickMod /\ isr' = "check"
      /\ tt' = (IF wakes THEN [tt EXCEPT !.pc = "check"] ELSE tt)
      /\ UNCHANGED <<program, s, tcall>>
  BY DEF rt_tick_increase
<1>2. /\ tt \in ThreadType /\ TimerTypes /\ FunctionSound /\ NoteSound /\ SleepSound
      /\ CallsSound /\ FlagsTell /\ ListsTyped(s) /\ RowsAgree(s) /\ NONE \notin Timers
      /\ tick \in Ticks /\ ListsSound(s, tick, 1) /\ "check" \in ThreadStages /\ Soft \subseteq Timers
  BY <1>1, ThreadFacts, NowClock, TimerAssumption DEF ThreadStages
<1>3. tick' \in Ticks
  BY <1>1, <1>2, Sizes, WrapsTo DEF Ticks
<1>4. tt' \in ThreadType /\ tt'.t = tt.t /\ tt'.n = tt.n /\ tt'.pc = pc /\ tt'.next = tt.next
      /\ tt'.cur = tt.cur
  BY <1>1, <1>2 DEF ThreadType
<1>5. pc \in {tt.pc, "check"} /\ (pc = tt.pc \/ (tt.pc = "asleep" /\ wakes))
      /\ (pc = "asleep" => tt.pc = "asleep" /\ ~wakes)
  OBVIOUS
<1>6. wakes <=> tt.pc = "asleep" /\ half(minus(tick + 1, tt.next))
  OBVIOUS
<1> HIDE DEF wakes, pc
<1>7. \A t \in Timers : s.tm[t].timeout \in Ticks
  BY <1>2 DEF ListsTyped
<1>8. ASSUME NEW t \in Timers, ~Late(t), OnTime(s.tm[t].timeout, tick)
      PROVE  /\ OnTime(s.tm[t].timeout, tick')
             /\ Until(s.tm[t].timeout, tick') = Until(s.tm[t].timeout, tick) - 1
             /\ Until(s.tm[t].timeout, tick) >= 2
  <2>1. minus(tick + 1, s.tm[t].timeout) \notin (MaxLate + 1) .. Limit
    BY <1>8 DEF Late, Limit
  <2> QED BY <1>1, <1>2, <1>7, <1>8, <2>1, StaysOnTime, NotLate
<1>9. ASSUME NEW t \in ToSet(bottom(s, "soft"))
      PROVE  /\ t \in Timers /\ OnTime(s.tm[t].timeout, tick')
             /\ Until(s.tm[t].timeout, tick') = Until(s.tm[t].timeout, tick) - 1
             /\ Until(s.tm[t].timeout, tick) >= 2
  <2>1. t \in Timers
    BY <1>2, AtBottom DEF Lists
  <2>2. OnTime(s.tm[t].timeout, tick)
    BY <1>2 DEF ListsSound, InWindow
  <2>3. ~Late(t)
    BY <1>1 DEF InTime
  <2> QED BY <1>8, <2>1, <2>2, <2>3
<1>10. ListsSound(s, tick, First)'
  <2>1. ListsSound(s, (tick + 1) % TickMod, 0)
    BY <1>2, <1>9, TickLists
  <2>2. First' = 0 /\ s' = s
    BY <1>1 DEF First
  <2> QED BY <1>1, <2>1, <2>2, ListsPrimed
<1>11. TimerTypes'
  BY <1>1, <1>2, <1>3, <1>4 DEF TimerTypes, ThreadType
<1>12. FlagsTell'
  BY <1>1, <1>2, <1>4 DEF FlagsTell, InList, bottom
<1>13. CallsSound'
  <2> SUFFICES ASSUME NEW c \in Clients PROVE CallSound(c)'
    BY <1>1, <1>2 DEF CallsSound
  <2>0. PICK v : v = tcall[c].t
    OBVIOUS
  <2>1. CallSound(c) /\ tcall' = tcall /\ program' = program /\ (v = NONE \/ v \in Timers)
        /\ s' = s /\ tt'.t = tt.t
    BY <1>1, <1>2, <1>4, <2>0 DEF CallsSound, TimerTypes
  <2>2. InList(s, tcall[c].t)' <=> InList(s, tcall[c].t)
    BY <2>1 DEF InList, bottom
  <2>3. OnTime(s.tm[tcall[c].t].timeout, tick)' <=> OnTime(s.tm[v].timeout, tick')
    BY <2>0, <2>1 DEF OnTime, Until, minus
  <2>4. tcall[c].stage = "insert" => OnTime(s.tm[v].timeout, tick')
    <3> SUFFICES ASSUME tcall[c].stage = "insert" PROVE OnTime(s.tm[v].timeout, tick')
      OBVIOUS
    <3>1. v \in Timers /\ OnTime(s.tm[v].timeout, tick)
      BY <2>0, <2>1 DEF CallSound
    <3>2. ~Late(v)
      BY <1>1, <2>0 DEF InTime
    <3> QED BY <1>8, <3>1, <3>2
  <2> QED BY <2>0, <2>1, <2>2, <2>3, <2>4 DEF CallSound
<1>14. FunctionSound'
  <2>0. PICK t : t = tt.t
    OBVIOUS
  <2>1. t # NONE => t \in Timers
    BY <1>2, <2>0 DEF ThreadType
  <2>2. InList(s, tt.t)' <=> InList(s, t)
    BY <1>1, <1>4, <2>0 DEF InList, bottom
  <2>3. OnTime(s.tm[tt.t].timeout, tick)' <=> OnTime(s.tm[t].timeout, tick')
    BY <1>1, <1>4, <2>0 DEF OnTime, Until, minus
  <2>4. tt.pc = "restart" => OnTime(s.tm[t].timeout, tick')
    <3> SUFFICES ASSUME tt.pc = "restart" PROVE OnTime(s.tm[t].timeout, tick')
      OBVIOUS
    <3>1. t \in Timers /\ OnTime(s.tm[t].timeout, tick)
      BY <1>2, <2>0, <2>1 DEF FunctionSound
    <3>2. ~Late(t)
      BY <1>1, <2>0 DEF InTime
    <3> QED BY <1>8, <3>1, <3>2
  <2>5. pc = "restart" => tt.pc = "restart"
    BY <1>5
  <2>6. pc \in {"function", "over", "restart"} <=> tt.pc \in {"function", "over", "restart"}
    BY <1>5
  <2> QED BY <1>1, <1>2, <1>4, <2>0, <2>2, <2>3, <2>4, <2>5, <2>6 DEF FunctionSound
<1>15. NoteSound'
  <2>0. PICK m : m = tt.n
    OBVIOUS
  <2> SUFFICES ASSUME m # NONE PROVE NoteSound'
    BY <1>4, <2>0 DEF NoteSound
  <2>1. tt.pc \in InCheck /\ m # tt.t /\ InList(s, m) /\ m \in Soft /\ m \in Timers
        /\ (tt.pc # "function" => minus(tick, tt.cur) + Until(s.tm[m].timeout, tick) <= Limit - 1)
    BY <1>2, <2>0 DEF NoteSound, ThreadType
  <2>2. pc = tt.pc
    BY <1>5, <2>1 DEF InCheck
  <2>3. m \in ToSet(bottom(s, "soft"))
    BY <2>1, Kinds DEF InList
  <2>4. Until(s.tm[m].timeout, tick') = Until(s.tm[m].timeout, tick) - 1
    BY <1>9, <2>3
  <2>5. tt.cur \in Ticks
    BY <1>2 DEF ThreadType
  <2>6. minus(tick', tt.cur) <= minus(tick, tt.cur) + 1 /\ minus(tick', tt.cur) \in Nat
    BY <1>1, <1>2, <2>5, SameMinus
  <2>7. minus(tick, tt.cur) \in Int /\ Until(s.tm[m].timeout, tick) \in Int /\ Limit \in Int
    <3>1. Until(s.tm[m].timeout, tick) \in Ticks
      BY <1>2, <1>7, <2>1, UntilValue
    <3>2. minus(tick, tt.cur) \in Int
      <4>1. tick \in Nat /\ tick <= TickMod /\ tick \in Int /\ tt.cur \in Int /\ TickMod \in Int
        BY <1>2, <2>5, Sizes
      <4>2. minus(tick, tt.cur) = IF tick < tt.cur THEN tick - tt.cur + TickMod
                                  ELSE IF tick - tt.cur < TickMod THEN tick - tt.cur ELSE 0
        BY <2>5, <4>1, MinusValue
      <4> QED BY <4>1, <4>2
    <3> QED BY <3>1, <3>2, Sizes
  <2>8. tt.pc # "function" => minus(tick', tt.cur) + Until(s.tm[m].timeout, tick') <= Limit - 1
    BY <2>1, <2>4, <2>6, <2>7
  <2>9. InList(s, tt.n)' <=> InList(s, m)
    BY <1>1, <1>4, <2>0 DEF InList, bottom
  <2>10. minus(tick, tt.cur)' = minus(tick', tt.cur)
         /\ Until(s.tm[tt.n].timeout, tick)' = Until(s.tm[m].timeout, tick')
    BY <1>1, <1>4, <2>0 DEF Until, minus
  <2> QED BY <1>4, <2>0, <2>1, <2>2, <2>8, <2>9, <2>10 DEF NoteSound
<1>16. SleepSound'
  <2>1. s' = s /\ tcall' = tcall
    BY <1>1
  <2>2. pc = "suspend" => tt.pc = "suspend"
    BY <1>5
  <2>3. pc = "delay" => tt.pc = "delay"
    BY <1>5
  <2>4. ASSUME pc = "asleep"
        PROVE  /\ Until(tt.next, tick') \in MaxLate + 1 .. Limit - 1
               /\ Until(tt.next, tick') = Until(tt.next, tick) - 1
               /\ Until(tt.next, tick) \in Int
    <3>1. tt.pc = "asleep" /\ ~half(minus(tick + 1, tt.next)) /\ tt.next \in Ticks
      BY <1>2, <1>5, <1>6, <2>4 DEF ThreadType
    <3>2. Until(tt.next, tick) \in MaxLate + 1 .. Limit - 1 /\ MaxLate \in Nat /\ Limit \in Nat
      BY <1>2, <3>1, Sizes DEF SleepSound
    <3>3. Until(tt.next, tick') = Until(tt.next, tick) - 1
      BY <1>1, <1>2, <3>1, <3>2, TickPasses
    <3>4. ~half(minus(tick', tt.next))
      BY <1>1, <1>2, <3>1, SameMinus
    <3>5. Until(tt.next, tick') < Limit
      BY <3>2, <3>3
    <3>6. ~(Until(tt.next, tick') <= MaxLate + 1)
      BY <1>3, <3>1, <3>4, <3>5, DueWhen
    <3> QED BY <3>2, <3>3, <3>5, <3>6
  <2>5. ASSUME pc = "asleep", \A c \in Clients : tcall[c].stage # "resume",
               NEW t \in ToSet(bottom(s, "soft"))
        PROVE  Until(tt.next, tick') <= Until(s.tm[t].timeout, tick')
    <3>1. tt.pc = "asleep"
      BY <1>5, <2>5
    <3>2. Until(tt.next, tick) <= Until(s.tm[t].timeout, tick)
      BY <1>2, <2>5, <3>1 DEF SleepSound
    <3>3. Until(s.tm[t].timeout, tick') = Until(s.tm[t].timeout, tick) - 1
      BY <1>9
    <3>4. Until(s.tm[t].timeout, tick) \in Int
      <4>1. Until(s.tm[t].timeout, tick) \in Ticks
        BY <1>2, <1>7, <1>9, <2>5, UntilValue
      <4> QED BY <4>1, Sizes
    <3> QED BY <2>4, <2>5, <3>2, <3>3, <3>4
  <2>6. /\ Until(tt.next, tick)' = Until(tt.next, tick')
        /\ \A t : Until(s.tm[t].timeout, tick)' = Until(s.tm[t].timeout, tick')
    BY <1>4, <2>1 DEF Until, minus
  <2>7. next_timeout' = next_timeout /\ bottom(s, "soft")' = bottom(s, "soft")
    BY <2>1, SameNext
  <2>8. pc = "suspend" => next_timeout = RT_TICK_MAX
    BY <1>2, <2>2 DEF SleepSound
  <2>9. pc = "delay" => bottom(s, "soft") # <<>> /\ tt.next = next_timeout
    BY <1>2, <2>3 DEF SleepSound
  <2>10. pc = "asleep" =>
           /\ Until(tt.next, tick)' \in MaxLate + 1 .. Limit - 1
           /\ (\A c \in Clients : tcall'[c].stage # "resume") =>
                \A t \in ToSet(bottom(s, "soft"))' :
                  Until(tt.next, tick)' <= Until(s.tm[t].timeout, tick)'
    BY <2>1, <2>4, <2>5, <2>6, <2>7
  <2> QED BY <1>4, <2>7, <2>8, <2>9, <2>10 DEF SleepSound
<1> QED BY <1>10, <1>11, <1>12, <1>13, <1>14, <1>15, <1>16 DEF TimerInv, ThreadSound

LEMMA TimerStable ==
  ASSUME TimerInv, Careful, [TimerNext]_timer_vars
  PROVE  TimerInv'
<1>1. CASE rt_tick_increase
  BY <1>1, TickStep
<1>2. CASE rt_timer_check
  BY <1>2, FiresStep, CheckedStep DEF rt_timer_check
<1>3. CASE rt_thread_timer_entry
  BY <1>3, ThreadSteps
<1>4. CASE \E c \in Clients : ClientStep(c)
  BY <1>4, ClientSteps
<1>5. CASE UNCHANGED timer_vars
  <2>1. UNCHANGED <<program, tick, s, isr, tcall>> /\ tt' = tt
    BY <1>5 DEF timer_vars
  <2>2. tt' \in ThreadType /\ tt'.t = tt.t
    BY <2>1, ThreadFacts
  <2>3. ThreadSound'
    <3>1. FunctionSound' /\ NoteSound'
      BY <2>1, ThreadFacts DEF FunctionSound, NoteSound, InList, bottom, OnTime, Until, minus
    <3>2. SleepSound'
      BY <2>1, ThreadFacts DEF SleepSound, next_timeout, bottom, Until, minus
    <3> QED BY <3>1, <3>2 DEF ThreadSound
  <2> QED BY <2>1, <2>2, <2>3, Quiet
<1> QED BY <1>1, <1>2, <1>3, <1>4, <1>5 DEF TimerNext

-----------------------------------------------------------------------------
(***************************************************************************)
(* What the invariant says.                                                *)
(***************************************************************************)
LEMMA SortedRows ==
  ASSUME TimerInv
  PROVE  TimersSorted
<1> SUFFICES ASSUME NEW l \in Lists, NEW j \in Level, NEW r, r = s.row[l][j],
                    NEW i \in 1 .. Len(r) - 1
             PROVE  half(minus(s.tm[r[i + 1]].timeout, s.tm[r[i]].timeout))
  BY DEF TimersSorted, Lists
<1>1. r \in Seq(Timers)
  BY ThreadFacts, RowsTyped
<1>2. PICK t, u : t = r[i] /\ u = r[i + 1]
  OBVIOUS
<1>3. i \in DOMAIN r /\ i + 1 \in DOMAIN r /\ i < i + 1
  BY <1>1
<1>4. t \in ToSet(r) /\ u \in ToSet(r) /\ t \in Timers /\ u \in Timers
  BY <1>1, <1>2, <1>3 DEF ToSet
<1>5. Precedes(r, t, u)
  BY <1>2, <1>3 DEF Precedes
<1>6. Until(s.tm[t].timeout, tick) <= Until(s.tm[u].timeout, tick)
  BY <1>4, <1>5, ThreadFacts DEF ListsSound, InOrder
<1>7. \A v \in ToSet(r) : v \in ToSet(bottom(s, l))
  BY ThreadFacts DEF RowsAgree
<1>8. \A v \in ToSet(r) : Until(s.tm[v].timeout, tick) < Limit
  <2>1. \A v \in ToSet(bottom(s, l)) : Until(s.tm[v].timeout, tick) \in 0 .. Limit - 1
    <3>1. First \in {0, 1} /\ InWindow(s, tick, First)
      BY ThreadFacts DEF Clock, ListsSound
    <3>2. CASE l = "hard"
      BY <3>1, <3>2, Sizes DEF InWindow
    <3>3. CASE l = "soft"
      BY <3>1, <3>3, Sizes DEF InWindow, OnTime
    <3> QED BY <3>2, <3>3 DEF Lists
  <2> QED BY <1>7, <2>1, Sizes
<1>9. s.tm[t].timeout \in Ticks /\ s.tm[u].timeout \in Ticks /\ tick \in Ticks
  BY <1>4, ThreadFacts DEF ListsTyped
<1> QED BY <1>2, <1>4, <1>6, <1>8, <1>9, TickOrder

LEMMA ListedFlags ==
  ASSUME TimerInv
  PROVE  ActiveIsListed
<1> SUFFICES ASSUME NEW t \in Timers, Unclaimed(t), tt.t # t
             PROVE  s.tm[t].active <=> InList(s, t)
  BY DEF ActiveIsListed, InList
<1>1. FlagFits(t)
  BY ThreadFacts
<1>2. ~\E c \in Clients : Clears(c, t)
  BY DEF Unclaimed, Clears
<1> QED BY <1>1, <1>2 DEF FlagFits

LEMMA SleepsShort ==
  ASSUME TimerInv
  PROVE  ThreadWatches
<1> SUFFICES ASSUME tt.pc = "asleep", bottom(s, "soft") # <<>>,
                    \A c \in Clients : tcall[c].stage # "resume"
             PROVE  minus(next_timeout + 1, tt.next) <= Limit
  BY DEF ThreadWatches, Limit
<1>1. PICK h : h = Head(bottom(s, "soft"))
  OBVIOUS
<1>2. /\ next_timeout = s.tm[h].timeout /\ s.tm[h].timeout \in Ticks
      /\ OnTime(s.tm[h].timeout, tick) /\ h \in Soft /\ h \in Timers /\ InList(s, h)
  BY <1>1, NextTimeout
<1>3. PICK x : x = s.tm[h].timeout
  OBVIOUS
<1>4. h \in ToSet(bottom(s, "soft"))
  BY <1>2, Kinds DEF InList
<1>5. /\ Until(tt.next, tick) \in MaxLate + 1 .. Limit - 1
      /\ Until(tt.next, tick) <= Until(x, tick)
  BY <1>3, <1>4, ThreadFacts DEF SleepSound
<1>6. tt.next \in Ticks /\ tick \in Ticks /\ x \in Ticks /\ Until(x, tick) \in 1 .. Limit - 1
  BY <1>2, <1>3, ThreadFacts DEF ThreadType, OnTime
<1>7. Until(tt.next, tick) < Limit /\ Until(x, tick) < Limit /\ Limit \in Nat /\ MaxLate \in Nat
  BY <1>5, <1>6, Sizes
<1>8. minus(x, tt.next) = Until(x, tick) - Until(tt.next, tick)
  BY <1>5, <1>6, <1>7, TickOrder
<1>9. minus(x + 1, tt.next) <= minus(x, tt.next) + 1
  BY <1>6, SameMinus
<1>10. minus(x + 1, tt.next) \in Int
  BY <1>6, SameMinus
<1>11. minus(x, tt.next) + 1 <= Limit /\ minus(x, tt.next) + 1 \in Int
  BY <1>5, <1>6, <1>7, <1>8
<1>12. minus(x + 1, tt.next) <= Limit
  BY <1>7, <1>9, <1>10, <1>11
<1> QED BY <1>2, <1>3, <1>12

LEMMA TimerInvSays ==
  ASSUME TimerInv
  PROVE  TimersSound
<1>1. LevelsAgree
  BY ThreadFacts DEF LevelsAgree, RowsAgree, Lists
<1> QED BY <1>1, SortedRows, ListedFlags, SleepsShort DEF TimersSound

(* A timer that was due when the thread looked at the tick is due still.   *)
LEMMA EarlierTick ==
  ASSUME NEW x \in Ticks, NEW now \in Ticks, NEW cur \in Ticks,
         minus(now, cur) + Until(x, now) <= Limit - 1
  PROVE  Until(x, cur) = minus(now, cur) + Until(x, now) /\ minus(now, cur) \in Nat
         /\ Until(x, now) \in Nat /\ Until(x, cur) < Limit /\ Until(x, now) < Limit
<1> DEFINE a == Until(x, now)
           b == Until(x, cur)
           m == minus(now, cur)
           v == x + MaxLate + 1 - now
           w == x + MaxLate + 1 - cur
<1>1. /\ a = (IF v < 0 THEN v + TickMod ELSE IF v < TickMod THEN v ELSE v - TickMod)
      /\ b = (IF w < 0 THEN w + TickMod ELSE IF w < TickMod THEN w ELSE w - TickMod)
      /\ a \in Ticks /\ b \in Ticks
  BY UntilValue
<1>2. x \in Nat /\ now \in Nat /\ cur \in Nat /\ x < TickMod /\ now < TickMod /\ cur < TickMod
      /\ now <= TickMod /\ TickMod \in Nat /\ Limit \in Nat /\ 2 * Limit <= TickMod - 1
      /\ MaxLate \in Nat /\ MaxLate + 1 < Limit
  BY Sizes
<1>3. m = IF now < cur THEN now - cur + TickMod ELSE IF now - cur < TickMod THEN now - cur ELSE 0
  BY <1>2, MinusValue
<1>4. a \in Nat /\ b \in Nat /\ m + a <= Limit - 1
  BY <1>1, Sizes
<1>5. w = v + (now - cur) /\ v \in Int /\ w \in Int
  BY <1>2
<1>6. v = x + MaxLate + 1 - now
  OBVIOUS
<1> HIDE DEF a, b, m, v, w
<1>7. m \in Nat
  BY <1>2, <1>3
<1>8. b = m + a
  BY <1>1, <1>2, <1>3, <1>4, <1>5, <1>6, <1>7
<1>9. b < Limit /\ a < Limit
  BY <1>2, <1>4, <1>7, <1>8
<1> QED BY <1>4, <1>7, <1>8, <1>9 DEF a, b, m

LEMMA NotedIsDue ==
  ASSUME TimerInv, WalkFires
  PROVE  s.tm[tt.n].active /\ due(s, tt.n, tick)
<1>1. PICK t : t = tt.n
  OBVIOUS
<1>2. tt.pc = "walk" /\ t # NONE /\ half(minus(tt.cur, s.tm[t].timeout))
  BY <1>1 DEF WalkFires, Runs, walk_fires, due
<1>3. t \in Timers /\ InList(s, t) /\ FlagFits(t) /\ tt.cur \in Ticks /\ tick \in Ticks
      /\ s.tm[t].timeout \in Ticks
      /\ minus(tick, tt.cur) + Until(s.tm[t].timeout, tick) <= Limit - 1
  <2>1. t \in Timers
    BY <1>1, <1>2, ThreadFacts, TimerAssumption DEF ThreadType
  <2>2. s.tm[t].timeout \in Ticks
    BY <2>1, ThreadFacts DEF ListsTyped
  <2> QED BY <1>1, <1>2, <2>1, <2>2, ThreadFacts DEF ThreadType, NoteSound
<1>4. PICK x : x = s.tm[t].timeout
  OBVIOUS
<1>5. /\ Until(x, tt.cur) = minus(tick, tt.cur) + Until(x, tick) /\ minus(tick, tt.cur) \in Nat
      /\ Until(x, tick) \in Nat /\ Until(x, tt.cur) < Limit /\ Until(x, tick) < Limit
  BY <1>3, <1>4, EarlierTick
<1>6. Until(x, tt.cur) <= MaxLate + 1
  BY <1>2, <1>3, <1>4, <1>5, DueWhen
<1>7. Until(x, tick) <= MaxLate + 1
  BY <1>5, <1>6, Sizes
<1>8. half(minus(tick, x))
  BY <1>3, <1>4, <1>5, <1>7, DueWhen
<1> QED BY <1>1, <1>3, <1>4, <1>8 DEF FlagFits, due

LEMMA FirstIsActive ==
  ASSUME TimerInv, Fires
  PROVE  LET t == Head(bottom(s, "hard")) IN s.tm[t].active /\ due(s, t, tick)
<1>1. checks(s)
  BY DEF Fires
<1>2. bottom(s, "hard") # <<>> /\ due(s, Head(bottom(s, "hard")), tick) /\ "hard" \in Lists
  BY <1>1 DEF checks, checks_due, Lists
<1>3. PICK t : t = Head(bottom(s, "hard"))
  OBVIOUS
<1>4. t \in Timers /\ InList(s, t)
  BY <1>2, <1>3, ThreadFacts, HeadFirst
<1>5. FlagFits(t)
  BY <1>4, ThreadFacts
<1> QED BY <1>2, <1>3, <1>4, <1>5 DEF FlagFits

-----------------------------------------------------------------------------
(* The skip lists of every program that keeps to the rules of RtTimer are  *)
(* sorted, their levels agree, the flags tell which timers are listed and  *)
(* the timer thread sleeps no longer than to the first of the soft timers: *)
(* for any timers, threads, delays, levels and width of the tick.          *)
THEOREM TimersAreSound ==
  ASSUME Careful
  PROVE  TimerSpec => []TimersSound
<1>1. TimerInit => TimerInv
  BY TimerInitial
<1>2. TimerInv /\ [TimerNext]_timer_vars => TimerInv'
  BY TimerStable
<1>3. TimerInv => TimersSound
  BY TimerInvSays
<1> QED BY <1>1, <1>2, <1>3, PTL DEF TimerSpec

(* No timer of such a program is called early, when it is not active, or   *)
(* left due by the interrupt, and the timer thread suspends itself only    *)
(* when it found no soft timer.                                            *)
THEOREM TimersFireInTime ==
  ASSUME Careful
  PROVE  TimerSpec => TimersFire
<1>1. TimerInit => TimerInv
  BY TimerInitial
<1>2. TimerInv /\ [TimerNext]_timer_vars => TimerInv'
  BY TimerStable
<1>3. TimerInv /\ [TimerNext]_timer_vars =>
        [Suspends => LET l == bottom(s, "soft") IN
                     l # <<>> => s.tm[Head(l)].timeout = RT_TICK_MAX]_timer_vars
  <2> SUFFICES ASSUME TimerInv, Suspends, bottom(s, "soft") # <<>>
               PROVE  s.tm[Head(bottom(s, "soft"))].timeout = RT_TICK_MAX
    OBVIOUS
  <2>1. tt.pc = "suspend"
    BY DEF Suspends, Runs
  <2>2. next_timeout = RT_TICK_MAX
    BY <2>1, ThreadFacts DEF SleepSound
  <2> QED BY <2>2 DEF next_timeout
<1>4. TimerInv /\ [TimerNext]_timer_vars =>
        [isr = "check" /\ isr' = "off" =>
           \A t \in ToSet(bottom(s, "hard")) : ~due(s, t, tick)]_timer_vars
  <2> SUFFICES ASSUME TimerInv, TimerNext, isr = "check", isr' = "off"
               PROVE  \A t \in ToSet(bottom(s, "hard")) : ~due(s, t, tick)
    BY DEF timer_vars
  <2>1. Checked
    <3>1. isr' # isr
      OBVIOUS
    <3>2. ~rt_tick_increase
      BY DEF rt_tick_increase
    <3>3. ~Fires
      BY <3>1 DEF Fires
    <3>4. ~rt_thread_timer_entry
      BY <3>1 DEF rt_thread_timer_entry, rt_soft_timer_check, Watches, Suspends, Sleeps, CheckBegins,
                  WalkEnds, WalkFires, FunctionRuns, WalkOver, WalkRestarts
    <3>5. \A c \in Clients : ~ClientStep(c)
      BY <3>1 DEF ClientStep, rt_timer_start, rt_timer_stop, rt_timer_control, StartBegins,
                  StartInserts, StartResumes, StopBegins, StopRemoves, StopClears
    <3> QED BY <3>2, <3>3, <3>4, <3>5 DEF TimerNext, rt_timer_check
  <2> QED BY <2>1, CheckedStep
<1>5. TimerInv /\ [TimerNext]_timer_vars =>
        [/\ Fires => LET t == Head(bottom(s, "hard")) IN s.tm[t].active /\ due(s, t, tick)
         /\ WalkFires => s.tm[tt.n].active /\ due(s, tt.n, tick)]_timer_vars
  BY NotedIsDue, FirstIsActive
<1>6. TimerSpec => SuspendsForNone
  BY <1>1, <1>2, <1>3, PTL DEF TimerSpec, SuspendsForNone
<1>7. TimerSpec => NoneLeftDue
  BY <1>1, <1>2, <1>4, PTL DEF TimerSpec, NoneLeftDue
<1>8. TimerSpec => FiresActive
  BY <1>1, <1>2, <1>5, PTL DEF TimerSpec, FiresActive
<1> QED BY <1>6, <1>7, <1>8 DEF TimersFire

=============================================================================
