----------------------------- MODULE Allocator -----------------------------
(***************************************************************************)
(* What every heap of the kernel promises its callers: regions that lie in *)
(* the pool and do not overlap, until they are given back.                 *)
(***************************************************************************)
EXTENDS Naturals

CONSTANTS Pool        \* the addresses the heap may hand out
VARIABLE live         \* the regions in the hands of callers: [at, size]

Covers(r) == r.at..(r.at + r.size - 1)
Lies(r, others) == Covers(r) \subseteq Pool /\ \A o \in others : Covers(r) \cap Covers(o) = {}

Give(r)    == live' = live \cup {r} /\ r \notin live
Take(r)    == live' = live \ {r}
Resize(r)  == \E n \in live' : n.at = r.at /\ live' = (live \ {r}) \cup {n}

Init == live = {}
Next == /\ \/ \E r \in live' : Give(r)
           \/ \E r \in live : Take(r) \/ Resize(r)
        /\ \A r \in live' : Lies(r, live' \ {r})
Spec == Init /\ [][Next]_live
=============================================================================
