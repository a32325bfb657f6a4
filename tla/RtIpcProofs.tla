---------------------------- MODULE RtIpcProofs ----------------------------
(***************************************************************************)
(* Proofs about the objects themselves, whatever is called, timed out,     *)
(* reset, detached and deleted in whatever order: a mutex has one owner at *)
(* a time, to whom it lends the priority of those who wait for it, no      *)
(* token, message or block is lost in a semaphore, mailbox, queue or pool, *)
(* and nobody sleeps on an object that has what they wait for.             *)
(***************************************************************************)
EXTENDS RtThreadProofs

(***************************************************************************)
(* A thread pends on an object from the moment it is on its list until it  *)
(* has come back from the switch and looked at its error.  With a          *)
(* semaphore or mutexes threads make no other calls that block.            *)
(***************************************************************************)
Pend(c) == c.op \notin {"none", "sleep", "suspend"} /\ c.at \in {"suspending", "woken"}
KeepsTo(x) == \A t \in Threads :
  /\ call[t].at # "copy"
  /\ call[t].op \in {"none", "sleep"} \/ (call[t].op = x /\ call[t].at \in {"suspending", "woken"})

(***************************************************************************)
(* Mutexes.                                                                *)
(***************************************************************************)
TakesData == inside \in [Threads -> [Mutexes -> Nat]]
InsideOwns == \A t \in Threads, m \in Mutexes :
  inside[t][m] > 0 => mutex[m].owner = t /\ mutex[m].hold = inside[t][m]

(* An owner that is not inside yet is the heir the mutex was passed to.     *)
HeirComes == \A t \in Threads, m \in Mutexes :
  mutex[m].owner = t /\ inside[t][m] = 0 =>
    /\ Pend(call[t]) /\ call[t].arg = m /\ mutex[m].hold = 1
    /\ k.err[t] = "EOK" /\ k.stat[t] # "SUSPEND"
WaitersPend == \A t \in Threads, q \in Queues :
  t \in ToSet(k.wait[q]) =>
    /\ q \in Mutexes /\ Pend(call[t]) /\ call[t].arg = q
    /\ k.err[t] = "EOK" /\ mutex[q].owner \notin {t, NULL}
WokenOwns == \A t \in Threads :
  Pend(call[t]) /\ k.err[t] = "EOK" /\ k.stat[t] = "READY" =>
    /\ call[t].arg \in Mutexes /\ mutex[call[t].arg].owner = t
    /\ inside[t][call[t].arg] = 0
Excludes == TakesData /\ InsideOwns /\ HeirComes /\ WaitersPend /\ WokenOwns

(* The one mutex m lends its owner priority and nobody else has other than  *)
(* its own.                                                                 *)
Lends(m) ==
  /\ \A t \in Threads : mutex[m].owner # t => k.prio[t] = Priority[t]
  /\ mutex[m].owner # NULL => mutex[m].original_priority = Priority[mutex[m].owner]
  /\ flag = "PRIO" =>
       /\ Sorted(k.prio, k.wait[m])
       /\ \A x \in ToSet(k.wait[m]) : k.prio[mutex[m].owner] <= k.prio[x]

(* A step that passes no mutex on: who pends goes on pending, or has been   *)
(* told that he gets nothing, or is dead.                                   *)
Undisturbed(u) ==
  \/ ~Pend(call[u]) /\ ~Pend(call'[u])
  \/ /\ Pend(call[u]) /\ k.err[u] # "EOK" /\ k.stat[u] = "READY"
     /\ ~Pend(call'[u]) /\ k'.stat[u] = "READY"
  \/ /\ Pend(call[u]) /\ Pend(call'[u])
     /\ call'[u].op = call[u].op /\ call'[u].arg = call[u].arg
     /\ \/ k'.stat[u] = k.stat[u] /\ k'.err[u] = k.err[u]
        \/ k.stat[u] = "SUSPEND" /\ k'.stat[u] = "READY" /\ k'.err[u] # "EOK"
        \/ k'.stat[u] \in {"CLOSE", "GONE"} /\ k'.err[u] = k.err[u]
Quiet ==
  /\ UNCHANGED <<mutex, inside>> /\ k'.prio = k.prio
  /\ \A q \in Queues : Thinner(k.wait[q], k'.wait[q])
  /\ \A u \in Threads : Undisturbed(u)

LEMMA WaitersAreSuspended ==
  ASSUME KInv, NEW q \in Queues, NEW t \in ToSet(k.wait[q])
  PROVE  t \in Threads /\ k.stat[t] = "SUSPEND"
<1>1. k \in KernelData /\ Linked(k, BeingDeleted, Reaped, 1)
  BY SaneData DEF KInv
<1>2. k.wait[q] \in Seq(Threads)
  BY <1>1, Typed
<1>3. t \in Threads
  BY <1>2 DEF ToSet
<1> QED BY <1>1, <1>3 DEF Linked, WaitLinked

(* The lists after a step.                                                  *)
LEMMA SaneAfter ==
  ASSUME KInv'
  PROVE  k' \in KernelData /\ Linked(k', BeingDeleted', Reaped', 1)
BY GoodData DEF KInv, Sane

LEMMA QuietExcludes ==
  ASSUME KInv, KInv', Excludes, Quiet
  PROVE  Excludes'
<1>1. \A u \in Threads : Undisturbed(u)
  BY DEF Quiet
<1>2. UNCHANGED <<mutex, inside>> /\ \A q \in Queues : ToSet(k'.wait[q]) \subseteq ToSet(k.wait[q])
  BY DEF Quiet, Thinner
<1>3. TakesData' /\ InsideOwns'
  BY <1>2 DEF Excludes, TakesData, InsideOwns
<1>4. HeirComes'
  <2> SUFFICES ASSUME NEW t \in Threads, NEW m \in Mutexes, mutex[m].owner = t, inside[t][m] = 0
               PROVE  /\ Pend(call'[t]) /\ call'[t].arg = m /\ mutex[m].hold = 1
                      /\ k'.err[t] = "EOK" /\ k'.stat[t] # "SUSPEND"
    BY <1>2 DEF HeirComes
  <2>1. /\ Pend(call[t]) /\ call[t].arg = m /\ mutex[m].hold = 1
        /\ k.err[t] = "EOK" /\ k.stat[t] # "SUSPEND"
    BY DEF Excludes, HeirComes
  <2> QED BY <1>1, <2>1 DEF Undisturbed
<1>5. WaitersPend'
  <2> SUFFICES ASSUME NEW t \in Threads, NEW q \in Queues, t \in ToSet(k'.wait[q])
               PROVE  /\ q \in Mutexes /\ Pend(call'[t]) /\ call'[t].arg = q
                      /\ k'.err[t] = "EOK" /\ mutex[q].owner \notin {t, NULL}
    BY <1>2 DEF WaitersPend
  <2>1. t \in ToSet(k.wait[q])
    BY <1>2
  <2>2. /\ q \in Mutexes /\ Pend(call[t]) /\ call[t].arg = q
        /\ k.err[t] = "EOK" /\ mutex[q].owner \notin {t, NULL}
    BY <2>1 DEF Excludes, WaitersPend
  <2>3. k'.stat[t] = "SUSPEND"
    <3>1. KInv' => \A x \in ToSet(k'.wait[q]) : k'.stat[x] = "SUSPEND"
      <4>1. KInv' => k' \in KernelData /\ Linked(k', BeingDeleted', Reaped', 1)
        BY SaneAfter
      <4>2. KInv' => k'.wait[q] \in Seq(Threads)
        BY <4>1, Typed
      <4> QED BY <4>1, <4>2 DEF Linked, WaitLinked, ToSet
    <3> QED BY <3>1
  <2> QED BY <1>1, <2>2, <2>3 DEF Undisturbed
<1>6. WokenOwns'
  <2> SUFFICES ASSUME NEW t \in Threads, Pend(call'[t]), k'.err[t] = "EOK", k'.stat[t] = "READY"
               PROVE  /\ call'[t].arg \in Mutexes /\ mutex[call'[t].arg].owner = t
                      /\ inside[t][call'[t].arg] = 0
    BY <1>2 DEF WokenOwns
  <2>1. Pend(call[t]) /\ k.err[t] = "EOK" /\ k.stat[t] = "READY" /\ call'[t].arg = call[t].arg
    BY <1>1 DEF Undisturbed
  <2> QED BY <2>1 DEF Excludes, WokenOwns
<1> QED BY <1>3, <1>4, <1>5, <1>6 DEF Excludes

LEMMA QuietLends ==
  ASSUME Quiet, NEW m \in Mutexes, Lends(m), UNCHANGED flag
  PROVE  Lends(m)'
<1>1. UNCHANGED <<mutex, flag>> /\ k'.prio = k.prio /\ Thinner(k.wait[m], k'.wait[m])
  BY ObjectFacts DEF Quiet
<1>2. ASSUME flag = "PRIO"
      PROVE  /\ Sorted(k.prio, k'.wait[m])
             /\ \A x \in ToSet(k'.wait[m]) : k.prio[mutex[m].owner] <= k.prio[x]
  <2>1. Sorted(k.prio, k.wait[m])
    BY <1>2 DEF Lends
  <2>2. Sorted(k.prio, k'.wait[m])
    BY <1>1, <2>1, ThinnerSorted
  <2> QED BY <1>1, <1>2, <2>2 DEF Lends, Thinner
<1> QED BY <1>1, <1>2 DEF Lends

LEMMA GoesTo ==
  ASSUME KInv, NEW t \in Threads, NEW c, Goes(t, c)
  PROVE  call'[t] = c /\ \A u \in Threads \ {t} : call'[u] = call[u]
<1>1. CallsOK
  BY DEF KInv
<1> DEFINE d == [u \in Threads |-> [at |-> call[u].at, op |-> call[u].op,
                                    left |-> call[u].left, arg |-> call[u].arg]]
<1>2. call = d /\ call' = [call EXCEPT ![t] = c]
  BY <1>1 DEF CallsOK, Goes
<1>3. DOMAIN call = Threads
  <2>1. DOMAIN d = Threads
    OBVIOUS
  <2> HIDE DEF d
  <2> QED BY <1>2, <2>1
<1> QED BY <1>2, <1>3

(* A step of the kernel alone is quiet if it moves no call that pends,      *)
(* other than from before the switch to behind it.                          *)
SameWish(c, d) == d.op = c.op /\ d.arg = c.arg /\ (Pend(c) <=> Pend(d))
LEMMA QuietKernel ==
  ASSUME UNCHANGED <<mutex, inside>>, Refuses(k, k'),
         \A u \in Threads : SameWish(call[u], call'[u]) \/ (~Pend(call[u]) /\ ~Pend(call'[u]))
  PROVE  Quiet
<1>1. ASSUME NEW u \in Threads PROVE Undisturbed(u)
  <2>1. SameOrRefused(k, k', u)
    BY DEF Refuses
  <2> QED BY <2>1 DEF Undisturbed, SameOrRefused, SameWish
<1> QED BY <1>1 DEF Quiet, Refuses

LEMMA QuietTick ==
  ASSUME KInv, Disciplined, NEW x, UNCHANGED <<mutex, inside>>, Tick
  PROVE  Quiet /\ (KeepsTo(x) => KeepsTo(x)')
<1>4. Refuses(k, k')
  BY TickSpares
<1>5. ASSUME NEW u \in Threads
      PROVE  SameWish(call[u], call'[u]) /\ call'[u].at = call[u].at
  <2> DEFINE c == call[u]
  <2>1. call'[u] = elapsed(c)
    BY DEF Tick
  <2>2. c = [at |-> c.at, op |-> c.op, left |-> c.left, arg |-> c.arg]
    BY DEF KInv, CallsOK
  <2> HIDE DEF c
  <2>3. elapsed(c).at = c.at /\ elapsed(c).op = c.op /\ elapsed(c).arg = c.arg
    BY <2>2 DEF elapsed
  <2> QED BY <2>1, <2>3 DEF c, SameWish, Pend
<1>6. KeepsTo(x) => KeepsTo(x)'
  BY <1>5 DEF KeepsTo, SameWish
<1> QED BY <1>4, <1>5, <1>6, QuietKernel

(* Most steps move one call that does not pend, before or after.            *)
LEMMA QuietCall ==
  ASSUME KInv, NEW x, UNCHANGED <<mutex, inside>>, Refuses(k, k'),
         NEW t \in Threads, NEW c, Goes(t, c), ~Pend(call[t]), ~Pend(c),
         c.op \in {"none", "sleep"}, c.at # "copy"
  PROVE  Quiet /\ (KeepsTo(x) => KeepsTo(x)')
<1>1. call'[t] = c /\ \A u \in Threads \ {t} : call'[u] = call[u]
  BY GoesTo
<1>2. \A u \in Threads : SameWish(call[u], call'[u]) \/ (~Pend(call[u]) /\ ~Pend(call'[u]))
  BY <1>1 DEF SameWish
<1>3. KeepsTo(x) => KeepsTo(x)'
  BY <1>1 DEF KeepsTo
<1> QED BY <1>2, <1>3, QuietKernel

LEMMA QuietSwitch ==
  ASSUME KInv, NEW x, UNCHANGED <<mutex, inside>>, NEW t \in Threads,
         Resched(t) \/ SwitchAway(t)
  PROVE  Quiet /\ (KeepsTo(x) => KeepsTo(x)')
<1>1. t = k.current /\ call[t].at \in {"resched", "suspending"} /\ k' = rt_schedule(k)
  BY DEF Resched, SwitchAway, Runs
<1>3. k \in Good(BeingDeleted, Reaped, 1)
  BY SaneData DEF KInv
<1>4. Refuses(k, k')
  BY <1>1, <1>3, Schedules
<1>5. CASE Resched(t)
  <2>1. Goes(t, NoCall) /\ ~Pend(call[t]) /\ ~Pend(NoCall) /\ NoCall.op = "none" /\ NoCall.at = "run"
    BY <1>5 DEF Resched, Pend, NoCall
  <2> QED BY <1>4, <2>1, QuietCall
<1>6. CASE SwitchAway(t)
  <2> DEFINE c == call[t]
             d == [c EXCEPT !.at = "woken"]
  <2>1. c = [at |-> c.at, op |-> c.op, left |-> c.left, arg |-> c.arg]
    BY DEF KInv, CallsOK
  <2>2. Goes(t, d) /\ c.at = "suspending"
    BY <1>6 DEF SwitchAway, Continues
  <2> HIDE DEF c
  <2>3. d.at = "woken" /\ d.op = c.op /\ d.arg = c.arg
    BY <2>1
  <2> HIDE DEF d
  <2>4. call'[t] = d /\ \A u \in Threads \ {t} : call'[u] = call[u]
    BY <2>2, GoesTo
  <2>5. SameWish(call[t], call'[t])
    BY <2>2, <2>3, <2>4 DEF c, SameWish, Pend
  <2>6. \A u \in Threads : SameWish(call[u], call'[u])
    BY <2>4, <2>5 DEF SameWish
  <2>7. KeepsTo(x) => KeepsTo(x)'
    BY <2>3, <2>4, <2>6 DEF KeepsTo, SameWish
  <2> QED BY <1>4, <2>6, <2>7, QuietKernel
<1> QED BY <1>5, <1>6

LEMMA QuietOthers ==
  ASSUME KInv, NEW x, UNCHANGED <<mutex, inside>>, k'.prio = k.prio,
         \A q \in Queues : Thinner(k.wait[q], k'.wait[q]),
         NEW t \in Threads, NEW c, Goes(t, c), ~Pend(call[t]), ~Pend(c),
         c.op \in {"none", "sleep"}, c.at # "copy",
         \A u \in Threads \ {t} : k'.err[u] = k.err[u] /\
            (k'.stat[u] = k.stat[u] \/ k'.stat[u] \in {"CLOSE", "GONE"})
  PROVE  Quiet /\ (KeepsTo(x) => KeepsTo(x)')
<1>1. call'[t] = c /\ \A u \in Threads \ {t} : call'[u] = call[u]
  BY GoesTo
<1>2. ASSUME NEW u \in Threads PROVE Undisturbed(u)
  <2>1. CASE u = t
    BY <1>1, <2>1 DEF Undisturbed
  <2>2. CASE u # t
    BY <1>1, <2>2 DEF Undisturbed
  <2> QED BY <2>1, <2>2
<1>3. KeepsTo(x) => KeepsTo(x)'
  BY <1>1 DEF KeepsTo
<1> QED BY <1>2, <1>3 DEF Quiet

LEMMA NotPend ==
  /\ ~Pend(NoCall) /\ NoCall.op = "none" /\ NoCall.at = "run"
  /\ \A at : /\ ~Pend([NoCall EXCEPT !.at = at]) /\ [NoCall EXCEPT !.at = at].op = "none"
             /\ [NoCall EXCEPT !.at = at].at = at
  /\ \A at, u : ~Pend(Amid(at, u)) /\ Amid(at, u).op = "none" /\ Amid(at, u).at = at
BY DEF Pend, NoCall, Amid

LEMMA QuietReaps ==
  ASSUME KInv, NEW x, UNCHANGED <<mutex, inside>>, Reap \/ ReapFree
  PROVE  Quiet /\ (KeepsTo(x) => KeepsTo(x)')
<1>1. Idle \in Threads /\ Runs(Idle) /\ call[Idle].at \in {"run", "reap"} /\ ~Pend(call[Idle])
  BY KernelAssumption DEF Reap, ReapFree, Pend
<1>2. k \in Good(BeingDeleted, Reaped, 1) /\ k \in KernelData
  BY <1>1, Active, SaneData
<1>3. CASE Reap
  <2> DEFINE z == [k EXCEPT !.defunct = Tail(k.defunct)]
             u == Head(k.defunct)
             c == Amid("reap", u)
  <2>1. Reaped = {}
    BY <1>3 DEF Reap, Reaped, Reaping
  <2>2. k.defunct # <<>> /\ k' = rt_schedule(z) /\ Goes(Idle, c)
    BY <1>3 DEF Reap
  <2>3. z \in Good(BeingDeleted, {u}, 1)
    BY <1>2, <2>1, <2>2, Reaps
  <2>4. z.stat = k.stat /\ z.err = k.err /\ z.prio = k.prio /\ z.wait = k.wait
    BY <1>2 DEF KernelData
  <2>5. ~Pend(c) /\ c.op = "none" /\ c.at # "copy"
    BY NotPend
  <2> HIDE DEF z, u, c
  <2>6. Refuses(z, k')
    BY <2>2, <2>3, Schedules
  <2>7. Refuses(k, z)
    BY <2>4, RefusesNobody
  <2>8. Refuses(k, k')
    BY <2>6, <2>7, RefusesAgain
  <2> QED BY <1>1, <2>2, <2>5, <2>8, QuietCall
<1>4. CASE ReapFree
  <2> DEFINE u == call[Idle].arg
  <2>1. k' = [k EXCEPT !.stat[u] = "GONE"] /\ Goes(Idle, NoCall)
    BY <1>4 DEF ReapFree
  <2> HIDE DEF u
  <2>2. k'.prio = k.prio /\ k'.wait = k.wait /\ k'.err = k.err
    BY <1>2, <2>1 DEF KernelData
  <2>3. \A v \in Threads \ {Idle} : k'.stat[v] = k.stat[v] \/ k'.stat[v] = "GONE"
    <3>1. k.stat \in [Threads -> Stats]
      BY <1>2, Typed
    <3> QED BY <1>2, <2>1, <3>1 DEF KernelData
  <2>4. \A q \in Queues : Thinner(k.wait[q], k'.wait[q])
    BY <2>2 DEF Thinner
  <2> QED BY <1>1, <2>1, <2>2, <2>3, <2>4, NotPend, QuietOthers
<1> QED BY <1>3, <1>4

LEMMA QuietDone ==
  ASSUME KInv, NEW x, UNCHANGED <<mutex, inside>>, NEW t \in Threads,
         SleepDone(t) \/ SuspendDone(t)
  PROVE  Quiet /\ (KeepsTo(x) => KeepsTo(x)')
<1>1. ~Pend(call[t]) /\ Goes(t, NoCall) /\ Runs(t) /\ call[t].at = "woken"
  BY DEF SleepDone, SuspendDone, Pend
<1>2. k \in KernelData
  BY <1>1, Active
<1>3. /\ k'.prio = k.prio /\ k'.wait = k.wait /\ k'.stat = k.stat
      /\ \A u \in Threads \ {t} : k'.err[u] = k.err[u]
  <2>1. CASE SuspendDone(t)
    BY <2>1 DEF SuspendDone
  <2>2. CASE SleepDone(t)
    <3>1. PICK e : k' = [k EXCEPT !.err[t] = e]
      BY <2>2 DEF SleepDone
    <3> QED BY <1>2, <3>1 DEF KernelData
  <2> QED BY <2>1, <2>2
<1>4. \A q \in Queues : Thinner(k.wait[q], k'.wait[q])
  BY <1>3 DEF Thinner
<1> QED BY <1>1, <1>3, <1>4, NotPend, QuietOthers

LEMMA QuietDeletes ==
  ASSUME KInv, NEW x, UNCHANGED <<mutex, inside>>, NEW t \in Threads,
         Delete(t) \/ DeleteDone(t)
  PROVE  Quiet /\ (KeepsTo(x) => KeepsTo(x)')
<1>1. ~Pend(call[t])
  BY DEF Delete, DeleteDone, Calls, Deleting, Pend
<1>2. CASE Delete(t)
  <2>1. PICK u \in Mortal \ {t} :
          /\ Calls(t) /\ k.stat[u] \in {"INIT", "READY", "SUSPEND"}
          /\ k' = IF k.stat[u] = "INIT" THEN k ELSE rt_schedule_remove_thread(k, u)
          /\ Goes(t, Amid("delete", u))
    BY <1>2 DEF Delete
  <2>2. k \in Good(BeingDeleted, Reaped, 1) /\ u \in Threads \ {Idle}
    BY <2>1, Calling_, SaneData, KernelAssumption
  <2>3. Refuses(k, k')
    <3>1. CASE k.stat[u] = "INIT"
      BY <2>1, <3>1, RefusesNobody
    <3>2. CASE k.stat[u] # "INIT"
      <4> DEFINE r == rt_schedule_remove_thread(k, u)
      <4>1. k' = r
        BY <2>1, <3>2
      <4>2. /\ r \in Good(BeingDeleted \cup {u}, Reaped, 1)
            /\ r.stat = k.stat /\ r.err = k.err /\ r.prio = k.prio /\ r.wait = Less(k, u)
        <5>1. k.stat[u] \in {"INIT", "READY", "SUSPEND"}
          BY <2>1
        <5> QED BY <2>2, <5>1, Unlinks
      <4> HIDE DEF r
      <4>3. k \in KernelData /\ OnceEach(k)
        BY <2>2, GoodData, GoodOnce
      <4>4. \A q \in Queues : Thinner(k.wait[q], k'.wait[q])
        BY <4>1, <4>2, <4>3, LessIsThinner
      <4> QED BY <4>1, <4>2, <4>4 DEF Refuses, SameOrRefused
    <3> QED BY <3>1, <3>2
  <2> DEFINE c == Amid("delete", u)
  <2>4. Goes(t, c) /\ ~Pend(c) /\ c.op = "none" /\ c.at # "copy"
    BY <2>1, NotPend
  <2> HIDE DEF c
  <2> QED BY <1>1, <2>3, <2>4, QuietCall
<1>3. CASE DeleteDone(t)
  <2> DEFINE u == call[t].arg
  <2>1. t = k.current /\ Deleting(t) /\ k' = buried(closed(k, u), u) /\ Goes(t, NoCall)
    BY <1>3 DEF DeleteDone, Runs
  <2>2. u \in Mortal /\ k.stat[u] \in {"INIT", "READY", "SUSPEND"} /\ u \in BeingDeleted
    BY <2>1 DEF KInv, CallsOK, Living, BeingDeleted
  <2>4. u \in BeingDeleted \cap Threads /\ k \in Good(BeingDeleted, Reaped, 1)
    BY <2>2, SaneData, KernelAssumption DEF KInv
  <2> HIDE DEF u
  <2>5. /\ k' \in Good(BeingDeleted \ {u}, Reaped, 1)
        /\ k'.prio = k.prio /\ k'.err = k.err /\ k'.wait = k.wait
        /\ k'.stat = [k.stat EXCEPT ![u] = "CLOSE"]
    <3>1. u \in BeingDeleted \cap Threads /\ k.stat[u] \in {"INIT", "READY", "SUSPEND"}
      BY <2>2, <2>4
    <3>2. k \in Good(BeingDeleted, Reaped, 1) /\ k' = buried(closed(k, u), u)
      BY <2>1, <2>4
    <3> QED BY <3>1, <3>2, Buries
  <2>6. k.stat \in [Threads -> Stats]
    BY <2>4, GoodData, Typed
  <2>7. \A v \in Threads \ {t} : k'.stat[v] = k.stat[v] \/ k'.stat[v] = "CLOSE"
    BY <2>5, <2>6
  <2>8. \A q \in Queues : Thinner(k.wait[q], k'.wait[q])
    BY <2>5 DEF Thinner
  <2> QED BY <1>1, <2>1, <2>5, <2>7, <2>8, NotPend, QuietOthers
<1> QED BY <1>2, <1>3

LEMMA QuietSleep ==
  ASSUME KInv, NEW x, UNCHANGED <<mutex, inside>>, NEW t \in Threads, Sleep(t, {1})
  PROVE  Quiet /\ (KeepsTo(x) => KeepsTo(x)')
<1> DEFINE z == rt_thread_suspend(k, t)
           c == Blocked("sleep", 1, NULL)
<1>1. Calls(t) /\ k' = rt_timer_start(z, t, 1) /\ Goes(t, c)
  BY DEF Sleep
<1>2. t \in Threads \ {Idle} /\ k.stat[t] = "READY" /\ t \notin BeingDeleted
      /\ k \in Good(BeingDeleted, Reaped, 1) /\ ~Pend(call[t])
  BY <1>1, Calling_, SaneData DEF Pend
<1>3. ~Pend(c) /\ c.op = "sleep" /\ c.at # "copy"
  BY DEF Pend, Blocked
<1>4. /\ z \in Good(BeingDeleted, Reaped, 1) /\ z.stat = [k.stat EXCEPT ![t] = "SUSPEND"]
      /\ z.prio = k.prio /\ z.err = k.err /\ z.wait = Less(k, t)
  BY <1>2, Suspends
<1> HIDE DEF z, c
<1>5. k.stat \in [Threads -> Stats] /\ k \in KernelData /\ OnceEach(k)
  BY <1>2, GoodData, GoodOnce, Typed
<1>6. /\ k' \in Good(BeingDeleted, Reaped, 1) /\ k'.stat = z.stat /\ k'.prio = z.prio /\ k'.err = z.err
      /\ k'.wait = z.wait
  <2> DEFINE time == 1
  <2>1. time \in 1 .. MaxWait /\ z.stat[t] = "SUSPEND" /\ k' = rt_timer_start(z, t, time)
    BY <1>1, <1>2, <1>4, <1>5, KernelAssumption
  <2>2. z \in Good(BeingDeleted, Reaped, 1)
    BY <1>4
  <2> HIDE DEF time
  <2> QED BY <1>2, <2>1, <2>2, Starts
<1>7. \A u \in Threads \ {t} : k'.err[u] = k.err[u] /\ k'.stat[u] = k.stat[u]
  BY <1>4, <1>5, <1>6
<1>8. \A q \in Queues : Thinner(k.wait[q], k'.wait[q])
  BY <1>4, <1>5, <1>6, LessIsThinner
<1> QED BY <1>1, <1>2, <1>3, <1>4, <1>6, <1>7, <1>8, QuietOthers

LEMMA QuietDetaches ==
  ASSUME KInv, NEW x, UNCHANGED <<mutex, inside>>, NEW t \in Threads,
         Detach(t) \/ DetachStep(t)
  PROVE  Quiet /\ (KeepsTo(x) => KeepsTo(x)')
<1>1. CASE Detach(t)
  <2> DEFINE c == [NoCall EXCEPT !.at = "detach"]
  <2>1. Calls(t) /\ UNCHANGED k /\ Goes(t, c)
    BY <1>1 DEF Detach, Uses
  <2>2. ~Pend(c) /\ c.op = "none" /\ c.at = "detach" /\ ~Pend(call[t])
    BY <2>1, NotPend DEF Calls, Pend
  <2> HIDE DEF c
  <2>3. Refuses(k, k')
    BY <2>1, RefusesNobody
  <2> QED BY <2>1, <2>2, <2>3, QuietCall
<1>2. CASE DetachStep(t)
  <2>1. InCall(t) /\ ~Pend(call[t])
    BY <1>2, Active DEF DetachStep, InCall, Deleting, Pend
  <2>2. CASE waiting # {}
    <3>1. PICK q \in waiting : k' = resumed_bad(k, Head(k.wait[q])) /\ UNCHANGED call
      BY <1>2, <2>2 DEF DetachStep
    <3>2. q \in Queues /\ k.wait[q] # <<>>
      BY <3>1 DEF waiting
    <3>3. k.wait[q] \in Seq(Threads)
      BY <2>1, <3>2, Typed DEF InCall
    <3> DEFINE w == Head(k.wait[q])
    <3>4. w \in ToSet(k.wait[q])
      BY <3>2, <3>3 DEF ToSet
    <3>5. w \in Threads \ BeingDeleted /\ k.stat[w] = "SUSPEND"
      BY <2>1, <3>2, <3>4, WaitersAreSuspended, SaneData DEF InCall, Linked, WaitLinked
    <3>6. k' = resumed_bad(k, w)
      BY <3>1
    <3> HIDE DEF w
    <3>7. k \in Good(BeingDeleted, Reaped, 1)
      BY <2>1, SaneData DEF InCall
    <3>8. Refuses(k, k')
      BY <3>5, <3>6, <3>7, ResumesBad
    <3>9. \A u \in Threads : SameWish(call[u], call'[u])
      BY <3>1 DEF SameWish
    <3>10. KeepsTo(x) => KeepsTo(x)'
      BY <3>1 DEF KeepsTo
    <3> QED BY <3>8, <3>9, <3>10, QuietKernel
  <2>3. CASE waiting = {}
    <3>1. UNCHANGED k /\ Goes(t, NoCall)
      BY <1>2, <2>3 DEF DetachStep
    <3>2. Refuses(k, k')
      BY <3>1, RefusesNobody
    <3> QED BY <2>1, <3>1, <3>2, NotPend, QuietCall
  <2> QED BY <2>2, <2>3
<1> QED BY <1>1, <1>2

LEMMA QuietGivesUp ==
  ASSUME KInv, NEW x, x \notin {"none", "sleep", "suspend"},
         UNCHANGED <<mutex, inside>>, NEW t \in Threads, GivesUp(t, x)
  PROVE  Quiet /\ (KeepsTo(x) => KeepsTo(x)')
<1>1. Woken(t, x) /\ k.err[t] # "EOK" /\ UNCHANGED k /\ Goes(t, NoCall)
  BY DEF GivesUp
<1>2. k.stat[t] = "READY"
  BY <1>1, Busy
<1>3. call'[t] = NoCall /\ \A u \in Threads \ {t} : call'[u] = call[u]
  BY <1>1, GoesTo
<1>4. ASSUME NEW u \in Threads PROVE Undisturbed(u)
  <2>1. CASE u = t
    BY <1>1, <1>2, <1>3, <2>1, NotPend DEF Undisturbed, Woken, Pend
  <2>2. CASE u # t
    BY <1>1, <1>3, <2>2 DEF Undisturbed
  <2> QED BY <2>1, <2>2
<1>5. \A q \in Queues : Thinner(k.wait[q], k'.wait[q])
  BY <1>1 DEF Thinner
<1>6. KeepsTo(x) => KeepsTo(x)'
  BY <1>3, NotPend DEF KeepsTo
<1> QED BY <1>1, <1>4, <1>5, <1>6 DEF Quiet

(* In a behaviour about an object nobody is halfway through a call about    *)
(* another thread, other than deleting it.                                  *)
LEMMA NoWindows ==
  ASSUME WInv, kind # "thread"
  PROVE  \A t \in Threads :
           ~(SuspendNow(t) \/ ResumeTake(t) \/ ResumeInsert(t) \/ StartupResume(t))
<1>1. \A t \in Threads : call[t].at \notin Windows
  BY DEF WInv, Handles
<1> QED BY <1>1 DEF SuspendNow, ResumeTake, ResumeInsert, StartupResume, Windows

LEMMA QuietKernels ==
  ASSUME KInv, WInv, Disciplined, NEW x, kind # "thread", Kernel
  PROVE  Quiet /\ (KeepsTo(x) => KeepsTo(x)')
<1>1. UNCHANGED <<mutex, inside>>
  BY DEF Kernel, objects
<1>2. CASE KernelStep
  BY <1>1, <1>2, NoWindows, QuietTick, QuietReaps, QuietSwitch, QuietDone, QuietDeletes DEF KernelStep
<1>3. CASE \E t \in Threads : Delete(t) \/ Sleep(t, {1})
  BY <1>1, <1>3, QuietDeletes, QuietSleep
<1> QED BY <1>2, <1>3 DEF Kernel

LEMMA InsideChanges ==
  ASSUME TakesData, NEW t \in Threads, NEW m \in Mutexes, NEW n \in Nat,
         inside' = [inside EXCEPT ![t][m] = n]
  PROVE  /\ TakesData' /\ inside'[t][m] = n
         /\ \A u \in Threads, x \in Mutexes : u # t \/ x # m => inside'[u][x] = inside[u][x]
BY DEF TakesData

(* The thread comes back from the switch with the mutex.                    *)
LEMMA TakenExcludes ==
  ASSUME KInv, Excludes, KeepsTo("mutex"), UNCHANGED mutex, NEW t \in Threads,
         Woken(t, "mutex"), k.err[t] = "EOK", Taken(t), UNCHANGED k, Goes(t, NoCall)
  PROVE  Excludes' /\ KeepsTo("mutex")'
<1> DEFINE m == call[t].arg
<1>1. k.stat[t] = "READY" /\ Pend(call[t])
  BY Busy DEF Woken, Pend
<1>2. m \in Mutexes /\ mutex[m].owner = t /\ inside[t][m] = 0
  BY <1>1 DEF Excludes, WokenOwns
<1>3. mutex[m].hold = 1
  BY <1>2 DEF Excludes, HeirComes
<1>4. call'[t] = NoCall /\ \A u \in Threads \ {t} : call'[u] = call[u]
  BY GoesTo
<1>5. inside' = [inside EXCEPT ![t][m] = 1]
  BY <1>2 DEF Taken
<1>6. /\ TakesData' /\ inside'[t][m] = 1
      /\ \A u \in Threads, x \in Mutexes : u # t \/ x # m => inside'[u][x] = inside[u][x]
  BY <1>2, <1>5, InsideChanges DEF Excludes
<1>13. \A x \in Mutexes : mutex[x].owner = t /\ inside[t][x] = 0 => x = m
  BY DEF Excludes, HeirComes
<1> HIDE DEF m
<1>7. KeepsTo("mutex")'
  BY <1>4, NotPend DEF KeepsTo
<1>8. InsideOwns'
  BY <1>2, <1>3, <1>6 DEF Excludes, InsideOwns
<1>9. HeirComes'
  <2> SUFFICES ASSUME NEW u \in Threads, NEW x \in Mutexes, mutex[x].owner = u, inside'[u][x] = 0
               PROVE  /\ Pend(call'[u]) /\ call'[u].arg = x /\ mutex[x].hold = 1
                      /\ k.err[u] = "EOK" /\ k.stat[u] # "SUSPEND"
    BY DEF HeirComes
  <2>1. (u # t \/ x # m) /\ inside[u][x] = 0
    BY <1>6
  <2>2. u # t
    BY <1>13, <2>1
  <2> QED BY <1>4, <2>1, <2>2 DEF Excludes, HeirComes
<1>10. WaitersPend'
  <2> SUFFICES ASSUME NEW u \in Threads, NEW q \in Queues, u \in ToSet(k.wait[q])
               PROVE  /\ q \in Mutexes /\ Pend(call'[u]) /\ call'[u].arg = q
                      /\ k.err[u] = "EOK" /\ mutex[q].owner \notin {u, NULL}
    BY DEF WaitersPend
  <2>1. k.stat[u] = "SUSPEND"
    BY WaitersAreSuspended
  <2>2. call'[u] = call[u]
    BY <1>1, <1>4, <2>1
  <2> QED BY <2>2 DEF Excludes, WaitersPend
<1>11. WokenOwns'
  <2> SUFFICES ASSUME NEW u \in Threads, Pend(call'[u]), k.err[u] = "EOK", k.stat[u] = "READY"
               PROVE  /\ call'[u].arg \in Mutexes /\ mutex[call'[u].arg].owner = u
                      /\ inside'[u][call'[u].arg] = 0
    BY DEF WokenOwns
  <2>1. u # t /\ call'[u] = call[u]
    BY <1>4, NotPend
  <2> QED BY <1>6, <2>1 DEF Excludes, WokenOwns
<1> QED BY <1>6, <1>7, <1>8, <1>9, <1>10, <1>11 DEF Excludes

(***************************************************************************)
(* rt_mutex_take.  The thread that calls does not pend and is on no list.  *)
(***************************************************************************)
LEMMA CallerOwns ==
  ASSUME KInv, Excludes, NEW t \in Threads, Uses(t, "mutex")
  PROVE  /\ ~Pend(call[t]) /\ InCall(t)
         /\ \A m \in Mutexes : mutex[m].owner = t => inside[t][m] > 0 /\ mutex[m].hold = inside[t][m]
         /\ \A q \in Queues : t \notin ToSet(k.wait[q])
<1>1. InCall(t) /\ ~Pend(call[t]) /\ k.stat[t] = "READY"
  BY Busy, BusyInCall DEF Uses, Calls, Pend
<1>2. \A q \in Queues : t \notin ToSet(k.wait[q])
  BY <1>1, WaitersAreSuspended
<1>3. ASSUME NEW m \in Mutexes, mutex[m].owner = t
      PROVE  inside[t][m] > 0 /\ mutex[m].hold = inside[t][m]
  <2>1. inside[t][m] \in Nat /\ inside[t][m] # 0
    BY <1>1, <1>3 DEF Excludes, HeirComes, TakesData
  <2> QED BY <2>1 DEF Excludes, InsideOwns
<1> QED BY <1>1, <1>2, <1>3

(* The caller is now inside as often as it holds the mutex.                 *)
LEMMA OwnerCounts ==
  ASSUME KInv, Excludes, NEW t \in Threads, Uses(t, "mutex"), NEW m \in Mutexes,
         mutex[m].owner \in {t, NULL}, NEW x \in MutexData, mutex' = [mutex EXCEPT ![m] = x],
         mutex \in [Mutexes -> MutexData],
         NEW n \in Nat, inside' = [inside EXCEPT ![t][m] = n],
         \/ x.owner = t /\ n > 0 /\ x.hold = n
         \/ x.owner = NULL /\ n = 0 /\ k.wait[m] = <<>>,
         UNCHANGED call, k'.wait = k.wait, k'.stat = k.stat,
         \A u \in Threads \ {t} : k'.err[u] = k.err[u]
  PROVE  Excludes'
<1>1. ~Pend(call[t]) /\ \A q \in Queues : t \notin ToSet(k.wait[q])
  BY CallerOwns
<1>2. /\ TakesData' /\ inside'[t][m] = n
      /\ \A u \in Threads, y \in Mutexes : u # t \/ y # m => inside'[u][y] = inside[u][y]
  BY InsideChanges DEF Excludes
<1>3. mutex'[m] = x /\ \A y \in Mutexes : y # m => mutex'[y] = mutex[y]
  OBVIOUS
<1>4. \A u \in Threads \ {t} : inside[u][m] = 0
  <2>1. \A u \in Threads \ {t} : mutex[m].owner # u
    BY ObjectFacts
  <2> QED BY <2>1 DEF Excludes, InsideOwns, TakesData
<1>10. NULL \notin Threads
  BY ObjectFacts
<1>5. InsideOwns'
  <2> SUFFICES ASSUME NEW u \in Threads, NEW y \in Mutexes, inside'[u][y] > 0
               PROVE  mutex'[y].owner = u /\ mutex'[y].hold = inside'[u][y]
    BY DEF InsideOwns
  <2>1. CASE u = t /\ y = m
    BY <1>2, <1>3, <2>1
  <2>2. CASE y = m /\ u # t
    BY <1>2, <1>4, <2>2
  <2>3. CASE y # m
    BY <1>2, <1>3, <2>3 DEF Excludes, InsideOwns
  <2> QED BY <2>1, <2>2, <2>3
<1>6. HeirComes'
  <2> SUFFICES ASSUME NEW u \in Threads, NEW y \in Mutexes, mutex'[y].owner = u, inside'[u][y] = 0
               PROVE  /\ Pend(call[u]) /\ call[u].arg = y /\ mutex'[y].hold = 1
                      /\ k'.err[u] = "EOK" /\ k'.stat[u] # "SUSPEND"
    BY DEF HeirComes
  <2>1. y # m
    BY <1>2, <1>3, <1>10
  <2>2. /\ Pend(call[u]) /\ call[u].arg = y /\ mutex[y].hold = 1
        /\ k.err[u] = "EOK" /\ k.stat[u] # "SUSPEND"
    BY <1>2, <1>3, <2>1 DEF Excludes, HeirComes
  <2> QED BY <1>1, <1>3, <2>1, <2>2
<1>7. WaitersPend'
  <2> SUFFICES ASSUME NEW u \in Threads, NEW q \in Queues, u \in ToSet(k.wait[q])
               PROVE  /\ q \in Mutexes /\ Pend(call[u]) /\ call[u].arg = q
                      /\ k'.err[u] = "EOK" /\ mutex'[q].owner \notin {u, NULL}
    BY DEF WaitersPend
  <2>1. /\ q \in Mutexes /\ Pend(call[u]) /\ call[u].arg = q
        /\ k.err[u] = "EOK" /\ mutex[q].owner \notin {u, NULL}
    BY DEF Excludes, WaitersPend
  <2>2. u # t
    BY <1>1
  <2>3. q = m => x.owner = t
    BY DEF ToSet
  <2> QED BY <1>3, <1>10, <2>1, <2>2, <2>3
<1>8. WokenOwns'
  <2> SUFFICES ASSUME NEW u \in Threads, Pend(call[u]), k'.err[u] = "EOK", k'.stat[u] = "READY"
               PROVE  /\ call[u].arg \in Mutexes /\ mutex'[call[u].arg].owner = u
                      /\ inside'[u][call[u].arg] = 0
    BY DEF WokenOwns
  <2>1. u # t
    BY <1>1
  <2>2. call[u].arg \in Mutexes /\ mutex[call[u].arg].owner = u /\ inside[u][call[u].arg] = 0
    BY <2>1 DEF Excludes, WokenOwns
  <2>3. call[u].arg # m
    BY <1>10, <2>1, <2>2
  <2> QED BY <1>2, <1>3, <2>1, <2>2, <2>3
<1> QED BY <1>2, <1>5, <1>6, <1>7, <1>8 DEF Excludes

(* A waiter's priority is lent to the owner, and given back.                *)
LEMMA Boosts ==
  ASSUME NEW gone, NEW reaped, NEW kk \in Good(gone, reaped, 1), NEW t \in Threads, NEW o \in Threads \ {Idle},
         o \notin gone, NEW r, r = boosted(kk, t, o)
  PROVE  /\ r \in Good(gone, reaped, 1) /\ r.static = kk.static /\ r.current = kk.current
         /\ r.nest = kk.nest /\ r.stat = kk.stat /\ r.err = kk.err /\ r.wait = kk.wait
         /\ \A u \in Threads : r.prio[u] = IF u = o /\ kk.prio[t] < kk.prio[o]
                                           THEN kk.prio[t] ELSE kk.prio[u]
<1>1. CASE kk.prio[t] < kk.prio[o]
  <2> DEFINE p == kk.prio[t]
  <2>1. p \in Prios
    BY GoodData, Typed
  <2>2. r = rt_thread_change_priority(kk, o, p)
    BY <1>1 DEF boosted
  <2> HIDE DEF p
  <2>3. /\ r \in Good(gone, reaped, 1) /\ OnlyWakes(kk, r)
        /\ r.current = kk.current /\ r.stat = kk.stat
        /\ r.wait = kk.wait /\ r.err = kk.err
        /\ \A u \in Threads : r.prio[u] = IF u = o THEN p ELSE kk.prio[u]
    BY <2>1, <2>2, ChangesPriority
  <2> QED BY <1>1, <2>3 DEF p, OnlyWakes
<1>2. CASE ~(kk.prio[t] < kk.prio[o])
  BY <1>2 DEF boosted
<1> QED BY <1>1, <1>2

LEMMA Restores ==
  ASSUME NEW gone, NEW reaped, NEW kk \in Good(gone, reaped, 1), NEW t \in Threads \ {Idle}, NEW p \in Prios,
         t \notin gone, NEW r, r = restored(kk, t, p)
  PROVE  /\ r \in Good(gone, reaped, 1) /\ r.static = kk.static /\ r.current = kk.current
         /\ r.nest = kk.nest /\ r.stat = kk.stat /\ r.err = kk.err /\ r.wait = kk.wait
         /\ \A u \in Threads : r.prio[u] = IF u = t THEN p ELSE kk.prio[u]
<1>1. CASE p # kk.prio[t]
  <2>1. r = rt_thread_change_priority(kk, t, p)
    BY <1>1 DEF restored
  <2>2. /\ r \in Good(gone, reaped, 1) /\ OnlyWakes(kk, r)
        /\ r.current = kk.current /\ r.stat = kk.stat
        /\ r.wait = kk.wait /\ r.err = kk.err
        /\ \A u \in Threads : r.prio[u] = IF u = t THEN p ELSE kk.prio[u]
    BY <2>1, ChangesPriority
  <2> QED BY <2>2 DEF OnlyWakes
<1>2. CASE p = kk.prio[t]
  BY <1>2 DEF restored
<1> QED BY <1>1, <1>2

(* Joining the list of a mutex somebody else owns.                          *)
JoinsQueue(kk, t, m, time) ==
  /\ kk \in Good(BeingDeleted, Reaped, 1) /\ kk.stat = k.stat /\ kk.err = k.err /\ kk.wait = k.wait
  /\ k' = rt_ipc_list_suspend(kk, t, m, time) /\ time \in Times \ {0}
LEMMA JoinsMutex ==
  ASSUME KInv, NEW t \in Threads, InCall(t), NEW m \in Queues, NEW time, NEW kk,
         JoinsQueue(kk, t, m, time)
  PROVE  /\ k'.prio = kk.prio /\ k'.wait[m] = listed(kk, k.wait[m], t)
         /\ ToSet(k'.wait[m]) = ToSet(k.wait[m]) \cup {t}
         /\ \A q \in Queues \ {m} : k'.wait[q] = k.wait[q]
         /\ k'.stat[t] = "SUSPEND" /\ k'.err[t] = "EOK"
         /\ \A u \in Threads \ {t} : k'.stat[u] = k.stat[u] /\ k'.err[u] = k.err[u]
<1> DEFINE l == listed(kk, kk.wait[m], t)
<1>1. /\ kk \in Good(BeingDeleted, Reaped, 1) /\ kk.stat = k.stat /\ kk.err = k.err /\ kk.wait = k.wait
      /\ k' = rt_ipc_list_suspend(kk, t, m, time) /\ time \in Times \ {0} /\ m \in Queues
  BY DEF JoinsQueue
<1>2. t \in Threads \ {Idle} /\ kk.stat[t] = "READY" /\ t \notin BeingDeleted
  BY <1>1 DEF InCall
<1>3. WaitsOn(kk, k', t) /\ Lines(kk, k', t, m)
  BY <1>1, <1>2, ListSuspends
<1>4. kk \in KernelData /\ Linked(kk, BeingDeleted, Reaped, 1)
  BY <1>1, GoodData
<1>5. kk.wait[m] \in Seq(Threads) /\ IsInjective(kk.wait[m]) /\ t \notin ToSet(kk.wait[m])
  BY <1>1, <1>2, <1>4, Typed DEF Linked, WaitLinked
<1>6. ToSet(l) = ToSet(kk.wait[m]) \cup {t}
  BY <1>5, Listed
<1>7. /\ kk.stat \in [Threads -> Stats] /\ kk.wait \in [Queues -> Seq(Threads)]
      /\ kk.err \in [Threads -> {"EOK", "ERROR", "ETIMEOUT"}]
  BY <1>4, Typed
<1>8. k'.wait = [kk.wait EXCEPT ![m] = l] /\ k'.prio = kk.prio
      /\ k'.err = [kk.err EXCEPT ![t] = "EOK"] /\ k'.stat = [kk.stat EXCEPT ![t] = "SUSPEND"]
  BY <1>3 DEF WaitsOn, Lines
<1>9. l = listed(kk, k.wait[m], t)
  BY <1>1
<1> HIDE DEF l
<1>10. k'.wait[m] = l /\ \A q \in Queues \ {m} : k'.wait[q] = k.wait[q]
  BY <1>1, <1>7, <1>8
<1>11. /\ k'.stat[t] = "SUSPEND" /\ k'.err[t] = "EOK"
       /\ \A u \in Threads \ {t} : k'.stat[u] = k.stat[u] /\ k'.err[u] = k.err[u]
  BY <1>1, <1>7, <1>8
<1> QED BY <1>1, <1>6, <1>8, <1>9, <1>10, <1>11

LEMMA WaitExcludes ==
  ASSUME KInv, Excludes, KeepsTo("mutex"), UNCHANGED <<mutex, inside>>, NEW t \in Threads,
         Uses(t, "mutex"), NEW m \in Mutexes, mutex[m].owner \notin {t, NULL}, NEW time, NEW kk,
         JoinsQueue(kk, t, m, time), Goes(t, Blocked("mutex", time, m))
  PROVE  Excludes' /\ KeepsTo("mutex")'
<1> DEFINE c == Blocked("mutex", time, m)
<1>1. /\ ~Pend(call[t]) /\ InCall(t)
      /\ \A x \in Mutexes : mutex[x].owner = t => inside[t][x] > 0
      /\ \A q \in Queues : t \notin ToSet(k.wait[q])
  BY CallerOwns
<1>2. /\ ToSet(k'.wait[m]) = ToSet(k.wait[m]) \cup {t}
      /\ \A q \in Queues \ {m} : k'.wait[q] = k.wait[q]
      /\ k'.stat[t] = "SUSPEND" /\ k'.err[t] = "EOK"
      /\ \A u \in Threads \ {t} : k'.stat[u] = k.stat[u] /\ k'.err[u] = k.err[u]
  BY <1>1, ObjectFacts, JoinsMutex
<1>3. Pend(c) /\ c.arg = m /\ c.op = "mutex" /\ c.at = "suspending"
  BY DEF Pend, Blocked
<1> HIDE DEF c
<1>4. call'[t] = c /\ \A u \in Threads \ {t} : call'[u] = call[u]
  BY GoesTo DEF c
<1>5. TakesData' /\ InsideOwns'
  BY DEF Excludes, TakesData, InsideOwns
<1>6. HeirComes'
  <2> SUFFICES ASSUME NEW u \in Threads, NEW x \in Mutexes, mutex[x].owner = u, inside[u][x] = 0
               PROVE  /\ Pend(call'[u]) /\ call'[u].arg = x /\ mutex[x].hold = 1
                      /\ k'.err[u] = "EOK" /\ k'.stat[u] # "SUSPEND"
    BY DEF HeirComes
  <2>1. u # t
    BY <1>1
  <2> QED BY <1>2, <1>4, <2>1 DEF Excludes, HeirComes
<1>7. WaitersPend'
  <2> SUFFICES ASSUME NEW u \in Threads, NEW q \in Queues, u \in ToSet(k'.wait[q])
               PROVE  /\ q \in Mutexes /\ Pend(call'[u]) /\ call'[u].arg = q
                      /\ k'.err[u] = "EOK" /\ mutex[q].owner \notin {u, NULL}
    BY DEF WaitersPend
  <2>1. CASE u = t
    <3>1. q = m
      BY <1>1, <1>2, <2>1
    <3> QED BY <1>2, <1>3, <1>4, <2>1, <3>1
  <2>2. CASE u # t
    <3>1. u \in ToSet(k.wait[q])
      BY <1>2, <2>2
    <3> QED BY <1>2, <1>4, <2>2, <3>1 DEF Excludes, WaitersPend
  <2> QED BY <2>1, <2>2
<1>8. WokenOwns'
  <2> SUFFICES ASSUME NEW u \in Threads, Pend(call'[u]), k'.err[u] = "EOK", k'.stat[u] = "READY"
               PROVE  /\ call'[u].arg \in Mutexes /\ mutex[call'[u].arg].owner = u
                      /\ inside[u][call'[u].arg] = 0
    BY DEF WokenOwns
  <2>1. u # t
    BY <1>2
  <2> QED BY <1>2, <1>4, <2>1 DEF Excludes, WokenOwns
<1>9. KeepsTo("mutex")'
  BY <1>3, <1>4 DEF KeepsTo
<1> QED BY <1>5, <1>6, <1>7, <1>8, <1>9 DEF Excludes

(***************************************************************************)
(* rt_mutex_release to the first of the waiters.                           *)
(***************************************************************************)
Passes(kk, m) ==
  /\ kk \in Good(BeingDeleted, Reaped, 1) /\ kk.stat = k.stat /\ kk.err = k.err /\ kk.wait = k.wait
  /\ k.wait[m] # <<>> /\ k' = rt_ipc_list_resume(kk, m)
LEMMA PassesOn_ ==
  ASSUME KInv, NEW kk \in Good(BeingDeleted, Reaped, 1), kk.stat = k.stat, kk.err = k.err, kk.wait = k.wait,
         NEW q \in Queues, k.wait[q] # <<>>, NEW r, r = rt_ipc_list_resume(kk, q),
         NEW w, w = Head(k.wait[q])
  PROVE  /\ w \in Threads /\ w \in ToSet(k.wait[q]) /\ k.stat[w] = "SUSPEND"
         /\ r \in Good(BeingDeleted, Reaped, 1)
         /\ r.prio = kk.prio /\ r.err = k.err /\ r.stat[w] = "READY"
         /\ \A u \in Threads \ {w} : r.stat[u] = k.stat[u]
         /\ \A x \in Queues : /\ ToSet(r.wait[x]) = ToSet(k.wait[x]) \ {w}
                              /\ Thinner(k.wait[x], r.wait[x])
<1>1. r = rt_thread_resume(kk, w)
  BY DEF rt_ipc_list_resume
<1>2. kk \in KernelData /\ OnceEach(kk)
  BY <1>1, GoodData, GoodOnce
<1>3. kk.wait[q] \in Seq(Threads) /\ kk.stat \in [Threads -> Stats]
  BY <1>1, <1>2, Typed
<1>4. w \in ToSet(k.wait[q])
  BY <1>1, <1>3 DEF ToSet
<1>5. w \in Threads \ BeingDeleted /\ k.stat[w] = "SUSPEND"
  BY <1>1, <1>4, WaitersAreSuspended, SaneData DEF KInv, Linked, WaitLinked
<1>6. Admits(kk, r, w) /\ r \in Good(BeingDeleted, Reaped, 1)
  BY <1>1, <1>5, Resumes
<1>7. r.prio = kk.prio /\ r.err = k.err /\ r.wait = Less(kk, w)
  BY <1>1, <1>6 DEF Admits
<1>8. r.stat[w] = "READY" /\ \A u \in Threads \ {w} : r.stat[u] = k.stat[u]
  BY <1>1, <1>3, <1>5, <1>6 DEF Admits
<1>9. ASSUME NEW x \in Queues
      PROVE  ToSet(r.wait[x]) = ToSet(k.wait[x]) \ {w} /\ Thinner(k.wait[x], r.wait[x])
  <2>1. kk.wait[x] \in Seq(Threads) /\ IsInjective(kk.wait[x])
    BY <1>2, Typed DEF OnceEach
  <2>2. r.wait[x] = RemoveFirst(kk.wait[x], w)
    BY <1>7 DEF Less
  <2>3. ToSet(r.wait[x]) = ToSet(kk.wait[x]) \ {w}
    BY <2>1, <2>2, Leaves
  <2>4. Thinner(kk.wait[x], r.wait[x])
    BY <2>1, <2>2, LeavesOrder
  <2> QED BY <1>1, <2>3, <2>4
<1> QED BY <1>4, <1>5, <1>6, <1>7, <1>8, <1>9

LEMMA PassesMutex ==
  ASSUME KInv, NEW m \in Mutexes, NEW kk, Passes(kk, m), NEW w, w = Head(k.wait[m])
  PROVE  /\ w \in Threads /\ w \in ToSet(k.wait[m]) /\ k.stat[w] = "SUSPEND"
         /\ k'.prio = kk.prio /\ k'.err = k.err /\ k'.stat[w] = "READY"
         /\ \A u \in Threads \ {w} : k'.stat[u] = k.stat[u]
         /\ \A q \in Queues : /\ ToSet(k'.wait[q]) = ToSet(k.wait[q]) \ {w}
                              /\ Thinner(k.wait[q], k'.wait[q])
<1>1. /\ kk \in Good(BeingDeleted, Reaped, 1) /\ kk.stat = k.stat /\ kk.err = k.err /\ kk.wait = k.wait
      /\ k.wait[m] # <<>> /\ k' = rt_ipc_list_resume(kk, m) /\ m \in Queues
  BY ObjectFacts DEF Passes
<1> QED BY <1>1, PassesOn_

LEMMA PassExcludes ==
  ASSUME KInv, Excludes, KeepsTo("mutex"), NEW t \in Threads, Uses(t, "mutex"), NEW m \in Mutexes,
         mutex \in [Mutexes -> MutexData], mutex[m].owner = t, mutex[m].hold = 1,
         NEW kk, Passes(kk, m), Reschedules(t),
         mutex' = [mutex EXCEPT ![m] = heir_state(kk, m, Head(kk.wait[m]))],
         inside' = [inside EXCEPT ![t][m] = 0]
  PROVE  Excludes' /\ KeepsTo("mutex")'
<1> DEFINE w == Head(k.wait[m])
           c == [NoCall EXCEPT !.at = "resched"]
           x == heir_state(kk, m, w)
<1>1. /\ ~Pend(call[t]) /\ InCall(t)
      /\ \A y \in Mutexes : mutex[y].owner = t => inside[t][y] > 0
      /\ \A q \in Queues : t \notin ToSet(k.wait[q])
  BY CallerOwns
<1>2. x.owner = w /\ x.hold = 1
  BY DEF heir_state
<1>3. mutex' = [mutex EXCEPT ![m] = x]
  BY DEF Passes
<1>4. Goes(t, c) /\ ~Pend(c) /\ c.op = "none" /\ c.at = "resched"
  BY NotPend DEF Reschedules
<1> HIDE DEF w, c, x
<1>5. /\ w \in Threads /\ w \in ToSet(k.wait[m]) /\ k.stat[w] = "SUSPEND"
      /\ k'.err = k.err /\ k'.stat[w] = "READY"
      /\ \A u \in Threads \ {w} : k'.stat[u] = k.stat[u]
      /\ \A q \in Queues : ToSet(k'.wait[q]) = ToSet(k.wait[q]) \ {w}
  BY PassesMutex DEF w
<1>6. w # t /\ Pend(call[w]) /\ call[w].arg = m /\ k.err[w] = "EOK" /\ mutex[m].owner # w
  <2>1. m \in Queues
    BY ObjectFacts
  <2> QED BY <1>1, <1>5, <2>1 DEF Excludes, WaitersPend
<1>7. call'[t] = c /\ \A u \in Threads \ {t} : call'[u] = call[u]
  BY <1>4, GoesTo
<1>8. /\ TakesData' /\ inside'[t][m] = 0
      /\ \A u \in Threads, y \in Mutexes : u # t \/ y # m => inside'[u][y] = inside[u][y]
  <2>1. inside \in [Threads -> [Mutexes -> Nat]] /\ inside' = [inside EXCEPT ![t][m] = 0]
    BY DEF Excludes, TakesData
  <2> QED BY <2>1 DEF TakesData
<1>9. mutex'[m] = x /\ \A y \in Mutexes : y # m => mutex'[y] = mutex[y]
  BY <1>3
<1>10. \A u \in Threads : inside'[u][m] = 0
  <2>1. \A u \in Threads \ {t} : inside[u][m] = 0
    BY DEF Excludes, InsideOwns, TakesData
  <2> QED BY <1>8, <2>1
<1>11. NULL \notin Threads
  BY ObjectFacts
<1>12. InsideOwns'
  <2> SUFFICES ASSUME NEW u \in Threads, NEW y \in Mutexes, inside'[u][y] > 0
               PROVE  mutex'[y].owner = u /\ mutex'[y].hold = inside'[u][y]
    BY DEF InsideOwns
  <2>1. y # m
    BY <1>10
  <2> QED BY <1>8, <1>9, <2>1 DEF Excludes, InsideOwns
<1>13. HeirComes'
  <2> SUFFICES ASSUME NEW u \in Threads, NEW y \in Mutexes, mutex'[y].owner = u, inside'[u][y] = 0
               PROVE  /\ Pend(call'[u]) /\ call'[u].arg = y /\ mutex'[y].hold = 1
                      /\ k'.err[u] = "EOK" /\ k'.stat[u] # "SUSPEND"
    BY DEF HeirComes
  <2>1. CASE y = m
    <3>1. u = w
      BY <1>2, <1>9, <2>1
    <3> QED BY <1>2, <1>5, <1>6, <1>7, <1>9, <2>1, <3>1
  <2>2. CASE y # m
    <3>1. mutex[y].owner = u /\ inside[u][y] = 0 /\ mutex'[y] = mutex[y]
      BY <1>8, <1>9, <2>2
    <3>2. /\ Pend(call[u]) /\ call[u].arg = y /\ mutex[y].hold = 1
          /\ k.err[u] = "EOK" /\ k.stat[u] # "SUSPEND"
      BY <3>1 DEF Excludes, HeirComes
    <3>3. u # w /\ u # t
      BY <1>1, <1>5, <3>2
    <3> QED BY <1>5, <1>7, <3>1, <3>2, <3>3
  <2> QED BY <2>1, <2>2
<1>14. WaitersPend'
  <2> SUFFICES ASSUME NEW u \in Threads, NEW q \in Queues, u \in ToSet(k'.wait[q])
               PROVE  /\ q \in Mutexes /\ Pend(call'[u]) /\ call'[u].arg = q
                      /\ k'.err[u] = "EOK" /\ mutex'[q].owner \notin {u, NULL}
    BY DEF WaitersPend
  <2>1. u \in ToSet(k.wait[q]) /\ u # w
    BY <1>5
  <2>2. u # t
    BY <1>1, <2>1
  <2>3. /\ q \in Mutexes /\ Pend(call[u]) /\ call[u].arg = q
        /\ k.err[u] = "EOK" /\ mutex[q].owner \notin {u, NULL}
    BY <2>1 DEF Excludes, WaitersPend
  <2>4. mutex'[q].owner \notin {u, NULL}
    BY <1>2, <1>5, <1>9, <1>11, <2>1, <2>3
  <2> QED BY <1>5, <1>7, <2>2, <2>3, <2>4
<1>15. WokenOwns'
  <2> SUFFICES ASSUME NEW u \in Threads, Pend(call'[u]), k'.err[u] = "EOK", k'.stat[u] = "READY"
               PROVE  /\ call'[u].arg \in Mutexes /\ mutex'[call'[u].arg].owner = u
                      /\ inside'[u][call'[u].arg] = 0
    BY DEF WokenOwns
  <2>1. u # t /\ call'[u] = call[u]
    BY <1>4, <1>7
  <2>2. CASE u = w
    BY <1>2, <1>6, <1>9, <1>10, <2>1, <2>2
  <2>3. CASE u # w
    <3>1. call[u].arg \in Mutexes /\ mutex[call[u].arg].owner = u /\ inside[u][call[u].arg] = 0
      BY <1>5, <2>1, <2>3 DEF Excludes, WokenOwns
    <3>2. call[u].arg # m
      BY <2>1, <3>1
    <3> QED BY <1>8, <1>9, <2>1, <3>1, <3>2
  <2> QED BY <2>2, <2>3
<1>16. KeepsTo("mutex")'
  BY <1>4, <1>7 DEF KeepsTo
<1> QED BY <1>8, <1>12, <1>13, <1>14, <1>15, <1>16 DEF Excludes

(***************************************************************************)
(* The two calls, case by case.                                            *)
(***************************************************************************)
LEMMA QuietFails ==
  ASSUME KInv, NEW x, UNCHANGED <<mutex, inside>>, NEW t \in Threads, Uses(t, x),
         NEW e, Fails(t, e)
  PROVE  Quiet /\ (KeepsTo(x) => KeepsTo(x)')
<1>1. ~Pend(call[t]) /\ k \in KernelData
  BY Busy DEF Uses, Calls, Pend
<1>2. k' = [k EXCEPT !.err[t] = e] /\ Goes(t, NoCall)
  BY DEF Fails
<1>3. /\ k'.prio = k.prio /\ k'.wait = k.wait /\ k'.stat = k.stat
      /\ \A u \in Threads \ {t} : k'.err[u] = k.err[u]
  BY <1>1, <1>2 DEF KernelData
<1>4. \A q \in Queues : Thinner(k.wait[q], k'.wait[q])
  BY <1>3 DEF Thinner
<1> QED BY <1>1, <1>2, <1>3, <1>4, NotPend, QuietOthers

TakesAgain(t, m) ==
  /\ Uses(t, "mutex") /\ mutex[m].owner = t
  /\ mutex' = [mutex EXCEPT ![m].hold = @ + 1]
  /\ inside' = [inside EXCEPT ![t][m] = @ + 1]
  /\ k' = [k EXCEPT !.err[t] = "EOK"] /\ UNCHANGED call
TakesFree(t, m) ==
  /\ Uses(t, "mutex") /\ mutex[m].value > 0
  /\ mutex' = [mutex EXCEPT ![m] = [value |-> mutex[m].value - 1, owner |-> t, hold |-> 1,
                                    original_priority |-> k.prio[t]]]
  /\ inside' = [inside EXCEPT ![t][m] = @ + 1]
  /\ k' = [k EXCEPT !.err[t] = "EOK"] /\ UNCHANGED call
TakesNone(t) == Uses(t, "mutex") /\ (\E e : Fails(t, e)) /\ UNCHANGED <<mutex, inside>>
TakesLater(t, m, time) ==
  /\ Uses(t, "mutex") /\ mutex[m].owner # t /\ mutex[m].value = 0 /\ time # 0
  /\ (Careful => mutex[m].owner \notin Handled)
  /\ k' = rt_ipc_list_suspend(boosted(k, t, mutex[m].owner), t, m, time)
  /\ Goes(t, Blocked("mutex", time, m))
  /\ UNCHANGED <<mutex, inside>>
LEMMA TakeCases ==
  ASSUME ObjectsOK, NEW t \in Threads, MutexTake(t)
  PROVE  \/ TakesNone(t)
         \/ \E m \in Mutexes : TakesAgain(t, m) \/ TakesFree(t, m)
         \/ \E m \in Mutexes, time \in Times : TakesLater(t, m, time)
<1>1. PICK m \in Mutexes, time \in Waits[kind] :
    LET x == mutex[m] IN
    /\ Uses(t, "mutex") /\ k.nest = 0
    /\ \/ /\ x.owner = t /\ x.hold < MaxHold
          /\ mutex' = [mutex EXCEPT ![m].hold = @ + 1]
          /\ inside' = [inside EXCEPT ![t][m] = @ + 1]
          /\ k' = [k EXCEPT !.err[t] = "EOK"] /\ UNCHANGED call
       \/ /\ x.owner # t /\ x.value > 0
          /\ mutex' = [mutex EXCEPT ![m] = [value |-> x.value - 1, owner |-> t, hold |-> 1,
                                            original_priority |-> k.prio[t]]]
          /\ inside' = [inside EXCEPT ![t][m] = @ + 1]
          /\ k' = [k EXCEPT !.err[t] = "EOK"] /\ UNCHANGED call
       \/ /\ x.owner # t /\ x.value = 0 /\ time = 0
          /\ Fails(t, "ETIMEOUT") /\ UNCHANGED <<mutex, inside>>
       \/ /\ x.owner # t /\ x.value = 0 /\ time # 0 /\ (Careful => x.owner \notin Handled)
          /\ k' = rt_ipc_list_suspend(boosted(k, t, x.owner), t, m, time)
          /\ Goes(t, Blocked("mutex", time, m))
          /\ UNCHANGED <<mutex, inside>>
  BY DEF MutexTake
<1>2. time \in Times
  BY ObjectFacts DEF ObjectsOK, KindsOK
<1>3. CASE TakesAgain(t, m)
  BY <1>3
<1>4. CASE TakesFree(t, m)
  BY <1>4
<1>5. CASE TakesNone(t)
  BY <1>5
<1>6. CASE TakesLater(t, m, time)
  BY <1>2, <1>6
<1>7. TakesAgain(t, m) \/ TakesFree(t, m) \/ TakesNone(t) \/ TakesLater(t, m, time)
  BY <1>1 DEF TakesAgain, TakesFree, TakesNone, TakesLater
<1> QED BY <1>3, <1>4, <1>5, <1>6, <1>7

LEMMA Marked ==
  ASSUME KInv, NEW t \in Threads, Uses(t, "mutex"), k' = [k EXCEPT !.err[t] = "EOK"]
  PROVE  /\ k'.prio = k.prio /\ k'.wait = k.wait /\ k'.stat = k.stat
         /\ \A u \in Threads \ {t} : k'.err[u] = k.err[u]
<1>1. k \in KernelData
  BY Busy
<1> QED BY <1>1 DEF KernelData

LEMMA TakesAgainExcludes ==
  ASSUME KInv, ObjectsOK, Excludes, NEW t \in Threads, NEW m \in Mutexes, TakesAgain(t, m)
  PROVE  Excludes'
<1> DEFINE n == inside[t][m] + 1
           x == [mutex[m] EXCEPT !.hold = n]
<1>1. Uses(t, "mutex") /\ mutex[m].owner = t /\ UNCHANGED call
  BY DEF TakesAgain
<1>2. inside[t][m] > 0 /\ mutex[m].hold = inside[t][m] /\ inside[t][m] \in Nat
  BY <1>1, CallerOwns DEF Excludes, TakesData
<1>3. mutex \in [Mutexes -> MutexData] /\ mutex[m] \in MutexData
  BY DEF ObjectsOK
<1>4. mutex' = [mutex EXCEPT ![m] = x]
  BY <1>2, <1>3 DEF TakesAgain
<1>5. n \in Nat /\ n > 0 /\ inside' = [inside EXCEPT ![t][m] = n]
  BY <1>2 DEF TakesAgain
<1>6. x \in MutexData /\ x.owner = t /\ x.hold = n
  BY <1>1, <1>3, <1>5 DEF MutexData
<1>7. k'.wait = k.wait /\ k'.stat = k.stat /\ \A u \in Threads \ {t} : k'.err[u] = k.err[u]
  BY <1>1, Marked DEF TakesAgain
<1> HIDE DEF n, x
<1> QED BY <1>1, <1>3, <1>4, <1>5, <1>6, <1>7, OwnerCounts

LEMMA FreeForTaking ==
  ASSUME KInv, ObjectsOK, Excludes, NEW t \in Threads, NEW m \in Mutexes, TakesFree(t, m)
  PROVE  /\ mutex[m].owner = NULL /\ mutex[m].value = 1 /\ inside[t][m] = 0
         /\ ToSet(k.wait[m]) = {}
<1>1. mutex[m] \in MutexData /\ (mutex[m].value = 0 <=> mutex[m].owner # NULL)
  BY DEF ObjectsOK
<1>2. mutex[m].value = 1 /\ mutex[m].owner = NULL
  BY <1>1 DEF TakesFree, MutexData
<1>3. inside[t][m] = 0
  BY <1>2, ObjectFacts DEF Excludes, InsideOwns, TakesData
<1>4. ToSet(k.wait[m]) = {}
  <2>1. ASSUME NEW u \in ToSet(k.wait[m]) PROVE FALSE
    <3>1. m \in Queues
      BY ObjectFacts
    <3>2. u \in Threads
      BY <2>1, <3>1, WaitersAreSuspended
    <3> QED BY <1>2, <2>1, <3>1, <3>2 DEF Excludes, WaitersPend
  <2> QED BY <2>1
<1> QED BY <1>2, <1>3, <1>4

LEMMA TakesFreeExcludes ==
  ASSUME KInv, ObjectsOK, Excludes, NEW t \in Threads, NEW m \in Mutexes, TakesFree(t, m)
  PROVE  Excludes'
<1> DEFINE n == 1
           x == HeldBy(t, k.prio[t], 1)
<1>1. Uses(t, "mutex") /\ UNCHANGED call
  BY DEF TakesFree
<1>2. mutex[m].owner = NULL /\ mutex[m].value = 1 /\ inside[t][m] = 0
  BY FreeForTaking
<1>3. mutex \in [Mutexes -> MutexData]
  BY DEF ObjectsOK
<1>4. mutex' = [mutex EXCEPT ![m] = x]
  BY <1>2 DEF TakesFree, HeldBy
<1>5. n \in Nat /\ n > 0 /\ inside' = [inside EXCEPT ![t][m] = n]
  BY <1>2 DEF TakesFree
<1>6. x \in MutexData /\ x.owner = t /\ x.hold = n
  <2>1. k.prio[t] \in Nat
    <3>1. k \in KernelData
      BY <1>1, Busy
    <3> QED BY <3>1, Typed, PriosAreNumbers
  <2> QED BY <2>1 DEF HeldBy, MutexData
<1>7. k'.wait = k.wait /\ k'.stat = k.stat /\ \A u \in Threads \ {t} : k'.err[u] = k.err[u]
  BY <1>1, Marked DEF TakesFree
<1> HIDE DEF n, x
<1> QED BY <1>1, <1>2, <1>3, <1>4, <1>5, <1>6, <1>7, OwnerCounts

Lent(kk, t, o) ==
  \A u \in Threads : kk.prio[u] = IF u = o /\ k.prio[t] < k.prio[o] THEN k.prio[t] ELSE k.prio[u]
LEMMA LaterJoins ==
  ASSUME KInv, Disciplined, ObjectsOK, NEW t \in Threads, NEW m \in Mutexes, NEW time \in Times,
         TakesLater(t, m, time), NEW kk, kk = boosted(k, t, mutex[m].owner)
  PROVE  /\ mutex[m].owner \in Threads \ {t} /\ InCall(t)
         /\ JoinsQueue(kk, t, m, time) /\ Lent(kk, t, mutex[m].owner)
<1> DEFINE o == mutex[m].owner
<1>1. /\ Uses(t, "mutex") /\ o # t /\ mutex[m].value = 0 /\ time \in Times \ {0}
      /\ k' = rt_ipc_list_suspend(kk, t, m, time)
  BY DEF TakesLater
<1>2. o \in Threads \ {Idle} /\ o \notin BeingDeleted
  <2>1. o \in Threads \ {Idle}
    BY <1>1 DEF ObjectsOK, MutexData
  <2>2. o \notin Handled
    BY DEF TakesLater, Disciplined
  <2>3. BeingDeleted \subseteq Handled
    BY DEF BeingDeleted, Handled, Handling, Deleting
  <2> QED BY <2>1, <2>2, <2>3
<1>3. InCall(t) /\ k \in Good(BeingDeleted, Reaped, 1)
  BY <1>1, BusyInCall, SaneData DEF InCall
<1>4. kk = boosted(k, t, o)
  OBVIOUS
<1> HIDE DEF o
<1>5. /\ kk \in Good(BeingDeleted, Reaped, 1) /\ kk.static = k.static /\ kk.current = k.current
      /\ kk.nest = k.nest /\ kk.stat = k.stat /\ kk.err = k.err /\ kk.wait = k.wait
      /\ \A u \in Threads : kk.prio[u] = IF u = o /\ k.prio[t] < k.prio[o]
                                         THEN k.prio[t] ELSE k.prio[u]
  BY <1>2, <1>3, <1>4, Boosts
<1>6. JoinsQueue(kk, t, m, time) /\ Lent(kk, t, o)
  BY <1>1, <1>5 DEF JoinsQueue, Lent
<1> QED BY <1>1, <1>2, <1>3, <1>6 DEF o

LEMMA TakesLaterExcludes ==
  ASSUME KInv, Disciplined, ObjectsOK, Excludes, KeepsTo("mutex"), NEW t \in Threads, NEW m \in Mutexes,
         NEW time \in Times, TakesLater(t, m, time)
  PROVE  Excludes' /\ KeepsTo("mutex")'
<1> DEFINE kk == boosted(k, t, mutex[m].owner)
<1>1. mutex[m].owner \in Threads \ {t} /\ JoinsQueue(kk, t, m, time)
  BY LaterJoins
<1>2. /\ Uses(t, "mutex") /\ Goes(t, Blocked("mutex", time, m)) /\ UNCHANGED <<mutex, inside>>
      /\ mutex[m].owner \notin {t, NULL}
  BY <1>1, ObjectFacts DEF TakesLater
<1> HIDE DEF kk
<1> QED BY <1>1, <1>2, WaitExcludes

LEMMA TakeExcludes ==
  ASSUME KInv, KInv', Disciplined, ObjectsOK, Excludes, KeepsTo("mutex"), NEW t \in Threads, MutexTake(t)
  PROVE  Excludes' /\ KeepsTo("mutex")'
<1>1. CASE TakesNone(t)
  <2>1. Quiet /\ KeepsTo("mutex")'
    BY <1>1, QuietFails DEF TakesNone
  <2> QED BY <2>1, QuietExcludes
<1>2. ASSUME NEW m \in Mutexes, TakesAgain(t, m) \/ TakesFree(t, m)
      PROVE  Excludes' /\ KeepsTo("mutex")'
  <2>1. KeepsTo("mutex")'
    BY <1>2 DEF KeepsTo, TakesAgain, TakesFree
  <2> QED BY <1>2, <2>1, TakesAgainExcludes, TakesFreeExcludes
<1>3. ASSUME NEW m \in Mutexes, NEW time \in Times, TakesLater(t, m, time)
      PROVE  Excludes' /\ KeepsTo("mutex")'
  BY <1>3, TakesLaterExcludes
<1> QED BY <1>1, <1>2, <1>3, TakeCases

(* The release.                                                             *)
GivesOne(t, m) ==
  /\ Uses(t, "mutex") /\ mutex[m].owner = t /\ mutex[m].hold > 1
  /\ mutex' = [mutex EXCEPT ![m].hold = @ - 1] /\ UNCHANGED kernel_vars
  /\ inside' = [inside EXCEPT ![t][m] = @ - 1]
GivesFree(t, m) ==
  /\ Uses(t, "mutex") /\ mutex[m].owner = t /\ k.wait[m] = <<>>
  /\ mutex' = [mutex EXCEPT ![m] = FreeMutex]
  /\ inside' = [inside EXCEPT ![t][m] = 0]
  /\ k' = restored(k, t, mutex[m].original_priority) /\ UNCHANGED call
GivesHeir(t, m) ==
  LET down == restored(k, t, mutex[m].original_priority) IN
  /\ Uses(t, "mutex") /\ mutex[m].owner = t /\ mutex[m].hold = 1 /\ k.wait[m] # <<>>
  /\ mutex' = [mutex EXCEPT ![m] = heir_state(down, m, Head(down.wait[m]))]
  /\ inside' = [inside EXCEPT ![t][m] = 0]
  /\ k' = rt_ipc_list_resume(down, m) /\ Reschedules(t)
LEMMA ReleaseCases ==
  ASSUME NEW t \in Threads, MutexRelease(t)
  PROVE  TakesNone(t) \/ \E m \in Mutexes : GivesOne(t, m) \/ GivesFree(t, m) \/ GivesHeir(t, m)
<1>1. PICK m \in Mutexes :
    LET x == mutex[m]
        down == restored(k, t, x.original_priority)
    IN
    /\ Uses(t, "mutex")
    /\ \/ x.owner # t /\ k.err[t] = "EOK" /\ Fails(t, "ERROR") /\ UNCHANGED <<mutex, inside>>
       \/ /\ x.owner = t /\ x.hold > 1
          /\ mutex' = [mutex EXCEPT ![m].hold = @ - 1] /\ UNCHANGED kernel_vars
          /\ inside' = [inside EXCEPT ![t][m] = @ - 1]
       \/ /\ x.owner = t /\ x.hold = 1 /\ k.wait[m] = <<>>
          /\ mutex' = [mutex EXCEPT ![m] = FreeMutex]
          /\ inside' = [inside EXCEPT ![t][m] = 0]
          /\ k' = down /\ UNCHANGED call
       \/ /\ x.owner = t /\ x.hold = 1 /\ k.wait[m] # <<>>
          /\ mutex' = [mutex EXCEPT ![m] = heir_state(down, m, Head(down.wait[m]))]
          /\ inside' = [inside EXCEPT ![t][m] = 0]
          /\ k' = rt_ipc_list_resume(down, m) /\ Reschedules(t)
  BY DEF MutexRelease
<1>2. TakesNone(t) \/ GivesOne(t, m) \/ GivesFree(t, m) \/ GivesHeir(t, m)
  BY <1>1 DEF TakesNone, GivesOne, GivesFree, GivesHeir
<1> QED BY <1>2

LEMMA GivesBack ==
  ASSUME KInv, ObjectsOK, NEW t \in Threads, Uses(t, "mutex"), NEW m \in Mutexes,
         mutex[m].owner = t, NEW down, down = restored(k, t, mutex[m].original_priority)
  PROVE  /\ down \in Good(BeingDeleted, Reaped, 1) /\ down.stat = k.stat /\ down.err = k.err
         /\ down.wait = k.wait
         /\ \A u \in Threads : down.prio[u] = IF u = t THEN mutex[m].original_priority ELSE k.prio[u]
<1> DEFINE p == mutex[m].original_priority
<1>1. p \in Prios
  BY ObjectFacts DEF ObjectsOK
<1>2. t \in Threads \ {Idle} /\ t \notin BeingDeleted /\ k \in Good(BeingDeleted, Reaped, 1)
  BY Busy, SaneData
<1>3. down = restored(k, t, p)
  OBVIOUS
<1> HIDE DEF p
<1>4. /\ down \in Good(BeingDeleted, Reaped, 1) /\ down.static = k.static /\ down.current = k.current
      /\ down.nest = k.nest /\ down.stat = k.stat /\ down.err = k.err /\ down.wait = k.wait
      /\ \A u \in Threads : down.prio[u] = IF u = t THEN p ELSE k.prio[u]
  BY <1>1, <1>2, <1>3, Restores
<1> QED BY <1>4 DEF p

LEMMA GivesOneExcludes ==
  ASSUME KInv, ObjectsOK, Excludes, NEW t \in Threads, NEW m \in Mutexes, GivesOne(t, m)
  PROVE  Excludes'
<1> DEFINE n == inside[t][m] - 1
           x == [mutex[m] EXCEPT !.hold = n]
<1>1. Uses(t, "mutex") /\ mutex[m].owner = t /\ mutex[m].hold > 1 /\ UNCHANGED kernel_vars
  BY DEF GivesOne
<1>2. inside[t][m] > 0 /\ mutex[m].hold = inside[t][m] /\ inside[t][m] \in Nat
  BY <1>1, CallerOwns DEF Excludes, TakesData
<1>3. mutex \in [Mutexes -> MutexData] /\ mutex[m] \in MutexData
  BY DEF ObjectsOK
<1>4. mutex' = [mutex EXCEPT ![m] = x]
  BY <1>2, <1>3 DEF GivesOne
<1>5. n \in Nat /\ n > 0 /\ inside' = [inside EXCEPT ![t][m] = n]
  BY <1>1, <1>2 DEF GivesOne
<1>6. x \in MutexData /\ x.owner = t /\ x.hold = n
  BY <1>1, <1>3, <1>5 DEF MutexData
<1>7. /\ UNCHANGED call /\ k'.wait = k.wait /\ k'.stat = k.stat
      /\ \A u \in Threads \ {t} : k'.err[u] = k.err[u]
  BY <1>1 DEF kernel_vars
<1> HIDE DEF n, x
<1> QED BY <1>1, <1>3, <1>4, <1>5, <1>6, <1>7, OwnerCounts

LEMMA GivesFreeExcludes ==
  ASSUME KInv, ObjectsOK, Excludes, NEW t \in Threads, NEW m \in Mutexes, GivesFree(t, m)
  PROVE  Excludes'
<1> DEFINE n == 0
           x == FreeMutex
           p == mutex[m].original_priority
<1>1. /\ Uses(t, "mutex") /\ mutex[m].owner = t /\ k.wait[m] = <<>> /\ UNCHANGED call
      /\ k' = restored(k, t, p)
  BY DEF GivesFree
<1>2. mutex \in [Mutexes -> MutexData]
  BY DEF ObjectsOK
<1>3. mutex' = [mutex EXCEPT ![m] = x]
  BY DEF GivesFree
<1>4. n \in Nat /\ n = 0 /\ inside' = [inside EXCEPT ![t][m] = n]
  BY DEF GivesFree
<1>5. x \in MutexData /\ x.owner = NULL
  BY DEF FreeMutex, MutexData
<1>6. k'.wait = k.wait /\ k'.stat = k.stat /\ k'.err = k.err
  BY <1>1, GivesBack
<1> HIDE DEF n, x
<1> QED BY <1>1, <1>2, <1>3, <1>4, <1>5, <1>6, OwnerCounts

LEMMA GivesHeirExcludes ==
  ASSUME KInv, ObjectsOK, Excludes, KeepsTo("mutex"), NEW t \in Threads, NEW m \in Mutexes,
         GivesHeir(t, m)
  PROVE  Excludes' /\ KeepsTo("mutex")'
<1> DEFINE down == restored(k, t, mutex[m].original_priority)
<1>1. /\ Uses(t, "mutex") /\ mutex[m].owner = t /\ mutex[m].hold = 1 /\ k.wait[m] # <<>>
      /\ mutex' = [mutex EXCEPT ![m] = heir_state(down, m, Head(down.wait[m]))]
      /\ inside' = [inside EXCEPT ![t][m] = 0]
      /\ k' = rt_ipc_list_resume(down, m) /\ Reschedules(t)
  BY DEF GivesHeir
<1>2. /\ down \in Good(BeingDeleted, Reaped, 1) /\ down.stat = k.stat /\ down.err = k.err
      /\ down.wait = k.wait
  BY <1>1, GivesBack
<1>3. mutex \in [Mutexes -> MutexData]
  BY DEF ObjectsOK
<1> HIDE DEF down
<1>4. Passes(down, m)
  BY <1>1, <1>2 DEF Passes
<1> QED BY <1>1, <1>3, <1>4, PassExcludes

LEMMA ReleaseExcludes ==
  ASSUME KInv, KInv', ObjectsOK, Excludes, KeepsTo("mutex"), NEW t \in Threads, MutexRelease(t)
  PROVE  Excludes' /\ KeepsTo("mutex")'
<1>1. CASE TakesNone(t)
  <2>1. Quiet /\ KeepsTo("mutex")'
    BY <1>1, QuietFails DEF TakesNone
  <2> QED BY <2>1, QuietExcludes
<1>2. ASSUME NEW m \in Mutexes, GivesOne(t, m) \/ GivesFree(t, m)
      PROVE  Excludes' /\ KeepsTo("mutex")'
  <2>1. UNCHANGED call
    BY <1>2 DEF GivesOne, GivesFree, kernel_vars
  <2>2. KeepsTo("mutex")'
    BY <2>1 DEF KeepsTo
  <2> QED BY <1>2, <2>2, GivesOneExcludes, GivesFreeExcludes
<1>3. ASSUME NEW m \in Mutexes, GivesHeir(t, m)
      PROVE  Excludes' /\ KeepsTo("mutex")'
  BY <1>3, GivesHeirExcludes
<1> QED BY <1>1, <1>2, <1>3, ReleaseCases

(***************************************************************************)
(* Every step of a behaviour about mutexes is one of these.                *)
(***************************************************************************)
XInv == kind = "mutex" => Excludes /\ KeepsTo("mutex")
MutexStep(t) ==
  MutexTake(t) \/ MutexRelease(t) \/ MutexTaken(t) \/ Detach(t) \/ DetachStep(t)
LEMMA MutexSteps ==
  ASSUME kind = "mutex", KeepsTo("mutex"), IpcNext
  PROVE  Kernel \/ \E t \in Threads : MutexStep(t)
<1>1. ~Handler
  BY DEF Handler, About
<1>2. ASSUME NEW t \in Threads, Calling(t) PROVE MutexStep(t)
  <2>1. ~Uses(t, "sem") /\ ~Uses(t, "event") /\ ~Uses(t, "mp") /\ ~Uses(t, "mq")
    BY DEF Uses, About
  <2>2. ~SemTake(t) /\ ~EventRecv(t) /\ ~MqSend(t) /\ ~Reset(t)
    BY <2>1 DEF SemTake, EventRecv, MqSend, Reset
  <2>3. ~MbSend(t) /\ ~MbRecv(t) /\ ~MqRecv(t) /\ ~MpAlloc(t)
    <3>1. \A x, op, arg, time : Tries(t, x, op, arg, time) => About(x) \/ call[t].op = op
      BY DEF Tries, Uses, Woken
    <3>2. call[t].op \in {"none", "mutex", "sleep"}
      BY DEF KeepsTo
    <3> QED BY <3>1, <3>2 DEF MbSend, MbRecv, MqRecv, MpAlloc, About
  <2> QED BY <1>2, <2>1, <2>2, <2>3 DEF Calling, MutexStep
<1>3. ASSUME NEW t \in Threads, Finishing(t) PROVE MutexStep(t)
  BY <1>3 DEF Finishing, SemTaken, EventReceived, MbGivesUp, MqGivesUp, MpGivesUp, MqLink,
              MqFree, GivesUp, Woken, KeepsTo, MutexStep
<1> QED BY <1>1, <1>2, <1>3 DEF IpcNext

LEMMA KindStays ==
  ASSUME [IpcNext]_ipc_vars
  PROVE  kind' = kind /\ flag' = flag
<1>1. ASSUME NEW t \in Threads, Calling(t) PROVE kind' = kind /\ flag' = flag
  BY <1>1 DEF Calling, SemTake, SemRelease, MutexTake, MutexRelease, EventRecv, EventSend,
              MbSend, MbRecv, MqSend, MqRecv, MpAlloc, MpFree, Reset, Detach
<1>2. ASSUME NEW t \in Threads, Finishing(t) PROVE kind' = kind /\ flag' = flag
  BY <1>2 DEF Finishing, SemTaken, MutexTaken, EventReceived, MbGivesUp, MqGivesUp,
              MpGivesUp, MqLink, MqFree, DetachStep
<1>3. ASSUME Kernel \/ Handler PROVE kind' = kind /\ flag' = flag
  BY <1>3 DEF Kernel, Handler, SemRelease, EventSend, MqSendIsr, MpFree
<1> QED BY <1>1, <1>2, <1>3 DEF IpcNext, ipc_vars

LEMMA SameKeeps ==
  ASSUME UNCHANGED <<k, call, mutex, inside, flag>>
  PROVE  /\ Excludes => Excludes'
         /\ KeepsTo("mutex") => KeepsTo("mutex")'
         /\ \A m \in Mutexes : Lends(m) => Lends(m)'
<1>1. Excludes => Excludes'
  BY DEF Excludes, TakesData, InsideOwns, HeirComes, WaitersPend, WokenOwns
<1>2. KeepsTo("mutex") => KeepsTo("mutex")'
  BY DEF KeepsTo
<1>3. \A m \in Mutexes : Lends(m) => Lends(m)'
  BY DEF Lends
<1> QED BY <1>1, <1>2, <1>3

(* A step that is quiet, or one of those that are not.                      *)
Loud(t) ==
  \/ MutexTake(t) \/ MutexRelease(t)
  \/ /\ Woken(t, "mutex") /\ k.err[t] = "EOK" /\ Taken(t) /\ Goes(t, NoCall)
     /\ UNCHANGED <<k, mutex>>
LEMMA QuietOrLoud ==
  ASSUME KInv, WInv, Disciplined, kind = "mutex", KeepsTo("mutex"), IpcNext
  PROVE  (Quiet /\ KeepsTo("mutex")') \/ \E t \in Threads : Loud(t)
<1>1. CASE Kernel
  BY <1>1, QuietKernels
<1>2. ASSUME NEW t \in Threads, MutexStep(t)
      PROVE  (Quiet /\ KeepsTo("mutex")') \/ Loud(t)
  <2>1. CASE MutexTake(t) \/ MutexRelease(t)
    BY <2>1 DEF Loud
  <2>2. CASE MutexTaken(t)
    <3>1. UNCHANGED mutex
      BY <2>2 DEF MutexTaken, objects
    <3>2. CASE GivesUp(t, "mutex") /\ UNCHANGED inside
      BY <3>1, <3>2, QuietGivesUp
    <3>3. CASE /\ Woken(t, "mutex") /\ k.err[t] = "EOK"
               /\ Taken(t) /\ UNCHANGED k /\ Goes(t, NoCall)
      BY <3>1, <3>3 DEF Loud
    <3> QED BY <2>2, <3>2, <3>3 DEF MutexTaken
  <2>3. CASE Detach(t) \/ DetachStep(t)
    <3>1. UNCHANGED <<mutex, inside>>
      BY <2>3 DEF Detach, DetachStep, objects
    <3> QED BY <2>3, <3>1, QuietDetaches
  <2> QED BY <1>2, <2>1, <2>2, <2>3 DEF MutexStep
<1> QED BY <1>1, <1>2, MutexSteps

LEMMA MutexNext ==
  ASSUME IInv, IInv', XInv, Disciplined, [IpcNext]_ipc_vars
  PROVE  XInv'
<1>1. KInv /\ KInv' /\ WInv /\ ObjectsOK /\ kind' = kind
  BY KindStays DEF IInv, KInv
<1>2. SUFFICES ASSUME kind = "mutex" PROVE Excludes' /\ KeepsTo("mutex")'
  BY <1>1 DEF XInv
<1>3. Excludes /\ KeepsTo("mutex")
  BY <1>2 DEF XInv
<1>4. CASE UNCHANGED ipc_vars
  <2>1. UNCHANGED <<k, call, mutex, inside, flag>>
    BY <1>4 DEF ipc_vars, kernel_vars, objects
  <2> QED BY <1>3, <2>1, SameKeeps
<1>5. CASE Quiet /\ KeepsTo("mutex")'
  BY <1>1, <1>3, <1>5, QuietExcludes
<1>6. ASSUME NEW t \in Threads, Loud(t) PROVE Excludes' /\ KeepsTo("mutex")'
  BY <1>1, <1>3, <1>6, TakeExcludes, ReleaseExcludes, TakenExcludes DEF Loud
<1> QED BY <1>1, <1>2, <1>3, <1>4, <1>5, <1>6, QuietOrLoud

LEMMA MutexFirst ==
  ASSUME IpcInit
  PROVE  XInv /\ (kind = "mutex" => \A m \in Mutexes : Lends(m))
<1> DEFINE S == IF kind \in {"thread", "mutex"} THEN Threads ELSE Threads \ Spare
<1>1. KernelInit(S)
  BY DEF IpcInit
<1>2. /\ k.wait = [q \in Queues |-> <<>>] /\ k.prio = Priority
      /\ call = [t \in Threads |-> NoCall]
  BY <1>1 DEF KernelInit
<1>3. /\ mutex = [m \in Mutexes |-> FreeMutex]
      /\ inside = [t \in Threads |-> [m \in Mutexes |-> 0]]
  BY DEF IpcInit
<1>4. \A m \in Mutexes : mutex[m].owner = NULL
  BY <1>3 DEF FreeMutex
<1>5. \A t \in Threads : call[t] = NoCall
  BY <1>2
<1>6. \A q \in Queues : k.wait[q] = <<>> /\ ToSet(k.wait[q]) = {}
  BY <1>2 DEF ToSet
<1>7. KeepsTo("mutex")
  BY <1>5, NotPend DEF KeepsTo
<1>8. Excludes
  <2>1. \A t \in Threads, m \in Mutexes : inside[t][m] = 0 /\ inside[t][m] \in Nat /\ ~(inside[t][m] > 0)
    BY <1>3
  <2>2. TakesData
    BY <1>3 DEF TakesData
  <2>3. InsideOwns
    BY <2>1, Zenon DEF InsideOwns
  <2>4. HeirComes
    BY <1>4, ObjectFacts, Zenon DEF HeirComes
  <2>5. WaitersPend
    BY <1>6 DEF WaitersPend
  <2>6. WokenOwns
    BY <1>5, NotPend, Zenon DEF WokenOwns
  <2> QED BY <2>2, <2>3, <2>4, <2>5, <2>6 DEF Excludes
<1>9. \A m \in Mutexes : Lends(m)
  BY <1>2, <1>4, <1>6, ObjectFacts DEF Lends, Sorted
<1> QED BY <1>7, <1>8, <1>9 DEF XInv

(***************************************************************************)
(* A mutex excludes: who came back from rt_mutex_take is the owner until   *)
(* the last rt_mutex_release (ipc.c:652, 788), although a release passes   *)
(* the mutex on while the heir sleeps, and ticks, timeouts, deletions and  *)
(* a detach come in between.  For any number of threads and mutexes.       *)
(***************************************************************************)
THEOREM MutexExcludes ==
  ASSUME Disciplined
  PROVE  IpcSpec => []MutexExclusive
<1>1. IpcInit => IInv /\ XInv
  BY FirstState, MutexFirst
<1>2. IInv /\ [IpcNext]_ipc_vars => IInv'
  BY NextKeeps
<1>3. IInv /\ IInv' /\ XInv /\ [IpcNext]_ipc_vars => XInv'
  BY MutexNext
<1>4. XInv => MutexExclusive
  BY DEF XInv, KeepsTo, Excludes, InsideOwns, HeirComes, Pend, MutexExclusive
<1> QED BY <1>1, <1>2, <1>3, <1>4, PTL DEF IpcSpec

(***************************************************************************)
(* What the mutex lends.                                                   *)
(***************************************************************************)
LEMMA SamePrios ==
  ASSUME NEW m \in Mutexes, Lends(m), UNCHANGED flag, k'.prio = k.prio, k'.wait = k.wait,
         mutex'[m].owner = mutex[m].owner,
         mutex'[m].original_priority = mutex[m].original_priority
  PROVE  Lends(m)'
BY DEF Lends

LEMMA AgainLends ==
  ASSUME KInv, ObjectsOK, NEW t \in Threads, NEW m \in Mutexes, Lends(m), UNCHANGED flag,
         TakesAgain(t, m) \/ GivesOne(t, m)
  PROVE  Lends(m)'
<1>1. mutex \in [Mutexes -> MutexData] /\ mutex[m] \in MutexData
  BY DEF ObjectsOK
<1>2. k'.prio = k.prio /\ k'.wait = k.wait
  <2>1. CASE TakesAgain(t, m)
    BY <2>1, Marked DEF TakesAgain
  <2>2. CASE GivesOne(t, m)
    BY <2>2 DEF GivesOne, kernel_vars
  <2> QED BY <2>1, <2>2
<1>3. PICK n : mutex' = [mutex EXCEPT ![m].hold = n]
  BY DEF TakesAgain, GivesOne
<1>4. mutex'[m].owner = mutex[m].owner /\ mutex'[m].original_priority = mutex[m].original_priority
  BY <1>1, <1>3 DEF MutexData
<1> QED BY <1>2, <1>4, SamePrios

LEMMA FreeLends ==
  ASSUME KInv, ObjectsOK, Excludes, NEW t \in Threads, NEW m \in Mutexes, Lends(m),
         UNCHANGED flag, TakesFree(t, m)
  PROVE  Lends(m)'
<1>1. mutex[m].owner = NULL /\ ToSet(k.wait[m]) = {}
  BY FreeForTaking
<1>2. k'.prio = k.prio /\ k'.wait = k.wait
  BY Marked DEF TakesFree
<1>3. mutex \in [Mutexes -> MutexData]
  BY DEF ObjectsOK
<1>4. mutex'[m].owner = t /\ mutex'[m].original_priority = k.prio[t]
  BY <1>3 DEF TakesFree
<1>5. \A u \in Threads : k.prio[u] = Priority[u]
  BY <1>1, ObjectFacts DEF Lends
<1>6. flag = "PRIO" => Sorted(k.prio, k.wait[m])
  BY DEF Lends
<1> QED BY <1>1, <1>2, <1>4, <1>5, <1>6 DEF Lends

(* Orders that agree on whom a list names.                                  *)
LEMMA SortedAlike ==
  ASSUME NEW l, NEW prio, NEW other, Sorted(prio, l), \A x \in ToSet(l) : other[x] = prio[x]
  PROVE  Sorted(other, l)
BY DEF Sorted, ToSet

LEMMA LaterLends ==
  ASSUME KInv, Disciplined, ObjectsOK, Excludes, NEW t \in Threads, NEW m \in Mutexes, Lends(m),
         UNCHANGED flag, NEW time \in Times, TakesLater(t, m, time)
  PROVE  Lends(m)'
<1> DEFINE o == mutex[m].owner
           kk == boosted(k, t, o)
           l == k.wait[m]
<1>1. o \in Threads \ {t} /\ InCall(t) /\ JoinsQueue(kk, t, m, time) /\ Lent(kk, t, o)
  BY LaterJoins
<1>2. UNCHANGED mutex /\ m \in Queues
  BY ObjectFacts DEF TakesLater
<1>3. k \in KernelData /\ kk \in KernelData
  BY <1>1, GoodData DEF JoinsQueue, InCall
<1>4. l \in Seq(Threads)
  BY <1>2, <1>3, Typed
<1>5. k.prio \in [Threads -> Nat] /\ kk.prio \in [Threads -> Nat]
  BY <1>3, Typed, PriosAreNumbers
<1>6. \A x \in ToSet(l) : x \in Threads \ {o}
  <2>1. \A x \in ToSet(l) : x \in Threads
    BY <1>4 DEF ToSet
  <2> QED BY <1>2, <2>1 DEF Excludes, WaitersPend
<1> HIDE DEF kk
<1>7. /\ k'.prio = kk.prio /\ k'.wait[m] = listed(kk, l, t)
      /\ ToSet(k'.wait[m]) = ToSet(l) \cup {t}
  BY <1>1, ObjectFacts, JoinsMutex
<1> HIDE DEF o, l
<1>8. /\ \A u \in Threads \ {o} : kk.prio[u] = k.prio[u]
      /\ kk.prio[o] <= k.prio[o] /\ kk.prio[o] <= k.prio[t]
  BY <1>1, <1>5 DEF Lent
<1>9. ASSUME flag = "PRIO"
      PROVE  /\ Sorted(kk.prio, k'.wait[m])
             /\ \A x \in ToSet(k'.wait[m]) : kk.prio[o] <= kk.prio[x]
  <2>1. Sorted(k.prio, l) /\ \A x \in ToSet(l) : k.prio[o] <= k.prio[x]
    BY <1>9 DEF Lends, o, l
  <2>2. \A x \in ToSet(l) : kk.prio[x] = k.prio[x]
    BY <1>6, <1>8
  <2>3. Sorted(kk.prio, l)
    BY <2>1, <2>2, SortedAlike
  <2>4. Sorted(kk.prio, k'.wait[m])
    BY <1>4, <1>5, <1>7, <1>9, <2>3, ListedSorted
  <2>5. ASSUME NEW x \in ToSet(l) PROVE kk.prio[o] <= kk.prio[x]
    <3>1. x \in Threads /\ k.prio[o] <= k.prio[x] /\ kk.prio[x] = k.prio[x]
      BY <1>6, <2>1, <2>2, <2>5
    <3>2. k.prio[o] \in Nat /\ kk.prio[o] \in Nat /\ k.prio[x] \in Nat
      BY <1>1, <1>5, <3>1
    <3> QED BY <1>8, <3>1, <3>2
  <2>6. kk.prio[o] <= kk.prio[t]
    BY <1>1, <1>8
  <2> QED BY <1>7, <2>4, <2>5, <2>6
<1>10. \A u \in Threads : o # u => k'.prio[u] = Priority[u]
  BY <1>7, <1>8 DEF Lends, o
<1> QED BY <1>2, <1>7, <1>9, <1>10 DEF Lends, o

LEMMA BackLends ==
  ASSUME KInv, ObjectsOK, Excludes, NEW t \in Threads, NEW m \in Mutexes, Lends(m),
         UNCHANGED flag, GivesFree(t, m)
  PROVE  Lends(m)'
<1> DEFINE p == mutex[m].original_priority
<1>1. /\ Uses(t, "mutex") /\ mutex[m].owner = t /\ k.wait[m] = <<>>
      /\ k' = restored(k, t, p) /\ mutex' = [mutex EXCEPT ![m] = FreeMutex]
  BY DEF GivesFree
<1>2. k'.wait = k.wait /\ \A u \in Threads : k'.prio[u] = IF u = t THEN p ELSE k.prio[u]
  BY <1>1, GivesBack
<1>3. p = Priority[t]
  BY <1>1, ObjectFacts DEF Lends
<1>4. \A u \in Threads : k'.prio[u] = Priority[u]
  BY <1>1, <1>2, <1>3 DEF Lends
<1>5. mutex'[m].owner = NULL
  BY <1>1 DEF ObjectsOK, FreeMutex
<1>6. Sorted(k'.prio, k'.wait[m]) /\ ToSet(k'.wait[m]) = {}
  BY <1>1, <1>2 DEF Sorted, ToSet
<1> QED BY <1>4, <1>5, <1>6 DEF Lends

LEMMA HeirLends ==
  ASSUME KInv, ObjectsOK, Excludes, NEW t \in Threads, NEW m \in Mutexes, Lends(m),
         UNCHANGED flag, GivesHeir(t, m)
  PROVE  Lends(m)'
<1> DEFINE p == mutex[m].original_priority
           down == restored(k, t, p)
           l == k.wait[m]
           w == Head(l)
<1>1. /\ Uses(t, "mutex") /\ mutex[m].owner = t /\ l # <<>>
      /\ mutex' = [mutex EXCEPT ![m] = heir_state(down, m, Head(down.wait[m]))]
      /\ k' = rt_ipc_list_resume(down, m)
  BY DEF GivesHeir
<1>2. /\ down \in Good(BeingDeleted, Reaped, 1) /\ down.stat = k.stat /\ down.err = k.err
      /\ down.wait = k.wait
      /\ \A u \in Threads : down.prio[u] = IF u = t THEN p ELSE k.prio[u]
  BY <1>1, GivesBack
<1>3. p = Priority[t]
  BY <1>1, ObjectFacts DEF Lends
<1>4. \A u \in Threads : down.prio[u] = Priority[u]
  BY <1>1, <1>2, <1>3 DEF Lends
<1> HIDE DEF down
<1>5. Passes(down, m)
  BY <1>1, <1>2 DEF Passes
<1>6. /\ w \in Threads /\ w \in ToSet(l) /\ k'.prio = down.prio
      /\ \A q \in Queues : ToSet(k'.wait[q]) = ToSet(k.wait[q]) \ {w} /\ Thinner(k.wait[q], k'.wait[q])
  BY <1>5, PassesMutex
<1>7. mutex'[m].owner = w /\ mutex'[m].original_priority = down.prio[w]
  BY <1>1, <1>2 DEF ObjectsOK, heir_state
<1>8. m \in Queues /\ l \in Seq(Threads) /\ \A x \in ToSet(l) : x \in Threads \ {t}
  <2>1. m \in Queues
    BY ObjectFacts
  <2>2. k \in KernelData
    BY <1>1, Busy
  <2>3. l \in Seq(Threads)
    BY <2>1, <2>2, Typed
  <2>4. \A x \in ToSet(l) : x \in Threads
    BY <2>3 DEF ToSet
  <2> QED BY <1>1, <2>1, <2>3, <2>4 DEF Excludes, WaitersPend
<1>9. ASSUME flag = "PRIO"
      PROVE  /\ Sorted(k'.prio, k'.wait[m])
             /\ \A x \in ToSet(k'.wait[m]) : k'.prio[w] <= k'.prio[x]
  <2>1. Sorted(k.prio, l)
    BY <1>9 DEF Lends
  <2>2. \A x \in ToSet(l) : down.prio[x] = k.prio[x]
    BY <1>2, <1>8
  <2>3. Sorted(k'.prio, l)
    BY <1>6, <2>1, <2>2, SortedAlike
  <2>4. Thinner(l, k'.wait[m]) /\ ToSet(k'.wait[m]) = ToSet(l) \ {w}
    BY <1>6, <1>8
  <2>5. Sorted(k'.prio, k'.wait[m])
    BY <2>3, <2>4, ThinnerSorted
  <2>6. ASSUME NEW x \in ToSet(l), x # w PROVE k'.prio[w] <= k'.prio[x]
    <3>1. PICK i \in DOMAIN l : l[i] = x
      BY <2>6 DEF ToSet
    <3>2. w = l[1] /\ 1 \in DOMAIN l /\ i # 1 /\ i \in 1 .. Len(l)
      BY <1>1, <1>8, <2>6, <3>1
    <3>3. 1 < i
      BY <1>8, <3>2
    <3> QED BY <2>3, <3>1, <3>2, <3>3 DEF Sorted
  <2> QED BY <2>4, <2>5, <2>6
<1> QED BY <1>4, <1>6, <1>7, <1>9 DEF Lends

LEMMA LendsNext ==
  ASSUME IInv, IInv', XInv, Disciplined, [IpcNext]_ipc_vars,
         NEW m, Mutexes = {m}, kind = "mutex" => Lends(m)
  PROVE  kind' = "mutex" => Lends(m)'
<1>1. KInv /\ WInv /\ ObjectsOK /\ kind' = kind /\ flag' = flag
  BY KindStays DEF IInv, KInv
<1>2. SUFFICES ASSUME kind = "mutex" PROVE Lends(m)'
  BY <1>1
<1>3. Excludes /\ KeepsTo("mutex") /\ Lends(m) /\ m \in Mutexes
  BY <1>2 DEF XInv
<1>4. CASE UNCHANGED ipc_vars
  <2>1. UNCHANGED <<k, call, mutex, inside, flag>>
    BY <1>4 DEF ipc_vars, kernel_vars, objects
  <2> QED BY <1>3, <2>1, SameKeeps
<1>5. CASE Quiet
  BY <1>1, <1>3, <1>5, QuietLends
<1>6. ASSUME NEW t \in Threads, MutexTake(t) PROVE Lends(m)'
  <2>1. CASE TakesNone(t)
    <3>1. Quiet
      BY <1>1, <1>3, <2>1, QuietFails DEF TakesNone
    <3> QED BY <1>1, <1>3, <3>1, QuietLends
  <2>2. CASE TakesAgain(t, m) \/ TakesFree(t, m)
    BY <1>1, <1>3, <2>2, AgainLends, FreeLends
  <2>3. ASSUME NEW time \in Times, TakesLater(t, m, time) PROVE Lends(m)'
    BY <1>1, <1>3, <2>3, LaterLends
  <2>4. \/ TakesNone(t) \/ TakesAgain(t, m) \/ TakesFree(t, m)
        \/ \E time \in Times : TakesLater(t, m, time)
    BY <1>1, <1>6, TakeCases
  <2> QED BY <2>1, <2>2, <2>3, <2>4
<1>7. ASSUME NEW t \in Threads, MutexRelease(t) PROVE Lends(m)'
  <2>1. CASE TakesNone(t)
    <3>1. Quiet
      BY <1>1, <1>3, <2>1, QuietFails DEF TakesNone
    <3> QED BY <1>1, <1>3, <3>1, QuietLends
  <2>2. CASE GivesOne(t, m) \/ GivesFree(t, m) \/ GivesHeir(t, m)
    BY <1>1, <1>3, <2>2, AgainLends, BackLends, HeirLends
  <2>3. TakesNone(t) \/ GivesOne(t, m) \/ GivesFree(t, m) \/ GivesHeir(t, m)
    BY <1>7, ReleaseCases
  <2> QED BY <2>1, <2>2, <2>3
<1>8. ASSUME UNCHANGED <<k, mutex>> PROVE Lends(m)'
  BY <1>1, <1>3, <1>8 DEF Lends
<1>9. ASSUME IpcNext PROVE Quiet \/ \E t \in Threads : Loud(t)
  BY <1>1, <1>2, <1>3, <1>9, QuietOrLoud
<1> QED BY <1>4, <1>5, <1>6, <1>7, <1>8, <1>9 DEF Loud

(***************************************************************************)
(* MutexSound, with one mutex: it excludes; its owner is at least as       *)
(* urgent as whoever waits for it ("change the owner thread priority of    *)
(* mutex", ipc.c:719), and has its own priority again once the mutex is    *)
(* not its own ("change the owner thread to original priority",            *)
(* ipc.c:831).  With two mutexes the inheritance does not hold: releasing  *)
(* one gives back the priority that the other one still lends.             *)
(***************************************************************************)
THEOREM MutexIsSound ==
  ASSUME Disciplined, NEW m, Mutexes = {m}
  PROVE  IpcSpec => []MutexSound
<1> DEFINE LInv == kind = "mutex" => Lends(m)
<1>1. IpcInit => IInv /\ XInv /\ LInv
  BY FirstState, MutexFirst
<1>2. IInv /\ [IpcNext]_ipc_vars => IInv'
  BY NextKeeps
<1>3. IInv /\ IInv' /\ XInv /\ [IpcNext]_ipc_vars => XInv'
  BY MutexNext
<1>4. IInv /\ IInv' /\ XInv /\ LInv /\ [IpcNext]_ipc_vars => LInv'
  BY LendsNext
<1>5. XInv /\ LInv => MutexSound
  <2>1. XInv => MutexExclusive
    BY DEF XInv, KeepsTo, Excludes, InsideOwns, HeirComes, Pend, MutexExclusive
  <2>2. LInv => PriorityInherited
    BY DEF Lends, ToSet, PriorityInherited
  <2>3. LInv => PriorityRestored
    BY DEF Lends, PriorityRestored
  <2> QED BY <2>1, <2>2, <2>3 DEF MutexSound
<1> QED BY <1>1, <1>2, <1>3, <1>4, <1>5, PTL DEF IpcSpec
(***************************************************************************)
(* Semaphores.  A token is in the semaphore, in use, or in the hands of a  *)
(* thread that was woken for it and has not come back from the switch; who *)
(* is deleted on the way carries it off.                                   *)
(***************************************************************************)
Carried == {t \in Threads : Pend(call[t]) /\ k.stat[t] \in {"CLOSE", "GONE"}}
Waiting(q) == \A t \in ToSet(k.wait[q]) : Pend(call[t]) /\ k.err[t] = "EOK"
Balanced ==
  /\ sem \in Nat /\ outside \in Int
  /\ sem + Cardinality(InHand) + outside <= SemInit
  /\ Carried = {} => sem + Cardinality(InHand) + outside = SemInit
SemInv == kind = "sem" => KeepsTo("sem") /\ Waiting("recv") /\ Balanced

LEMMA HandsPend ==
  ASSUME KeepsTo("sem")
  PROVE  InHand = {t \in Threads : Pend(call[t]) /\ k.stat[t] = "READY" /\ k.err[t] = "EOK"}
BY DEF InHand, KeepsTo, Pend

LEMMA HandsFinite ==
  IsFiniteSet(InHand) /\ Cardinality(InHand) \in Nat
<1>1. InHand \in SUBSET Threads
  BY DEF InHand
<1> HIDE DEF InHand
<1> QED BY <1>1, KernelAssumption, FS_Subset, FS_CardinalityType

(* A quiet step hands nobody anything; what it takes away is carried off.   *)
LEMMA QuietHands ==
  ASSUME KInv, KInv', KeepsTo("sem"), KeepsTo("sem")', Waiting("recv"), Quiet
  PROVE  /\ Waiting("recv")' /\ InHand' \subseteq InHand
         /\ Carried' = {} => Carried = {} /\ InHand' = InHand
<1>1. \A u \in Threads : Undisturbed(u)
  BY DEF Quiet
<1>2. InHand = {t \in Threads : Pend(call[t]) /\ k.stat[t] = "READY" /\ k.err[t] = "EOK"}
  BY HandsPend
<1>3. InHand' = {t \in Threads : Pend(call'[t]) /\ k'.stat[t] = "READY" /\ k'.err[t] = "EOK"}
  BY DEF InHand, KeepsTo, Pend
<1>4. InHand' \subseteq InHand
  BY <1>1, <1>2, <1>3 DEF Undisturbed
<1>5. ASSUME Carried' = {} PROVE Carried = {} /\ InHand \subseteq InHand'
  <2>1. \A u \in Threads : ~(Pend(call'[u]) /\ k'.stat[u] \in {"CLOSE", "GONE"})
    BY <1>5 DEF Carried
  <2>2. Carried = {}
    BY <1>1, <2>1 DEF Carried, Undisturbed
  <2>3. InHand \subseteq InHand'
    BY <1>1, <1>2, <1>3, <2>1 DEF Undisturbed
  <2> QED BY <2>2, <2>3
<1>6. Waiting("recv")'
  <2> SUFFICES ASSUME NEW t \in ToSet(k'.wait["recv"]) PROVE Pend(call'[t]) /\ k'.err[t] = "EOK"
    BY DEF Waiting
  <2>1. t \in ToSet(k.wait["recv"])
    BY ObjectFacts DEF Quiet, Thinner
  <2>2. t \in Threads /\ k.stat[t] = "SUSPEND" /\ Pend(call[t]) /\ k.err[t] = "EOK"
    BY <2>1, ObjectFacts, WaitersAreSuspended DEF Waiting
  <2>3. k'.stat[t] = "SUSPEND"
    <3>1. k' \in KernelData /\ Linked(k', BeingDeleted', Reaped', 1)
      BY SaneAfter
    <3>2. "recv" \in Queues
      BY ObjectFacts
    <3> QED BY <2>2, <3>1, <3>2 DEF Linked, WaitLinked
  <2> QED BY <1>1, <2>2, <2>3 DEF Undisturbed
<1> QED BY <1>4, <1>5, <1>6

LEMMA QuietBalances ==
  ASSUME KInv, KInv', KeepsTo("sem"), KeepsTo("sem")', Waiting("recv"), Balanced, Quiet,
         UNCHANGED <<sem, outside>>
  PROVE  Waiting("recv")' /\ Balanced'
<1>1. /\ Waiting("recv")' /\ InHand' \subseteq InHand
      /\ Carried' = {} => Carried = {} /\ InHand' = InHand
  BY QuietHands
<1>2. IsFiniteSet(InHand) /\ Cardinality(InHand) \in Nat
  BY HandsFinite
<1>3. Cardinality(InHand') \in Nat /\ Cardinality(InHand') <= Cardinality(InHand)
  <2>1. InHand' \in SUBSET InHand
    BY <1>1
  <2> DEFINE A == InHand
             B == InHand'
  <2>2. IsFiniteSet(A) /\ B \in SUBSET A
    BY <1>2, <2>1
  <2> HIDE DEF A, B
  <2>3. IsFiniteSet(B) /\ Cardinality(B) <= Cardinality(A)
    BY <2>2, FS_Subset
  <2>4. Cardinality(B) \in Nat
    BY <2>3, FS_CardinalityType
  <2> QED BY <2>3, <2>4 DEF A, B
<1>4. SemInit \in Nat
  BY IpcAssumption
<1> DEFINE a == Cardinality(InHand)
           b == Cardinality(InHand')
           gone == Carried = {}
           left == Carried' = {}
<1>5. /\ a \in Nat /\ b \in Nat /\ b <= a /\ (left => gone /\ a = b)
      /\ sem \in Nat /\ outside \in Int /\ sem + a + outside <= SemInit
      /\ gone => sem + a + outside = SemInit
  BY <1>1, <1>2, <1>3 DEF Balanced
<1>6. Balanced' <=> /\ sem \in Nat /\ outside \in Int /\ sem + b + outside <= SemInit
                    /\ left => sem + b + outside = SemInit
  BY DEF Balanced
<1> HIDE DEF a, b, gone, left
<1>7. sem + b + outside <= SemInit /\ (left => sem + b + outside = SemInit)
  BY <1>4, <1>5
<1> QED BY <1>1, <1>5, <1>6, <1>7

LEMMA BalanceMoves ==
  ASSUME Balanced, sem' \in Nat, outside' \in Int, Cardinality(InHand') \in Nat, Carried' = Carried,
         sem' + Cardinality(InHand') + outside' = sem + Cardinality(InHand) + outside
  PROVE  Balanced'
<1> DEFINE a == sem + Cardinality(InHand) + outside
           b == sem' + Cardinality(InHand') + outside'
<1>1. a = b /\ a <= SemInit /\ (Carried = {} => a = SemInit)
  BY DEF Balanced
<1>2. Balanced' <=> /\ sem' \in Nat /\ outside' \in Int /\ b <= SemInit
                    /\ Carried' = {} => b = SemInit
  BY DEF Balanced
<1> HIDE DEF a, b
<1> QED BY <1>1, <1>2

(* One thread more has a token in hand, or one less.                        *)
LEMMA HandChanges ==
  ASSUME NEW w
  PROVE  /\ IsFiniteSet(InHand \cup {w}) /\ Cardinality(InHand \cup {w}) \in Nat
         /\ w \notin InHand => Cardinality(InHand \cup {w}) = Cardinality(InHand) + 1
         /\ w \in InHand => /\ Cardinality(InHand \ {w}) \in Nat
                            /\ Cardinality(InHand \ {w}) = Cardinality(InHand) - 1
<1> DEFINE S == InHand
<1>1. IsFiniteSet(S) /\ Cardinality(S) \in Nat
  BY HandsFinite
<1> HIDE DEF S
<1>2. /\ IsFiniteSet(S \cup {w})
      /\ Cardinality(S \cup {w}) = IF w \in S THEN Cardinality(S) ELSE Cardinality(S) + 1
  BY <1>1, FS_AddElement
<1>3. /\ IsFiniteSet(S \ {w})
      /\ Cardinality(S \ {w}) = IF w \in S THEN Cardinality(S) - 1 ELSE Cardinality(S)
  BY <1>1, FS_RemoveElement
<1>4. Cardinality(S \ {w}) \in Nat /\ Cardinality(S \cup {w}) \in Nat
  BY <1>2, <1>3, FS_CardinalityType
<1> QED BY <1>2, <1>3, <1>4 DEF S

(* A thread in a call that begins is idle as to semaphores.                 *)
LEMMA BeginsFree ==
  ASSUME KInv, NEW t \in Threads, NEW x, Uses(t, x)
  PROVE  /\ InCall(t) /\ ~Pend(call[t]) /\ k.stat[t] = "READY"
         /\ \A q \in Queues : t \notin ToSet(k.wait[q])
<1>1. InCall(t) /\ ~Pend(call[t]) /\ k.stat[t] = "READY"
  BY Busy, BusyInCall DEF Uses, Calls, Pend
<1> QED BY <1>1, WaitersAreSuspended

LEMMA SemWaits ==
  ASSUME KInv, KeepsTo("sem"), Waiting("recv"), Balanced, UNCHANGED <<sem, outside>>,
         NEW t \in Threads, Uses(t, "sem"), NEW time \in Times \ {0},
         k' = rt_ipc_list_suspend(k, t, "recv", time), Goes(t, Blocked("sem", time, NULL))
  PROVE  KeepsTo("sem")' /\ Waiting("recv")' /\ Balanced'
<1> DEFINE c == Blocked("sem", time, NULL)
           q == "recv"
<1>1. InCall(t) /\ ~Pend(call[t]) /\ k.stat[t] = "READY"
  BY BeginsFree
<1>2. JoinsQueue(k, t, q, time) /\ q \in Queues
  BY <1>1, ObjectFacts, SaneData DEF JoinsQueue, InCall
<1>3. Pend(c) /\ c.op = "sem" /\ c.at = "suspending"
  BY DEF Pend, Blocked
<1> HIDE DEF c, q
<1>4. /\ ToSet(k'.wait[q]) = ToSet(k.wait[q]) \cup {t}
      /\ k'.stat[t] = "SUSPEND" /\ k'.err[t] = "EOK"
      /\ \A u \in Threads \ {t} : k'.stat[u] = k.stat[u] /\ k'.err[u] = k.err[u]
  BY <1>1, <1>2, JoinsMutex
<1>5. call'[t] = c /\ \A u \in Threads \ {t} : call'[u] = call[u]
  BY GoesTo DEF c
<1>6. KeepsTo("sem")'
  BY <1>3, <1>5 DEF KeepsTo
<1>7. Waiting("recv")'
  <2> SUFFICES ASSUME NEW u \in ToSet(k'.wait[q]) PROVE Pend(call'[u]) /\ k'.err[u] = "EOK"
    BY DEF Waiting, q
  <2>1. CASE u = t
    BY <1>3, <1>4, <1>5, <2>1
  <2>2. CASE u # t
    <3>1. u \in ToSet(k.wait[q]) /\ u \in Threads
      BY <1>2, <1>4, <2>2, WaitersAreSuspended
    <3> QED BY <1>4, <1>5, <2>2, <3>1 DEF Waiting, q
  <2> QED BY <2>1, <2>2
<1>8. InHand' = InHand /\ Carried' = Carried
  <2>1. InHand = {u \in Threads : Pend(call[u]) /\ k.stat[u] = "READY" /\ k.err[u] = "EOK"}
    BY HandsPend
  <2>2. InHand' = {u \in Threads : Pend(call'[u]) /\ k'.stat[u] = "READY" /\ k'.err[u] = "EOK"}
    BY <1>6 DEF InHand, KeepsTo, Pend
  <2>3. ASSUME NEW u \in Threads
        PROVE  /\ u \in InHand <=> u \in InHand'
               /\ u \in Carried <=> u \in Carried'
    <3>1. CASE u = t
      BY <1>1, <1>4, <2>1, <2>2, <3>1 DEF Carried
    <3>2. CASE u # t
      BY <1>4, <1>5, <2>1, <2>2, <3>2 DEF Carried
    <3> QED BY <3>1, <3>2
  <2>4. InHand \subseteq Threads /\ InHand' \subseteq Threads
        /\ Carried \subseteq Threads /\ Carried' \subseteq Threads
    BY DEF InHand, Carried
  <2> QED BY <2>3, <2>4
<1>9. Balanced'
  BY <1>8, HandsFinite, BalanceMoves DEF Balanced
<1> QED BY <1>6, <1>7, <1>9

LEMMA SemTakeBalances ==
  ASSUME KInv, KindsOK, KeepsTo("sem"), Waiting("recv"), Balanced, NEW t \in Threads, SemTake(t)
  PROVE  KeepsTo("sem")' /\ Waiting("recv")' /\ Balanced'
<1>1. Uses(t, "sem")
  BY DEF SemTake
<1>2. CASE sem > 0 /\ sem' = sem - 1 /\ outside' = outside + 1 /\ UNCHANGED kernel_vars
  <2>1. UNCHANGED <<k, call>>
    BY <1>2 DEF kernel_vars
  <2>2. KeepsTo("sem")' /\ Waiting("recv")'
    BY <2>1 DEF KeepsTo, Waiting
  <2>3. InHand' = InHand /\ Carried' = Carried
    BY <2>1 DEF InHand, Carried
  <2> DEFINE a == Cardinality(InHand)
  <2>4. a \in Nat /\ sem \in Nat /\ outside \in Int
    BY HandsFinite DEF Balanced
  <2> HIDE DEF a
  <2>5. sem' \in Nat /\ outside' \in Int /\ sem' + a + outside' = sem + a + outside
    BY <1>2, <2>4
  <2>6. Balanced'
    BY <2>3, <2>4, <2>5, BalanceMoves DEF a
  <2> QED BY <2>2, <2>6
<1>3. CASE \E time \in Waits[kind] \ {0} :
             /\ k' = rt_ipc_list_suspend(k, t, "recv", time)
             /\ Goes(t, Blocked("sem", time, NULL))
             /\ UNCHANGED <<sem, outside>>
  BY <1>1, <1>3, ObjectFacts, SemWaits
<1> QED BY <1>2, <1>3 DEF SemTake

LEMMA SemTakenBalances ==
  ASSUME KInv, KInv', KeepsTo("sem"), Waiting("recv"), Balanced, NEW t \in Threads, SemTaken(t)
  PROVE  KeepsTo("sem")' /\ Waiting("recv")' /\ Balanced'
<1>1. UNCHANGED <<sem, mutex, inside>>
  BY DEF SemTaken, objects
<1>2. CASE GivesUp(t, "sem") /\ UNCHANGED outside
  <2> DEFINE x == "sem"
  <2>1. x \notin {"none", "sleep", "suspend"} /\ KeepsTo(x) /\ GivesUp(t, x)
    BY <1>2
  <2> HIDE DEF x
  <2>2. Quiet /\ KeepsTo(x)'
    BY <1>1, <2>1, QuietGivesUp
  <2>3. KeepsTo("sem")'
    BY <2>2 DEF x
  <2> QED BY <1>1, <1>2, <2>2, <2>3, QuietBalances
<1>3. CASE /\ Woken(t, "sem") /\ k.err[t] = "EOK"
           /\ outside' = outside + 1 /\ UNCHANGED k /\ Goes(t, NoCall)
  <2>1. k.stat[t] = "READY"
    BY <1>3, Busy
  <2>2. call'[t] = NoCall /\ \A u \in Threads \ {t} : call'[u] = call[u]
    BY <1>3, GoesTo
  <2>3. KeepsTo("sem")'
    BY <2>2, NotPend DEF KeepsTo
  <2>4. Waiting("recv")'
    <3> SUFFICES ASSUME NEW u \in ToSet(k.wait["recv"]) PROVE Pend(call'[u]) /\ k.err[u] = "EOK"
      BY <1>3 DEF Waiting
    <3>1. u \in Threads /\ u # t
      BY <2>1, ObjectFacts, WaitersAreSuspended
    <3> QED BY <2>2, <3>1 DEF Waiting
  <2>5. t \in InHand
    BY <1>3, <2>1 DEF InHand, Woken
  <2>6. InHand' = InHand \ {t}
    BY <1>3, <2>2, NotPend DEF InHand
  <2>7. Carried' = Carried
    BY <1>3, <2>1, <2>2, NotPend DEF Carried
  <2> DEFINE a == Cardinality(InHand)
             b == Cardinality(InHand \ {t})
  <2>8. a \in Nat /\ b \in Nat /\ b = a - 1 /\ sem \in Nat /\ outside \in Int
    BY <2>5, HandsFinite, HandChanges DEF Balanced
  <2>9. Cardinality(InHand') = b
    BY <2>6
  <2> HIDE DEF a, b
  <2>10. sem' = sem /\ outside' \in Int /\ sem' + b + outside' = sem + a + outside
    BY <1>1, <1>3, <2>8
  <2>11. Balanced'
    BY <2>7, <2>8, <2>9, <2>10, BalanceMoves DEF a
  <2> QED BY <2>3, <2>4, <2>11
<1> QED BY <1>2, <1>3 DEF SemTaken

(* The token goes to the head of the list, who will find no error.          *)
LEMMA SemHandsOn ==
  ASSUME KInv, KeepsTo("sem"), Waiting("recv"), Balanced, sem' = sem, outside' = outside - 1,
         NEW w \in ToSet(k.wait["recv"]), k'.stat[w] = "READY", k'.err = k.err,
         \A u \in Threads \ {w} : k'.stat[u] = k.stat[u],
         ToSet(k'.wait["recv"]) \subseteq ToSet(k.wait["recv"]),
         KeepsTo("sem")',
         \A u \in Threads : call'[u] = call[u] \/ (~Pend(call[u]) /\ ~Pend(call'[u]))
  PROVE  Waiting("recv")' /\ Balanced'
<1>1. w \in Threads /\ k.stat[w] = "SUSPEND" /\ Pend(call[w]) /\ k.err[w] = "EOK"
  BY ObjectFacts, WaitersAreSuspended DEF Waiting
<1>2. Waiting("recv")'
  <2> SUFFICES ASSUME NEW u \in ToSet(k'.wait["recv"]) PROVE Pend(call'[u]) /\ k'.err[u] = "EOK"
    BY DEF Waiting
  <2>1. u \in ToSet(k.wait["recv"]) /\ u \in Threads
    BY ObjectFacts, WaitersAreSuspended
  <2> QED BY <2>1 DEF Waiting
<1>3. InHand = {u \in Threads : Pend(call[u]) /\ k.stat[u] = "READY" /\ k.err[u] = "EOK"}
  BY HandsPend
<1>4. InHand' = {u \in Threads : Pend(call'[u]) /\ k'.stat[u] = "READY" /\ k'.err[u] = "EOK"}
  BY DEF InHand, KeepsTo, Pend
<1>5. w \notin InHand
  BY <1>1, <1>3
<1>6. InHand' = InHand \cup {w}
  <2>1. ASSUME NEW u \in Threads PROVE u \in InHand' <=> u \in InHand \/ u = w
    BY <1>1, <1>3, <1>4
  <2>2. InHand' \subseteq Threads /\ InHand \cup {w} \subseteq Threads
    BY <1>1 DEF InHand
  <2> QED BY <2>1, <2>2
<1>7. Carried' = Carried
  BY <1>1 DEF Carried
<1> DEFINE a == Cardinality(InHand)
           b == Cardinality(InHand \cup {w})
<1>8. a \in Nat /\ b \in Nat /\ b = a + 1 /\ sem \in Nat /\ outside \in Int
  BY <1>5, HandsFinite, HandChanges DEF Balanced
<1>9. Cardinality(InHand') = b
  BY <1>6
<1> HIDE DEF a, b
<1>10. outside' \in Int /\ sem' + b + outside' = sem + a + outside
  BY <1>8
<1>11. Balanced'
  BY <1>7, <1>8, <1>9, <1>10, BalanceMoves DEF a
<1> QED BY <1>2, <1>11

LEMMA SemReleaseBalances ==
  ASSUME KInv, KeepsTo("sem"), Waiting("recv"), Balanced, NEW by,
         by = NULL \/ (by \in Threads /\ Uses(by, "sem")), SemRelease(by)
  PROVE  KeepsTo("sem")' /\ Waiting("recv")' /\ Balanced'
<1>1. k \in Good(BeingDeleted, Reaped, 1)
  BY SaneData DEF KInv
<1>2. CASE k.wait["recv"] = <<>>
  <2>1. UNCHANGED <<k, call>> /\ sem' = sem + 1 /\ outside' = outside - 1
    BY <1>2 DEF SemRelease, sem_waiting, released, kernel_vars
  <2>2. KeepsTo("sem")' /\ Waiting("recv")'
    BY <2>1 DEF KeepsTo, Waiting
  <2>3. InHand' = InHand /\ Carried' = Carried
    BY <2>1 DEF InHand, Carried
  <2> DEFINE a == Cardinality(InHand)
  <2>4. a \in Nat /\ sem \in Nat /\ outside \in Int
    BY HandsFinite DEF Balanced
  <2> HIDE DEF a
  <2>5. sem' \in Nat /\ outside' \in Int /\ sem' + a + outside' = sem + a + outside
    BY <2>1, <2>4
  <2>6. Balanced'
    BY <2>3, <2>4, <2>5, BalanceMoves DEF a
  <2> QED BY <2>2, <2>6
<1>3. CASE k.wait["recv"] # <<>>
  <2> DEFINE q == "recv"
             w == Head(k.wait[q])
             up == rt_ipc_list_resume(k, q)
             c == [NoCall EXCEPT !.at = "resched"]
  <2>1. /\ sem' = sem /\ outside' = outside - 1
        /\ \/ by = NULL /\ k' = rt_schedule(up) /\ UNCHANGED call
           \/ by # NULL /\ k' = up /\ Goes(by, c)
    BY <1>3 DEF SemRelease, sem_waiting, released, Reschedules
  <2>2. ~Pend(c) /\ c.op = "none" /\ c.at = "resched"
    BY NotPend
  <2>3. k.wait[q] # <<>> /\ q \in Queues /\ w = Head(k.wait[q]) /\ up = rt_ipc_list_resume(k, q)
    BY <1>3, ObjectFacts
  <2> HIDE DEF c, up, w, q
  <2>4. /\ w \in ToSet(k.wait[q]) /\ up \in Good(BeingDeleted, Reaped, 1)
        /\ up.err = k.err /\ up.stat[w] = "READY"
        /\ \A u \in Threads \ {w} : up.stat[u] = k.stat[u]
        /\ ToSet(up.wait[q]) = ToSet(k.wait[q]) \ {w}
    BY <1>1, <2>3, PassesOn_
  <2>5. k'.stat = up.stat /\ k'.err = up.err /\ k'.wait = up.wait
    <3>1. CASE by = NULL
      <4>1. k' = rt_schedule(up)
        BY <2>1, <3>1
      <4>2. up \in KernelData
        BY <2>4, GoodData
      <4> QED BY <4>1, <4>2 DEF rt_schedule, KernelData
    <3>2. CASE by # NULL
      BY <2>1, <3>2
    <3> QED BY <3>1, <3>2
  <2>6. /\ KeepsTo("sem")'
        /\ \A u \in Threads : call'[u] = call[u] \/ (~Pend(call[u]) /\ ~Pend(call'[u]))
    <3>1. CASE by = NULL
      <4>1. UNCHANGED call
        BY <2>1, <3>1
      <4> QED BY <4>1 DEF KeepsTo
    <3>2. CASE by # NULL
      <4>1. by \in Threads /\ ~Pend(call[by]) /\ Goes(by, c)
        BY <2>1, <3>2, BeginsFree
      <4>2. call'[by] = c /\ \A u \in Threads \ {by} : call'[u] = call[u]
        BY <4>1, GoesTo
      <4> QED BY <2>2, <4>1, <4>2 DEF KeepsTo
    <3> QED BY <3>1, <3>2
  <2>7. Waiting("recv")' /\ Balanced'
    BY <2>1, <2>4, <2>5, <2>6, SemHandsOn DEF q
  <2> QED BY <2>6, <2>7
<1> QED BY <1>2, <1>3

LEMMA ResetRefuses ==
  ASSUME KInv, NEW t \in Threads, Reset(t)
  PROVE  Refuses(k, k')
<1> DEFINE one == rt_ipc_list_resume_all(k, "recv")
<1>1. Uses(t, kind) /\ k' = rt_ipc_list_resume_all(one, "send")
  BY DEF Reset
<1>2. k \in Good(BeingDeleted, Reaped, 1)
  BY SaneData DEF KInv
<1>3. one \in Good(BeingDeleted, Reaped, 1) /\ Refuses(k, one)
  BY <1>2, ObjectFacts, ResumesAll
<1> HIDE DEF one
<1>4. Refuses(one, k')
  BY <1>1, <1>3, ObjectFacts, ResumesAll
<1> QED BY <1>3, <1>4, RefusesAgain

LEMMA SemResetBalances ==
  ASSUME KInv, KInv', kind = "sem", KeepsTo("sem"), Waiting("recv"), Balanced,
         NEW t \in Threads, Reset(t)
  PROVE  KeepsTo("sem")' /\ Waiting("recv")' /\ Balanced'
<1> DEFINE c == [NoCall EXCEPT !.at = "resched"]
           x == "sem"
<1>1. Uses(t, kind) /\ Goes(t, c) /\ UNCHANGED <<mutex, inside>>
  BY DEF Reset, Reschedules
<1>2. PICK value \in 0 .. SemInit : sem' = value /\ outside' = SemInit - value - Cardinality(InHand)
  BY DEF Reset, sem_reset
<1>3. ~Pend(c) /\ c.op \in {"none", "sleep"} /\ c.at # "copy" /\ ~Pend(call[t]) /\ KeepsTo(x)
  BY <1>1, NotPend, BeginsFree
<1>4. Refuses(k, k')
  BY ResetRefuses
<1> HIDE DEF c, x
<1>5. Quiet /\ KeepsTo(x)'
  BY <1>1, <1>3, <1>4, QuietCall
<1>6. KeepsTo("sem")'
  BY <1>5 DEF x
<1>7. /\ Waiting("recv")' /\ InHand' \subseteq InHand
      /\ Carried' = {} => InHand' = InHand
  BY <1>5, <1>6, QuietHands
<1> DEFINE A == InHand
           B == InHand'
<1>8. IsFiniteSet(A) /\ B \in SUBSET A
  BY <1>7, HandsFinite
<1>9. SemInit \in Nat
  BY IpcAssumption
<1>10. Balanced' <=> /\ sem' \in Nat /\ outside' \in Int /\ sem' + Cardinality(B) + outside' <= SemInit
                     /\ Carried' = {} => sem' + Cardinality(B) + outside' = SemInit
  BY DEF Balanced
<1>11. Carried' = {} => B = A
  BY <1>7
<1>12. sem' = value /\ outside' = SemInit - value - Cardinality(A)
  BY <1>2
<1> HIDE DEF A, B
<1> DEFINE a == Cardinality(A)
           b == Cardinality(B)
<1>13. a \in Nat /\ b \in Nat /\ b <= a /\ (Carried' = {} => b = a)
  BY <1>8, <1>11, FS_Subset, FS_CardinalityType
<1> HIDE DEF a, b
<1>14. value \in Nat /\ sem' + b + outside' = SemInit - a + b /\ outside' \in Int
  BY <1>9, <1>12, <1>13 DEF a
<1>15. sem' + b + outside' <= SemInit /\ (Carried' = {} => sem' + b + outside' = SemInit)
  BY <1>9, <1>13, <1>14
<1> QED BY <1>6, <1>7, <1>10, <1>12, <1>14, <1>15 DEF b

SemStep(t) ==
  \/ SemTake(t) \/ (Uses(t, "sem") /\ SemRelease(t)) \/ SemTaken(t)
  \/ Reset(t) \/ Detach(t) \/ DetachStep(t)
LEMMA SemSteps ==
  ASSUME kind = "sem", Disciplined, KeepsTo("sem"), IpcNext
  PROVE  \/ Kernel
         \/ SemRelease(NULL)
         \/ \E t \in Threads : SemStep(t)
<1>1. Handler => SemRelease(NULL)
  BY DEF Handler, About
<1>2. ASSUME NEW t \in Threads, Calling(t) PROVE SemStep(t)
  <2>1. ~Uses(t, "mutex") /\ ~Uses(t, "event") /\ ~Uses(t, "mp") /\ ~Uses(t, "mq")
    BY DEF Uses, About
  <2>2. ~MutexTake(t) /\ ~MutexRelease(t) /\ ~EventRecv(t) /\ ~MqSend(t)
    BY <2>1 DEF MutexTake, MutexRelease, EventRecv, MqSend
  <2>3. ~MbSend(t) /\ ~MbRecv(t) /\ ~MqRecv(t) /\ ~MpAlloc(t)
    <3>1. \A x, op, arg, time : Tries(t, x, op, arg, time) => About(x) \/ call[t].op = op
      BY DEF Tries, Uses, Woken
    <3>2. call[t].op \in {"none", "sem", "sleep"}
      BY DEF KeepsTo
    <3> QED BY <3>1, <3>2 DEF MbSend, MbRecv, MqRecv, MpAlloc, About
  <2> QED BY <1>2, <2>1, <2>2, <2>3 DEF Calling, SemStep
<1>3. ASSUME NEW t \in Threads, Finishing(t) PROVE SemStep(t)
  BY <1>3 DEF Finishing, MutexTaken, EventReceived, MbGivesUp, MqGivesUp, MpGivesUp, MqLink,
              MqFree, GivesUp, Woken, KeepsTo, SemStep
<1> QED BY <1>1, <1>2, <1>3 DEF IpcNext

LEMMA SemNext ==
  ASSUME IInv, IInv', SemInv, Disciplined, [IpcNext]_ipc_vars
  PROVE  SemInv'
<1>1. KInv /\ KInv' /\ WInv /\ KindsOK /\ kind' = kind
  BY KindStays DEF IInv, KInv, ObjectsOK, KindsOK
<1>2. SUFFICES ASSUME kind = "sem" PROVE KeepsTo("sem")' /\ Waiting("recv")' /\ Balanced'
  BY <1>1 DEF SemInv
<1>3. KeepsTo("sem") /\ Waiting("recv") /\ Balanced
  BY <1>2 DEF SemInv
<1>4. CASE UNCHANGED ipc_vars
  <2>1. UNCHANGED <<k, call, sem, outside>>
    BY <1>4 DEF ipc_vars, kernel_vars, objects
  <2> QED BY <1>3, <2>1 DEF KeepsTo, Waiting, Balanced, Carried, InHand
<1>5. CASE Kernel
  <2> DEFINE x == "sem"
  <2>1. UNCHANGED <<sem, outside>> /\ KeepsTo(x) /\ kind # "thread"
    BY <1>2, <1>3, <1>5 DEF Kernel, objects
  <2> HIDE DEF x
  <2>2. Quiet /\ KeepsTo(x)'
    BY <1>1, <1>5, <2>1, QuietKernels
  <2>3. KeepsTo("sem")'
    BY <2>2 DEF x
  <2> QED BY <1>1, <1>3, <2>1, <2>2, <2>3, QuietBalances
<1>6. CASE SemRelease(NULL)
  BY <1>1, <1>3, <1>6, SemReleaseBalances
<1>7. ASSUME NEW t \in Threads, SemStep(t)
      PROVE  KeepsTo("sem")' /\ Waiting("recv")' /\ Balanced'
  <2>1. CASE Detach(t) \/ DetachStep(t)
    <3> DEFINE x == "sem"
    <3>1. UNCHANGED <<sem, outside, mutex, inside>> /\ KeepsTo(x)
      BY <1>3, <2>1 DEF Detach, DetachStep, objects
    <3> HIDE DEF x
    <3>2. Quiet /\ KeepsTo(x)'
      BY <1>1, <2>1, <3>1, QuietDetaches
    <3>3. KeepsTo("sem")'
      BY <3>2 DEF x
    <3> QED BY <1>1, <1>3, <3>1, <3>2, <3>3, QuietBalances
  <2>2. CASE SemTake(t)
    BY <1>1, <1>3, <2>2, SemTakeBalances
  <2>3. CASE Uses(t, "sem") /\ SemRelease(t)
    BY <1>1, <1>3, <2>3, SemReleaseBalances
  <2>4. CASE SemTaken(t)
    BY <1>1, <1>3, <2>4, SemTakenBalances
  <2>5. CASE Reset(t)
    BY <1>1, <1>2, <1>3, <2>5, SemResetBalances
  <2> QED BY <1>7, <2>1, <2>2, <2>3, <2>4, <2>5 DEF SemStep
<1> QED BY <1>2, <1>3, <1>4, <1>5, <1>6, <1>7, SemSteps

LEMMA SemFirst ==
  ASSUME IpcInit
  PROVE  SemInv
<1> DEFINE S == IF kind \in {"thread", "mutex"} THEN Threads ELSE Threads \ Spare
<1>1. KernelInit(S) /\ sem = SemInit /\ outside = 0
  BY DEF IpcInit
<1>2. k.wait = [q \in Queues |-> <<>>] /\ call = [t \in Threads |-> NoCall]
  BY <1>1 DEF KernelInit
<1>3. \A t \in Threads : ~Pend(call[t]) /\ call[t].op = "none" /\ call[t].at = "run"
  BY <1>2, NotPend
<1>4. KeepsTo("sem")
  BY <1>3 DEF KeepsTo
<1>5. Waiting("recv")
  BY <1>2, ObjectFacts DEF Waiting, ToSet
<1>6. InHand = {} /\ Carried = {}
  BY <1>3 DEF InHand, Carried
<1>7. SemInit \in Nat
  BY IpcAssumption
<1>8. Balanced
  <2>1. Cardinality(InHand) = 0
    BY <1>6, FS_EmptySet
  <2> DEFINE a == Cardinality(InHand)
  <2>2. a = 0
    BY <2>1
  <2> HIDE DEF a
  <2>3. sem + a + outside = SemInit /\ sem \in Nat /\ outside \in Int
    BY <1>1, <1>7, <2>2
  <2>4. sem + a + outside <= SemInit
    BY <1>7, <2>3
  <2> QED BY <2>3, <2>4 DEF Balanced, a
<1> QED BY <1>4, <1>5, <1>8 DEF SemInv


(***************************************************************************)
(* The mailbox is a ring that holds what was sent and not fetched, in the  *)
(* order it was sent.                                                      *)
(***************************************************************************)
Slots == 0 .. (MbSize - 1)
RingData == [entry : 0 .. MbSize, in_offset : Slots, out_offset : Slots,
             msg_pool : [Slots -> Values \cup {NULL}], sent : Seq(Values \cup {NULL})]
MbInv ==
  /\ mb \in RingData /\ mb.in_offset = (mb.out_offset + mb.entry) % MbSize
  /\ MbIsFifo

LEMMA Turns ==
  ASSUME NEW a \in Slots, NEW i \in 0 .. MbSize
  PROVE  /\ a + i < MbSize => (a + i) % MbSize = a + i
         /\ a + i >= MbSize => (a + i) % MbSize = a + i - MbSize
         /\ (a + i) % MbSize \in Slots
         /\ wrapped(a) \in Slots
         /\ i < MbSize => (wrapped(a) + i) % MbSize = (a + (i + 1)) % MbSize
         /\ i < MbSize => (a + (i + 1)) % MbSize = wrapped((a + i) % MbSize)
<1> DEFINE N == MbSize
<1>0. N \in Nat \ {0}
  BY IpcAssumption
<1>1. a \in Nat /\ i \in Nat /\ a < N /\ i <= N
  BY <1>0 DEF Slots
<1>2. ASSUME NEW x \in 0 .. (N - 1), NEW j \in 0 .. N
      PROVE  /\ x + j < N => (x + j) % N = x + j
             /\ x + j >= N => (x + j) % N = x + j - N
  BY <1>0
<1>3. wrapped(a) = IF a + 1 >= N THEN 0 ELSE a + 1
  BY DEF wrapped
<1>4. wrapped(a) \in 0 .. (N - 1)
  BY <1>0, <1>1, <1>3
<1>5. /\ a + i < N => (a + i) % N = a + i
      /\ a + i >= N => (a + i) % N = a + i - N
  BY <1>1, <1>2 DEF Slots
<1>6. (a + i) % N \in 0 .. (N - 1)
  BY <1>0, <1>1, <1>5
<1>7. ASSUME i < N
      PROVE  /\ (wrapped(a) + i) % N = (a + (i + 1)) % N
             /\ (a + (i + 1)) % N = wrapped((a + i) % N)
  <2>1. i + 1 \in 0 .. N /\ i \in 0 .. N
    BY <1>0, <1>1, <1>7
  <2>2. /\ a + (i + 1) < N => (a + (i + 1)) % N = a + (i + 1)
        /\ a + (i + 1) >= N => (a + (i + 1)) % N = a + (i + 1) - N
    BY <1>1, <1>2, <2>1 DEF Slots
  <2> DEFINE w == wrapped(a)
             y == (a + i) % N
  <2>3. /\ w + i < N => (w + i) % N = w + i
        /\ w + i >= N => (w + i) % N = w + i - N
    BY <1>2, <1>4, <2>1
  <2>4. wrapped(y) = IF y + 1 >= N THEN 0 ELSE y + 1
    BY DEF wrapped
  <2>5. w = IF a + 1 >= N THEN 0 ELSE a + 1
    BY <1>3
  <2>6. /\ a + i < N => y = a + i
        /\ a + i >= N => y = a + i - N
    BY <1>5
  <2> HIDE DEF w, y, N
  <2>7. (w + i) % N = (a + (i + 1)) % N
    BY <1>0, <1>1, <1>7, <2>2, <2>3, <2>5
  <2>8. (a + (i + 1)) % N = wrapped(y)
    BY <1>0, <1>1, <1>7, <2>2, <2>4, <2>6
  <2> QED BY <2>7, <2>8 DEF w, y
<1> QED BY <1>4, <1>5, <1>6, <1>7 DEF Slots

LEMMA Posts ==
  ASSUME MbInv, ~mb_full, NEW v \in Values, mb' = posted(v)
  PROVE  MbInv'
<1> DEFINE n == mb.entry
           o == mb.out_offset
           pool == mb.msg_pool
           at(i) == (o + (i - 1)) % MbSize
           next == [pool EXCEPT ![mb.in_offset] = v]
           sent == Append(mb.sent, v)
<1>1. /\ n \in 0 .. MbSize /\ mb.in_offset \in Slots /\ o \in Slots
      /\ pool \in [Slots -> Values \cup {NULL}] /\ mb.sent \in Seq(Values \cup {NULL})
  BY DEF MbInv, RingData
<1>2. MbSize \in Nat \ {0} /\ n \in Nat /\ n < MbSize /\ n # MbSize /\ o \in Nat
  BY <1>1, IpcAssumption DEF mb_full, Slots
<1>3. mb.in_offset = (o + n) % MbSize
  BY DEF MbInv
<1>4. mb' = [entry |-> n + 1, in_offset |-> wrapped(mb.in_offset), out_offset |-> o,
             msg_pool |-> next, sent |-> sent]
  BY DEF posted, MbInv, RingData
<1>5. n + 1 \in 0 .. MbSize /\ wrapped(mb.in_offset) \in Slots
      /\ wrapped(mb.in_offset) = (o + (n + 1)) % MbSize
  <2> HIDE DEF n, o
  <2>1. n + 1 \in 0 .. MbSize /\ n \in 0 .. MbSize
    BY <1>2
  <2>2. wrapped(mb.in_offset) \in Slots
    BY <1>1, <2>1, Turns
  <2>3. wrapped((o + n) % MbSize) = (o + (n + 1)) % MbSize
    BY <1>1, <1>2, <2>1, Turns
  <2> QED BY <1>3, <2>1, <2>2, <2>3
<1>6. next \in [Slots -> Values \cup {NULL}] /\ sent \in Seq(Values \cup {NULL})
  BY <1>1
<1>7. mb.sent = [i \in 1 .. n |-> pool[(o + i - 1) % MbSize]]
  BY DEF MbInv, MbIsFifo
<1>8. \A i \in 1 .. (n + 1) : o + i - 1 = o + (i - 1) /\ i - 1 \in 0 .. MbSize /\ i \in Nat
  BY <1>1, <1>2
<1>9. ASSUME NEW i \in 1 .. n PROVE sent[i] = next[at(i)]
  <2>1. sent[i] = mb.sent[i] /\ Len(mb.sent) = n
    BY <1>1, <1>2, <1>7
  <2>2. mb.sent[i] = pool[at(i)]
    BY <1>7, <1>8, <1>2
  <2>3. at(i) # (o + n) % MbSize /\ at(i) \in Slots
    <3> DEFINE j == i - 1
    <3>1. j \in 0 .. MbSize /\ n \in 0 .. MbSize /\ j < n /\ j \in Nat
      BY <1>2
    <3> HIDE DEF j
    <3>2. /\ o + j < MbSize => (o + j) % MbSize = o + j
          /\ o + j >= MbSize => (o + j) % MbSize = o + j - MbSize
          /\ (o + j) % MbSize \in Slots
      BY <1>1, <3>1, Turns
    <3>3. /\ o + n < MbSize => (o + n) % MbSize = o + n
          /\ o + n >= MbSize => (o + n) % MbSize = o + n - MbSize
      BY <1>1, <3>1, Turns
    <3>4. (o + j) % MbSize # (o + n) % MbSize
      <4> DEFINE a == (o + j) % MbSize
                 b == (o + n) % MbSize
      <4>1. /\ o + j < MbSize => a = o + j
            /\ o + j >= MbSize => a = o + j - MbSize
            /\ o + n < MbSize => b = o + n
            /\ o + n >= MbSize => b = o + n - MbSize
        BY <3>2, <3>3
      <4>2. o < MbSize
        BY <1>1, <1>2 DEF Slots
      <4> HIDE DEF a, b, n, o
      <4>3. a # b
        BY <1>2, <3>1, <4>1, <4>2
      <4> QED BY <4>3 DEF a, b
    <3> QED BY <3>2, <3>4 DEF j
  <2>4. next[at(i)] = pool[at(i)]
    BY <1>1, <1>3, <2>3
  <2> QED BY <2>1, <2>2, <2>4
<1>10. sent[n + 1] = next[at(n + 1)]
  <2>1. n + 1 - 1 = n /\ Len(mb.sent) = n
    BY <1>1, <1>2, <1>7
  <2>2. next[mb.in_offset] = v
    BY <1>1
  <2> QED BY <1>1, <1>3, <2>1, <2>2
<1>11. sent = [i \in 1 .. (n + 1) |-> next[(o + i - 1) % MbSize]]
  <2>1. Len(sent) = n + 1 /\ DOMAIN sent = 1 .. (n + 1)
    BY <1>1, <1>2, <1>7
  <2>2. \A i \in 1 .. (n + 1) : i \in 1 .. n \/ i = n + 1
    BY <1>2
  <2>3. \A i \in 1 .. (n + 1) : sent[i] = next[at(i)]
    BY <1>9, <1>10, <2>2
  <2>4. sent = [i \in 1 .. (n + 1) |-> sent[i]]
    BY <1>6, <2>1
  <2> HIDE DEF sent, next
  <2>5. \A i \in 1 .. (n + 1) : sent[i] = next[(o + i - 1) % MbSize]
    BY <1>8, <2>3
  <2> QED BY <2>4, <2>5
<1> HIDE DEF next, sent
<1>12. mb' \in RingData
  BY <1>1, <1>4, <1>5, <1>6 DEF RingData
<1>13. MbIsFifo'
  BY <1>4, <1>11 DEF MbIsFifo
<1> QED BY <1>4, <1>5, <1>12, <1>13 DEF MbInv

LEMMA Fetches ==
  ASSUME MbInv, mb.entry # 0, mb' = fetched
  PROVE  MbInv'
<1> DEFINE n == mb.entry
           o == mb.out_offset
           pool == mb.msg_pool
           rest == Tail(mb.sent)
<1>1. /\ n \in 0 .. MbSize /\ mb.in_offset \in Slots /\ o \in Slots
      /\ pool \in [Slots -> Values \cup {NULL}] /\ mb.sent \in Seq(Values \cup {NULL})
  BY DEF MbInv, RingData
<1>2. MbSize \in Nat \ {0} /\ n \in Nat /\ n # 0 /\ n - 1 \in 0 .. MbSize /\ n - 1 < MbSize /\ o \in Nat
  BY <1>1, IpcAssumption DEF Slots
<1>3. mb' = [entry |-> n - 1, in_offset |-> mb.in_offset, out_offset |-> wrapped(o),
             msg_pool |-> pool, sent |-> rest]
  BY DEF fetched, MbInv, RingData
<1>4. wrapped(o) \in Slots
  BY <1>1, <1>2, Turns
<1>5. mb.in_offset = (wrapped(o) + (n - 1)) % MbSize
  <2>1. (wrapped(o) + (n - 1)) % MbSize = (o + (n - 1 + 1)) % MbSize
    BY <1>1, <1>2, Turns
  <2>2. n - 1 + 1 = n /\ mb.in_offset = (o + n) % MbSize
    BY <1>2 DEF MbInv
  <2> QED BY <2>1, <2>2
<1>6. mb.sent = [i \in 1 .. n |-> pool[(o + i - 1) % MbSize]] /\ Len(mb.sent) = n
  <2>1. mb.sent = [i \in 1 .. n |-> pool[(o + i - 1) % MbSize]]
    BY DEF MbInv, MbIsFifo
  <2> QED BY <1>1, <1>2, <2>1
<1>7. rest \in Seq(Values \cup {NULL}) /\ Len(rest) = n - 1 /\ \A i \in 1 .. (n - 1) : rest[i] = mb.sent[i + 1]
  <2>1. mb.sent # <<>>
    BY <1>1, <1>2, <1>6
  <2> QED BY <1>1, <1>2, <1>6, <2>1
<1>8. ASSUME NEW i \in 1 .. (n - 1) PROVE rest[i] = pool[(wrapped(o) + i - 1) % MbSize]
  <2>1. i \in Nat /\ i + 1 \in 1 .. n /\ i - 1 \in 0 .. MbSize /\ i - 1 < MbSize
    BY <1>2
  <2>2. rest[i] = pool[(o + (i + 1) - 1) % MbSize]
    BY <1>6, <1>7, <2>1
  <2>3. o + (i + 1) - 1 = o + (i - 1 + 1)
    BY <1>2, <2>1
  <2>4. (wrapped(o) + (i - 1)) % MbSize = (o + (i - 1 + 1)) % MbSize
    BY <1>1, <2>1, Turns
  <2>5. wrapped(o) + (i - 1) = wrapped(o) + i - 1
    BY <1>2, <1>4, <2>1 DEF Slots
  <2> QED BY <2>2, <2>3, <2>4, <2>5
<1>9. rest = [i \in 1 .. (n - 1) |-> pool[(wrapped(o) + i - 1) % MbSize]]
  <2>1. rest = [i \in 1 .. (n - 1) |-> rest[i]]
    BY <1>2, <1>7
  <2> HIDE DEF rest
  <2> QED BY <1>8, <2>1
<1> HIDE DEF rest
<1>10. mb' \in RingData
  BY <1>1, <1>2, <1>3, <1>4, <1>7 DEF RingData
<1>11. MbIsFifo'
  BY <1>3, <1>9 DEF MbIsFifo
<1> QED BY <1>3, <1>5, <1>10, <1>11 DEF MbInv

LEMMA Empties ==
  ASSUME MbInv, mb_reset
  PROVE  MbInv'
<1>1. 0 \in 0 .. MbSize /\ 0 \in Slots /\ MbSize \in Nat \ {0} /\ <<>> \in Seq(Values \cup {NULL})
  BY IpcAssumption DEF Slots
<1>2. mb' = [entry |-> 0, in_offset |-> 0, out_offset |-> 0, msg_pool |-> mb.msg_pool, sent |-> <<>>]
  BY DEF mb_reset, MbInv, RingData
<1>3. mb' \in RingData
  BY <1>1, <1>2 DEF RingData, MbInv
<1>4. (0 + 0) % MbSize = 0
  BY <1>1, Turns
<1>5. MbIsFifo'
  BY <1>2 DEF MbIsFifo
<1> QED BY <1>2, <1>3, <1>4, <1>5 DEF MbInv

LEMMA MbFirst ==
  ASSUME IpcInit
  PROVE  MbInv
<1>1. mb = NewMb
  BY DEF IpcInit
<1>2. 0 \in 0 .. MbSize /\ 0 \in Slots /\ MbSize \in Nat \ {0} /\ <<>> \in Seq(Values \cup {NULL})
  BY IpcAssumption DEF Slots
<1>3. mb \in RingData
  BY <1>1, <1>2 DEF NewMb, RingData, Slots
<1>4. (0 + 0) % MbSize = 0
  BY <1>2, Turns
<1>5. MbIsFifo
  BY <1>1 DEF MbIsFifo, NewMb
<1> QED BY <1>1, <1>3, <1>4, <1>5 DEF MbInv, NewMb

(* Only a post, a fetch and a reset change it.                              *)
LEMMA MbMoves ==
  ASSUME [IpcNext]_ipc_vars
  PROVE  \/ UNCHANGED mb
         \/ ~mb_full /\ \E v \in Values : mb' = posted(v)
         \/ mb.entry # 0 /\ mb' = fetched
         \/ mb_reset
<1> DEFINE M == \/ UNCHANGED mb
                \/ ~mb_full /\ \E v \in Values : mb' = posted(v)
                \/ mb.entry # 0 /\ mb' = fetched
                \/ mb_reset
<1>1. ASSUME NEW t \in Threads, Calling(t) PROVE M
  <2>1. SemTake(t) \/ SemRelease(t) \/ MutexTake(t) \/ MutexRelease(t) => UNCHANGED mb
    BY DEF SemTake, SemRelease, MutexTake, MutexRelease
  <2>2. EventRecv(t) \/ EventSend(t) \/ MqSend(t) \/ MqRecv(t) => UNCHANGED mb
    BY DEF EventRecv, EventSend, MqSend, MqRecv
  <2>3. MpAlloc(t) \/ MpFree(t) \/ Detach(t) => UNCHANGED mb
    BY DEF MpAlloc, MpFree, Detach, objects
  <2>4. MbSend(t) => M
    BY DEF MbSend
  <2>5. MbRecv(t) => M
    BY DEF MbRecv
  <2>6. Reset(t) => M
    BY DEF Reset, sem_reset, event_reset, mq_reset
  <2> HIDE DEF M
  <2>7. UNCHANGED mb => M
    BY DEF M
  <2> QED BY <1>1, <2>1, <2>2, <2>3, <2>4, <2>5, <2>6, <2>7 DEF Calling
<1>2. ASSUME NEW t \in Threads, Finishing(t) PROVE UNCHANGED mb
  BY <1>2 DEF Finishing, SemTaken, MutexTaken, EventReceived, MbGivesUp, MqGivesUp,
              MpGivesUp, MqLink, MqFree, DetachStep, objects
<1>3. Kernel => UNCHANGED mb
  BY DEF Kernel, objects
<1>4. Handler => M
  BY DEF Handler, SemRelease, EventSend, MqSendIsr, MpFree
<1> QED BY <1>1, <1>2, <1>3, <1>4 DEF IpcNext, ipc_vars, objects

LEMMA MbNext ==
  ASSUME MbInv, [IpcNext]_ipc_vars
  PROVE  MbInv'
<1>1. UNCHANGED mb => MbInv'
  BY DEF MbInv, MbIsFifo
<1> QED BY <1>1, MbMoves, Posts, Fetches, Empties

(***************************************************************************)
(* The free list of the pool holds a block at most once, and is as long as *)
(* the count says.                                                         *)
(***************************************************************************)
MpInv ==
  /\ mp = [block_list |-> mp.block_list, block_free_count |-> mp.block_free_count,
           suspend_thread_count |-> mp.suspend_thread_count]
  /\ mp.block_list \in Seq(Blocks) /\ IsInjective(mp.block_list)
  /\ mp.block_free_count = Len(mp.block_list)

LEMMA InFront ==
  ASSUME NEW S, NEW l \in Seq(S), IsInjective(l), NEW e \in S, e \notin ToSet(l)
  PROVE  /\ <<e>> \o l \in Seq(S) /\ IsInjective(<<e>> \o l) /\ Len(<<e>> \o l) = Len(l) + 1
         /\ ToSet(<<e>> \o l) = ToSet(l) \cup {e} /\ Head(<<e>> \o l) = e /\ Tail(<<e>> \o l) = l
<1> DEFINE m == <<e>> \o l
<1>1. m \in Seq(S) /\ Len(m) = Len(l) + 1 /\ Len(l) \in Nat
  OBVIOUS
<1>2. m[1] = e /\ \A i \in 2 .. Len(m) : m[i] = l[i - 1] /\ i - 1 \in 1 .. Len(l)
  OBVIOUS
<1>3. \A i \in 1 .. Len(l) : m[i + 1] = l[i] /\ l[i] # e /\ i + 1 \in 1 .. Len(m)
  <2>1. \A i \in 1 .. Len(l) : l[i] \in ToSet(l)
    BY DEF ToSet
  <2> QED BY <2>1
<1>4. IsInjective(m)
  <2> HIDE DEF m
  <2>1. \A i \in 1 .. Len(m) : i = 1 \/ (i \in 2 .. Len(m) /\ m[i] # e)
    BY <1>1, <1>2, <1>3
  <2>2. \A i, j \in 2 .. Len(m) : m[i] = m[j] => i = j
    <3>1. \A a, b \in 1 .. Len(l) : l[a] = l[b] => a = b
      BY DEF IsInjective
    <3> QED BY <1>1, <1>2, <3>1
  <2>3. \A i, j \in 1 .. Len(m) : m[i] = m[j] => i = j
    BY <1>2, <2>1, <2>2
  <2> QED BY <1>1, <2>3 DEF IsInjective
<1>5. ToSet(m) = ToSet(l) \cup {e}
  <2> HIDE DEF m
  <2>1. \A i \in 1 .. Len(m) : i = 1 \/ i \in 2 .. Len(m)
    BY <1>1
  <2>2. 1 \in 1 .. Len(m)
    BY <1>1
  <2>3. DOMAIN m = 1 .. Len(m) /\ DOMAIN l = 1 .. Len(l)
    BY <1>1
  <2>4. \A x \in ToSet(m) : x \in ToSet(l) \cup {e}
    BY <1>2, <2>1, <2>3 DEF ToSet
  <2>5. \A x \in ToSet(l) : x \in ToSet(m)
    BY <1>3, <2>3 DEF ToSet
  <2>6. e \in ToSet(m)
    BY <1>2, <2>2, <2>3 DEF ToSet
  <2> QED BY <2>4, <2>5, <2>6
<1>6. Head(m) = e /\ Tail(m) = l
  <2>1. Tail(m) \in Seq(S) /\ Len(Tail(m)) = Len(l)
    BY <1>1
  <2>2. \A i \in 1 .. Len(l) : Tail(m)[i] = l[i]
    BY <1>1, <1>3
  <2>3. Tail(m) = l
    BY <2>1, <2>2
  <2> QED BY <1>2, <2>3
<1> QED BY <1>1, <1>4, <1>5, <1>6

LEMMA WithoutFirst ==
  ASSUME NEW S, NEW l \in Seq(S), IsInjective(l), l # <<>>
  PROVE  /\ Tail(l) \in Seq(S) /\ IsInjective(Tail(l)) /\ Len(Tail(l)) = Len(l) - 1
         /\ Head(l) \in S /\ Head(l) \notin ToSet(Tail(l))
         /\ ToSet(Tail(l)) = ToSet(l) \ {Head(l)} /\ Head(l) \in ToSet(l)
<1> DEFINE m == Tail(l)
<1>1. m \in Seq(S) /\ Len(m) = Len(l) - 1 /\ Len(l) \in Nat /\ Len(l) >= 1 /\ Head(l) = l[1] /\ l[1] \in S
  OBVIOUS
<1>2. \A i \in 1 .. Len(m) : m[i] = l[i + 1] /\ i + 1 \in 1 .. Len(l) /\ i + 1 # 1
  BY <1>1
<1>3. \A i \in 1 .. Len(l) : i = 1 \/ (i - 1 \in 1 .. Len(m) /\ m[i - 1] = l[i])
  BY <1>1
<1>4. \A a, b \in 1 .. Len(l) : l[a] = l[b] => a = b
  BY DEF IsInjective
<1>5. DOMAIN m = 1 .. Len(m) /\ DOMAIN l = 1 .. Len(l)
  BY <1>1
<1>6. 1 \in 1 .. Len(l)
  BY <1>1
<1> HIDE DEF m
<1>7. IsInjective(m)
  BY <1>1, <1>2, <1>4 DEF IsInjective
<1>8. l[1] \notin ToSet(m) /\ l[1] \in ToSet(l)
  BY <1>2, <1>4, <1>5, <1>6 DEF ToSet
<1>9. ToSet(m) = ToSet(l) \ {l[1]}
  <2>1. \A x \in ToSet(m) : x \in ToSet(l)
    BY <1>2, <1>5 DEF ToSet
  <2>2. \A x \in ToSet(l) : x = l[1] \/ x \in ToSet(m)
    BY <1>3, <1>5 DEF ToSet
  <2> QED BY <1>8, <2>1, <2>2
<1> QED BY <1>1, <1>7, <1>8, <1>9 DEF m

LEMMA MpFirst ==
  ASSUME IpcInit
  PROVE  MpInv
<1>1. mp = NewMp
  BY DEF IpcInit
<1>2. IsFiniteSet(Blocks)
  BY IpcAssumption
<1> DEFINE s == SetToSeq(Blocks)
<1>3. s \in Seq(Blocks) /\ IsInjective(s) /\ Len(s) = Cardinality(Blocks)
  BY <1>2, ListsSet
<1>4. mp = [block_list |-> s, block_free_count |-> Cardinality(Blocks), suspend_thread_count |-> 0]
  BY <1>1 DEF NewMp
<1> HIDE DEF s
<1> QED BY <1>3, <1>4 DEF MpInv

LEMMA MpMoves ==
  ASSUME [IpcNext]_ipc_vars
  PROVE  \/ UNCHANGED mp
         \/ \E n : mp' = [mp EXCEPT !.suspend_thread_count = n]
         \/ mp.block_free_count # 0 /\ mp' = mp_taken
         \/ \E b \in Blocks \ Range(mp.block_list), one \in BOOLEAN : mp' = mp_freed(b, one)
<1> DEFINE M == \/ UNCHANGED mp
                \/ \E n : mp' = [mp EXCEPT !.suspend_thread_count = n]
                \/ mp.block_free_count # 0 /\ mp' = mp_taken
                \/ \E b \in Blocks \ Range(mp.block_list), one \in BOOLEAN : mp' = mp_freed(b, one)
<1>0. UNCHANGED mp => M
  OBVIOUS
<1>1. ASSUME NEW by, MpFree(by) PROVE M
  BY <1>1 DEF MpFree
<1>2. ASSUME NEW t, MpAlloc(t) PROVE M
  <2>1. \/ UNCHANGED mp
        \/ mp' = [mp EXCEPT !.suspend_thread_count = @ + 1]
        \/ mp.block_free_count # 0 /\ mp' = mp_taken
    BY <1>2 DEF MpAlloc
  <2> QED BY <2>1
<1>3. ASSUME NEW t, DetachStep(t) PROVE M
  <2>1. \/ UNCHANGED mp
        \/ mp' = [mp EXCEPT !.suspend_thread_count = @ - 1]
    BY <1>3 DEF DetachStep
  <2> QED BY <2>1
<1> HIDE DEF M
<1>4. ASSUME NEW t \in Threads, Calling(t) PROVE M
  <2>1. SemTake(t) \/ SemRelease(t) \/ MutexTake(t) \/ MutexRelease(t) => UNCHANGED mp
    BY DEF SemTake, SemRelease, MutexTake, MutexRelease
  <2>2. EventRecv(t) \/ EventSend(t) \/ MqSend(t) \/ MqRecv(t) => UNCHANGED mp
    BY DEF EventRecv, EventSend, MqSend, MqRecv
  <2>3. MbSend(t) \/ MbRecv(t) \/ Detach(t) \/ Reset(t) => UNCHANGED mp
    BY DEF MbSend, MbRecv, Detach, Reset, objects
  <2> QED BY <1>0, <1>1, <1>2, <1>4, <2>1, <2>2, <2>3 DEF Calling
<1>5. ASSUME NEW t \in Threads, Finishing(t) PROVE M
  <2>1. ~DetachStep(t) => UNCHANGED mp
    BY <1>5 DEF Finishing, SemTaken, MutexTaken, EventReceived, MbGivesUp, MqGivesUp,
                MpGivesUp, MqLink, MqFree, objects
  <2> QED BY <1>0, <1>3, <2>1
<1>6. Kernel => UNCHANGED mp
  BY DEF Kernel, objects
<1>7. Handler => M
  BY <1>0, <1>1 DEF Handler, SemRelease, EventSend, MqSendIsr
<1>8. UNCHANGED ipc_vars => UNCHANGED mp
  BY DEF ipc_vars, objects
<1>9. M
  BY <1>0, <1>4, <1>5, <1>6, <1>7, <1>8 DEF IpcNext
<1> QED BY <1>9 DEF M

LEMMA MpNext ==
  ASSUME MpInv, [IpcNext]_ipc_vars
  PROVE  MpInv'
<1> DEFINE l == mp.block_list
           n == mp.block_free_count
           w == mp.suspend_thread_count
<1>1. /\ mp = [block_list |-> l, block_free_count |-> n, suspend_thread_count |-> w]
      /\ l \in Seq(Blocks) /\ IsInjective(l) /\ n = Len(l) /\ Len(l) \in Nat
  BY DEF MpInv
<1>2. CASE UNCHANGED mp
  BY <1>2 DEF MpInv
<1>3. CASE \E z : mp' = [mp EXCEPT !.suspend_thread_count = z]
  <2>1. PICK z : mp' = [mp EXCEPT !.suspend_thread_count = z]
    BY <1>3
  <2>2. mp' = [block_list |-> l, block_free_count |-> n, suspend_thread_count |-> z]
    BY <1>1, <2>1
  <2> HIDE DEF l, n
  <2> QED BY <1>1, <2>2 DEF MpInv
<1>4. CASE mp.block_free_count # 0 /\ mp' = mp_taken
  <2>1. mp' = [block_list |-> Tail(l), block_free_count |-> n - 1, suspend_thread_count |-> w]
    BY <1>1, <1>4 DEF mp_taken
  <2>2. l # <<>>
    BY <1>1, <1>4
  <2> HIDE DEF l, n, w
  <2>3. Tail(l) \in Seq(Blocks) /\ IsInjective(Tail(l)) /\ Len(Tail(l)) = Len(l) - 1
    BY <1>1, <2>2, WithoutFirst
  <2> QED BY <1>1, <2>1, <2>3 DEF MpInv
<1>5. CASE \E b \in Blocks \ Range(mp.block_list), one \in BOOLEAN : mp' = mp_freed(b, one)
  <2>1. PICK b \in Blocks \ Range(l), one \in BOOLEAN : mp' = mp_freed(b, one)
    BY <1>5
  <2>2. \E z : mp' = [block_list |-> <<b>> \o l, block_free_count |-> n + 1, suspend_thread_count |-> z]
    BY <1>1, <2>1 DEF mp_freed
  <2>3. b \notin ToSet(l)
    BY <2>1 DEF Range, ToSet
  <2> HIDE DEF l, n, w
  <2> DEFINE m == <<b>> \o l
  <2>4. m \in Seq(Blocks) /\ IsInjective(m) /\ Len(m) = Len(l) + 1
    BY <1>1, <2>3, InFront
  <2> HIDE DEF m
  <2> QED BY <1>1, <2>2, <2>4 DEF MpInv, m
<1> QED BY <1>2, <1>3, <1>4, <1>5, MpMoves

(***************************************************************************)
(* The blocks of the message queue: chained one to the next in its list of *)
(* messages and in its free list, or with a thread that copies.            *)
(***************************************************************************)
After(s, i) == IF i = Len(s) THEN NULL ELSE s[i + 1]
Chain(next, first, s) ==
  first = After(s, 0) /\ \A i \in 1 .. Len(s) : next[s[i]] = After(s, i)
Link == Blocks \cup {NULL}
Listing(s) == s \in Seq(Blocks) /\ IsInjective(s)
QueueData == [next : [Blocks -> Link], free : Link, head : Link, tail : Link, entry : Nat]

(* ms are the messages, fs the free blocks, H those being copied.           *)
Queued_(q, ms, fs, H) ==
  /\ q \in QueueData /\ Listing(ms) /\ Listing(fs)
  /\ Chain(q.next, q.head, ms) /\ Chain(q.next, q.free, fs)
  /\ q.tail = (IF ms = <<>> THEN NULL ELSE ms[Len(ms)]) /\ q.entry = Len(ms)
Split(ms, fs, H) ==
  /\ ToSet(ms) \cap ToSet(fs) = {} /\ H \cap ToSet(ms) = {} /\ H \cap ToSet(fs) = {}
  /\ ToSet(ms) \cup ToSet(fs) \cup H = Blocks
Holds(q, ms, fs, H) == Queued_(q, ms, fs, H) /\ Split(ms, fs, H)

LEMMA Listed_ ==
  ASSUME NEW s, Listing(s)
  PROVE  /\ s \in Seq(Blocks) /\ Len(s) \in Nat /\ DOMAIN s = 1 .. Len(s)
         /\ \A i \in 1 .. Len(s) : s[i] \in Blocks /\ s[i] \in ToSet(s) /\ s[i] # NULL
         /\ \A i, j \in 1 .. Len(s) : s[i] = s[j] => i = j
         /\ \A b \in ToSet(s) : \E i \in 1 .. Len(s) : s[i] = b
         /\ \A i \in 0 .. Len(s) : After(s, i) \in Link /\ (After(s, i) = NULL <=> i = Len(s))
         /\ s = <<>> <=> Len(s) = 0
<1>1. s \in Seq(Blocks) /\ Len(s) \in Nat /\ DOMAIN s = 1 .. Len(s) /\ (s = <<>> <=> Len(s) = 0)
  BY DEF Listing
<1>2. \A i \in 1 .. Len(s) : s[i] \in Blocks /\ s[i] \in ToSet(s) /\ s[i] # NULL
  BY <1>1, IpcAssumption DEF ToSet
<1>3. \A i, j \in 1 .. Len(s) : s[i] = s[j] => i = j
  BY <1>1 DEF Listing, IsInjective
<1>4. \A b \in ToSet(s) : \E i \in 1 .. Len(s) : s[i] = b
  BY <1>1 DEF ToSet
<1>5. ASSUME NEW i \in 0 .. Len(s)
      PROVE  After(s, i) \in Link /\ (After(s, i) = NULL <=> i = Len(s))
  <2>0. Len(s) \in Nat
    BY <1>1
  <2>1. i # Len(s) => i + 1 \in 1 .. Len(s)
    BY <2>0
  <2> QED BY <1>2, <2>1 DEF After, Link
<1> QED BY <1>1, <1>2, <1>3, <1>4, <1>5

(* Nothing a chain consists of changes.                                     *)
LEMMA ChainSame ==
  ASSUME NEW s, Listing(s), NEW n, NEW first, Chain(n, first, s),
         NEW m, \A b \in ToSet(s) : m[b] = n[b]
  PROVE  Chain(m, first, s)
BY Listed_ DEF Chain

LEMMA ChainFront ==
  ASSUME NEW s, Listing(s), NEW n, NEW first, Chain(n, first, s), NEW b \in Blocks, b \notin ToSet(s),
         NEW m, m[b] = first, \A c \in ToSet(s) : m[c] = n[c]
  PROVE  Listing(<<b>> \o s) /\ Chain(m, b, <<b>> \o s)
<1> DEFINE r == <<b>> \o s
<1>1. s \in Seq(Blocks) /\ IsInjective(s) /\ Len(s) \in Nat
  BY Listed_ DEF Listing
<1>2. Listing(r) /\ Len(r) = Len(s) + 1
  BY <1>1, InFront DEF Listing
<1>3. r[1] = b /\ \A i \in 1 .. Len(s) : r[i + 1] = s[i]
  BY <1>1
<1> HIDE DEF r
<1>4. b = After(r, 0)
  BY <1>1, <1>2, <1>3 DEF After
<1>5. ASSUME NEW i \in 0 .. Len(s) PROVE After(r, i + 1) = After(s, i)
  <2>1. i \in Nat /\ (i + 1 = Len(r) <=> i = Len(s))
    BY <1>1, <1>2
  <2>2. i # Len(s) => i + 1 \in 1 .. Len(s) /\ r[i + 1 + 1] = s[i + 1]
    BY <1>1, <1>3
  <2> QED BY <2>1, <2>2 DEF After
<1>6. m[r[1]] = After(r, 1)
  <2>1. After(r, 0 + 1) = After(s, 0)
    BY <1>1, <1>5
  <2>2. first = After(s, 0)
    BY DEF Chain
  <2> QED BY <1>3, <2>1, <2>2
<1>7. ASSUME NEW i \in 1 .. Len(r) PROVE m[r[i]] = After(r, i)
  <2>1. CASE i = 1
    BY <1>6, <2>1
  <2>2. CASE i # 1
    <3> DEFINE j == i - 1
    <3>1. j \in 1 .. Len(s) /\ j \in 0 .. Len(s) /\ i = j + 1
      BY <1>1, <1>2, <2>2
    <3> HIDE DEF j
    <3>2. r[i] = s[j] /\ s[j] \in ToSet(s) /\ n[s[j]] = After(s, j)
      BY <1>3, <3>1, Listed_ DEF Chain
    <3> QED BY <1>5, <3>1, <3>2
  <2> QED BY <2>1, <2>2
<1> QED BY <1>2, <1>4, <1>7 DEF r, Chain

LEMMA ChainRest ==
  ASSUME NEW s, Listing(s), NEW n, NEW first, Chain(n, first, s), first # NULL
  PROVE  /\ s # <<>> /\ first = Head(s) /\ first \in Blocks /\ first \in ToSet(s)
         /\ Listing(Tail(s)) /\ Chain(n, n[first], Tail(s))
         /\ first \notin ToSet(Tail(s)) /\ ToSet(Tail(s)) = ToSet(s) \ {first}
         /\ Len(Tail(s)) = Len(s) - 1 /\ n[first] \in Link
<1> DEFINE r == Tail(s)
<1>1. s \in Seq(Blocks) /\ IsInjective(s) /\ Len(s) \in Nat /\ 0 \in 0 .. Len(s)
  BY Listed_ DEF Listing
<1>2. first = After(s, 0) /\ Len(s) # 0
  BY <1>1, Listed_ DEF Chain
<1>3. s # <<>> /\ first = s[1] /\ first = Head(s) /\ 1 \in 1 .. Len(s)
  BY <1>1, <1>2 DEF After
<1>4. /\ r \in Seq(Blocks) /\ IsInjective(r) /\ Len(r) = Len(s) - 1
      /\ first \in Blocks /\ first \notin ToSet(r)
      /\ ToSet(r) = ToSet(s) \ {first} /\ first \in ToSet(s)
  BY <1>1, <1>3, WithoutFirst
<1>5. \A i \in 1 .. Len(r) : r[i] = s[i + 1]
  BY <1>1, <1>3
<1> HIDE DEF r
<1>6. ASSUME NEW i \in 0 .. Len(r) PROVE After(r, i) = After(s, i + 1)
  <2>1. i \in Nat /\ (i + 1 = Len(s) <=> i = Len(r))
    BY <1>1, <1>2, <1>4
  <2>2. i # Len(r) => i + 1 \in 1 .. Len(r) /\ r[i + 1] = s[i + 1 + 1]
    BY <1>1, <1>2, <1>4, <1>5
  <2> QED BY <2>1, <2>2 DEF After
<1>7. n[first] = After(r, 0)
  <2>1. n[s[1]] = After(s, 1)
    BY <1>3 DEF Chain
  <2>2. 0 \in 0 .. Len(r) /\ 0 + 1 = 1
    BY <1>1, <1>2, <1>4
  <2> QED BY <1>3, <1>6, <2>1, <2>2
<1>8. \A i \in 1 .. Len(r) : n[r[i]] = After(r, i)
  <2> SUFFICES ASSUME NEW i \in 1 .. Len(r) PROVE n[r[i]] = After(r, i)
    OBVIOUS
  <2>1. i + 1 \in 1 .. Len(s) /\ i \in 0 .. Len(r)
    BY <1>1, <1>2, <1>4
  <2> QED BY <1>5, <1>6, <2>1 DEF Chain
<1>9. Listing(r)
  BY <1>4 DEF Listing
<1>10. n[first] \in Link
  <2>1. 0 \in 0 .. Len(r)
    BY <1>1, <1>2, <1>4
  <2> QED BY <1>7, <1>9, <2>1, Listed_
<1> QED BY <1>3, <1>4, <1>7, <1>8, <1>9, <1>10 DEF r, Chain

LEMMA ChainNone ==
  ASSUME NEW s, Listing(s), NEW n, NEW first, Chain(n, first, s)
  PROVE  first = NULL <=> s = <<>>
<1>1. Len(s) \in Nat /\ 0 \in 0 .. Len(s) /\ (s = <<>> <=> Len(s) = 0)
  BY Listed_
<1> QED BY <1>1, Listed_ DEF Chain

(* What is put behind the last of a chain.                                  *)
LEMMA ChainLast ==
  ASSUME NEW s, Listing(s), NEW n, NEW first, Chain(n, first, s), NEW b \in Blocks, b \notin ToSet(s),
         NEW m, m[b] = NULL,
         \A i \in 1 .. Len(s) : m[s[i]] = IF i = Len(s) THEN b ELSE n[s[i]]
  PROVE  /\ Listing(Append(s, b)) /\ Chain(m, IF s = <<>> THEN b ELSE first, Append(s, b))
         /\ ToSet(Append(s, b)) = ToSet(s) \cup {b}
<1> DEFINE r == Append(s, b)
           n0 == Len(s)
           n1 == Len(r)
<1>1. s \in Seq(Blocks) /\ IsInjective(s)
  BY DEF Listing
<1>2. r \in Seq(Blocks) /\ n1 = n0 + 1 /\ r[n0 + 1] = b /\ \A i \in 1 .. n0 : r[i] = s[i]
  BY <1>1
<1>a. DOMAIN r = 1 .. n1 /\ DOMAIN s = 1 .. n0
  BY <1>1, <1>2
<1>b. n0 \in Nat /\ (s = <<>> <=> n0 = 0)
  BY <1>1
<1> HIDE DEF r, n0, n1
<1>3. \A i \in 1 .. n1 : i \in 1 .. n0 \/ i = n0 + 1
  BY <1>2, <1>b
<1>4. \A i \in 1 .. n0 : s[i] # b /\ i # n0 + 1 /\ s[i] \in ToSet(s)
  BY <1>b, Listed_ DEF n0
<1>c. \A i, j \in 1 .. n0 : s[i] = s[j] => i = j
  BY Listed_ DEF n0
<1>d. \A i \in 1 .. n0 : i \in 1 .. n1
  BY <1>2, <1>b
<1>e. n0 + 1 \in 1 .. n1
  BY <1>2, <1>b
<1>5. Listing(r)
  <2>1. \A i, j \in 1 .. n1 : r[i] = r[j] => i = j
    BY <1>2, <1>3, <1>4, <1>c
  <2> QED BY <1>2, <1>a, <2>1 DEF Listing, IsInjective
<1>6. ToSet(r) = ToSet(s) \cup {b}
  <2>1. \A x \in ToSet(r) : x \in ToSet(s) \cup {b}
    BY <1>2, <1>3, <1>4, <1>a DEF ToSet
  <2>2. \A x \in ToSet(s) : x \in ToSet(r)
    BY <1>2, <1>a, <1>d DEF ToSet
  <2>3. b \in ToSet(r)
    BY <1>2, <1>a, <1>e DEF ToSet
  <2> QED BY <2>1, <2>2, <2>3
<1>7. ASSUME NEW i \in 0 .. n0, i # n0 PROVE After(r, i) = After(s, i)
  <2>1. i # n1 /\ i + 1 \in 1 .. n0
    BY <1>2, <1>b, <1>7
  <2> QED BY <1>2, <1>7, <2>1 DEF After, n0, n1
<1>8. After(r, n0) = b /\ After(r, n0 + 1) = NULL
  <2>1. n0 # n1
    BY <1>2, <1>b
  <2> QED BY <1>2, <2>1 DEF After, n1
<1>9. (IF s = <<>> THEN b ELSE first) = After(r, 0)
  <2>1. CASE s = <<>>
    BY <1>8, <1>b, <2>1
  <2>2. CASE s # <<>>
    <3>1. n0 # 0 /\ 0 \in 0 .. n0
      BY <1>b, <2>2
    <3> QED BY <1>7, <2>2, <3>1 DEF Chain
  <2> QED BY <2>1, <2>2
<1>10. ASSUME NEW i \in 1 .. n1 PROVE m[r[i]] = After(r, i)
  <2>1. CASE i = n0 + 1
    BY <1>2, <1>8, <2>1
  <2>2. CASE i \in 1 .. n0 /\ i = n0
    BY <1>2, <1>8, <2>2 DEF n0
  <2>3. CASE i \in 1 .. n0 /\ i # n0
    <3>1. i \in 0 .. n0
      BY <1>b, <2>3
    <3>2. n[s[i]] = After(s, i)
      BY <2>3 DEF Chain, n0
    <3>3. m[s[i]] = n[s[i]]
      BY <2>3 DEF n0
    <3> QED BY <1>2, <1>7, <2>3, <3>1, <3>2, <3>3
  <2> QED BY <1>3, <2>1, <2>2, <2>3
<1> QED BY <1>5, <1>6, <1>9, <1>10 DEF r, n1, Chain

(***************************************************************************)
(* What the routines of the queue do to it.                                *)
(***************************************************************************)
Queue_(next, free, head, tail, entry) ==
  [next |-> next, free |-> free, head |-> head, tail |-> tail, entry |-> entry]

LEMMA HeldFacts ==
  ASSUME NEW q, NEW ms, NEW fs, NEW H, Holds(q, ms, fs, H)
  PROVE  /\ q = Queue_(q.next, q.free, q.head, q.tail, q.entry)
         /\ q.next \in [Blocks -> Link] /\ q.free \in Link /\ q.head \in Link /\ q.tail \in Link
         /\ q.entry \in Nat /\ q.entry = Len(ms)
         /\ Listing(ms) /\ Listing(fs) /\ Chain(q.next, q.head, ms) /\ Chain(q.next, q.free, fs)
         /\ q.tail = (IF ms = <<>> THEN NULL ELSE ms[Len(ms)])
         /\ H \subseteq Blocks /\ NULL \notin Blocks
         /\ \A b \in H : b \in Blocks /\ b \notin ToSet(ms) /\ b \notin ToSet(fs)
         /\ \A b \in ToSet(ms) : b \notin ToSet(fs)
<1>1. q \in QueueData
  BY DEF Holds, Queued_
<1>2. /\ q = Queue_(q.next, q.free, q.head, q.tail, q.entry)
      /\ q.next \in [Blocks -> Link] /\ q.free \in Link /\ q.head \in Link /\ q.tail \in Link
      /\ q.entry \in Nat
  BY <1>1 DEF QueueData, Queue_
<1>3. /\ q.entry = Len(ms)
      /\ Listing(ms) /\ Listing(fs) /\ Chain(q.next, q.head, ms) /\ Chain(q.next, q.free, fs)
      /\ q.tail = (IF ms = <<>> THEN NULL ELSE ms[Len(ms)])
  BY DEF Holds, Queued_
<1>4. /\ H \subseteq Blocks /\ NULL \notin Blocks
      /\ \A b \in H : b \in Blocks /\ b \notin ToSet(ms) /\ b \notin ToSet(fs)
      /\ \A b \in ToSet(ms) : b \notin ToSet(fs)
  BY IpcAssumption DEF Holds, Split
<1> QED BY <1>2, <1>3, <1>4

LEMMA HoldsAgain ==
  ASSUME NEW next \in [Blocks -> Link], NEW free \in Link, NEW head \in Link, NEW tail,
         NEW ms, NEW fs, NEW H, Listing(ms), Listing(fs), Chain(next, head, ms), Chain(next, free, fs),
         tail = (IF ms = <<>> THEN NULL ELSE ms[Len(ms)]), Split(ms, fs, H)
  PROVE  Holds(Queue_(next, free, head, tail, Len(ms)), ms, fs, H)
<1> DEFINE q == Queue_(next, free, head, tail, Len(ms))
<1>1. /\ q.next = next /\ q.free = free /\ q.head = head /\ q.tail = tail /\ q.entry = Len(ms)
      /\ q = [next |-> next, free |-> free, head |-> head, tail |-> tail, entry |-> Len(ms)]
  BY DEF Queue_
<1>2. tail \in Link /\ Len(ms) \in Nat
  <2> DEFINE n == Len(ms)
  <2>1. n \in Nat /\ (ms = <<>> <=> n = 0)
    BY Listed_
  <2>2. n # 0 => n \in 1 .. n
    BY <2>1
  <2>3. n # 0 => ms[n] \in Blocks
    BY <2>2, Listed_
  <2> HIDE DEF n
  <2>4. tail = (IF ms = <<>> THEN NULL ELSE ms[n])
    BY DEF n
  <2> QED BY <2>1, <2>3, <2>4 DEF Link, n
<1> HIDE DEF q
<1>3. q \in QueueData
  BY <1>1, <1>2 DEF QueueData
<1> QED BY <1>1, <1>3 DEF q, Holds, Queued_

LEMMA TakesBlock ==
  ASSUME NEW q, NEW ms, NEW fs, NEW H, Holds(q, ms, fs, H), q.free # NULL,
         NEW r, r = [q EXCEPT !.free = q.next[q.free]]
  PROVE  Holds(r, ms, Tail(fs), H \cup {q.free}) /\ q.free \in Blocks \ H
<1> DEFINE b == q.free
<1>1. /\ Listing(fs) /\ Chain(q.next, b, fs) /\ b # NULL
      /\ q = Queue_(q.next, q.free, q.head, q.tail, q.entry)
      /\ q.next \in [Blocks -> Link] /\ q.head \in Link
      /\ q.tail = (IF ms = <<>> THEN NULL ELSE ms[Len(ms)])
      /\ Listing(ms) /\ Chain(q.next, q.head, ms) /\ q.entry = Len(ms)
  BY HeldFacts
<1> HIDE DEF b
<1>2. /\ b \in Blocks /\ b \in ToSet(fs) /\ Listing(Tail(fs)) /\ Chain(q.next, q.next[b], Tail(fs))
      /\ ToSet(Tail(fs)) = ToSet(fs) \ {b} /\ q.next[b] \in Link
  BY <1>1, ChainRest
<1>3. r = Queue_(q.next, q.next[b], q.head, q.tail, q.entry)
  BY <1>1 DEF Queue_, b
<1>4. Split(ms, Tail(fs), H \cup {b}) /\ b \notin H
  BY <1>2 DEF Holds, Split
<1>5. Holds(Queue_(q.next, q.next[b], q.head, q.tail, Len(ms)), ms, Tail(fs), H \cup {b})
  BY <1>1, <1>2, <1>4, HoldsAgain
<1> QED BY <1>1, <1>2, <1>3, <1>4, <1>5 DEF b

LEMMA Returns ==
  ASSUME NEW q, NEW ms, NEW fs, NEW H, Holds(q, ms, fs, H), NEW b \in H,
         NEW r, r = returned_to(q, b)
  PROVE  Holds(r, ms, <<b>> \o fs, H \ {b})
<1> DEFINE m == [q.next EXCEPT ![b] = q.free]
<1>1. /\ Listing(fs) /\ Chain(q.next, q.free, fs)
      /\ q = Queue_(q.next, q.free, q.head, q.tail, q.entry)
      /\ q.next \in [Blocks -> Link] /\ q.head \in Link /\ q.free \in Link
      /\ q.tail = (IF ms = <<>> THEN NULL ELSE ms[Len(ms)])
      /\ Listing(ms) /\ Chain(q.next, q.head, ms) /\ q.entry = Len(ms)
      /\ b \in Blocks /\ b \notin ToSet(ms) /\ b \notin ToSet(fs)
  BY HeldFacts
<1>2. r = Queue_(m, b, q.head, q.tail, q.entry)
  BY <1>1 DEF Queue_, returned_to
<1>3. m \in [Blocks -> Link] /\ m[b] = q.free /\ \A c \in Blocks : c # b => m[c] = q.next[c]
  BY <1>1
<1>4. ToSet(ms) \subseteq Blocks /\ ToSet(fs) \subseteq Blocks
  BY DEF Holds, Split
<1> HIDE DEF m
<1>5. Listing(<<b>> \o fs) /\ Chain(m, b, <<b>> \o fs)
  <2>1. \A c \in ToSet(fs) : m[c] = q.next[c]
    BY <1>1, <1>3, <1>4
  <2> QED BY <1>1, <1>3, <2>1, ChainFront
<1>6. Chain(m, q.head, ms)
  <2>1. \A c \in ToSet(ms) : m[c] = q.next[c]
    BY <1>1, <1>3, <1>4
  <2> QED BY <1>1, <2>1, ChainSame
<1>7. ToSet(<<b>> \o fs) = ToSet(fs) \cup {b}
  BY <1>1, InFront DEF Listing
<1>8. Split(ms, <<b>> \o fs, H \ {b})
  BY <1>1, <1>7 DEF Holds, Split
<1>9. b \in Link
  BY <1>1 DEF Link
<1> DEFINE gs == <<b>> \o fs
<1> HIDE DEF gs
<1>10. Holds(Queue_(m, b, q.head, q.tail, Len(ms)), ms, gs, H \ {b})
  BY <1>1, <1>3, <1>5, <1>6, <1>8, <1>9, HoldsAgain DEF gs
<1> QED BY <1>1, <1>2, <1>10 DEF gs

LEMMA LinksFirst ==
  ASSUME NEW q, NEW ms, NEW fs, NEW H, Holds(q, ms, fs, H), NEW b \in H,
         NEW r, r = [q EXCEPT !.next[b] = q.head, !.head = b,
                              !.tail = IF @ = NULL THEN b ELSE @, !.entry = @ + 1]
  PROVE  Holds(r, <<b>> \o ms, fs, H \ {b})
<1> DEFINE m == [q.next EXCEPT ![b] = q.head]
           ns == <<b>> \o ms
           tail == IF q.tail = NULL THEN b ELSE q.tail
<1>1. /\ Listing(fs) /\ Chain(q.next, q.free, fs)
      /\ q = Queue_(q.next, q.free, q.head, q.tail, q.entry)
      /\ q.next \in [Blocks -> Link] /\ q.head \in Link /\ q.free \in Link
      /\ q.tail = (IF ms = <<>> THEN NULL ELSE ms[Len(ms)])
      /\ Listing(ms) /\ Chain(q.next, q.head, ms) /\ q.entry = Len(ms)
      /\ b \in Blocks /\ b \notin ToSet(ms) /\ b \notin ToSet(fs) /\ NULL \notin Blocks
  BY HeldFacts
<1>2. r = Queue_(m, q.free, b, tail, q.entry + 1)
  BY <1>1 DEF Queue_
<1>3. m \in [Blocks -> Link] /\ m[b] = q.head /\ \A c \in Blocks : c # b => m[c] = q.next[c]
  BY <1>1
<1>4. ToSet(ms) \subseteq Blocks /\ ToSet(fs) \subseteq Blocks
  BY DEF Holds, Split
<1>5. ToSet(ns) = ToSet(ms) \cup {b} /\ Len(ns) = Len(ms) + 1
  BY <1>1, InFront DEF Listing
<1>6. tail = (IF ns = <<>> THEN NULL ELSE ns[Len(ns)])
  <2> DEFINE n == Len(ms)
  <2>1. n \in Nat /\ (ms = <<>> <=> n = 0) /\ ms \in Seq(Blocks)
    BY <1>1, Listed_
  <2>2. ns # <<>> /\ ns[1] = b /\ \A i \in 1 .. n : ns[i + 1] = ms[i]
    BY <1>1, <2>1
  <2>3. n # 0 => n \in 1 .. n /\ ms[n] # NULL
    BY <1>1, <2>1, Listed_
  <2> HIDE DEF n, ns
  <2>4. n # 0 => ns[n + 1] = ms[n]
    BY <2>2, <2>3
  <2>5. Len(ns) = n + 1 /\ q.tail = (IF ms = <<>> THEN NULL ELSE ms[n])
    BY <1>1, <1>5 DEF n
  <2> QED BY <2>1, <2>2, <2>3, <2>4, <2>5
<1> HIDE DEF m, tail
<1>7. Listing(<<b>> \o ms) /\ Chain(m, b, <<b>> \o ms)
  <2>1. \A c \in ToSet(ms) : m[c] = q.next[c]
    BY <1>1, <1>3, <1>4
  <2> QED BY <1>1, <1>3, <2>1, ChainFront
<1>8. Chain(m, q.free, fs)
  <2>1. \A c \in ToSet(fs) : m[c] = q.next[c]
    BY <1>1, <1>3, <1>4
  <2> QED BY <1>1, <2>1, ChainSame
<1>9. Split(ns, fs, H \ {b})
  BY <1>1, <1>5 DEF Holds, Split
<1>10. b \in Link
  BY <1>1 DEF Link
<1> HIDE DEF ns
<1>11. Listing(ns) /\ Chain(m, b, ns)
  BY <1>7 DEF ns
<1>12. Holds(Queue_(m, q.free, b, tail, Len(ns)), ns, fs, H \ {b})
  BY <1>1, <1>3, <1>6, <1>8, <1>9, <1>10, <1>11, HoldsAgain
<1> QED BY <1>1, <1>2, <1>5, <1>12 DEF ns

LEMMA LinksLast ==
  ASSUME NEW q, NEW ms, NEW fs, NEW H, Holds(q, ms, fs, H), NEW b \in H, NEW nx,
         nx = [q.next EXCEPT ![b] = NULL],
         NEW r, r = [q EXCEPT !.next = IF q.tail = NULL THEN nx ELSE [nx EXCEPT ![q.tail] = b],
                              !.tail = b, !.head = IF @ = NULL THEN b ELSE @, !.entry = @ + 1]
  PROVE  Holds(r, Append(ms, b), fs, H \ {b})
<1> DEFINE m == IF q.tail = NULL THEN nx ELSE [nx EXCEPT ![q.tail] = b]
           ns == Append(ms, b)
           head == IF q.head = NULL THEN b ELSE q.head
           n == Len(ms)
<1>1. /\ Listing(fs) /\ Chain(q.next, q.free, fs)
      /\ q = Queue_(q.next, q.free, q.head, q.tail, q.entry)
      /\ q.next \in [Blocks -> Link] /\ q.head \in Link /\ q.free \in Link
      /\ q.tail = (IF ms = <<>> THEN NULL ELSE ms[n])
      /\ Listing(ms) /\ Chain(q.next, q.head, ms) /\ q.entry = n
      /\ b \in Blocks /\ b \notin ToSet(ms) /\ b \notin ToSet(fs) /\ NULL \notin Blocks
      /\ \A c \in ToSet(ms) : c \notin ToSet(fs)
  BY HeldFacts
<1>3. r = Queue_(m, q.free, head, b, q.entry + 1)
  BY <1>1 DEF Queue_
<1>4. ToSet(ms) \subseteq Blocks /\ ToSet(fs) \subseteq Blocks
  BY DEF Holds, Split
<1>5. n \in Nat /\ (ms = <<>> <=> n = 0) /\ ms \in Seq(Blocks)
  BY <1>1, Listed_
<1>6. n # 0 => n \in 1 .. n /\ ms[n] # NULL /\ ms[n] \in ToSet(ms) /\ ms[n] \in Blocks
  <2>1. n # 0 => n \in 1 .. n
    BY <1>5
  <2> QED BY <1>1, <2>1, Listed_
<1>7. nx \in [Blocks -> Link] /\ nx[b] = NULL /\ \A c \in Blocks : c # b => nx[c] = q.next[c]
  BY <1>1 DEF Link
<1>8. b \in Link
  BY <1>1 DEF Link
<1>9. /\ m \in [Blocks -> Link] /\ m[b] = NULL
      /\ \A c \in Blocks : c # b => m[c] = IF c = q.tail THEN b ELSE q.next[c]
  <2>1. CASE n = 0
    <3>1. q.tail = NULL /\ m = nx
      BY <1>1, <1>5, <2>1
    <3> QED BY <1>1, <1>7, <3>1
  <2>2. CASE n # 0
    <3>1. q.tail \in Blocks /\ q.tail # NULL /\ q.tail # b
      BY <1>1, <1>5, <1>6, <2>2
    <3>2. m = [nx EXCEPT ![q.tail] = b]
      BY <3>1
    <3> QED BY <1>1, <1>7, <1>8, <3>1, <3>2
  <2> QED BY <2>1, <2>2
<1>10. head = IF ms = <<>> THEN b ELSE q.head
  <2>1. q.head = NULL <=> ms = <<>>
    BY <1>1, ChainNone
  <2> QED BY <2>1
<1>11. Len(ns) = n + 1 /\ ns # <<>> /\ ns[n + 1] = b
  <2>1. ms \in Seq(Blocks) /\ b \in Blocks
    BY <1>1, <1>5
  <2> QED BY <2>1
<1> HIDE DEF m, head, n
<1>12. \A i \in 1 .. n : m[ms[i]] = IF i = n THEN b ELSE q.next[ms[i]]
  <2> SUFFICES ASSUME NEW i \in 1 .. n PROVE m[ms[i]] = IF i = n THEN b ELSE q.next[ms[i]]
    OBVIOUS
  <2>1. ms[i] \in Blocks /\ ms[i] \in ToSet(ms) /\ ms[i] # b
    BY <1>1, Listed_ DEF n
  <2>2. n # 0
    BY <1>5
  <2>3. ms[i] = q.tail <=> i = n
    <3>1. q.tail = ms[n] /\ n \in 1 .. n
      BY <1>1, <1>5, <1>6, <2>2
    <3> QED BY <1>1, <3>1, Listed_ DEF n
  <2> QED BY <1>9, <2>1, <2>3
<1>13. /\ Listing(ns) /\ Chain(m, head, ns) /\ ToSet(ns) = ToSet(ms) \cup {b}
  BY <1>1, <1>9, <1>10, <1>12, ChainLast DEF n
<1>14. Chain(m, q.free, fs)
  <2>1. \A c \in ToSet(fs) : c \in Blocks /\ c # b /\ c # q.tail
    BY <1>1, <1>4, <1>5, <1>6
  <2>2. \A c \in ToSet(fs) : m[c] = q.next[c]
    BY <1>9, <2>1
  <2> QED BY <1>1, <2>2, ChainSame
<1>15. Split(ns, fs, H \ {b})
  BY <1>1, <1>13 DEF Holds, Split
<1>16. head \in Link
  BY <1>1, <1>8 DEF head
<1> HIDE DEF ns
<1>17. b = (IF ns = <<>> THEN NULL ELSE ns[Len(ns)])
  BY <1>11
<1>18. Holds(Queue_(m, q.free, head, b, Len(ns)), ns, fs, H \ {b})
  BY <1>1, <1>9, <1>13, <1>14, <1>15, <1>16, <1>17, HoldsAgain
<1> QED BY <1>1, <1>3, <1>11, <1>18 DEF ns

LEMMA TakesMessage ==
  ASSUME NEW q, NEW ms, NEW fs, NEW H, Holds(q, ms, fs, H), q.entry # 0,
         NEW r, r = [q EXCEPT !.head = q.next[q.head], !.entry = @ - 1,
                              !.tail = IF @ = q.head THEN NULL ELSE @]
  PROVE  Holds(r, Tail(ms), fs, H \cup {q.head}) /\ q.head \in Blocks \ H
<1> DEFINE b == q.head
           n == Len(ms)
           ns == Tail(ms)
           tail == IF q.tail = b THEN NULL ELSE q.tail
<1>1. /\ Listing(fs) /\ Chain(q.next, q.free, fs)
      /\ q = Queue_(q.next, q.free, b, q.tail, q.entry)
      /\ q.next \in [Blocks -> Link] /\ q.free \in Link
      /\ q.tail = (IF ms = <<>> THEN NULL ELSE ms[n])
      /\ Listing(ms) /\ Chain(q.next, b, ms) /\ q.entry = n
  BY HeldFacts
<1>2. n \in Nat /\ n # 0 /\ (ms = <<>> <=> n = 0) /\ ms \in Seq(Blocks)
  BY <1>1, Listed_
<1>3. b # NULL
  BY <1>1, <1>2, ChainNone
<1>4. r = Queue_(q.next, q.free, q.next[b], tail, q.entry - 1)
  BY <1>1 DEF Queue_
<1> HIDE DEF b
<1>5. /\ b \in Blocks /\ b \in ToSet(ms) /\ Listing(ns) /\ Chain(q.next, q.next[b], ns)
      /\ ToSet(ns) = ToSet(ms) \ {b} /\ q.next[b] \in Link /\ Len(ns) = n - 1 /\ b = Head(ms)
  BY <1>1, <1>3, ChainRest
<1>6. tail = (IF ns = <<>> THEN NULL ELSE ns[Len(ns)])
  <2>1. b = ms[1] /\ \A i \in 1 .. (n - 1) : ns[i] = ms[i + 1]
    BY <1>2, <1>5
  <2>2. q.tail = ms[n] /\ 1 \in 1 .. n /\ n \in 1 .. n
    BY <1>1, <1>2
  <2> HIDE DEF n, ns
  <2>3. \A i, j \in 1 .. n : ms[i] = ms[j] => i = j
    BY <1>1, Listed_ DEF n
  <2>4. q.tail = b <=> n = 1
    BY <2>1, <2>2, <2>3
  <2>5. ns = <<>> <=> n - 1 = 0
    BY <1>5, Listed_
  <2>6. n # 1 => ns[n - 1] = ms[n]
    <3>1. n # 1 => n - 1 \in 1 .. (n - 1) /\ n - 1 + 1 = n
      BY <1>2
    <3> QED BY <2>1, <3>1
  <2> QED BY <1>2, <1>5, <2>2, <2>4, <2>5, <2>6
<1> HIDE DEF tail, n
<1>7. Split(ns, fs, H \cup {b}) /\ b \notin H
  BY <1>5 DEF Holds, Split
<1> HIDE DEF ns
<1>8. Holds(Queue_(q.next, q.free, q.next[b], tail, Len(ns)), ns, fs, H \cup {b})
  BY <1>1, <1>5, <1>6, <1>7, HoldsAgain
<1> QED BY <1>1, <1>4, <1>5, <1>7, <1>8 DEF b, ns

(***************************************************************************)
(* The walks along the two chains find their lists.                        *)
(***************************************************************************)
LEMMA Upto ==
  ASSUME NEW n \in Nat, NEW S, 0 \in S, \A i \in 1 .. n : i - 1 \in S => i \in S
  PROVE  \A i \in 0 .. n : i \in S
<1> DEFINE a == [i \in 0 .. n |-> i]
<1>1. a[0] = 0 /\ \A i \in 1 .. n : a[i] = i /\ a[i - 1] = i - 1
  OBVIOUS
<1>2. \A i \in 0 .. n : a[i] = i
  OBVIOUS
<1> HIDE DEF a
<1>3. \A i \in 0 .. n : a[i] \in S
  BY <1>1, Stays
<1> QED BY <1>2, <1>3

(* A list without repetition is as long as the set of its elements.        *)
LEMMA AsLongAsItsSet ==
  ASSUME NEW S, NEW s \in Seq(S), IsInjective(s)
  PROVE  IsFiniteSet(ToSet(s)) /\ Cardinality(ToSet(s)) = Len(s)
<1> DEFINE n == Len(s)
<1>1. s \in [1 .. n -> ToSet(s)] /\ n \in Nat
  BY DEF ToSet
<1>2. \A b \in ToSet(s) : \E i \in 1 .. n : s[i] = b
  BY DEF ToSet
<1> HIDE DEF n
<1>3. IsFiniteSet(1 .. n) /\ Cardinality(1 .. n) = n
  <2>1. 1 \in Int /\ n \in Int /\ (1 > n => n = 0)
    BY <1>1
  <2>2. /\ IsFiniteSet(1 .. n)
        /\ Cardinality(1 .. n) = IF 1 > n THEN 0 ELSE n - 1 + 1
    BY <2>1, FS_Interval
  <2>3. n - 1 + 1 = n
    BY <1>1
  <2> QED BY <2>1, <2>2, <2>3
<1>4. s \in Bijection(1 .. n, ToSet(s))
  <2>1. s \in Injection(1 .. n, ToSet(s))
    BY <1>1 DEF Injection
  <2>2. s \in Surjection(1 .. n, ToSet(s))
    BY <1>1, <1>2 DEF Surjection
  <2> QED BY <2>1, <2>2 DEF Bijection
<1>5. ExistsBijection(1 .. n, ToSet(s))
  BY <1>4 DEF ExistsBijection
<1>6. IsFiniteSet(ToSet(s)) /\ Cardinality(ToSet(s)) = n
  BY <1>3, <1>5, FS_Bijection
<1> QED BY <1>6 DEF n

LEMMA LongAsMany ==
  ASSUME NEW s, Listing(s)
  PROVE  /\ IsFiniteSet(ToSet(s)) /\ Cardinality(ToSet(s)) = Len(s)
         /\ Cardinality(Blocks) \in Nat /\ Len(s) <= Cardinality(Blocks)
<1>1. s \in Seq(Blocks) /\ IsInjective(s)
  BY DEF Listing
<1>2. IsFiniteSet(ToSet(s)) /\ Cardinality(ToSet(s)) = Len(s)
  BY <1>1, AsLongAsItsSet
<1>3. ToSet(s) \in SUBSET Blocks
  BY <1>1 DEF ToSet
<1>4. IsFiniteSet(Blocks)
  BY IpcAssumption
<1>5. Cardinality(Blocks) \in Nat
  BY <1>4, FS_CardinalityType
<1>6. Cardinality(ToSet(s)) <= Cardinality(Blocks)
  BY <1>3, <1>4, FS_Subset
<1> QED BY <1>2, <1>5, <1>6

LEMMA MessagesFound ==
  ASSUME NEW ms, NEW fs, NEW H, Holds(mq, ms, fs, H)
  PROVE  messages = ms
<1> DEFINE n == mq.entry
           Loop(h) == [i \in 0 .. n |-> IF i = 0 THEN mq.head ELSE mq.next[h[i - 1]]]
           step == CHOOSE h : h = Loop(h)
           g == [i \in 0 .. n |-> After(ms, i)]
<1>1. /\ n \in Nat /\ n = Len(ms) /\ Listing(ms) /\ ms \in Seq(Blocks)
      /\ mq.head = After(ms, 0)
      /\ \A i \in 1 .. n : mq.next[ms[i]] = After(ms, i)
  BY HeldFacts DEF Chain, Listing
<1>2. messages = [i \in 1 .. n |-> step[i - 1]]
  BY DEF messages
<1>3. \A i \in 1 .. n : After(ms, i - 1) = ms[i] /\ mq.next[After(ms, i - 1)] = After(ms, i)
  <2> SUFFICES ASSUME NEW i \in 1 .. n
               PROVE  After(ms, i - 1) = ms[i] /\ mq.next[After(ms, i - 1)] = After(ms, i)
    OBVIOUS
  <2>1. i - 1 # n /\ i - 1 + 1 = i
    BY <1>1
  <2>2. After(ms, i - 1) = ms[i]
    BY <1>1, <2>1 DEF After
  <2> QED BY <1>1, <2>2
<1>4. \A i \in 1 .. n : i \in 0 .. n /\ i # 0 /\ i - 1 \in 0 .. n
  BY <1>1
<1>5. 0 \in 0 .. n /\ \A i \in 0 .. n : i = 0 \/ i \in 1 .. n
  BY <1>1
<1> HIDE DEF n
<1>6. g = Loop(g)
  <2>1. \A i \in 1 .. n : g[i - 1] = After(ms, i - 1)
    BY <1>4
  <2>2. \A i \in 0 .. n : After(ms, i) = IF i = 0 THEN mq.head ELSE mq.next[g[i - 1]]
    BY <1>1, <1>3, <1>5, <2>1
  <2> QED BY <2>2
<1>7. step = Loop(step)
  <2> HIDE DEF g
  <2>1. \E h : h = Loop(h)
    BY <1>6
  <2> QED BY <2>1
<1> HIDE DEF step, g
<1>8. step[0] = mq.head /\ \A i \in 1 .. n : step[i] = mq.next[step[i - 1]]
  BY <1>4, <1>5, <1>7
<1> DEFINE S == {i \in 0 .. n : step[i] = After(ms, i)}
<1>9. 0 \in S /\ \A i \in 1 .. n : i - 1 \in S => i \in S
  BY <1>1, <1>3, <1>4, <1>5, <1>8
<1>10. \A i \in 0 .. n : i \in S
  <2> HIDE DEF S
  <2> QED BY <1>1, <1>9, Upto
<1>11. \A i \in 1 .. n : step[i - 1] = ms[i]
  BY <1>3, <1>4, <1>10
<1>12. ms = [i \in 1 .. n |-> ms[i]]
  BY <1>1
<1> QED BY <1>2, <1>11, <1>12

LEMMA FreeFound ==
  ASSUME NEW ms, NEW fs, NEW H, Holds(mq, ms, fs, H)
  PROVE  FreeChain = ToSet(fs)
<1> DEFINE n == Cardinality(Blocks)
           l == Len(fs)
           Loop(h) == [i \in 0 .. n |-> IF i = 0 THEN mq.free
                                        ELSE IF h[i - 1] = NULL THEN NULL ELSE mq.next[h[i - 1]]]
           step == CHOOSE h : h = Loop(h)
           Next_(i) == IF i <= l THEN After(fs, i) ELSE NULL
           g == [i \in 0 .. n |-> Next_(i)]
<1>1. /\ n \in Nat /\ l \in Nat /\ l <= n /\ Listing(fs) /\ fs \in Seq(Blocks)
      /\ mq.free = After(fs, 0)
      /\ \A i \in 1 .. l : mq.next[fs[i]] = After(fs, i)
  BY HeldFacts, LongAsMany DEF Chain, Listing
<1>2. FreeChain = {step[i] : i \in 0 .. n} \ {NULL}
  BY DEF FreeChain
<1>3. \A i \in 1 .. l : After(fs, i - 1) = fs[i] /\ fs[i] # NULL /\ fs[i] \in ToSet(fs)
                        /\ mq.next[fs[i]] = After(fs, i)
  <2> SUFFICES ASSUME NEW i \in 1 .. l
               PROVE  After(fs, i - 1) = fs[i] /\ fs[i] # NULL /\ fs[i] \in ToSet(fs)
                      /\ mq.next[fs[i]] = After(fs, i)
    OBVIOUS
  <2>1. i - 1 # l /\ i - 1 + 1 = i
    BY <1>1
  <2>2. After(fs, i - 1) = fs[i]
    BY <2>1 DEF After
  <2> QED BY <1>1, <2>2, Listed_
<1>4. Next_(l) = NULL
  BY <1>1 DEF After
<1>5. Next_(0) = mq.free
  BY <1>1
<1>6. \A i \in 1 .. n : Next_(i) = IF Next_(i - 1) = NULL THEN NULL ELSE mq.next[Next_(i - 1)]
  <2> SUFFICES ASSUME NEW i \in 1 .. n
               PROVE  Next_(i) = IF Next_(i - 1) = NULL THEN NULL ELSE mq.next[Next_(i - 1)]
    OBVIOUS
  <2>1. CASE i <= l
    <3>1. i \in 1 .. l /\ i - 1 <= l
      BY <1>1, <2>1
    <3> HIDE DEF l
    <3> QED BY <1>3, <3>1
  <2>2. CASE ~(i <= l)
    <3>1. i - 1 = l \/ ~(i - 1 <= l)
      BY <1>1, <2>2
    <3>2. Next_(i - 1) = NULL
      BY <1>4, <3>1
    <3> HIDE DEF l
    <3> QED BY <2>2, <3>2
  <2> QED BY <1>1, <2>1, <2>2
<1>7. \A i \in 1 .. n : i \in 0 .. n /\ i # 0 /\ i - 1 \in 0 .. n
  BY <1>1
<1>8. 0 \in 0 .. n /\ \A i \in 0 .. n : i = 0 \/ i \in 1 .. n
  BY <1>1
<1>9. \A i \in 1 .. l : i - 1 \in 0 .. n /\ i - 1 <= l
  BY <1>1
<1>10. \A i \in 0 .. n : Next_(i) = NULL \/ (i + 1 \in 1 .. l /\ Next_(i) = fs[i + 1])
  <2> SUFFICES ASSUME NEW i \in 0 .. n, Next_(i) # NULL
               PROVE  i + 1 \in 1 .. l /\ Next_(i) = fs[i + 1]
    OBVIOUS
  <2>1. i <= l /\ i # l
    BY <1>4
  <2>2. i + 1 \in 1 .. l
    BY <1>1, <2>1
  <2> QED BY <2>1, <2>2 DEF After
<1>11. \A i \in 1 .. l : Next_(i - 1) = fs[i]
  BY <1>3, <1>9
<1> HIDE DEF n, l, Next_
<1>12. g = Loop(g)
  <2>1. \A i \in 1 .. n : g[i - 1] = Next_(i - 1)
    BY <1>7
  <2>2. \A i \in 0 .. n : Next_(i) = IF i = 0 THEN mq.free
                                     ELSE IF g[i - 1] = NULL THEN NULL ELSE mq.next[g[i - 1]]
    BY <1>5, <1>6, <1>8, <2>1
  <2> QED BY <2>2
<1>13. step = Loop(step)
  <2> HIDE DEF g
  <2>1. \E h : h = Loop(h)
    BY <1>12
  <2> QED BY <2>1
<1> HIDE DEF step, g
<1>14. /\ step[0] = mq.free
       /\ \A i \in 1 .. n : step[i] = IF step[i - 1] = NULL THEN NULL ELSE mq.next[step[i - 1]]
  BY <1>7, <1>8, <1>13
<1> DEFINE S == {i \in 0 .. n : step[i] = Next_(i)}
<1>15. 0 \in S /\ \A i \in 1 .. n : i - 1 \in S => i \in S
  BY <1>5, <1>6, <1>7, <1>8, <1>14
<1>16. \A i \in 0 .. n : i \in S
  <2> HIDE DEF S
  <2> QED BY <1>1, <1>15, Upto
<1>17. \A i \in 0 .. n : step[i] = Next_(i)
  BY <1>16
<1> HIDE DEF S
<1>18. \A b \in FreeChain : b \in ToSet(fs)
  BY <1>2, <1>3, <1>10, <1>17
<1>19. \A b \in ToSet(fs) : b \in FreeChain
  <2> SUFFICES ASSUME NEW b \in ToSet(fs) PROVE b \in FreeChain
    OBVIOUS
  <2>1. PICK i \in 1 .. l : fs[i] = b
    BY <1>1, Listed_ DEF l
  <2>2. i - 1 \in 0 .. n /\ step[i - 1] = b /\ b # NULL
    BY <1>3, <1>9, <1>11, <1>17, <2>1
  <2> QED BY <1>2, <2>2
<1> QED BY <1>18, <1>19

(* A reset returns the messages to the free list, one after the other.      *)
Cleared(q) == Queue_(q.next, q.free, NULL, NULL, 0)
LEMMA ReturnedTo ==
  ASSUME NEW q, q = Queue_(q.next, q.free, q.head, q.tail, q.entry), NEW b,
         NEW r, r = returned_to(q, b)
  PROVE  r = Queue_([q.next EXCEPT ![b] = q.free], b, q.head, q.tail, q.entry)
BY DEF returned_to, Queue_

LEMMA QueueReset ==
  ASSUME NEW ms, NEW fs, NEW H, Holds(mq, ms, fs, H), mq_reset
  PROVE  \E gs : Holds(mq', <<>>, gs, H)
<1> DEFINE n == Len(ms)
           Loop(h) == [i \in 0 .. n |-> IF i = 0 THEN mq ELSE returned_to(h[i - 1], ms[i])]
           after == CHOOSE h : h = Loop(h)
           Rest(i) == H \cup {ms[j] : j \in (i + 1) .. n}
<1>1. /\ n \in Nat /\ Listing(ms) /\ Listing(fs) /\ ms \in Seq(Blocks)
      /\ mq.next \in [Blocks -> Link] /\ mq.free \in Link /\ Chain(mq.next, mq.free, fs)
      /\ NULL \in Link /\ mq \in QueueData
  <2>1. Listing(ms) /\ mq \in QueueData
    BY HeldFacts DEF Holds, Queued_
  <2>2. n \in Nat /\ ms \in Seq(Blocks)
    BY <2>1, Listed_
  <2> HIDE DEF n
  <2> QED BY <2>1, <2>2, HeldFacts DEF Link
<1>2. mq' = [after[n] EXCEPT !.head = NULL, !.tail = NULL, !.entry = 0]
  <2>1. messages = ms
    BY MessagesFound
  <2>2. mq' = LET s == Along(returned_to, mq, ms)
              IN  [s EXCEPT !.head = NULL, !.tail = NULL, !.entry = 0]
    BY <2>1 DEF mq_reset
  <2> QED BY <2>2 DEF Along
<1>3. ASSUME NEW q \in QueueData, NEW b \in Blocks
      PROVE  /\ returned_to(q, b) \in QueueData
             /\ returned_to(Cleared(q), b) = Cleared(returned_to(q, b))
  <2>1. /\ q = [next |-> q.next, free |-> q.free, head |-> q.head, tail |-> q.tail, entry |-> q.entry]
        /\ q.next \in [Blocks -> Link] /\ q.free \in Link /\ q.head \in Link /\ q.tail \in Link
        /\ q.entry \in Nat
    BY DEF QueueData
  <2> DEFINE m == [q.next EXCEPT ![b] = q.free]
  <2>2. m \in [Blocks -> Link] /\ b \in Link
    BY <2>1 DEF Link
  <2>3. returned_to(q, b) = Queue_(m, b, q.head, q.tail, q.entry)
    <3>1. q = Queue_(q.next, q.free, q.head, q.tail, q.entry)
      BY <2>1 DEF Queue_
    <3> QED BY <3>1, ReturnedTo
  <2>4. returned_to(Cleared(q), b) = Queue_(m, b, NULL, NULL, 0)
    <3> DEFINE z == Cleared(q)
    <3>1. /\ z = Queue_(z.next, z.free, z.head, z.tail, z.entry)
          /\ z.next = q.next /\ z.free = q.free /\ z.head = NULL /\ z.tail = NULL /\ z.entry = 0
      BY DEF Cleared, Queue_
    <3> HIDE DEF z
    <3>2. returned_to(z, b) = Queue_([z.next EXCEPT ![b] = z.free], b, z.head, z.tail, z.entry)
      BY <3>1, ReturnedTo
    <3> QED BY <3>1, <3>2 DEF z
  <2> HIDE DEF m
  <2> QED BY <2>1, <2>2, <2>3, <2>4 DEF QueueData, Cleared, Queue_
<1> HIDE DEF n
<1>4. \E g : g = Loop(g)
  <2> DEFINE f == [w \in QueueData \X Blocks |-> returned_to(w[1], w[2])]
  <2>1. f \in [QueueData \X Blocks -> QueueData]
    BY <1>3
  <2>2. PICK g \in [0 .. Len(ms) -> QueueData] : Iterates(g, f, mq, ms)
    <3> HIDE DEF f
    <3> QED BY <1>1, <2>1, Folds
  <2>3. ASSUME NEW i \in 0 .. n, i # 0 PROVE f[<<g[i - 1], ms[i]>>] = returned_to(g[i - 1], ms[i])
    <3>1. i - 1 \in 0 .. Len(ms) /\ i \in 1 .. Len(ms)
      BY <1>1, <2>3 DEF n
    <3>2. g[i - 1] \in QueueData
      BY <2>2, <3>1, Zenon
    <3>3. ms[i] \in Blocks
      BY <1>1, <3>1
    <3> QED BY <3>2, <3>3
  <2>4. g = Loop(g)
    <3> HIDE DEF f
    <3>1. \A i \in 0 .. n : i # 0 => i \in 1 .. n
      BY <1>1
    <3>2. \A i \in 0 .. n : g[i] = IF i = 0 THEN mq ELSE returned_to(g[i - 1], ms[i])
      BY <2>2, <2>3, <3>1 DEF n, Iterates
    <3> QED BY <2>2, <3>2 DEF n
  <2> QED BY <2>4
<1>5. after = Loop(after)
  BY <1>4
<1> HIDE DEF after
<1>6. after[0] = mq /\ \A i \in 1 .. n : after[i] = returned_to(after[i - 1], ms[i]) /\ ms[i] \in Blocks
  <2>1. 0 \in 0 .. n /\ \A i \in 1 .. n : i \in 0 .. n /\ i # 0
    BY <1>1
  <2>2. \A i \in 1 .. n : ms[i] \in Blocks
    BY <1>1, Listed_ DEF n
  <2> QED BY <1>5, <2>1, <2>2
<1> DEFINE S == {i \in 0 .. n : /\ after[i] \in QueueData
                                /\ \E gs : Holds(Cleared(after[i]), <<>>, gs, Rest(i))}
<1>7. 0 \in S
  <2>1. Rest(0) = H \cup ToSet(ms)
    <3>1. \A j : j \in (0 + 1) .. n <=> j \in DOMAIN ms
      <4>1. DOMAIN ms = 1 .. n /\ 0 + 1 = 1
        BY <1>1, Listed_ DEF n
      <4> QED BY <4>1
    <3> QED BY <3>1 DEF ToSet
  <2>2. Listing(<<>>) /\ ToSet(<<>>) = {} /\ Len(<<>>) = 0
    BY DEF Listing, IsInjective, ToSet
  <2>3. Chain(mq.next, NULL, <<>>)
    BY <2>2 DEF Chain, After
  <2>4. Split(<<>>, fs, H \cup ToSet(ms))
    BY <2>2 DEF Holds, Split
  <2> HIDE DEF Rest
  <2>5. Holds(Queue_(mq.next, mq.free, NULL, NULL, Len(<<>>)), <<>>, fs, H \cup ToSet(ms))
    BY <1>1, <2>2, <2>3, <2>4, HoldsAgain
  <2>6. 0 \in 0 .. n
    BY <1>1
  <2> QED BY <1>1, <1>6, <2>1, <2>2, <2>5, <2>6 DEF Cleared
<1>8. ASSUME NEW i \in 1 .. n, i - 1 \in S PROVE i \in S
  <2> DEFINE z == after[i - 1]
             b == ms[i]
             R == Rest(i - 1)
  <2>1. PICK gs : z \in QueueData /\ Holds(Cleared(z), <<>>, gs, R)
    BY <1>8
  <2>2. b \in Blocks /\ after[i] = returned_to(z, b)
    BY <1>6
  <2>3. b \in R /\ R \ {b} = Rest(i)
    <3>1. i \in Nat /\ i - 1 + 1 = i /\ i \in i .. n
      BY <1>1
    <3>2. \A j : j \in i .. n <=> j = i \/ j \in (i + 1) .. n
      BY <1>1
    <3>3. \A j \in (i + 1) .. n : j \in 1 .. n /\ j # i
      BY <1>1
    <3>4. \A j \in (i + 1) .. n : ms[j] # b
      BY <1>1, <3>3, Listed_ DEF n
    <3>5. b \notin H
      <4>1. b \in ToSet(ms)
        BY <1>1, Listed_ DEF n
      <4> QED BY <4>1 DEF Holds, Split
    <3>6. b \in {ms[j] : j \in i .. n}
      BY <3>1
    <3>7. {ms[j] : j \in i .. n} \ {b} = {ms[j] : j \in (i + 1) .. n}
      BY <3>2, <3>4
    <3> HIDE DEF b
    <3> QED BY <3>1, <3>5, <3>6, <3>7
  <2>4. after[i] \in QueueData /\ returned_to(Cleared(z), b) = Cleared(after[i])
    BY <1>3, <2>1, <2>2
  <2> HIDE DEF z, b, R, Rest
  <2>5. Holds(returned_to(Cleared(z), b), <<>>, <<b>> \o gs, R \ {b})
    BY <2>1, <2>3, Returns
  <2>6. i \in 0 .. n
    BY <1>1
  <2> QED BY <2>3, <2>4, <2>5, <2>6
<1> HIDE DEF Rest
<1>9. \A i \in 0 .. n : i \in S
  <2> HIDE DEF S
  <2> QED BY <1>1, <1>7, <1>8, Upto
<1>10. n \in 0 .. n
  BY <1>1
<1>11. PICK gs : after[n] \in QueueData /\ Holds(Cleared(after[n]), <<>>, gs, Rest(n))
  BY <1>9, <1>10
<1> HIDE DEF S
<1>12. Rest(n) = H
  <2>1. \A j : j \notin (n + 1) .. n
    BY <1>1
  <2> QED BY <2>1 DEF Rest
<1>13. mq' = Cleared(after[n])
  <2>1. after[n] = [next |-> after[n].next, free |-> after[n].free, head |-> after[n].head,
                    tail |-> after[n].tail, entry |-> after[n].entry]
    BY <1>11 DEF QueueData
  <2> DEFINE a == after[n]
  <2>2. a = [next |-> a.next, free |-> a.free, head |-> a.head, tail |-> a.tail, entry |-> a.entry]
        /\ mq' = [a EXCEPT !.head = NULL, !.tail = NULL, !.entry = 0]
    BY <1>2, <2>1
  <2> HIDE DEF a
  <2>3. mq' = Cleared(a)
    BY <2>2 DEF Cleared, Queue_
  <2> QED BY <2>3 DEF a
<1> QED BY <1>11, <1>12, <1>13

(***************************************************************************)
(* Who copies goes on copying the block it has, whatever else is done; it  *)
(* is only where the calls about threads are made that a call may be       *)
(* forgotten with its thread.  And a thread waits for nothing but what the *)
(* behaviour is about.                                                     *)
(***************************************************************************)
CopiesOn ==
  \A t \in Threads : /\ call'[t].at = "copy" <=> call[t].at = "copy"
                     /\ call[t].at = "copy" => call'[t].arg = call[t].arg
KindOf(op) == CASE op \in {"mb_send", "mb_recv"} -> "mb"
              [] op \in {"mq_send", "mq_urgent", "mq_recv"} -> "mq"
              [] OTHER -> op
Owned(c) == c.op \in ThreadOps \/ KindOf(c.op) = kind
OwnCalls == \A t \in Threads : Owned(call[t]) /\ (call[t].at = "copy" => kind = "mq")
Onward(t) ==
  \E c : Goes(t, c) /\ call[t].at # "copy" /\ c.at # "copy" /\ c.op \in ThreadOps \cup {call[t].op}

LEMMA NoCallIdle ==
  /\ NoCall.at = "run" /\ NoCall.op = "none"
  /\ \A at : [NoCall EXCEPT !.at = at].at = at /\ [NoCall EXCEPT !.at = at].op = "none"
  /\ \A at, u : Amid(at, u).at = at /\ Amid(at, u).op = "none"
  /\ \A op, time, arg : Blocked(op, time, arg).at = "suspending" /\ Blocked(op, time, arg).op = op
  /\ \A u : [Amid("startup", u) EXCEPT !.op = "startup"].at = "startup"
           /\ [Amid("startup", u) EXCEPT !.op = "startup"].op = "startup"
  /\ \A c : elapsed(c) \in {c, [c EXCEPT !.left = @ - 1]}
BY DEF NoCall, Amid, Blocked, elapsed

LEMMA ReturnPasses ==
  ASSUME NEW t, call[t].at # "copy", Goes(t, NoCall) \/ Reschedules(t)
  PROVE  Onward(t)
<1> DEFINE c == [NoCall EXCEPT !.at = "resched"]
<1>1. c.at = "resched" /\ c.op = "none"
  BY NoCallIdle
<1>2. Goes(t, NoCall) \/ Goes(t, c)
  BY DEF Reschedules
<1> HIDE DEF c
<1> QED BY <1>1, <1>2, NoCallIdle DEF Onward, ThreadOps

LEMMA PassesOn ==
  ASSUME CallsOK, NEW t \in Threads, Onward(t)
  PROVE  CopiesOn /\ (OwnCalls /\ kind' = kind => OwnCalls')
<1>1. PICK c : Goes(t, c) /\ call[t].at # "copy" /\ c.at # "copy" /\ c.op \in ThreadOps \cup {call[t].op}
  BY DEF Onward
<1>2. call'[t] = c /\ \A u \in Threads \ {t} : call'[u] = call[u]
  BY <1>1 DEF Goes, CallsOK
<1>3. CopiesOn
  BY <1>1, <1>2 DEF CopiesOn
<1>4. OwnCalls /\ kind' = kind => OwnCalls'
  BY <1>1, <1>2 DEF OwnCalls, Owned
<1> QED BY <1>3, <1>4

LEMMA SamePasses ==
  ASSUME UNCHANGED call
  PROVE  CopiesOn /\ (OwnCalls /\ kind' = kind => OwnCalls')
BY DEF CopiesOn, OwnCalls, Owned

LEMMA ElapsedPasses ==
  ASSUME CallsOK, call' = [t \in Threads |-> elapsed(call[t])]
  PROVE  CopiesOn /\ (OwnCalls /\ kind' = kind => OwnCalls')
<1>1. \A t \in Threads : call'[t].at = call[t].at /\ call'[t].op = call[t].op /\ call'[t].arg = call[t].arg
  <2> SUFFICES ASSUME NEW t \in Threads
               PROVE  call'[t].at = call[t].at /\ call'[t].op = call[t].op /\ call'[t].arg = call[t].arg
    OBVIOUS
  <2>1. call[t] = [at |-> call[t].at, op |-> call[t].op, left |-> call[t].left, arg |-> call[t].arg]
    BY DEF CallsOK
  <2>2. call'[t] = call[t] \/ call'[t] = [call[t] EXCEPT !.left = @ - 1]
    BY NoCallIdle
  <2> QED BY <2>1, <2>2
<1> QED BY <1>1 DEF CopiesOn, OwnCalls, Owned

LEMMA StepPasses ==
  ASSUME CallsOK, KernelStep
  PROVE  CopiesOn /\ (OwnCalls /\ kind' = kind => OwnCalls')
<1>0. Idle \in Threads
  BY KernelAssumption
<1>1. CASE Tick
  BY <1>1, ElapsedPasses DEF Tick
<1>2. CASE Reap
  <2> DEFINE c == Amid("reap", Head(k.defunct))
  <2>1. Goes(Idle, c) /\ call[Idle].at = "run" /\ c.at = "reap" /\ c.op = "none"
    BY <1>2, NoCallIdle DEF Reap
  <2> HIDE DEF c
  <2> QED BY <1>0, <2>1, PassesOn DEF Onward, ThreadOps
<1>3. CASE ReapFree
  <2>1. Goes(Idle, NoCall) /\ call[Idle].at = "reap"
    BY <1>3 DEF ReapFree
  <2> QED BY <1>0, <2>1, ReturnPasses, PassesOn
<1>4. ASSUME NEW t \in Threads,
             Resched(t) \/ SleepDone(t) \/ SuspendDone(t) \/ DeleteDone(t) \/ ResumeInsert(t)
      PROVE  CopiesOn /\ (OwnCalls /\ kind' = kind => OwnCalls')
  <2>1. (Goes(t, NoCall) \/ Reschedules(t)) /\ call[t].at # "copy"
    <3>1. [NoCall EXCEPT !.at = "run"] = NoCall
      BY DEF NoCall
    <3> QED BY <1>4, <3>1 DEF Resched, SleepDone, SuspendDone, DeleteDone, Deleting, ResumeInsert, Reschedules
  <2> QED BY <2>1, ReturnPasses, PassesOn
<1>5. ASSUME NEW t \in Threads, SwitchAway(t) \/ ResumeTake(t) \/ StartupResume(t)
      PROVE  CopiesOn /\ (OwnCalls /\ kind' = kind => OwnCalls')
  <2>1. PICK at \in {"woken", "insert", "resume", "resched"} :
          Goes(t, [call[t] EXCEPT !.at = at]) /\ call[t].at # "copy"
    BY <1>5 DEF SwitchAway, ResumeTake, StartupResume, Continues
  <2> DEFINE c == [call[t] EXCEPT !.at = at]
  <2>2. call[t] = [at |-> call[t].at, op |-> call[t].op, left |-> call[t].left, arg |-> call[t].arg]
    BY DEF CallsOK
  <2>3. c.at # "copy" /\ c.op = call[t].op /\ Goes(t, c)
    BY <2>1, <2>2
  <2> HIDE DEF c
  <2> QED BY <2>1, <2>3, PassesOn DEF Onward
<1>6. ASSUME NEW t \in Threads, SuspendNow(t)
      PROVE  CopiesOn /\ (OwnCalls /\ kind' = kind => OwnCalls')
  <2> DEFINE c == Blocked("suspend", FOREVER, {})
  <2>1. c.at = "suspending" /\ c.op = "suspend" /\ call[t].at # "copy"
    BY <1>6, NoCallIdle DEF SuspendNow
  <2>2. Goes(t, c) \/ Goes(t, NoCall)
    BY <1>6 DEF SuspendNow
  <2> HIDE DEF c
  <2>3. CASE Goes(t, c)
    BY <2>1, <2>3, PassesOn DEF Onward, ThreadOps
  <2>4. CASE Goes(t, NoCall)
    BY <2>1, <2>4, ReturnPasses, PassesOn
  <2> QED BY <2>2, <2>3, <2>4
<1> QED BY <1>1, <1>2, <1>3, <1>4, <1>5, <1>6 DEF KernelStep

LEMMA SleepPasses ==
  ASSUME CallsOK, NEW t \in Threads, NEW times, Sleep(t, times) \/ Delete(t)
  PROVE  CopiesOn /\ (OwnCalls /\ kind' = kind => OwnCalls')
<1>1. CASE Sleep(t, times)
  <2>1. PICK time \in times : Calls(t) /\ Goes(t, Blocked("sleep", time, NULL))
    BY <1>1 DEF Sleep
  <2> DEFINE c == Blocked("sleep", time, NULL)
  <2>2. c.at = "suspending" /\ c.op = "sleep" /\ Goes(t, c) /\ call[t].at = "run"
    BY <2>1, NoCallIdle DEF Calls
  <2> HIDE DEF c
  <2> QED BY <2>2, PassesOn DEF Onward, ThreadOps
<1>2. CASE Delete(t)
  <2>1. PICK u : Calls(t) /\ Goes(t, Amid("delete", u))
    BY <1>2 DEF Delete
  <2> DEFINE c == Amid("delete", u)
  <2>2. c.at = "delete" /\ c.op = "none" /\ Goes(t, c) /\ call[t].at = "run"
    BY <2>1, NoCallIdle DEF Calls
  <2> HIDE DEF c
  <2> QED BY <2>2, PassesOn DEF Onward, ThreadOps
<1> QED BY <1>1, <1>2

LEMMA NewPasses ==
  ASSUME CallsOK, kind = "thread", OwnCalls, NEW u \in Threads, call' = [call EXCEPT ![u] = NoCall]
  PROVE  CopiesOn /\ (kind' = kind => OwnCalls')
<1>1. call[u].at # "copy"
  BY DEF OwnCalls
<1>2. Goes(u, NoCall)
  BY DEF Goes
<1> QED BY <1>1, <1>2, ReturnPasses, PassesOn

LEMMA CallPasses ==
  ASSUME CallsOK, kind = "thread", OwnCalls, NEW t \in Threads, ThreadCalls(t)
  PROVE  CopiesOn /\ (kind' = kind => OwnCalls')
<1>1. CASE EnterCritical(t) \/ ChangePriority(t)
  BY <1>1, SamePasses DEF EnterCritical, ChangePriority
<1>2. CASE Sleep(t, 1 .. MaxWait) \/ Delete(t)
  BY <1>2, SleepPasses
<1>3. CASE Suspend(t) \/ Resume(t) \/ Startup(t)
  <2>1. PICK u : /\ call[t].at = "run"
                 /\ \/ Goes(t, Amid("suspend", u)) \/ Goes(t, Amid("resume", u))
                    \/ Goes(t, [Amid("startup", u) EXCEPT !.op = "startup"])
    BY <1>3 DEF Suspend, Resume, Startup, Calls
  <2>2. \E c : /\ Goes(t, c) /\ c.at \in {"suspend", "resume", "startup"}
              /\ c.op \in {"none", "startup"}
    <3> DEFINE a == Amid("suspend", u)
               b == Amid("resume", u)
               d == [Amid("startup", u) EXCEPT !.op = "startup"]
    <3>1. /\ a.at = "suspend" /\ a.op = "none" /\ b.at = "resume" /\ b.op = "none"
          /\ d.at = "startup" /\ d.op = "startup"
      BY NoCallIdle
    <3>2. Goes(t, a) \/ Goes(t, b) \/ Goes(t, d)
      BY <2>1
    <3> HIDE DEF a, b, d
    <3> QED BY <3>1, <3>2
  <2>3. Onward(t)
    BY <2>1, <2>2 DEF Onward, ThreadOps
  <2> QED BY <2>3, PassesOn
<1>4. CASE ExitCritical(t) \/ Exit(t) \/ Yield(t)
  <2>1. PICK at \in {"resched", "run"} : Goes(t, [NoCall EXCEPT !.at = at]) /\ call[t].at = "run"
    BY <1>4 DEF ExitCritical, rt_exit_schedules, Exit, Yield, Calls
  <2> DEFINE c == [NoCall EXCEPT !.at = at]
  <2>2. c.at = at /\ c.op = "none" /\ Goes(t, c)
    BY <2>1, NoCallIdle
  <2> HIDE DEF c
  <2> QED BY <2>1, <2>2, PassesOn DEF Onward, ThreadOps
<1>5. CASE InitThread(t) \/ Create(t)
  <2>1. PICK u \in Mortal : call' = [call EXCEPT ![u] = NoCall]
    BY <1>5 DEF InitThread, Create, thread_new
  <2>2. u \in Threads
    BY KernelAssumption
  <2> QED BY <2>1, <2>2, NewPasses
<1> QED BY <1>1, <1>2, <1>3, <1>4, <1>5 DEF ThreadCalls

LEMMA KernelPasses ==
  ASSUME CallsOK, OwnCalls, Kernel
  PROVE  CopiesOn /\ OwnCalls' /\ UNCHANGED mq
<1>0. kind' = kind /\ UNCHANGED mq
  BY DEF Kernel, objects
<1>1. CASE KernelStep
  BY <1>0, <1>1, StepPasses
<1>2. ASSUME NEW t \in Threads, kind = "thread", ThreadCalls(t) PROVE CopiesOn /\ OwnCalls'
  BY <1>0, <1>2, CallPasses
<1>3. ASSUME NEW t \in Threads, Delete(t) \/ Sleep(t, {1}) PROVE CopiesOn /\ OwnCalls'
  BY <1>0, <1>3, SleepPasses
<1> QED BY <1>0, <1>1, <1>2, <1>3 DEF Kernel

(* What the calls that are not about queues do to the calls.                *)
Ordinary(t) ==
  /\ call[t].at # "copy"
  /\ \/ UNCHANGED call \/ Goes(t, NoCall) \/ \E at \in {"resched", "detach"} : Goes(t, [NoCall EXCEPT !.at = at])
     \/ \E op, time, arg : KindOf(op) = kind /\ Goes(t, Blocked(op, time, arg))
LEMMA OrdinaryOn ==
  ASSUME CallsOK, NEW t \in Threads, Ordinary(t)
  PROVE  CopiesOn /\ (OwnCalls /\ kind' = kind => OwnCalls')
<1> DEFINE Fine == CopiesOn /\ (OwnCalls /\ kind' = kind => OwnCalls')
<1>1. ASSUME NEW c, Goes(t, c), c.at # "copy", Owned(c) PROVE Fine
  <2>1. call'[t] = c /\ \A u \in Threads \ {t} : call'[u] = call[u]
    BY <1>1 DEF Goes, CallsOK
  <2>2. CopiesOn
    BY <1>1, <2>1 DEF CopiesOn, Ordinary
  <2>3. OwnCalls /\ kind' = kind => OwnCalls'
    BY <1>1, <2>1 DEF OwnCalls, Owned
  <2> QED BY <2>2, <2>3
<1>2. UNCHANGED call => Fine
  BY SamePasses
<1> HIDE DEF Fine
<1>3. ASSUME Goes(t, NoCall) PROVE Fine
  <2> DEFINE c == NoCall
  <2>1. Goes(t, c) /\ c.at # "copy" /\ c.op = "none"
    BY <1>3, NoCallIdle
  <2> HIDE DEF c
  <2> QED BY <1>1, <2>1 DEF Owned, ThreadOps
<1>4. ASSUME NEW at \in {"resched", "detach"}, Goes(t, [NoCall EXCEPT !.at = at]) PROVE Fine
  <2> DEFINE c == [NoCall EXCEPT !.at = at]
  <2>1. Goes(t, c) /\ c.at # "copy" /\ c.op = "none"
    BY <1>4, NoCallIdle
  <2> HIDE DEF c
  <2> QED BY <1>1, <2>1 DEF Owned, ThreadOps
<1>5. ASSUME NEW op, NEW time, NEW arg, KindOf(op) = kind, Goes(t, Blocked(op, time, arg)) PROVE Fine
  <2> DEFINE c == Blocked(op, time, arg)
  <2>1. Goes(t, c) /\ c.at # "copy" /\ c.op = op
    BY <1>5, NoCallIdle
  <2> HIDE DEF c
  <2> QED BY <1>1, <1>5, <2>1 DEF Owned
<1>6. Fine
  BY <1>2, <1>3, <1>4, <1>5 DEF Ordinary
<1> QED BY <1>6 DEF Fine

LEMMA CallAt ==
  ASSUME NEW t
  PROVE  /\ \A x : Uses(t, x) => call[t].at = "run" /\ kind = x
         /\ \A op : Woken(t, op) => call[t].at = "woken" /\ call[t].op = op
         /\ \A x, op, arg, time : Tries(t, x, op, arg, time) =>
              /\ call[t].at # "copy"
              /\ t \in Threads /\ OwnCalls /\ op \notin ThreadOps /\ KindOf(op) = x => kind = x
BY DEF Uses, Calls, About, Woken, Tries, OwnCalls, Owned

LEMMA Kinds_ ==
  /\ KindOf("sem") = "sem" /\ KindOf("mutex") = "mutex" /\ KindOf("event") = "event"
  /\ KindOf("mb_send") = "mb" /\ KindOf("mb_recv") = "mb" /\ KindOf("mp") = "mp"
  /\ KindOf("mq_send") = "mq" /\ KindOf("mq_urgent") = "mq" /\ KindOf("mq_recv") = "mq"
  /\ {"sem", "mutex", "event", "mb_send", "mb_recv", "mp", "mq_send", "mq_urgent", "mq_recv"}
       \cap ThreadOps = {}
BY DEF KindOf, ThreadOps

LEMMA WakesOrdinary ==
  ASSUME NEW t \in Threads, NEW q, Wakes(t, q)
  PROVE  Goes(t, NoCall) \/ Reschedules(t)
<1>1. t # NULL
  BY ObjectFacts
<1> QED BY <1>1 DEF Wakes

LEMMA NeverCopied ==
  ASSUME NEW t, call[t].at # "copy", Goes(t, NoCall) \/ Reschedules(t) \/ UNCHANGED call
  PROVE  Ordinary(t)
BY DEF Ordinary, Reschedules

Apart(t) ==
  \/ SemTake(t) \/ (Uses(t, "sem") /\ SemRelease(t)) \/ SemTaken(t)
  \/ MutexTake(t) \/ MutexRelease(t) \/ MutexTaken(t)
  \/ EventRecv(t) \/ (Uses(t, "event") /\ EventSend(t)) \/ EventReceived(t)
  \/ MbSend(t) \/ MbRecv(t) \/ MbGivesUp(t) \/ MqGivesUp(t)
  \/ MpAlloc(t) \/ (Uses(t, "mp") /\ MpFree(t)) \/ MpGivesUp(t)
  \/ Detach(t) \/ DetachStep(t)
LEMMA ElsewhereOrdinary ==
  ASSUME NEW t \in Threads, OwnCalls, Apart(t)
  PROVE  Ordinary(t) /\ UNCHANGED mq
<1>0. t # NULL
  BY ObjectFacts
<1>1. CASE SemTake(t)
  <2>1. call[t].at # "copy" /\ UNCHANGED mq /\ kind = "sem"
    BY <1>1, CallAt DEF SemTake
  <2>2. UNCHANGED call \/ \E time : Goes(t, Blocked("sem", time, NULL))
    BY <1>1 DEF SemTake, kernel_vars
  <2> QED BY <2>1, <2>2, Kinds_ DEF Ordinary
<1>2. CASE Uses(t, "sem") /\ SemRelease(t)
  <2>1. call[t].at # "copy" /\ UNCHANGED mq
    BY <1>2, CallAt DEF SemRelease
  <2>2. UNCHANGED call \/ Reschedules(t)
    BY <1>2 DEF SemRelease, kernel_vars
  <2> QED BY <2>1, <2>2, NeverCopied
<1>3. CASE SemTaken(t) \/ MutexTaken(t) \/ EventReceived(t) \/ MbGivesUp(t) \/ MqGivesUp(t) \/ MpGivesUp(t)
  <2>1. Goes(t, NoCall) /\ UNCHANGED mq /\ \E op : Woken(t, op)
    BY <1>3 DEF SemTaken, MutexTaken, EventReceived, MbGivesUp, MqGivesUp, MpGivesUp, GivesUp, objects
  <2>2. call[t].at # "copy"
    BY <2>1, CallAt
  <2> QED BY <2>1, <2>2, NeverCopied
<1>4. CASE MutexTake(t)
  <2>1. call[t].at # "copy" /\ UNCHANGED mq /\ kind = "mutex"
    BY <1>4, CallAt DEF MutexTake
  <2>2. UNCHANGED call \/ Goes(t, NoCall) \/ \E time, m : Goes(t, Blocked("mutex", time, m))
    BY <1>4 DEF MutexTake, Fails
  <2> QED BY <2>1, <2>2, Kinds_ DEF Ordinary
<1>5. CASE MutexRelease(t)
  <2>1. call[t].at # "copy" /\ UNCHANGED mq
    BY <1>5, CallAt DEF MutexRelease
  <2>2. UNCHANGED call \/ Goes(t, NoCall) \/ Reschedules(t)
    BY <1>5 DEF MutexRelease, Fails, kernel_vars
  <2> QED BY <2>1, <2>2, NeverCopied
<1>6. CASE EventRecv(t)
  <2>1. call[t].at # "copy" /\ UNCHANGED mq /\ kind = "event"
    BY <1>6, CallAt DEF EventRecv
  <2>2. UNCHANGED call \/ Goes(t, NoCall) \/ \E time : Goes(t, Blocked("event", time, NULL))
    BY <1>6 DEF EventRecv, Fails
  <2> QED BY <2>1, <2>2, Kinds_ DEF Ordinary
<1>7. CASE Uses(t, "event") /\ EventSend(t)
  <2>1. call[t].at # "copy" /\ UNCHANGED mq
    BY <1>7, CallAt DEF EventSend
  <2>2. UNCHANGED call \/ Reschedules(t)
    BY <1>7 DEF EventSend, kernel_vars
  <2> QED BY <2>1, <2>2, NeverCopied
<1>8. CASE MbSend(t)
  <2>1. PICK v \in Values, time \in Waits[kind] :
          /\ Tries(t, "mb", "mb_send", v, time) /\ UNCHANGED mq
          /\ Wakes(t, "recv") \/ Goes(t, NoCall) \/ Goes(t, Blocked("mb_send", time, v))
    BY <1>8 DEF MbSend
  <2>2. call[t].at # "copy" /\ kind = "mb"
    BY <2>1, CallAt, Kinds_
  <2> QED BY <2>1, <2>2, WakesOrdinary, NeverCopied, Kinds_ DEF Ordinary
<1>9. CASE MbRecv(t)
  <2>1. PICK time \in Waits[kind] :
          /\ Tries(t, "mb", "mb_recv", NULL, time) /\ UNCHANGED mq
          /\ Wakes(t, "send") \/ Goes(t, NoCall) \/ Goes(t, Blocked("mb_recv", time, NULL))
    BY <1>9 DEF MbRecv
  <2>2. call[t].at # "copy" /\ kind = "mb"
    BY <2>1, CallAt, Kinds_
  <2> QED BY <2>1, <2>2, WakesOrdinary, NeverCopied, Kinds_ DEF Ordinary
<1>10. CASE MpAlloc(t)
  <2>1. PICK time \in Waits[kind] :
          /\ Tries(t, "mp", "mp", NULL, time) /\ UNCHANGED mq
          /\ Goes(t, NoCall) \/ Goes(t, Blocked("mp", time, NULL))
    BY <1>10 DEF MpAlloc
  <2>2. call[t].at # "copy" /\ kind = "mp"
    BY <2>1, CallAt, Kinds_
  <2> QED BY <2>1, <2>2, Kinds_ DEF Ordinary
<1>11. CASE Uses(t, "mp") /\ MpFree(t)
  <2>1. call[t].at # "copy" /\ UNCHANGED mq
    BY <1>11, CallAt DEF MpFree
  <2>2. UNCHANGED call \/ Wakes(t, "recv") \/ Reschedules(t)
    BY <1>11 DEF MpFree, kernel_vars
  <2> QED BY <2>1, <2>2, WakesOrdinary, NeverCopied
<1>12. CASE Detach(t)
  <2>1. call[t].at # "copy" /\ UNCHANGED mq
    BY <1>12, CallAt DEF Detach, objects
  <2>2. Goes(t, [NoCall EXCEPT !.at = "detach"])
    BY <1>12 DEF Detach
  <2> QED BY <2>1, <2>2, Kinds_ DEF Ordinary
<1>13. CASE DetachStep(t)
  <2>1. call[t].at # "copy" /\ UNCHANGED mq /\ (UNCHANGED call \/ Goes(t, NoCall))
    BY <1>13 DEF DetachStep
  <2> QED BY <2>1, NeverCopied
<1> QED BY <1>1, <1>2, <1>3, <1>4, <1>5, <1>6, <1>7, <1>8, <1>9, <1>10, <1>11, <1>12, <1>13 DEF Apart

(* The calls that copy are those about queues.                              *)
CopyingStep(t) ==
  \E c : /\ Goes(t, c) /\ kind = "mq"
         /\ c \in {NoCall, [NoCall EXCEPT !.at = "resched"]} \/ \E op, b : c = Copies(op, b) /\ KindOf(op) = "mq"
LEMMA CopyingOwned ==
  ASSUME CallsOK, OwnCalls, kind' = kind, NEW t \in Threads, CopyingStep(t)
  PROVE  OwnCalls'
<1>1. PICK c : /\ Goes(t, c) /\ kind = "mq"
               /\ c \in {NoCall, [NoCall EXCEPT !.at = "resched"]} \/ \E op, b : c = Copies(op, b) /\ KindOf(op) = "mq"
  BY DEF CopyingStep
<1>2. call'[t] = c /\ \A u \in Threads \ {t} : call'[u] = call[u]
  BY <1>1 DEF Goes, CallsOK
<1>3. Owned(c)
  <2>1. ASSUME NEW op, NEW b, c = Copies(op, b), KindOf(op) = "mq" PROVE Owned(c)
    <3>1. c.op = op
      BY <2>1 DEF Copies
    <3> QED BY <1>1, <2>1, <3>1 DEF Owned
  <2>2. ASSUME c \in {NoCall, [NoCall EXCEPT !.at = "resched"]} PROVE Owned(c)
    <3> DEFINE d == [NoCall EXCEPT !.at = "resched"]
    <3>1. NoCall.op = "none" /\ d.op = "none"
      BY NoCallIdle
    <3> HIDE DEF d
    <3> QED BY <2>2, <3>1 DEF d, Owned, ThreadOps
  <2> QED BY <1>1, <2>1, <2>2
<1> QED BY <1>1, <1>2, <1>3 DEF OwnCalls, Owned

LEMMA MqCopies ==
  ASSUME OwnCalls, NEW t \in Threads, MqSend(t) \/ MqLink(t) \/ MqFree(t) \/ MqRecv(t)
  PROVE  CopyingStep(t) \/ Ordinary(t)
<1>1. CASE MqSend(t)
  <2>1. PICK op \in {"mq_send", "mq_urgent"} : Uses(t, "mq") /\ Goes(t, Copies(op, mq.free))
    BY <1>1 DEF MqSend, Copies
  <2>2. kind = "mq" /\ KindOf(op) = "mq"
    BY <2>1, CallAt, Kinds_
  <2> QED BY <2>1, <2>2 DEF CopyingStep
<1>2. CASE MqLink(t) \/ MqFree(t)
  <2>1. call[t].at = "copy" /\ (Wakes(t, "recv") \/ Goes(t, NoCall))
    BY <1>2 DEF MqLink, MqFree
  <2>2. kind = "mq"
    BY <2>1 DEF OwnCalls
  <2>3. Goes(t, NoCall) \/ Goes(t, [NoCall EXCEPT !.at = "resched"])
    BY <2>1, WakesOrdinary DEF Reschedules
  <2> QED BY <2>2, <2>3 DEF CopyingStep
<1>3. CASE MqRecv(t)
  <2>1. PICK time \in Waits[kind] :
          /\ Tries(t, "mq", "mq_recv", NULL, time)
          /\ \/ Goes(t, Copies("mq_recv", mq.head))
             \/ Goes(t, NoCall) \/ Goes(t, Blocked("mq_recv", time, NULL))
    BY <1>3 DEF MqRecv, Copies
  <2>2. call[t].at # "copy" /\ kind = "mq"
    BY <2>1, CallAt, Kinds_
  <2> QED BY <2>1, <2>2, Kinds_ DEF CopyingStep, Ordinary
<1> QED BY <1>1, <1>2, <1>3

LEMMA OwnCallsNext ==
  ASSUME CallsOK, OwnCalls, [IpcNext]_ipc_vars
  PROVE  OwnCalls'
<1>1. kind' = kind
  BY KindStays
<1>2. CASE UNCHANGED ipc_vars
  <2>1. UNCHANGED call
    BY <1>2 DEF ipc_vars, kernel_vars
  <2> QED BY <1>1, <2>1, SamePasses
<1>3. CASE Kernel
  BY <1>3, KernelPasses
<1>4. CASE Handler
  <2>1. UNCHANGED call
    BY <1>4 DEF Handler, SemRelease, EventSend, MqSendIsr, MpFree, Wakes, kernel_vars
  <2> QED BY <1>1, <2>1, SamePasses
<1>5. ASSUME NEW t \in Threads, Apart(t) PROVE OwnCalls'
  BY <1>1, <1>5, ElsewhereOrdinary, OrdinaryOn
<1>6. ASSUME NEW t \in Threads, Reset(t) PROVE OwnCalls'
  <2>1. call[t].at # "copy" /\ Reschedules(t)
    BY <1>6, CallAt DEF Reset
  <2> QED BY <1>1, <2>1, NeverCopied, OrdinaryOn
<1>7. ASSUME NEW t \in Threads, MqSend(t) \/ MqLink(t) \/ MqFree(t) \/ MqRecv(t) PROVE OwnCalls'
  BY <1>1, <1>7, MqCopies, CopyingOwned, OrdinaryOn
<1> QED BY <1>2, <1>3, <1>4, <1>5, <1>6, <1>7 DEF IpcNext, Calling, Finishing, Apart

(***************************************************************************)
(* The queue, the free list and those who copy have all the blocks between *)
(* them.                                                                   *)
(***************************************************************************)
Held == {call[t].arg : t \in Copying}
HeldOnce == \A t, u \in Copying : call[t].arg = call[u].arg => t = u
MqInv == HeldOnce /\ \E ms, fs : Holds(mq, ms, fs, Held)

Begins(t, b) ==
  /\ call[t].at # "copy" /\ call'[t].at = "copy" /\ call'[t].arg = b
  /\ \A u \in Threads \ {t} : call'[u] = call[u]
Finishes(t) ==
  /\ call[t].at = "copy" /\ call'[t].at # "copy"
  /\ \A u \in Threads \ {t} : call'[u] = call[u]

LEMMA CopiesHeld ==
  ASSUME CopiesOn
  PROVE  Held' = Held /\ (HeldOnce => HeldOnce')
<1>1. Copying' = Copying
  BY DEF CopiesOn, Copying
<1>2. \A t \in Copying : t \in Threads /\ call'[t].arg = call[t].arg
  BY DEF CopiesOn, Copying
<1>3. Held' = {call'[t].arg : t \in Copying}
  BY <1>1 DEF Held
<1>4. Held' = Held
  BY <1>2, <1>3 DEF Held
<1>5. HeldOnce => HeldOnce'
  BY <1>1, <1>2 DEF HeldOnce
<1> QED BY <1>4, <1>5

LEMMA BeginsHeld ==
  ASSUME NEW t \in Threads, NEW b, b \notin Held, Begins(t, b), HeldOnce
  PROVE  Held' = Held \cup {b} /\ HeldOnce'
<1>1. Copying' = Copying \cup {t} /\ t \notin Copying
  BY DEF Begins, Copying
<1>2. \A u \in Copying : u \in Threads \ {t} /\ call'[u].arg = call[u].arg
  BY DEF Begins, Copying
<1>3. call'[t].arg = b
  BY DEF Begins
<1>4. Held' = {call'[u].arg : u \in Copying \cup {t}}
  BY <1>1 DEF Held
<1>5. Held' = Held \cup {b}
  BY <1>2, <1>3, <1>4 DEF Held
<1>6. \A u \in Copying : call[u].arg # b
  BY DEF Held
<1>7. HeldOnce'
  BY <1>1, <1>2, <1>3, <1>6 DEF HeldOnce
<1> QED BY <1>5, <1>7

LEMMA FinishesHeld ==
  ASSUME NEW t \in Threads, Finishes(t), HeldOnce
  PROVE  /\ call[t].arg \in Held /\ Held' = Held \ {call[t].arg} /\ HeldOnce'
<1>1. Copying' = Copying \ {t} /\ t \in Copying
  BY DEF Finishes, Copying
<1>2. \A u \in Copying \ {t} : u \in Threads \ {t} /\ call'[u].arg = call[u].arg
  BY DEF Finishes, Copying
<1>3. \A u \in Copying \ {t} : call[u].arg # call[t].arg
  BY <1>1 DEF HeldOnce
<1>4. Held' = {call'[u].arg : u \in Copying \ {t}}
  BY <1>1 DEF Held
<1>5. Held' = Held \ {call[t].arg} /\ call[t].arg \in Held
  BY <1>1, <1>2, <1>3, <1>4 DEF Held
<1>6. HeldOnce'
  BY <1>1, <1>2 DEF HeldOnce
<1> QED BY <1>5, <1>6

LEMMA SendsBegins ==
  ASSUME CallsOK, NEW t \in Threads, NEW op, NEW b, call[t].at # "copy", Goes(t, Copies(op, b))
  PROVE  Begins(t, b)
<1>1. call'[t] = Copies(op, b) /\ \A u \in Threads \ {t} : call'[u] = call[u]
  BY DEF Goes, CallsOK
<1>2. Copies(op, b).at = "copy" /\ Copies(op, b).arg = b
  BY DEF Copies
<1> QED BY <1>1, <1>2 DEF Begins

LEMMA ReturnFinishes ==
  ASSUME CallsOK, NEW t \in Threads, call[t].at = "copy", Goes(t, NoCall) \/ Reschedules(t)
  PROVE  Finishes(t)
<1>1. PICK c \in {NoCall, [NoCall EXCEPT !.at = "resched"]} : Goes(t, c)
  BY DEF Reschedules
<1>2. c.at # "copy"
  <2>1. NoCall.at # "copy" /\ [NoCall EXCEPT !.at = "resched"].at # "copy"
    BY NoCallIdle
  <2> QED BY <2>1
<1>3. call'[t] = c /\ \A u \in Threads \ {t} : call'[u] = call[u]
  BY <1>1 DEF Goes, CallsOK
<1> QED BY <1>2, <1>3 DEF Finishes

(* What a step can do to the queue.                                         *)
MqMove(t) ==
  \/ mq.free # NULL /\ mq' = taken_free /\ Begins(t, mq.free)
  \/ /\ Finishes(t)
     /\ mq' \in {linked_last(call[t].arg), linked_first(call[t].arg), returned_to(mq, call[t].arg)}
  \/ mq.entry # 0 /\ mq' = unlinked /\ Begins(t, mq.head)
MqSends ==
  /\ mq.free # NULL
  /\ \E first \in BOOLEAN :
       mq' = [(IF first THEN linked_first(mq.free) ELSE linked_last(mq.free))
                EXCEPT !.free = mq.next[mq.free]]
LEMMA MqMoves ==
  ASSUME CallsOK, OwnCalls, [IpcNext]_ipc_vars
  PROVE  \/ CopiesOn /\ (UNCHANGED mq \/ MqSends \/ mq_reset)
         \/ \E t \in Threads : MqMove(t)
<1>1. CASE UNCHANGED ipc_vars
  <2>1. UNCHANGED call /\ UNCHANGED mq
    BY <1>1 DEF ipc_vars, kernel_vars, objects
  <2> QED BY <2>1, SamePasses
<1>2. CASE Kernel
  BY <1>2, KernelPasses
<1>3. CASE Handler
  <2>1. UNCHANGED call /\ (UNCHANGED mq \/ MqSends)
    <3>1. SemRelease(NULL) => UNCHANGED <<call, mq>>
      BY DEF SemRelease, kernel_vars
    <3>2. EventSend(NULL) => UNCHANGED <<call, mq>>
      BY DEF EventSend, kernel_vars
    <3>3. Wakes(NULL, "recv") => UNCHANGED call
      BY DEF Wakes, kernel_vars
    <3>4. MqSendIsr => UNCHANGED call /\ MqSends
      BY <3>3 DEF MqSendIsr, MqSends
    <3>5. MpFree(NULL) => UNCHANGED <<call, mq>>
      BY <3>3 DEF MpFree, kernel_vars
    <3> HIDE DEF MqSends
    <3> QED BY <1>3, <3>1, <3>2, <3>3, <3>4, <3>5 DEF Handler
  <2> QED BY <2>1, SamePasses
<1>4. ASSUME NEW t \in Threads, Apart(t) PROVE CopiesOn /\ UNCHANGED mq
  BY <1>4, ElsewhereOrdinary, OrdinaryOn
<1>5. ASSUME NEW t \in Threads, Reset(t) PROVE CopiesOn /\ (UNCHANGED mq \/ mq_reset)
  <2>1. call[t].at # "copy" /\ Reschedules(t)
    BY <1>5, CallAt DEF Reset
  <2>2. UNCHANGED mq \/ mq_reset
    BY <1>5 DEF Reset, sem_reset, event_reset, mb_reset
  <2> QED BY <2>1, <2>2, NeverCopied, OrdinaryOn
<1>6. ASSUME NEW t \in Threads, MqSend(t) PROVE MqMove(t)
  <2>1. PICK op : Uses(t, "mq") /\ mq.free # NULL /\ mq' = taken_free /\ Goes(t, Copies(op, mq.free))
    BY <1>6 DEF MqSend, Copies
  <2>2. Begins(t, mq.free)
    BY <2>1, CallAt, SendsBegins
  <2> QED BY <2>1, <2>2 DEF MqMove
<1>7. ASSUME NEW t \in Threads, MqLink(t) PROVE MqMove(t)
  <2>1. call[t].at = "copy" /\ mq' \in {linked_last(call[t].arg), linked_first(call[t].arg)} /\ Wakes(t, "recv")
    BY <1>7 DEF MqLink
  <2>2. Finishes(t)
    BY <2>1, WakesOrdinary, ReturnFinishes
  <2> QED BY <2>1, <2>2 DEF MqMove
<1>8. ASSUME NEW t \in Threads, MqFree(t) PROVE MqMove(t)
  <2>1. call[t].at = "copy" /\ mq' = returned_to(mq, call[t].arg) /\ Goes(t, NoCall)
    BY <1>8 DEF MqFree
  <2>2. Finishes(t)
    BY <2>1, ReturnFinishes
  <2> QED BY <2>1, <2>2 DEF MqMove
<1>9. ASSUME NEW t \in Threads, MqRecv(t) PROVE MqMove(t) \/ (CopiesOn /\ UNCHANGED mq)
  <2>1. PICK time \in Waits[kind] :
          /\ Tries(t, "mq", "mq_recv", NULL, time)
          /\ \/ mq.entry # 0 /\ mq' = unlinked /\ Goes(t, Copies("mq_recv", mq.head))
             \/ UNCHANGED mq /\ (Goes(t, NoCall) \/ Goes(t, Blocked("mq_recv", time, NULL)))
    BY <1>9 DEF MqRecv, Copies
  <2>2. call[t].at # "copy" /\ kind = "mq"
    BY <2>1, CallAt, Kinds_
  <2>3. CASE mq.entry # 0 /\ mq' = unlinked /\ Goes(t, Copies("mq_recv", mq.head))
    BY <2>2, <2>3, SendsBegins DEF MqMove
  <2>4. CASE UNCHANGED mq /\ (Goes(t, NoCall) \/ Goes(t, Blocked("mq_recv", time, NULL)))
    <3>1. Ordinary(t)
      BY <2>2, <2>4, Kinds_ DEF Ordinary
    <3> QED BY <2>4, <3>1, OrdinaryOn
  <2> QED BY <2>1, <2>3, <2>4
<1> QED BY <1>1, <1>2, <1>3, <1>4, <1>5, <1>6, <1>7, <1>8, <1>9 DEF IpcNext, Calling, Finishing, Apart

LEMMA MqNext ==
  ASSUME CallsOK, OwnCalls, MqInv, [IpcNext]_ipc_vars
  PROVE  MqInv'
<1>0. PICK ms, fs : Holds(mq, ms, fs, Held) /\ HeldOnce
  BY DEF MqInv
<1>1. CASE CopiesOn /\ (UNCHANGED mq \/ MqSends \/ mq_reset)
  <2>1. Held' = Held /\ HeldOnce'
    BY <1>0, <1>1, CopiesHeld
  <2>2. CASE UNCHANGED mq
    BY <1>0, <2>1, <2>2 DEF MqInv
  <2>3. CASE mq_reset
    <3>1. \E gs : Holds(mq', <<>>, gs, Held)
      BY <1>0, <2>3, QueueReset
    <3> QED BY <2>1, <3>1 DEF MqInv
  <2>4. CASE MqSends
    <3> DEFINE b == mq.free
               q == [mq EXCEPT !.free = mq.next[mq.free]]
               H == Held \cup {b}
               gs == Tail(fs)
    <3>1. Holds(q, ms, gs, H) /\ b \in Blocks \ Held
      BY <1>0, <2>4, TakesBlock DEF MqSends
    <3>2. mq = Queue_(mq.next, mq.free, mq.head, mq.tail, mq.entry)
      BY <1>0, HeldFacts
    <3>3. H \ {b} = Held /\ b \in H
      BY <3>1
    <3> DEFINE nx == [q.next EXCEPT ![b] = NULL]
               last == [q EXCEPT !.next = IF q.tail = NULL THEN nx ELSE [nx EXCEPT ![q.tail] = b],
                                 !.tail = b, !.head = IF @ = NULL THEN b ELSE @, !.entry = @ + 1]
               first == [q EXCEPT !.next[b] = q.head, !.head = b,
                                  !.tail = IF @ = NULL THEN b ELSE @, !.entry = @ + 1]
    <3>4. mq' = last \/ mq' = first
      BY <2>4, <3>2 DEF MqSends, linked_first, linked_last, Queue_
    <3> HIDE DEF b, q, H, gs
    <3>5. Holds(last, Append(ms, b), gs, H \ {b})
      BY <3>1, <3>3, LinksLast
    <3>6. Holds(first, <<b>> \o ms, gs, H \ {b})
      BY <3>1, <3>3, LinksFirst
    <3> HIDE DEF last, first
    <3> QED BY <2>1, <3>3, <3>4, <3>5, <3>6 DEF MqInv
  <2> QED BY <1>1, <2>2, <2>3, <2>4
<1>2. ASSUME NEW t \in Threads, MqMove(t) PROVE MqInv'
  <2>1. CASE mq.free # NULL /\ mq' = taken_free /\ Begins(t, mq.free)
    <3>1. Holds(mq', ms, Tail(fs), Held \cup {mq.free}) /\ mq.free \in Blocks \ Held
      BY <1>0, <2>1, TakesBlock DEF taken_free
    <3>2. Held' = Held \cup {mq.free} /\ HeldOnce'
      BY <1>0, <2>1, <3>1, BeginsHeld
    <3> QED BY <3>1, <3>2 DEF MqInv
  <2>2. CASE mq.entry # 0 /\ mq' = unlinked /\ Begins(t, mq.head)
    <3>1. Holds(mq', Tail(ms), fs, Held \cup {mq.head}) /\ mq.head \in Blocks \ Held
      BY <1>0, <2>2, TakesMessage DEF unlinked
    <3>2. Held' = Held \cup {mq.head} /\ HeldOnce'
      BY <1>0, <2>2, <3>1, BeginsHeld
    <3> QED BY <3>1, <3>2 DEF MqInv
  <2>3. ASSUME Finishes(t),
               mq' \in {linked_last(call[t].arg), linked_first(call[t].arg), returned_to(mq, call[t].arg)}
        PROVE  MqInv'
    <3> DEFINE b == call[t].arg
    <3>1. b \in Held /\ Held' = Held \ {b} /\ HeldOnce'
      BY <1>0, <2>3, FinishesHeld
    <3> HIDE DEF b
    <3>2. CASE mq' = linked_last(b)
      <4> DEFINE nx == [mq.next EXCEPT ![b] = NULL]
      <4>1. mq' = [mq EXCEPT !.next = IF mq.tail = NULL THEN nx ELSE [nx EXCEPT ![mq.tail] = b],
                             !.tail = b, !.head = IF @ = NULL THEN b ELSE @, !.entry = @ + 1]
        BY <3>2 DEF linked_last
      <4>2. Holds(mq', Append(ms, b), fs, Held \ {b})
        BY <1>0, <3>1, <4>1, LinksLast
      <4> QED BY <3>1, <4>2 DEF MqInv
    <3>3. CASE mq' = linked_first(b)
      <4>1. Holds(mq', <<b>> \o ms, fs, Held \ {b})
        BY <1>0, <3>1, <3>3, LinksFirst DEF linked_first
      <4> QED BY <3>1, <4>1 DEF MqInv
    <3>4. CASE mq' = returned_to(mq, b)
      <4>1. Holds(mq', ms, <<b>> \o fs, Held \ {b})
        BY <1>0, <3>1, <3>4, Returns
      <4> QED BY <3>1, <4>1 DEF MqInv
    <3> QED BY <2>3, <3>2, <3>3, <3>4 DEF b
  <2> QED BY <1>2, <2>1, <2>2, <2>3 DEF MqMove
<1> QED BY <1>1, <1>2, MqMoves

(* Before the first call every block is free.                               *)
LEMMA AllFree ==
  ASSUME NEW s, Listing(s), ToSet(s) = Blocks
  PROVE  Chain(Chained(s), After(s, 0), s) /\ Chained(s) \in [Blocks -> Link]
<1> DEFINE n == Len(s)
           at(b) == CHOOSE j \in DOMAIN s : s[j] = b
<1>1. /\ n \in Nat /\ DOMAIN s = 1 .. n
      /\ \A i \in 1 .. n : s[i] \in Blocks
      /\ \A i, j \in 1 .. n : s[i] = s[j] => i = j
      /\ \A b \in Blocks : \E i \in 1 .. n : s[i] = b
  BY Listed_
<1>2. \A b \in Blocks : Chained(s)[b] = After(s, at(b))
  BY DEF Chained, After
<1>3. \A b \in Blocks : at(b) \in 1 .. n /\ s[at(b)] = b
  BY <1>1
<1> HIDE DEF at
<1>4. \A i \in 1 .. n : at(s[i]) = i
  BY <1>1, <1>3
<1>5. \A i \in 1 .. n : Chained(s)[s[i]] = After(s, i)
  BY <1>1, <1>2, <1>4
<1>6. \A b \in Blocks : After(s, at(b)) \in Link
  <2> SUFFICES ASSUME NEW b \in Blocks PROVE After(s, at(b)) \in Link
    OBVIOUS
  <2> DEFINE i == at(b)
  <2>1. i \in 1 .. n
    BY <1>3
  <2> HIDE DEF i
  <2>2. i # n => i + 1 \in 1 .. n
    <3>1. n \in Nat /\ i \in 1 .. n
      BY <1>1, <2>1
    <3> HIDE DEF n
    <3> QED BY <3>1
  <2>3. i # n => s[i + 1] \in Blocks
    BY <1>1, <2>2
  <2> QED BY <2>3 DEF After, Link, i
<1>7. Chained(s) \in [Blocks -> Link]
  <2>1. Chained(s) = [b \in Blocks |-> Chained(s)[b]]
    BY DEF Chained
  <2>2. \A b \in Blocks : Chained(s)[b] \in Link
    BY <1>2, <1>6
  <2> DEFINE c == Chained(s)
  <2> HIDE DEF c
  <2>3. c = [b \in Blocks |-> c[b]] /\ \A b \in Blocks : c[b] \in Link
    BY <2>1, <2>2 DEF c
  <2>4. c \in [Blocks -> Link]
    BY <2>3
  <2> QED BY <2>4 DEF c
<1> QED BY <1>5, <1>7 DEF Chain

LEMMA MqFirst ==
  ASSUME IpcInit
  PROVE  MqInv /\ OwnCalls
<1> DEFINE K == IF kind \in {"thread", "mutex"} THEN Threads ELSE Threads \ Spare
           s == SetToSeq(Blocks)
<1>1. KernelInit(K) /\ mq = NewMq
  BY DEF IpcInit
<1>2. \A t \in Threads : call[t] = NoCall
  BY <1>1 DEF KernelInit
<1>3. Copying = {} /\ OwnCalls
  BY <1>2 DEF NoCall, Copying, OwnCalls, Owned, ThreadOps
<1>4. Held = {} /\ HeldOnce
  BY <1>3 DEF Held, HeldOnce
<1>5. IsFiniteSet(Blocks) /\ Blocks # {}
  BY IpcAssumption
<1>6. Listing(s) /\ ToSet(s) = Blocks
  BY <1>5, ListsSet DEF Listing
<1>7. mq = Queue_(Chained(s), Head(s), NULL, NULL, 0)
  BY <1>1 DEF NewMq, Queue_
<1> HIDE DEF s
<1>8. s \in Seq(Blocks) /\ s # <<>> /\ Head(s) = After(s, 0) /\ Head(s) \in Link
  <2>1. s \in Seq(Blocks)
    BY <1>6, Listed_
  <2>2. s # <<>>
    BY <1>5, <1>6 DEF ToSet
  <2>3. Len(s) # 0 /\ Head(s) = s[0 + 1] /\ Head(s) \in Blocks
    BY <2>1, <2>2
  <2> QED BY <2>1, <2>2, <2>3 DEF After, Link
<1> DEFINE nx == Chained(s)
           e == <<>>
<1>9. Chain(nx, Head(s), s) /\ nx \in [Blocks -> Link]
  BY <1>6, <1>8, AllFree
<1>10. Listing(e) /\ Len(e) = 0 /\ ToSet(e) = {}
  BY DEF Listing, IsInjective, ToSet
<1> HIDE DEF nx
<1>11. Chain(nx, NULL, e)
  BY DEF Chain, After
<1>12. Split(e, s, {})
  BY <1>6, <1>10 DEF Split
<1>13. NULL = (IF e = <<>> THEN NULL ELSE e[Len(e)]) /\ NULL \in Link
  BY DEF Link
<1> HIDE DEF e
<1> DEFINE hd == Head(s)
<1>14. hd \in Link /\ Chain(nx, hd, s)
  BY <1>8, <1>9
<1> HIDE DEF hd
<1>15. Holds(Queue_(nx, hd, NULL, NULL, Len(e)), e, s, {})
  BY <1>6, <1>9, <1>10, <1>11, <1>12, <1>13, <1>14, HoldsAgain
<1>16. Holds(mq, e, s, Held)
  BY <1>4, <1>7, <1>10, <1>15 DEF nx, hd
<1> QED BY <1>3, <1>4, <1>16 DEF MqInv

(* MqChained reads the lists from the links, and counts them.               *)
LEMMA MqCounts ==
  ASSUME NEW ms, NEW fs, Holds(mq, ms, fs, Held), HeldOnce
  PROVE  /\ Cardinality(Held) = Cardinality(Copying)
         /\ Len(ms) + Cardinality(Held) + Cardinality(ToSet(fs)) = Cardinality(Blocks)
<1>1. Listing(ms) /\ Listing(fs) /\ Split(ms, fs, Held)
  BY DEF Holds, Queued_
<1> DEFINE M == ToSet(ms)
           F == ToSet(fs)
<1>2. IsFiniteSet(M) /\ Cardinality(M) = Len(ms) /\ IsFiniteSet(F)
  BY <1>1, LongAsMany
<1> HIDE DEF M, F
<1>3. M \cap F = {} /\ Held \cap M = {} /\ Held \cap F = {} /\ M \cup F \cup Held = Blocks
  BY <1>1 DEF Split, M, F
<1>4. Copying \subseteq Threads /\ IsFiniteSet(Copying)
  BY KernelAssumption, FS_Subset DEF Copying
<1> DEFINE f == [t \in Copying |-> call[t].arg]
<1>5. f \in Bijection(Copying, Held)
  <2>1. f \in [Copying -> Held] /\ \A t \in Copying : f[t] = call[t].arg
    BY DEF Held
  <2>2. \A b \in Held : \E t \in Copying : f[t] = b
    BY <2>1 DEF Held
  <2>3. \A t, u \in Copying : f[t] = f[u] => t = u
    BY <2>1 DEF HeldOnce
  <2> HIDE DEF f
  <2> QED BY <2>1, <2>2, <2>3 DEF Bijection, Injection, Surjection, IsInjective
<1>5a. ExistsBijection(Copying, Held)
  BY <1>5 DEF ExistsBijection
<1> HIDE DEF f
<1>6. IsFiniteSet(Held) /\ Cardinality(Held) = Cardinality(Copying)
  BY <1>4, <1>5a, FS_Bijection
<1>7. /\ IsFiniteSet(M \cup F)
      /\ Cardinality(M \cup F) = Cardinality(M) + Cardinality(F) - Cardinality(M \cap F)
  BY <1>2, FS_Union
<1> DEFINE U == M \cup F
<1>8. Cardinality(U \cup Held) = Cardinality(U) + Cardinality(Held) - Cardinality(U \cap Held)
  BY <1>6, <1>7, FS_Union
<1>9. M \cap F = {} /\ U \cap Held = {} /\ U \cup Held = Blocks
  BY <1>3
<1>10. Cardinality({}) = 0
  BY FS_EmptySet
<1>11. Cardinality(U) = Cardinality(M) + Cardinality(F) - 0
  BY <1>7, <1>9, <1>10
<1>12. Cardinality(Blocks) = Cardinality(U) + Cardinality(Held) - 0
  BY <1>8, <1>9, <1>10
<1> DEFINE a == Cardinality(M)
           b == Cardinality(F)
           c == Cardinality(Held)
           d == Cardinality(U)
           n == Cardinality(Blocks)
<1>13. a \in Nat /\ b \in Nat /\ c \in Nat /\ d = a + b - 0 /\ n = d + c - 0
  BY <1>2, <1>6, <1>11, <1>12, FS_CardinalityType
<1> HIDE DEF a, b, c, d, n
<1>14. a + c + b = n
  BY <1>13
<1> QED BY <1>2, <1>6, <1>14 DEF a, b, c, n, F

LEMMA MqIsChained ==
  ASSUME MqInv
  PROVE  MqChained /\ mq.entry \in 0 .. Cardinality(Blocks) /\ {mq.head, mq.tail, mq.free} \subseteq Link
<1>1. PICK ms, fs : Holds(mq, ms, fs, Held) /\ HeldOnce
  BY DEF MqInv
<1> DEFINE n == Len(ms)
<1>2. messages = ms /\ FreeChain = ToSet(fs)
  BY <1>1, MessagesFound, FreeFound
<1>3. /\ mq \in QueueData /\ Listing(ms) /\ Listing(fs) /\ Chain(mq.next, mq.head, ms)
      /\ mq.tail = (IF ms = <<>> THEN NULL ELSE ms[n]) /\ mq.entry = n
      /\ Split(ms, fs, Held)
  BY <1>1 DEF Holds, Queued_
<1>4. /\ n \in Nat /\ (n = 0 <=> ms = <<>>) /\ DOMAIN ms = 1 .. n
      /\ n <= Cardinality(Blocks) /\ Cardinality(Blocks) \in Nat /\ Cardinality(ToSet(ms)) = n
  BY <1>3, Listed_, LongAsMany
<1>5. mq.head = NULL <=> ms = <<>>
  BY <1>3, ChainNone
<1>6. n > 0 => mq.tail = ms[n] /\ mq.next[mq.tail] = NULL
  <2> HAVE n > 0
  <2>1. mq.tail = ms[n] /\ n \in 1 .. n
    BY <1>3, <1>4
  <2>2. mq.next[ms[n]] = After(ms, n)
    BY <1>3, <2>1 DEF Chain
  <2> QED BY <2>1, <2>2 DEF After
<1>7. {ms[i] : i \in DOMAIN ms} = ToSet(ms) /\ {call[t].arg : t \in Copying} = Held
  BY DEF ToSet, Held
<1>8. ToSet(ms) \cup Held \cup ToSet(fs) = Blocks
  BY <1>3 DEF Split
<1>9. /\ Cardinality(Held) = Cardinality(Copying)
      /\ n + Cardinality(Held) + Cardinality(ToSet(fs)) = Cardinality(Blocks)
  BY <1>1, MqCounts
<1>10. mq.entry \in 0 .. Cardinality(Blocks) /\ {mq.head, mq.tail, mq.free} \subseteq Link
  BY <1>3, <1>4 DEF QueueData
<1> HIDE DEF n
<1> QED BY <1>2, <1>3, <1>4, <1>5, <1>6, <1>7, <1>8, <1>9, <1>10 DEF MqChained

(***************************************************************************)
(* Bounds of the values the calls count with.                              *)
(***************************************************************************)
Bounded ==
  /\ flag \in {"FIFO", "PRIO"} /\ alive \in BOOLEAN /\ sem \in 0 .. SemMax
  /\ \A m \in Mutexes : mutex[m].hold <= MaxHold

LEMMA BoundedFirst ==
  ASSUME IpcInit
  PROVE  Bounded
<1>1. sem = SemInit /\ mutex = [m \in Mutexes |-> FreeMutex]
  BY DEF IpcInit
<1>2. SemInit \in 0 .. SemMax /\ MaxHold \in Nat
  BY IpcAssumption
<1>3. \A m \in Mutexes : mutex[m].hold <= MaxHold
  BY <1>1, <1>2 DEF FreeMutex
<1> QED BY <1>1, <1>2, <1>3 DEF IpcInit, Bounded

SemMoves ==
  \/ UNCHANGED sem \/ (sem > 0 /\ sem' = sem - 1)
  \/ (sem < SemMax /\ sem' = sem + 1) \/ sem' \in 0 .. SemInit
HoldMoves ==
  \/ UNCHANGED mutex
  \/ \E m \in Mutexes : \E x : mutex' = [mutex EXCEPT ![m] = x] /\ x.hold \in {0, 1}
  \/ \E m \in Mutexes : mutex[m].hold < MaxHold /\ mutex' = [mutex EXCEPT ![m].hold = @ + 1]
  \/ \E m \in Mutexes : mutex[m].hold > 1 /\ mutex' = [mutex EXCEPT ![m].hold = @ - 1]

LEMMA ValuesMove ==
  ASSUME [IpcNext]_ipc_vars
  PROVE  UNCHANGED flag /\ (UNCHANGED alive \/ alive' = FALSE) /\ SemMoves /\ HoldMoves
<1> DEFINE A == UNCHANGED flag /\ (UNCHANGED alive \/ alive' = FALSE)
           M == A /\ SemMoves /\ HoldMoves
           S == UNCHANGED <<flag, alive, sem, mutex>>
<1>1. S => M
  BY DEF SemMoves, HoldMoves
<1>2. ASSUME NEW by, SemRelease(by) PROVE M
  BY <1>2 DEF SemRelease, released, SemMoves, HoldMoves
<1>3. ASSUME NEW t, SemTake(t) PROVE M
  <2>1. A /\ UNCHANGED mutex
    BY <1>3 DEF SemTake
  <2>2. UNCHANGED sem \/ (sem > 0 /\ sem' = sem - 1)
    BY <1>3 DEF SemTake
  <2> QED BY <2>1, <2>2 DEF SemMoves, HoldMoves
<1>4. ASSUME NEW t, MutexTake(t) PROVE M
  <2>1. A /\ UNCHANGED sem
    BY <1>4 DEF MutexTake
  <2>2. PICK m \in Mutexes :
          \/ UNCHANGED mutex
          \/ mutex[m].hold < MaxHold /\ mutex' = [mutex EXCEPT ![m].hold = @ + 1]
          \/ mutex' = [mutex EXCEPT ![m] = [value |-> mutex[m].value - 1, owner |-> t, hold |-> 1,
                                            original_priority |-> k.prio[t]]]
    BY <1>4 DEF MutexTake
  <2> DEFINE x == [value |-> mutex[m].value - 1, owner |-> t, hold |-> 1,
                   original_priority |-> k.prio[t]]
  <2>3. x.hold \in {0, 1}
    OBVIOUS
  <2>4. mutex' = [mutex EXCEPT ![m] = x] => HoldMoves
    BY <2>3 DEF HoldMoves
  <2> QED BY <2>1, <2>2, <2>4 DEF SemMoves, HoldMoves
<1>5. ASSUME NEW t, MutexRelease(t) PROVE M
  <2>1. A /\ UNCHANGED sem
    BY <1>5 DEF MutexRelease
  <2>2. PICK m \in Mutexes :
          \/ UNCHANGED mutex
          \/ mutex[m].hold > 1 /\ mutex' = [mutex EXCEPT ![m].hold = @ - 1]
          \/ mutex' = [mutex EXCEPT ![m] = FreeMutex]
          \/ \E kk, w : mutex' = [mutex EXCEPT ![m] = heir_state(kk, m, w)]
    BY <1>5 DEF MutexRelease
  <2>3. FreeMutex.hold \in {0, 1} /\ \A kk, w : heir_state(kk, m, w).hold \in {0, 1}
    BY DEF FreeMutex, heir_state
  <2>4. HoldMoves
    BY <2>2, <2>3 DEF HoldMoves
  <2> QED BY <2>1, <2>4 DEF SemMoves
<1>6. ASSUME NEW t, Reset(t) PROVE M
  <2>1. A /\ UNCHANGED mutex
    BY <1>6 DEF Reset
  <2>2. UNCHANGED sem \/ sem' \in 0 .. SemInit
    BY <1>6 DEF Reset, sem_reset, event_reset, mb_reset, mq_reset
  <2> QED BY <2>1, <2>2 DEF SemMoves, HoldMoves
<1>7. ASSUME NEW t, DetachStep(t) PROVE M
  <2>1. A /\ UNCHANGED <<sem, mutex>>
    BY <1>7 DEF DetachStep
  <2> QED BY <2>1 DEF SemMoves, HoldMoves
<1> HIDE DEF M
<1>8. ASSUME NEW t \in Threads, Calling(t) PROVE M
  <2>1. EventRecv(t) \/ EventSend(t) \/ MqSend(t) \/ MqRecv(t) => S
    BY DEF EventRecv, EventSend, MqSend, MqRecv
  <2>2. MbSend(t) \/ MbRecv(t) => S
    BY DEF MbSend, MbRecv
  <2>3. MpAlloc(t) \/ MpFree(t) \/ Detach(t) => S
    BY DEF MpAlloc, MpFree, Detach, objects
  <2> QED BY <1>1, <1>2, <1>3, <1>4, <1>5, <1>6, <1>8, <2>1, <2>2, <2>3 DEF Calling
<1>9. ASSUME NEW t \in Threads, Finishing(t) PROVE M
  <2>1. ~DetachStep(t) => S
    BY <1>9 DEF Finishing, SemTaken, MutexTaken, EventReceived, MbGivesUp, MqGivesUp,
                MpGivesUp, MqLink, MqFree, objects
  <2> QED BY <1>1, <1>7, <2>1
<1>10. Kernel => S
  BY DEF Kernel, objects
<1>11. Handler => M
  BY <1>1, <1>2 DEF Handler, EventSend, MqSendIsr, MpFree
<1>12. UNCHANGED ipc_vars => S
  BY DEF ipc_vars, objects
<1>13. M
  BY <1>1, <1>8, <1>9, <1>10, <1>11, <1>12 DEF IpcNext
<1> QED BY <1>13 DEF M

LEMMA BoundedNext ==
  ASSUME IInv, Bounded, [IpcNext]_ipc_vars
  PROVE  Bounded'
<1>1. UNCHANGED flag /\ (UNCHANGED alive \/ alive' = FALSE) /\ SemMoves /\ HoldMoves
  BY ValuesMove
<1>2. SemInit \in 0 .. SemMax /\ SemMax \in Nat /\ MaxHold \in Nat \ {0}
  BY IpcAssumption
<1>3. sem \in 0 .. SemMax /\ \A m \in Mutexes : mutex[m].hold <= MaxHold
  BY DEF Bounded
<1>4. sem' \in 0 .. SemMax
  BY <1>1, <1>2, <1>3 DEF SemMoves
<1>5. mutex \in [Mutexes -> MutexData]
  BY DEF IInv, ObjectsOK
<1>6. \A m \in Mutexes : mutex[m].hold \in Nat
  BY <1>5 DEF MutexData
<1>7. \A m \in Mutexes : mutex'[m].hold <= MaxHold
  <2>1. CASE UNCHANGED mutex
    BY <1>3, <2>1
  <2>2. ASSUME NEW m \in Mutexes, NEW x, mutex' = [mutex EXCEPT ![m] = x], x.hold \in {0, 1}
        PROVE  \A n \in Mutexes : mutex'[n].hold <= MaxHold
    <3>1. mutex'[m] = x /\ \A n \in Mutexes \ {m} : mutex'[n] = mutex[n]
      BY <1>5, <2>2
    <3>2. x.hold <= MaxHold
      BY <1>2, <2>2
    <3> QED BY <1>3, <3>1, <3>2
  <2>3. ASSUME NEW m \in Mutexes, mutex[m].hold < MaxHold, mutex' = [mutex EXCEPT ![m].hold = @ + 1]
        PROVE  \A n \in Mutexes : mutex'[n].hold <= MaxHold
    <3>1. mutex[m] \in MutexData
      BY <1>5
    <3>2. mutex'[m].hold = mutex[m].hold + 1 /\ \A n \in Mutexes \ {m} : mutex'[n] = mutex[n]
      BY <1>5, <2>3, <3>1 DEF MutexData
    <3>3. mutex[m].hold + 1 <= MaxHold
      BY <1>2, <1>6, <2>3
    <3> QED BY <1>3, <3>2, <3>3
  <2>4. ASSUME NEW m \in Mutexes, mutex[m].hold > 1, mutex' = [mutex EXCEPT ![m].hold = @ - 1]
        PROVE  \A n \in Mutexes : mutex'[n].hold <= MaxHold
    <3>1. mutex[m] \in MutexData
      BY <1>5
    <3>2. mutex'[m].hold = mutex[m].hold - 1 /\ \A n \in Mutexes \ {m} : mutex'[n] = mutex[n]
      BY <1>5, <2>4, <3>1 DEF MutexData
    <3>3. mutex[m].hold - 1 <= MaxHold
      BY <1>2, <1>3, <1>6
    <3> QED BY <1>3, <3>2, <3>3
  <2> QED BY <1>1, <2>1, <2>2, <2>3, <2>4 DEF HoldMoves
<1> QED BY <1>1, <1>4, <1>7 DEF Bounded

(***************************************************************************)
(* NothingLost, whatever sends, receives, timeouts, resets, deletions and  *)
(* interrupts cross: the tokens of a semaphore (ipc.c:322, 431) are those  *)
(* it began with, unless a thread was deleted on its way back with one;    *)
(* the mailbox hands out what was posted, in order, through every wrap of  *)
(* its ring (ipc.c:1440, 1588); every block of the message queue is once   *)
(* in the chain from head to tail, on the free list, or with the one       *)
(* thread that copies it with interrupts enabled (ipc.c:1962, 2052, 2137); *)
(* and the free list of the pool is as long as its count (mempool.c:304,   *)
(* 398).  For any number of threads, slots, blocks and tokens.             *)
(***************************************************************************)
THEOREM NothingIsLost ==
  ASSUME Disciplined
  PROVE  IpcSpec => []NothingLost
<1> DEFINE Queue == OwnCalls /\ MqInv
           Kept == SemInv /\ MbInv /\ MpInv /\ Queue /\ Bounded
<1>1. IpcInit => IInv /\ Kept
  BY FirstState, SemFirst, MbFirst, MpFirst, MqFirst, BoundedFirst
<1>2. IInv /\ [IpcNext]_ipc_vars => IInv'
  BY NextKeeps
<1>3. IInv /\ IInv' /\ Kept /\ [IpcNext]_ipc_vars => Kept'
  <2> SUFFICES ASSUME IInv, IInv', Kept, [IpcNext]_ipc_vars PROVE Kept'
    OBVIOUS
  <2>1. CallsOK
    BY DEF IInv, KInv
  <2>2. SemInv'
    BY SemNext
  <2>3. MbInv'
    BY MbNext
  <2>4. MpInv'
    BY MpNext
  <2>5. OwnCalls'
    BY <2>1, OwnCallsNext
  <2>6. MqInv'
    BY <2>1, MqNext
  <2>7. Bounded'
    BY BoundedNext
  <2> QED BY <2>2, <2>3, <2>4, <2>5, <2>6, <2>7
<1>4. IInv /\ Kept => NothingLost
  <2> SUFFICES ASSUME IInv, Kept PROVE NothingLost
    OBVIOUS
  <2>1. /\ MqChained /\ mq.entry \in 0 .. Cardinality(Blocks)
        /\ {mq.head, mq.tail, mq.free} \subseteq Link
    BY MqIsChained
  <2>2. MbIsFifo /\ MpConserves
    BY DEF MbInv, MpInv, MpConserves
  <2>3. SemConserves
    <3>1. Dead = {} => Carried = {}
      BY DEF Dead, Carried
    <3> QED BY <3>1 DEF SemInv, Balanced, SemConserves
  <2>4. kind \in Kinds /\ event \in EventData /\ mutex \in [Mutexes -> MutexData]
    BY DEF IInv, ObjectsOK
  <2>5. MaxHold \in Nat
    BY IpcAssumption
  <2>6. \A m \in Mutexes : /\ mutex[m].value \in {0, 1} /\ mutex[m].hold \in 0 .. MaxHold
                           /\ mutex[m].owner \in Threads \cup {NULL}
    BY <2>4, <2>5 DEF MutexData, Bounded
  <2>7. mb.entry \in 0 .. MbSize /\ {mb.in_offset, mb.out_offset} \subseteq 0 .. MbSize - 1
    BY DEF MbInv, RingData, Slots
  <2>8. event.set \subseteq Bits
    BY <2>4 DEF EventData
  <2>9. IpcTypeOK
    BY <2>1, <2>4, <2>6, <2>7, <2>8 DEF IpcTypeOK, Bounded, Link
  <2> QED BY <2>1, <2>2, <2>3, <2>9 DEF NothingLost
<1> HIDE DEF Kept
<1> QED BY <1>1, <1>2, <1>3, <1>4, PTL DEF IpcSpec

(***************************************************************************)
(* Nobody is forgotten.  Who waits has not been told that there is         *)
(* something for him; who was told is on his way until he has come back    *)
(* and looked, or was deleted before.                                      *)
(***************************************************************************)
OnTheWay(op) == {t \in Threads : /\ Pend(call[t]) /\ call[t].op = op /\ k.err[t] = "EOK"
                                 /\ k.stat[t] \in {"READY", "CLOSE", "GONE"}}
Wants(q, op) == \A t \in ToSet(k.wait[q]) : Pend(call[t]) /\ k.err[t] = "EOK" /\ call[t].op = op
Thanked(n, q, op) == ToSet(k.wait[q]) # {} => n <= Cardinality(OnTheWay(op))

(* A step of t, or of a handler: who waits is left alone, or refused, or    *)
(* told.                                                                    *)
Handed(u) ==
  /\ Pend(call[u]) /\ call'[u] = call[u]
  /\ k.stat[u] = "SUSPEND" /\ k'.stat[u] = "READY" /\ k'.err[u] = k.err[u]
OthersKeep(t) == \A u \in Threads \ {t} : Undisturbed(u) \/ Handed(u)

LEMMA SetsCompare ==
  ASSUME NEW A \in SUBSET Threads, NEW B \in SUBSET Threads
  PROVE  /\ Cardinality(A) \in Nat /\ Cardinality(B) \in Nat
         /\ A \subseteq B => Cardinality(A) <= Cardinality(B)
         /\ \A x : A \ {x} \subseteq B => Cardinality(A) <= Cardinality(B) + 1
         /\ \A w \in B \ A : A \subseteq B => Cardinality(A) + 1 <= Cardinality(B)
<1>1. /\ IsFiniteSet(A) /\ IsFiniteSet(B)
      /\ Cardinality(A) \in Nat /\ Cardinality(B) \in Nat
  BY KernelAssumption, FS_Subset, FS_CardinalityType
<1>2. A \subseteq B => Cardinality(A) <= Cardinality(B)
  BY <1>1, FS_Subset
<1>3. ASSUME NEW x, A \ {x} \subseteq B PROVE Cardinality(A) <= Cardinality(B) + 1
  <2> DEFINE C == A \ {x}
  <2>1. IsFiniteSet(C) /\ Cardinality(C) = IF x \in A THEN Cardinality(A) - 1 ELSE Cardinality(A)
    BY <1>1, FS_RemoveElement
  <2>2. Cardinality(C) <= Cardinality(B)
    BY <1>1, <1>3, FS_Subset
  <2> HIDE DEF C
  <2> QED BY <1>1, <2>1, <2>2
<1>4. ASSUME NEW w \in B \ A, A \subseteq B PROVE Cardinality(A) + 1 <= Cardinality(B)
  <2> DEFINE C == A \cup {w}
  <2>1. Cardinality(C) = Cardinality(A) + 1
    BY <1>1, FS_AddElement
  <2>2. Cardinality(C) <= Cardinality(B)
    BY <1>1, <1>4, FS_Subset
  <2> HIDE DEF C
  <2> QED BY <2>1, <2>2
<1> QED BY <1>1, <1>2, <1>3, <1>4

LEMMA WayMoves ==
  ASSUME NEW t, OthersKeep(t), NEW op
  PROVE  /\ Cardinality(OnTheWay(op)) \in Nat /\ Cardinality(OnTheWay(op)') \in Nat
         /\ Cardinality(OnTheWay(op)) <= Cardinality(OnTheWay(op)') + 1
         /\ t \notin OnTheWay(op) => Cardinality(OnTheWay(op)) <= Cardinality(OnTheWay(op)')
         /\ \A w \in OnTheWay(op)' \ OnTheWay(op) :
              t \notin OnTheWay(op) => Cardinality(OnTheWay(op)) + 1 <= Cardinality(OnTheWay(op)')
<1> DEFINE A == OnTheWay(op)
           B == OnTheWay(op)'
<1>1. A \in SUBSET Threads /\ B \in SUBSET Threads
  BY DEF OnTheWay
<1>2. A \ {t} \subseteq B
  BY DEF OnTheWay, OthersKeep, Undisturbed, Handed
<1> HIDE DEF A, B
<1>3. t \notin A => A \subseteq B
  BY <1>2
<1>4. /\ Cardinality(A) \in Nat /\ Cardinality(B) \in Nat
      /\ A \subseteq B => Cardinality(A) <= Cardinality(B)
      /\ A \ {t} \subseteq B => Cardinality(A) <= Cardinality(B) + 1
      /\ \A w \in B \ A : A \subseteq B => Cardinality(A) + 1 <= Cardinality(B)
  BY <1>1, SetsCompare
<1> QED BY <1>2, <1>3, <1>4 DEF A, B

(* Who still waits still wants what he wanted.                              *)
LEMMA OthersGoOn ==
  ASSUME KInv, KInv', NEW t, OthersKeep(t), NEW q \in Queues, NEW op, Wants(q, op),
         NEW u \in ToSet(k'.wait[q]), u # t, u \in ToSet(k.wait[q])
  PROVE  Pend(call'[u]) /\ k'.err[u] = "EOK" /\ call'[u].op = op
<1>1. u \in Threads /\ k.stat[u] = "SUSPEND" /\ Pend(call[u]) /\ k.err[u] = "EOK" /\ call[u].op = op
  BY WaitersAreSuspended DEF Wants
<1>2. k'.stat[u] = "SUSPEND"
  <2>1. k' \in KernelData /\ Linked(k', BeingDeleted', Reaped', 1)
    BY SaneAfter
  <2> QED BY <1>1, <2>1 DEF Linked, WaitLinked
<1>3. Undisturbed(u)
  BY <1>1, <1>2 DEF OthersKeep, Handed
<1> QED BY <1>1, <1>2, <1>3 DEF Undisturbed

LEMMA WantsStill ==
  ASSUME KInv, KInv', NEW t, OthersKeep(t), NEW q \in Queues, NEW op, Wants(q, op),
         ToSet(k'.wait[q]) \subseteq ToSet(k.wait[q]), t \notin ToSet(k.wait[q])
  PROVE  Wants(q, op)'
<1> SUFFICES ASSUME NEW u \in ToSet(k'.wait[q])
             PROVE  Pend(call'[u]) /\ k'.err[u] = "EOK" /\ call'[u].op = op
  BY DEF Wants
<1>1. u # t /\ u \in ToSet(k.wait[q])
  OBVIOUS
<1> QED BY <1>1, OthersGoOn

LEMMA QuietWants ==
  ASSUME KInv, KInv', Quiet, NEW q \in Queues, NEW op, Wants(q, op)
  PROVE  /\ Wants(q, op)' /\ ToSet(k'.wait[q]) \subseteq ToSet(k.wait[q])
         /\ Cardinality(OnTheWay(op)) \in Nat /\ Cardinality(OnTheWay(op)') \in Nat
         /\ Cardinality(OnTheWay(op)) <= Cardinality(OnTheWay(op)')
<1>1. OthersKeep(NULL) /\ ToSet(k'.wait[q]) \subseteq ToSet(k.wait[q])
  BY DEF Quiet, OthersKeep, Thinner
<1>2. NULL \notin OnTheWay(op)
  BY ObjectFacts DEF OnTheWay
<1>3. NULL \notin ToSet(k.wait[q])
  BY ObjectFacts, WaitersAreSuspended
<1> QED BY <1>1, <1>2, <1>3, WayMoves, WantsStill

(* The thread goes, and leaves the lists as they are.                       *)
LEMMA LeavesGoOn ==
  ASSUME KInv, NEW t, UNCHANGED k, UNCHANGED call \/ (t \in Threads /\ \E c : Goes(t, c))
  PROVE  OthersKeep(t) /\ \A q \in Queues : k'.wait[q] = k.wait[q]
<1>1. \A u \in Threads \ {t} : call'[u] = call[u]
  BY GoesTo
<1> QED BY <1>1 DEF OthersKeep, Undisturbed

(* One side of an object: n things are there for those who wait on q.  None *)
(* is added, one is taken by a thread that was on its way, or none.         *)
LEMMA SideMoves ==
  ASSUME KInv, KInv', NEW t, OthersKeep(t), NEW q \in Queues, NEW op, Wants(q, op),
         ToSet(k'.wait[q]) \subseteq ToSet(k.wait[q]), t \notin ToSet(k.wait[q]),
         NEW n \in Int, NEW m \in Int, Thanked(n, q, op),
         m <= n - 1 \/ m <= 0 \/ (m <= n /\ t \notin OnTheWay(op))
  PROVE  /\ Wants(q, op)'
         /\ ToSet(k'.wait[q]) # {} => m <= Cardinality(OnTheWay(op)')
<1> DEFINE a == Cardinality(OnTheWay(op))
           b == Cardinality(OnTheWay(op)')
<1>1. /\ a \in Nat /\ b \in Nat /\ a <= b + 1
      /\ t \notin OnTheWay(op) => a <= b
  BY WayMoves
<1>2. ToSet(k'.wait[q]) # {} => n <= a
  BY DEF Thanked
<1> HIDE DEF a, b
<1>3. ToSet(k'.wait[q]) # {} => m <= b
  BY <1>1, <1>2
<1> QED BY <1>3, WantsStill DEF b

LEMMA QuietSide ==
  ASSUME KInv, KInv', Quiet, NEW q \in Queues, NEW op, Wants(q, op), NEW n \in Int,
         Thanked(n, q, op)
  PROVE  /\ Wants(q, op)'
         /\ ToSet(k'.wait[q]) # {} => n <= Cardinality(OnTheWay(op)')
<1> DEFINE a == Cardinality(OnTheWay(op))
           b == Cardinality(OnTheWay(op)')
<1>1. a \in Nat /\ b \in Nat /\ a <= b /\ Wants(q, op)' /\ ToSet(k'.wait[q]) \subseteq ToSet(k.wait[q])
  BY QuietWants
<1>2. ToSet(k'.wait[q]) # {} => n <= a
  BY <1>1 DEF Thanked
<1> HIDE DEF a, b
<1>3. ToSet(k'.wait[q]) # {} => n <= b
  BY <1>1, <1>2
<1> QED BY <1>1, <1>3 DEF b

(* Who runs waits on no list, and is on his way only to what he was woken   *)
(* for.                                                                     *)
LEMMA RunnerWaits ==
  ASSUME KInv, NEW t, InCall(t) \/ t = NULL
  PROVE  /\ \A q \in Queues : t \notin ToSet(k.wait[q])
         /\ \A op : call[t].at \in {"run", "copy", "detach"} \/ t = NULL \/ call[t].op # op =>
                      t \notin OnTheWay(op)
<1>1. ASSUME NEW q \in Queues PROVE t \notin ToSet(k.wait[q])
  BY WaitersAreSuspended, ObjectFacts DEF InCall
<1>2. ASSUME NEW op, call[t].at \in {"run", "copy", "detach"} \/ t = NULL \/ call[t].op # op
      PROVE  t \notin OnTheWay(op)
  BY <1>2, ObjectFacts DEF OnTheWay, Pend
<1> QED BY <1>1, <1>2

(* One waiter of q is told: one more is on his way.                         *)
LEMMA WakesOne ==
  ASSUME KInv, KInv', NEW by, InCall(by) \/ by = NULL,
         NEW q \in Queues, NEW op, Wants(q, op), Wakes(by, q)
  PROVE  /\ OthersKeep(by) /\ \A x \in Queues : ToSet(k'.wait[x]) \subseteq ToSet(k.wait[x])
         /\ ToSet(k'.wait[q]) # {} => \E w \in ToSet(k.wait[q]) : w \in OnTheWay(op)' \ OnTheWay(op)
         /\ ToSet(k.wait[q]) # {} => \E w \in ToSet(k.wait[q]) : w \notin ToSet(k'.wait[q])
<1>1. k \in Good(BeingDeleted, Reaped, 1)
  BY SaneData DEF KInv
<1>2. CASE k.wait[q] = <<>>
  <2>1. UNCHANGED k /\ (UNCHANGED call \/ (by \in Threads /\ \E c : Goes(by, c)))
    BY <1>2 DEF Wakes, wakes_when, kernel_vars, InCall
  <2>2. OthersKeep(by) /\ \A x \in Queues : k'.wait[x] = k.wait[x]
    BY <2>1, LeavesGoOn
  <2>3. ToSet(k.wait[q]) = {} /\ ToSet(k'.wait[q]) = {}
    BY <1>2, <2>2 DEF ToSet
  <2> QED BY <2>2, <2>3
<1>3. CASE k.wait[q] # <<>>
  <2> DEFINE w == Head(k.wait[q])
             up == rt_ipc_list_resume(k, q)
             c == [NoCall EXCEPT !.at = "resched"]
  <2>1. \/ by = NULL /\ k' = rt_schedule(up) /\ UNCHANGED call
        \/ by # NULL /\ k' = up /\ Goes(by, c)
    BY <1>3 DEF Wakes, wakes_when, Reschedules
  <2>2. k.wait[q] # <<>> /\ w = Head(k.wait[q]) /\ up = rt_ipc_list_resume(k, q)
    BY <1>3
  <2> HIDE DEF c, up, w
  <2>3. /\ w \in Threads /\ w \in ToSet(k.wait[q]) /\ k.stat[w] = "SUSPEND" /\ up \in Good(BeingDeleted, Reaped, 1)
        /\ up.err = k.err /\ up.stat[w] = "READY"
        /\ \A u \in Threads \ {w} : up.stat[u] = k.stat[u]
        /\ \A x \in Queues : ToSet(up.wait[x]) = ToSet(k.wait[x]) \ {w}
    BY <1>1, <2>2, PassesOn_
  <2>4. k'.stat = up.stat /\ k'.err = up.err /\ k'.wait = up.wait
    <3>1. CASE by = NULL
      <4>1. k' = rt_schedule(up)
        BY <2>1, <3>1
      <4>2. up \in KernelData
        BY <2>3, GoodData
      <4> QED BY <4>1, <4>2 DEF rt_schedule, KernelData
    <3>2. CASE by # NULL
      BY <2>1, <3>2
    <3> QED BY <3>1, <3>2
  <2>5. \A u \in Threads \ {by} : call'[u] = call[u]
    <3>1. CASE by = NULL
      BY <2>1, <3>1
    <3>2. CASE by # NULL
      <4>1. by \in Threads /\ Goes(by, c)
        BY <2>1, <3>2 DEF InCall
      <4> QED BY <4>1, GoesTo
    <3> QED BY <3>1, <3>2
  <2>6. w # by
    BY <2>3, ObjectFacts DEF InCall
  <2>7. Pend(call[w]) /\ k.err[w] = "EOK" /\ call[w].op = op
    BY <2>3 DEF Wants
  <2>8. OthersKeep(by)
    <3> SUFFICES ASSUME NEW u \in Threads \ {by} PROVE Undisturbed(u) \/ Handed(u)
      BY DEF OthersKeep
    <3>1. CASE u = w
      BY <2>3, <2>4, <2>5, <2>6, <2>7, <3>1 DEF Handed
    <3>2. CASE u # w
      BY <2>3, <2>4, <2>5, <3>2 DEF Undisturbed
    <3> QED BY <3>1, <3>2
  <2>9. \A x \in Queues : ToSet(k'.wait[x]) = ToSet(k.wait[x]) \ {w}
    BY <2>3, <2>4
  <2>10. w \in OnTheWay(op)'
    BY <2>3, <2>4, <2>5, <2>6, <2>7 DEF OnTheWay
  <2>11. w \notin OnTheWay(op)
    BY <2>3 DEF OnTheWay
  <2> QED BY <2>3, <2>8, <2>9, <2>10, <2>11
<1> QED BY <1>2, <1>3

LEMMA WakesSide ==
  ASSUME KInv, KInv', NEW by, InCall(by) \/ by = NULL,
         NEW q \in Queues, NEW op, Wants(q, op), Wakes(by, q), by \notin OnTheWay(op),
         NEW n \in Int, NEW m \in Int, Thanked(n, q, op), m <= n + 1
  PROVE  /\ Wants(q, op)'
         /\ ToSet(k'.wait[q]) # {} => m <= Cardinality(OnTheWay(op)')
<1> DEFINE a == Cardinality(OnTheWay(op))
           b == Cardinality(OnTheWay(op)')
<1>1. /\ OthersKeep(by) /\ ToSet(k'.wait[q]) \subseteq ToSet(k.wait[q])
      /\ ToSet(k'.wait[q]) # {} => \E w : w \in OnTheWay(op)' \ OnTheWay(op)
  BY WakesOne
<1>2. Wants(q, op)'
  BY <1>1, RunnerWaits, WantsStill
<1>3. /\ a \in Nat /\ b \in Nat
      /\ \A w \in OnTheWay(op)' \ OnTheWay(op) : a + 1 <= b
  BY <1>1, WayMoves
<1>4. ToSet(k'.wait[q]) # {} => n <= a /\ a + 1 <= b
  BY <1>1, <1>3 DEF Thanked
<1> HIDE DEF a, b
<1>5. ToSet(k'.wait[q]) # {} => m <= b
  BY <1>3, <1>4
<1> QED BY <1>2, <1>5 DEF b

(* The thread joins a list, and has been told nothing yet.                  *)
LinesUp(t, q, op) ==
  /\ k'.stat[t] = "SUSPEND" /\ k'.err[t] = "EOK"
  /\ \A u \in Threads \ {t} : k'.stat[u] = k.stat[u] /\ k'.err[u] = k.err[u]
  /\ ToSet(k'.wait[q]) = ToSet(k.wait[q]) \cup {t}
  /\ \A x \in Queues \ {q} : k'.wait[x] = k.wait[x]
  /\ \E c : Goes(t, c) /\ Pend(c) /\ c.op = op
LEMMA ListSuspendJoins ==
  ASSUME KInv, NEW t \in Threads, InCall(t), NEW q \in Queues, NEW time \in Times \ {0},
         k' = rt_ipc_list_suspend(k, t, q, time), NEW op, op \notin ThreadOps, NEW arg,
         Goes(t, Blocked(op, time, arg))
  PROVE  LinesUp(t, q, op)
<1> DEFINE c == Blocked(op, time, arg)
<1>1. Goes(t, c) /\ Pend(c) /\ c.op = op
  BY DEF Blocked, Pend, ThreadOps
<1> HIDE DEF c
<1>2. JoinsQueue(k, t, q, time)
  BY SaneData DEF JoinsQueue, InCall
<1> QED BY <1>1, <1>2, JoinsMutex DEF LinesUp

LEMMA JoinsSide ==
  ASSUME KInv, KInv', NEW t, InCall(t), NEW q \in Queues, NEW op, Wants(q, op), LinesUp(t, q, op)
  PROVE  /\ OthersKeep(t) /\ Wants(q, op)'
         /\ \A x \in Queues \ {q} : ToSet(k'.wait[x]) \subseteq ToSet(k.wait[x])
<1>1. PICK c : Goes(t, c) /\ Pend(c) /\ c.op = op
  BY DEF LinesUp
<1>2. t \in Threads /\ call'[t] = c /\ \A u \in Threads \ {t} : call'[u] = call[u]
  BY <1>1, GoesTo DEF InCall
<1>3. OthersKeep(t)
  BY <1>2 DEF OthersKeep, LinesUp, Undisturbed
<1>4. Wants(q, op)'
  <2> SUFFICES ASSUME NEW u \in ToSet(k'.wait[q])
               PROVE  Pend(call'[u]) /\ k'.err[u] = "EOK" /\ call'[u].op = op
    BY DEF Wants
  <2>1. CASE u = t
    BY <1>1, <1>2, <2>1 DEF LinesUp
  <2>2. CASE u # t
    <3>1. u \in ToSet(k.wait[q])
      BY <2>2 DEF LinesUp
    <3> QED BY <1>3, <2>2, <3>1, OthersGoOn
  <2> QED BY <2>1, <2>2
<1>5. \A x \in Queues \ {q} : ToSet(k'.wait[x]) \subseteq ToSet(k.wait[x])
  BY DEF LinesUp
<1> QED BY <1>3, <1>4, <1>5

(* Where nothing is there, nobody need be on his way.                       *)
LEMMA EmptySide ==
  ASSUME NEW op, NEW m \in Int, m <= 0
  PROVE  m <= Cardinality(OnTheWay(op)')
<1> DEFINE B == OnTheWay(op)'
           b == Cardinality(B)
<1>1. B \in SUBSET Threads
  BY DEF OnTheWay
<1> HIDE DEF B
<1>2. b \in Nat
  BY <1>1, SetsCompare
<1> HIDE DEF b
<1>3. m <= b
  BY <1>2
<1> QED BY <1>3 DEF b, B

(***************************************************************************)
(* The mailbox: receivers wait for messages, senders for free slots.       *)
(***************************************************************************)
Served_(n, q, op) == Wants(q, op) /\ Thanked(n, q, op)
MbServed == Served_(mb.entry, "recv", "mb_recv") /\ Served_(MbSize - mb.entry, "send", "mb_send")

LEMMA MbNumbers ==
  ASSUME MbInv
  PROVE  /\ mb.entry \in Nat /\ mb.entry <= MbSize /\ MbSize \in Nat /\ mb \in RingData
         /\ mb.entry \in Int /\ MbSize - mb.entry \in Int
         /\ "recv" \in Queues /\ "send" \in Queues
<1> DEFINE e == mb.entry
<1>1. e \in 0 .. MbSize /\ MbSize \in Nat /\ mb \in RingData
  BY IpcAssumption DEF MbInv, RingData
<1> HIDE DEF e
<1>2. e \in Nat /\ e <= MbSize /\ e \in Int /\ MbSize - e \in Int
  BY <1>1
<1> QED BY <1>1, <1>2, ObjectFacts DEF e

(* What a step has to show of both sides, when m messages are there then.   *)
LEMMA MbServedThen ==
  ASSUME NEW m, mb'.entry = m, Wants("recv", "mb_recv")', Wants("send", "mb_send")',
         ToSet(k'.wait["recv"]) # {} => m <= Cardinality(OnTheWay("mb_recv")'),
         ToSet(k'.wait["send"]) # {} => MbSize - m <= Cardinality(OnTheWay("mb_send")')
  PROVE  MbServed'
BY DEF MbServed, Served_, Thanked

LEMMA MbQuietServed ==
  ASSUME KInv, KInv', MbInv, MbServed, Quiet, UNCHANGED mb
  PROVE  MbServed'
<1> DEFINE n == mb.entry
           f == MbSize - n
           r == "recv"
           s == "send"
           ro == "mb_recv"
           so == "mb_send"
<1>1. n \in Int /\ f \in Int /\ r \in Queues /\ s \in Queues
  BY MbNumbers
<1>2. Wants(r, ro) /\ Thanked(n, r, ro) /\ Wants(s, so) /\ Thanked(f, s, so)
  BY DEF MbServed, Served_
<1>3. mb'.entry = n
  OBVIOUS
<1> HIDE DEF n, f, r, s, ro, so
<1>4. Wants(r, ro)' /\ (ToSet(k'.wait[r]) # {} => n <= Cardinality(OnTheWay(ro)'))
  BY <1>1, <1>2, QuietSide
<1>5. Wants(s, so)' /\ (ToSet(k'.wait[s]) # {} => f <= Cardinality(OnTheWay(so)'))
  BY <1>1, <1>2, QuietSide
<1> QED BY <1>3, <1>4, <1>5, MbServedThen DEF f, r, s, ro, so

LEMMA MbPostServes ==
  ASSUME KInv, KInv', MbInv, MbServed, NEW by, InCall(by) \/ by = NULL,
         by \notin OnTheWay("mb_recv"), ~mb_full, NEW v, mb' = posted(v), Wakes(by, "recv")
  PROVE  MbServed'
<1> DEFINE n == mb.entry
           m == n + 1
           f == MbSize - n
           g == MbSize - m
           r == "recv"
           s == "send"
           ro == "mb_recv"
           so == "mb_send"
<1>1. /\ n \in Nat /\ MbSize \in Nat /\ n \in Int /\ f \in Int /\ r \in Queues /\ s \in Queues
      /\ n <= MbSize /\ n # MbSize
  BY MbNumbers DEF mb_full
<1>2. Wants(r, ro) /\ Thanked(n, r, ro) /\ Wants(s, so) /\ Thanked(f, s, so)
  BY DEF MbServed, Served_
<1>3. mb'.entry = m /\ by \notin OnTheWay(ro) /\ Wakes(by, r)
  BY MbNumbers DEF posted, RingData
<1>4. m \in Int /\ g \in Int /\ m <= n + 1 /\ g <= f - 1
  BY <1>1
<1> HIDE DEF n, f, m, g, r, s, ro, so
<1>5. Wants(r, ro)' /\ (ToSet(k'.wait[r]) # {} => m <= Cardinality(OnTheWay(ro)'))
  BY <1>1, <1>2, <1>3, <1>4, WakesSide
<1>6. OthersKeep(by) /\ ToSet(k'.wait[s]) \subseteq ToSet(k.wait[s]) /\ by \notin ToSet(k.wait[s])
  BY <1>1, <1>2, <1>3, WakesOne, RunnerWaits
<1>7. Wants(s, so)' /\ (ToSet(k'.wait[s]) # {} => g <= Cardinality(OnTheWay(so)'))
  BY <1>1, <1>2, <1>4, <1>6, SideMoves
<1> QED BY <1>3, <1>5, <1>7, MbServedThen DEF g, r, s, ro, so

LEMMA MbFetchServes ==
  ASSUME KInv, KInv', MbInv, MbServed, NEW t, InCall(t), t \notin OnTheWay("mb_send"),
         mb.entry # 0, mb' = fetched, Wakes(t, "send")
  PROVE  MbServed'
<1> DEFINE n == mb.entry
           m == n - 1
           f == MbSize - n
           g == MbSize - m
           r == "recv"
           s == "send"
           ro == "mb_recv"
           so == "mb_send"
<1>1. n \in Nat /\ MbSize \in Nat /\ n \in Int /\ f \in Int /\ r \in Queues /\ s \in Queues
  BY MbNumbers
<1>2. Wants(r, ro) /\ Thanked(n, r, ro) /\ Wants(s, so) /\ Thanked(f, s, so)
  BY DEF MbServed, Served_
<1>3. mb'.entry = m /\ t \notin OnTheWay(so) /\ Wakes(t, s)
  BY MbNumbers DEF fetched, RingData
<1>4. m \in Int /\ g \in Int /\ m <= n - 1 /\ g <= f + 1
  BY <1>1
<1> HIDE DEF n, f, m, g, r, s, ro, so
<1>5. Wants(s, so)' /\ (ToSet(k'.wait[s]) # {} => g <= Cardinality(OnTheWay(so)'))
  BY <1>1, <1>2, <1>3, <1>4, WakesSide
<1>6. OthersKeep(t) /\ ToSet(k'.wait[r]) \subseteq ToSet(k.wait[r]) /\ t \notin ToSet(k.wait[r])
  BY <1>1, <1>2, <1>3, WakesOne, RunnerWaits
<1>7. Wants(r, ro)' /\ (ToSet(k'.wait[r]) # {} => m <= Cardinality(OnTheWay(ro)'))
  BY <1>1, <1>2, <1>4, <1>6, SideMoves
<1> QED BY <1>3, <1>5, <1>7, MbServedThen DEF g, r, s, ro, so

(* A sender finds no slot, or a receiver no message.                        *)
LEMMA MbWaitsServes ==
  ASSUME KInv, KInv', MbInv, MbServed, NEW t, InCall(t), UNCHANGED mb,
         NEW q, NEW op, NEW other, NEW o,
         \/ q = "send" /\ op = "mb_send" /\ other = "recv" /\ o = "mb_recv" /\ mb_full
         \/ q = "recv" /\ op = "mb_recv" /\ other = "send" /\ o = "mb_send" /\ mb.entry = 0,
         t \notin OnTheWay(o), LinesUp(t, q, op) \/ (UNCHANGED k /\ Goes(t, NoCall))
  PROVE  MbServed'
<1> DEFINE n == mb.entry
           f == MbSize - n
           a == IF q = "send" THEN f ELSE n
           b == IF q = "send" THEN n ELSE f
<1>1. n \in Nat /\ MbSize \in Nat /\ n \in Int /\ f \in Int /\ q \in Queues /\ other \in Queues \ {q}
  BY MbNumbers
<1>2. Wants(q, op) /\ Thanked(a, q, op) /\ Wants(other, o) /\ Thanked(b, other, o)
  BY DEF MbServed, Served_
<1>3. a \in Int /\ b \in Int /\ a <= 0 /\ b <= b
  BY <1>1 DEF mb_full
<1>4. mb'.entry = n
  OBVIOUS
<1>5. \/ q = "send" /\ op = "mb_send" /\ other = "recv" /\ o = "mb_recv" /\ a = MbSize - n /\ b = n
      \/ q = "recv" /\ op = "mb_recv" /\ other = "send" /\ o = "mb_send" /\ b = MbSize - n /\ a = n
  OBVIOUS
<1> HIDE DEF n, f, a, b
<1>6. \A x \in Queues : t \notin ToSet(k.wait[x])
  BY RunnerWaits
<1>7. /\ OthersKeep(t) /\ Wants(q, op)' /\ ToSet(k'.wait[other]) \subseteq ToSet(k.wait[other])
  <2>1. CASE LinesUp(t, q, op)
    BY <1>1, <1>2, <2>1, JoinsSide
  <2>2. CASE UNCHANGED k /\ Goes(t, NoCall)
    <3>1. OthersKeep(t) /\ \A x \in Queues : k'.wait[x] = k.wait[x]
      BY <2>2, LeavesGoOn DEF InCall
    <3>2. Wants(q, op)'
      BY <1>1, <1>2, <1>6, <3>1, WantsStill
    <3> QED BY <1>1, <3>1, <3>2
  <2> QED BY <2>1, <2>2
<1>8. Wants(other, o)' /\ (ToSet(k'.wait[other]) # {} => b <= Cardinality(OnTheWay(o)'))
  BY <1>1, <1>2, <1>3, <1>6, <1>7, SideMoves
<1>9. a <= Cardinality(OnTheWay(op)')
  BY <1>3, EmptySide
<1>10. CASE q = "send"
  <2>1. op = "mb_send" /\ other = "recv" /\ o = "mb_recv" /\ a = MbSize - n /\ b = n
    BY <1>5, <1>10
  <2> QED BY <1>4, <1>7, <1>8, <1>9, <1>10, <2>1, MbServedThen
<1>11. CASE q # "send"
  <2>1. q = "recv" /\ op = "mb_recv" /\ other = "send" /\ o = "mb_send" /\ b = MbSize - n /\ a = n
    BY <1>5, <1>11
  <2> QED BY <1>4, <1>7, <1>8, <1>9, <2>1, MbServedThen
<1> QED BY <1>10, <1>11

(***************************************************************************)
(* The steps in which nobody is told anything but that it gets nothing.    *)
(***************************************************************************)
LEMMA ResetQuiet ==
  ASSUME KInv, NEW t \in Threads, Reset(t)
  PROVE  Quiet /\ ToSet(k'.wait["recv"]) = {} /\ ToSet(k'.wait["send"]) = {}
<1> DEFINE one == rt_ipc_list_resume_all(k, "recv")
           c == [NoCall EXCEPT !.at = "resched"]
           x == "none"
<1>1. /\ Uses(t, kind) /\ k' = rt_ipc_list_resume_all(one, "send") /\ Goes(t, c)
      /\ UNCHANGED <<mutex, inside>>
  BY DEF Reset, Reschedules
<1>2. k \in Good(BeingDeleted, Reaped, 1)
  BY SaneData DEF KInv
<1>3. one \in Good(BeingDeleted, Reaped, 1) /\ ToSet(one.wait["recv"]) = {}
  BY <1>2, ObjectFacts, ResumesAll
<1>4. ~Pend(c) /\ c.op \in {"none", "sleep"} /\ c.at # "copy" /\ ~Pend(call[t])
  BY <1>1, NotPend, BeginsFree
<1>5. Refuses(k, k')
  BY ResetRefuses
<1> HIDE DEF one, c, x
<1>6. Refuses(one, k') /\ ToSet(k'.wait["send"]) = {}
  BY <1>1, <1>3, ObjectFacts, ResumesAll
<1>7. ToSet(k'.wait["recv"]) = {}
  <2>1. Thinner(one.wait["recv"], k'.wait["recv"])
    BY <1>6, ObjectFacts DEF Refuses
  <2> QED BY <1>3, <2>1 DEF Thinner
<1>8. Quiet
  BY <1>1, <1>4, <1>5, QuietCall
<1> QED BY <1>6, <1>7, <1>8

Refused(t) ==
  \/ Detach(t) \/ DetachStep(t) \/ Reset(t)
  \/ \E op : op \notin ThreadOps /\ GivesUp(t, op) /\ UNCHANGED <<mutex, inside>>
LEMMA RefusedQuiet ==
  ASSUME KInv, NEW t \in Threads, Refused(t)
  PROVE  Quiet
<1> DEFINE x == "none"
<1>1. CASE Detach(t) \/ DetachStep(t)
  <2>1. UNCHANGED <<mutex, inside>>
    BY <1>1 DEF Detach, DetachStep, objects
  <2> HIDE DEF x
  <2> QED BY <1>1, <2>1, QuietDetaches
<1>2. CASE Reset(t)
  BY <1>2, ResetQuiet
<1>3. ASSUME NEW op, op \notin ThreadOps, GivesUp(t, op), UNCHANGED <<mutex, inside>> PROVE Quiet
  BY <1>3, QuietGivesUp DEF ThreadOps
<1> QED BY <1>1, <1>2, <1>3 DEF Refused

LEMMA KernelQuiet ==
  ASSUME KInv, WInv, Disciplined, kind # "thread", Kernel
  PROVE  Quiet /\ UNCHANGED objects
<1> DEFINE x == "none"
<1>1. UNCHANGED objects
  BY DEF Kernel
<1> HIDE DEF x
<1> QED BY <1>1, QuietKernels

(***************************************************************************)
(* Every step is the kernel's, a handler's, or a call about the kind of    *)
(* object the behaviour is about.                                          *)
(***************************************************************************)
SemCall(t) == SemTake(t) \/ (Uses(t, "sem") /\ SemRelease(t)) \/ SemTaken(t)
EventCall(t) == EventRecv(t) \/ (Uses(t, "event") /\ EventSend(t)) \/ EventReceived(t)
MbCall(t) == MbSend(t) \/ MbRecv(t) \/ MbGivesUp(t)
MqCall(t) == MqSend(t) \/ MqLink(t) \/ MqRecv(t) \/ MqFree(t) \/ MqGivesUp(t)
MpCall(t) == MpAlloc(t) \/ (Uses(t, "mp") /\ MpFree(t)) \/ MpGivesUp(t)
MutexCall(t) == MutexTake(t) \/ MutexRelease(t) \/ MutexTaken(t)

LEMMA WokenOfKind ==
  ASSUME OwnCalls, NEW t \in Threads, NEW op, op \notin ThreadOps, Woken(t, op)
  PROVE  kind = KindOf(op)
BY DEF OwnCalls, Owned, Woken

LEMMA CallsOfKind ==
  ASSUME OwnCalls, NEW t \in Threads
  PROVE  /\ SemCall(t) => kind = "sem"
         /\ EventCall(t) => kind = "event"
         /\ MbCall(t) => kind = "mb"
         /\ MqCall(t) => kind = "mq"
         /\ MpCall(t) => kind = "mp"
         /\ MutexCall(t) => kind = "mutex"
<1>1. \A x : Uses(t, x) => kind = x
  BY CallAt
<1>2. \A op : Woken(t, op) /\ op \notin ThreadOps => kind = KindOf(op)
  BY WokenOfKind
<1>3. \A x, op, arg, time : Tries(t, x, op, arg, time) /\ op \notin ThreadOps /\ KindOf(op) = x => kind = x
  BY CallAt
<1>4. \A op \in {"sem", "mutex", "event", "mb_send", "mb_recv", "mp", "mq_send", "mq_urgent", "mq_recv"} :
        op \notin ThreadOps
  BY Kinds_
<1>5. SemCall(t) => kind = "sem"
  <2>1. SemCall(t) => Uses(t, "sem") \/ Woken(t, "sem")
    BY DEF SemCall, SemTake, SemTaken, GivesUp
  <2> QED BY <1>1, <1>2, <1>4, <2>1, Kinds_
<1>6. EventCall(t) => kind = "event"
  <2>1. EventCall(t) => Uses(t, "event") \/ Woken(t, "event")
    BY DEF EventCall, EventRecv, EventReceived
  <2> QED BY <1>1, <1>2, <1>4, <2>1, Kinds_
<1>7. MbCall(t) => kind = "mb"
  <2>1. MbCall(t) => \/ Woken(t, "mb_send") \/ Woken(t, "mb_recv")
                     \/ \E arg, time : Tries(t, "mb", "mb_send", arg, time) \/ Tries(t, "mb", "mb_recv", arg, time)
    BY DEF MbCall, MbSend, MbRecv, MbGivesUp, GivesUp
  <2> QED BY <1>2, <1>3, <1>4, <2>1, Kinds_
<1>8. MqCall(t) => kind = "mq"
  <2>1. MqCall(t) => \/ Woken(t, "mq_recv") \/ Uses(t, "mq") \/ call[t].at = "copy"
                     \/ \E arg, time : Tries(t, "mq", "mq_recv", arg, time)
    BY DEF MqCall, MqSend, MqLink, MqRecv, MqFree, MqGivesUp, GivesUp
  <2> QED BY <1>1, <1>2, <1>3, <1>4, <2>1, Kinds_ DEF OwnCalls
<1>9. MpCall(t) => kind = "mp"
  <2>1. MpCall(t) => \/ Woken(t, "mp") \/ Uses(t, "mp")
                     \/ \E arg, time : Tries(t, "mp", "mp", arg, time)
    BY DEF MpCall, MpAlloc, MpGivesUp, GivesUp
  <2> QED BY <1>1, <1>2, <1>3, <1>4, <2>1, Kinds_
<1>10. MutexCall(t) => kind = "mutex"
  <2>1. MutexCall(t) => Uses(t, "mutex") \/ Woken(t, "mutex")
    BY DEF MutexCall, MutexTake, MutexRelease, MutexTaken, GivesUp
  <2> QED BY <1>1, <1>2, <1>4, <2>1, Kinds_
<1> QED BY <1>5, <1>6, <1>7, <1>8, <1>9, <1>10

LEMMA StepsOfKind ==
  ASSUME Disciplined, IpcNext
  PROVE  \/ Kernel \/ (Handler)
         \/ \E t \in Threads :
              \/ SemCall(t) \/ EventCall(t) \/ MbCall(t) \/ MqCall(t) \/ MpCall(t) \/ MutexCall(t)
              \/ Reset(t) \/ Detach(t) \/ DetachStep(t)
<1>2. ASSUME NEW t \in Threads, Calling(t) \/ Finishing(t)
      PROVE  \/ SemCall(t) \/ EventCall(t) \/ MbCall(t) \/ MqCall(t) \/ MpCall(t) \/ MutexCall(t)
             \/ Reset(t) \/ Detach(t) \/ DetachStep(t)
  BY <1>2 DEF Calling, Finishing, SemCall, EventCall, MbCall, MqCall, MpCall, MutexCall
<1> QED BY <1>2 DEF IpcNext

(* Everybody who is told comes back; the mailbox serves both sides.         *)
LEMMA MbCallServes ==
  ASSUME KInv, KInv', KindsOK, MbInv, MbServed, OwnCalls, NEW t \in Threads, MbCall(t)
  PROVE  MbServed'
<1>1. CASE MbSend(t)
  <2>1. PICK v \in Values, time \in Waits[kind] :
          /\ Tries(t, "mb", "mb_send", v, time)
          /\ \/ ~mb_full /\ mb' = posted(v) /\ Wakes(t, "recv")
             \/ mb_full /\ UNCHANGED <<k, mb>> /\ Goes(t, NoCall)
             \/ /\ mb_full /\ time # 0 /\ UNCHANGED mb
                /\ k' = rt_ipc_list_suspend(k, t, "send", time)
                /\ Goes(t, Blocked("mb_send", time, v))
    BY <1>1 DEF MbSend
  <2>2. InCall(t)
    BY <2>1, TriesInCall
  <2>3. t \notin OnTheWay("mb_recv")
    <3>1. call[t].at = "run" \/ call[t].op # "mb_recv"
      BY <2>1 DEF Tries, Uses, Calls, Woken
    <3> QED BY <2>2, <3>1, RunnerWaits
  <2>4. CASE ~mb_full /\ mb' = posted(v) /\ Wakes(t, "recv")
    BY <2>2, <2>3, <2>4, MbPostServes
  <2>5. CASE mb_full /\ UNCHANGED <<k, mb>> /\ Goes(t, NoCall)
    BY <2>2, <2>3, <2>5, MbWaitsServes
  <2>6. CASE /\ mb_full /\ time # 0 /\ UNCHANGED mb
             /\ k' = rt_ipc_list_suspend(k, t, "send", time)
             /\ Goes(t, Blocked("mb_send", time, v))
    <3>1. time \in Times \ {0} /\ "send" \in Queues /\ "mb_send" \notin ThreadOps
      BY <2>6, ObjectFacts, Kinds_
    <3>2. LinesUp(t, "send", "mb_send")
      BY <2>2, <2>6, <3>1, ListSuspendJoins
    <3> QED BY <2>2, <2>3, <2>6, <3>2, MbWaitsServes
  <2> QED BY <2>1, <2>4, <2>5, <2>6
<1>2. CASE MbRecv(t)
  <2>1. PICK time \in Waits[kind] :
          /\ Tries(t, "mb", "mb_recv", NULL, time)
          /\ \/ mb.entry # 0 /\ mb' = fetched /\ Wakes(t, "send")
             \/ mb.entry = 0 /\ UNCHANGED <<k, mb>> /\ Goes(t, NoCall)
             \/ /\ mb.entry = 0 /\ time # 0 /\ UNCHANGED mb
                /\ k' = rt_ipc_list_suspend(k, t, "recv", time)
                /\ Goes(t, Blocked("mb_recv", time, NULL))
    BY <1>2 DEF MbRecv
  <2>2. InCall(t)
    BY <2>1, TriesInCall
  <2>3. t \notin OnTheWay("mb_send")
    <3>1. call[t].at = "run" \/ call[t].op # "mb_send"
      BY <2>1 DEF Tries, Uses, Calls, Woken
    <3> QED BY <2>2, <3>1, RunnerWaits
  <2>4. CASE mb.entry # 0 /\ mb' = fetched /\ Wakes(t, "send")
    BY <2>2, <2>3, <2>4, MbFetchServes
  <2>5. CASE mb.entry = 0 /\ UNCHANGED <<k, mb>> /\ Goes(t, NoCall)
    BY <2>2, <2>3, <2>5, MbWaitsServes
  <2>6. CASE /\ mb.entry = 0 /\ time # 0 /\ UNCHANGED mb
             /\ k' = rt_ipc_list_suspend(k, t, "recv", time)
             /\ Goes(t, Blocked("mb_recv", time, NULL))
    <3>1. time \in Times \ {0} /\ "recv" \in Queues /\ "mb_recv" \notin ThreadOps
      BY <2>6, ObjectFacts, Kinds_
    <3>2. LinesUp(t, "recv", "mb_recv")
      BY <2>2, <2>6, <3>1, ListSuspendJoins
    <3> QED BY <2>2, <2>3, <2>6, <3>2, MbWaitsServes
  <2> QED BY <2>1, <2>4, <2>5, <2>6
<1>3. CASE MbGivesUp(t)
  <2>1. Refused(t) /\ UNCHANGED mb
    BY <1>3, Kinds_ DEF MbGivesUp, Refused, objects
  <2>2. Quiet
    BY <2>1, RefusedQuiet
  <2> QED BY <2>1, <2>2, MbQuietServed
<1> QED BY <1>1, <1>2, <1>3 DEF MbCall

LEMMA MbServes ==
  ASSUME KInv, KInv', WInv, KindsOK, MbInv, MbServed, OwnCalls, Disciplined, kind = "mb", IpcNext
  PROVE  MbServed'
<1>1. CASE Kernel
  BY <1>1, KernelQuiet, MbQuietServed DEF objects
<1>2. CASE Handler
  <2>1. PICK v \in Values : ~mb_full /\ mb' = posted(v) /\ Wakes(NULL, "recv")
    BY <1>2 DEF Handler, About
  <2>2. NULL \notin OnTheWay("mb_recv")
    BY ObjectFacts DEF OnTheWay
  <2> QED BY <1>2, <2>1, <2>2, MbPostServes
<1>3. ASSUME NEW t \in Threads, Reset(t) PROVE MbServed'
  BY <1>3, ResetQuiet DEF MbServed, Served_, Wants, Thanked
<1>4. ASSUME NEW t \in Threads, Detach(t) \/ DetachStep(t) PROVE MbServed'
  <2>1. Quiet
    BY <1>4, RefusedQuiet DEF Refused
  <2>2. UNCHANGED mb
    BY <1>4 DEF Detach, DetachStep, objects
  <2> QED BY <2>1, <2>2, MbQuietServed
<1>5. ASSUME NEW t \in Threads, SemCall(t) \/ EventCall(t) \/ MbCall(t) \/ MqCall(t) \/ MpCall(t) \/ MutexCall(t)
      PROVE  MbServed'
  BY <1>5, CallsOfKind, MbCallServes
<1> QED BY <1>1, <1>2, <1>3, <1>4, <1>5, StepsOfKind

(***************************************************************************)
(* The message queue: one side, receivers who wait for messages.           *)
(***************************************************************************)
MqServed == Served_(mq.entry, "recv", "mq_recv")

LEMMA MqNumbers ==
  ASSUME MqInv
  PROVE  mq \in QueueData /\ mq.entry \in Nat /\ mq.entry \in Int
<1>1. mq \in QueueData
  BY DEF MqInv, Holds, Queued_
<1> QED BY <1>1 DEF QueueData

LEMMA MqServedThen ==
  ASSUME NEW m, mq'.entry = m, Wants("recv", "mq_recv")',
         ToSet(k'.wait["recv"]) # {} => m <= Cardinality(OnTheWay("mq_recv")')
  PROVE  MqServed'
BY DEF MqServed, Served_, Thanked

LEMMA MqQuietServed ==
  ASSUME KInv, KInv', MqInv, MqServed, Quiet, mq'.entry = mq.entry
  PROVE  MqServed'
<1> DEFINE n == mq.entry
           r == "recv"
           ro == "mq_recv"
<1>1. n \in Int /\ r \in Queues /\ Wants(r, ro) /\ Thanked(n, r, ro) /\ mq'.entry = n
  BY MqNumbers, ObjectFacts DEF MqServed, Served_
<1> HIDE DEF n, r, ro
<1>2. Wants(r, ro)' /\ (ToSet(k'.wait[r]) # {} => n <= Cardinality(OnTheWay(ro)'))
  BY <1>1, QuietSide
<1> QED BY <1>1, <1>2, MqServedThen DEF r, ro

(* A message more, and one more who is told; or neither.                    *)
LEMMA MqLinkServes ==
  ASSUME KInv, KInv', MqInv, MqServed, NEW by, InCall(by) \/ by = NULL,
         by \notin OnTheWay("mq_recv"), mq'.entry = mq.entry + 1, Wakes(by, "recv")
  PROVE  MqServed'
<1> DEFINE n == mq.entry
           m == n + 1
           r == "recv"
           ro == "mq_recv"
<1>1. /\ n \in Int /\ r \in Queues /\ Wants(r, ro) /\ Thanked(n, r, ro) /\ mq'.entry = m
      /\ Wakes(by, r) /\ by \notin OnTheWay(ro)
  BY MqNumbers, ObjectFacts DEF MqServed, Served_
<1>2. m \in Int /\ m <= n + 1
  BY <1>1
<1> HIDE DEF n, m, r, ro
<1>3. Wants(r, ro)' /\ (ToSet(k'.wait[r]) # {} => m <= Cardinality(OnTheWay(ro)'))
  BY <1>1, <1>2, WakesSide
<1> QED BY <1>1, <1>3, MqServedThen DEF r, ro

(* A thread goes without the kernel: perhaps with a message it came for.    *)
LEMMA MqGoesServes ==
  ASSUME KInv, KInv', MqInv, MqServed, NEW t, InCall(t), UNCHANGED k, NEW c, Goes(t, c),
         \/ mq.entry # 0 /\ mq'.entry = mq.entry - 1
         \/ mq.entry = 0 /\ mq'.entry = 0
         \/ t \notin OnTheWay("mq_recv") /\ mq'.entry = mq.entry
  PROVE  MqServed'
<1> DEFINE n == mq.entry
           m == mq'.entry
           r == "recv"
           ro == "mq_recv"
<1>1. /\ n \in Int /\ r \in Queues /\ Wants(r, ro) /\ Thanked(n, r, ro)
  BY MqNumbers, ObjectFacts DEF MqServed, Served_
<1>2. m \in Int /\ (m <= n - 1 \/ m <= 0 \/ (m <= n /\ t \notin OnTheWay(ro)))
  BY <1>1
<1>3. mq'.entry = m
  OBVIOUS
<1> HIDE DEF n, m, r, ro
<1>4. OthersKeep(t) /\ k'.wait[r] = k.wait[r] /\ t \notin ToSet(k.wait[r])
  BY <1>1, LeavesGoOn, RunnerWaits DEF InCall
<1>5. Wants(r, ro)' /\ (ToSet(k'.wait[r]) # {} => m <= Cardinality(OnTheWay(ro)'))
  BY <1>1, <1>2, <1>4, SideMoves
<1> QED BY <1>3, <1>5, MqServedThen DEF r, ro

LEMMA MqWaitsServes ==
  ASSUME KInv, KInv', MqInv, MqServed, NEW t, InCall(t), UNCHANGED mq, mq.entry = 0,
         LinesUp(t, "recv", "mq_recv")
  PROVE  MqServed'
<1> DEFINE r == "recv"
           ro == "mq_recv"
           z == 0
<1>1. /\ r \in Queues /\ Wants(r, ro) /\ LinesUp(t, r, ro) /\ mq'.entry = z /\ z \in Int /\ z <= 0
  BY ObjectFacts DEF MqServed, Served_
<1> HIDE DEF r, ro, z
<1>2. Wants(r, ro)' /\ z <= Cardinality(OnTheWay(ro)')
  BY <1>1, JoinsSide, EmptySide
<1> QED BY <1>1, <1>2, MqServedThen DEF r, ro

LEMMA MqCallServes ==
  ASSUME KInv, KInv', KindsOK, MqInv, MqServed, OwnCalls, NEW t \in Threads, MqCall(t)
  PROVE  MqServed'
<1>1. CASE MqSend(t)
  <2>1. PICK op \in {"mq_send", "mq_urgent"} :
          /\ Uses(t, "mq") /\ mq' = taken_free /\ UNCHANGED k /\ Goes(t, Copies(op, mq.free))
    BY <1>1 DEF MqSend, Copies
  <2>2. InCall(t) /\ t \notin OnTheWay("mq_recv")
    BY <2>1, BusyInCall, RunnerWaits DEF Uses, Calls
  <2>3. mq'.entry = mq.entry
    BY <2>1, MqNumbers DEF taken_free, QueueData
  <2> QED BY <2>1, <2>2, <2>3, MqGoesServes
<1>2. CASE MqLink(t)
  <2>1. /\ Runs(t) /\ call[t].at = "copy" /\ Wakes(t, "recv")
        /\ mq' \in {linked_last(call[t].arg), linked_first(call[t].arg)}
    BY <1>2 DEF MqLink
  <2>2. InCall(t) /\ t \notin OnTheWay("mq_recv")
    BY <2>1, CopyingInCall, RunnerWaits
  <2>3. mq'.entry = mq.entry + 1
    BY <2>1, MqNumbers DEF linked_last, linked_first, QueueData
  <2> QED BY <2>1, <2>2, <2>3, MqLinkServes
<1>3. CASE MqRecv(t)
  <2>1. PICK time \in Waits[kind] :
          /\ Tries(t, "mq", "mq_recv", NULL, time)
          /\ \/ mq.entry # 0 /\ mq' = unlinked /\ UNCHANGED k /\ Goes(t, Copies("mq_recv", mq.head))
             \/ mq.entry = 0 /\ UNCHANGED <<k, mq>> /\ Goes(t, NoCall)
             \/ /\ mq.entry = 0 /\ time # 0 /\ UNCHANGED mq
                /\ k' = rt_ipc_list_suspend(k, t, "recv", time)
                /\ Goes(t, Blocked("mq_recv", time, NULL))
    BY <1>3 DEF MqRecv, Copies
  <2>2. InCall(t)
    BY <2>1, TriesInCall
  <2>3. CASE mq.entry # 0 /\ mq' = unlinked /\ UNCHANGED k /\ Goes(t, Copies("mq_recv", mq.head))
    <3>1. mq'.entry = mq.entry - 1
      BY <2>3, MqNumbers DEF unlinked, QueueData
    <3> QED BY <2>2, <2>3, <3>1, MqGoesServes
  <2>4. CASE mq.entry = 0 /\ UNCHANGED <<k, mq>> /\ Goes(t, NoCall)
    BY <2>2, <2>4, MqGoesServes
  <2>5. CASE /\ mq.entry = 0 /\ time # 0 /\ UNCHANGED mq
             /\ k' = rt_ipc_list_suspend(k, t, "recv", time)
             /\ Goes(t, Blocked("mq_recv", time, NULL))
    <3>1. time \in Times \ {0} /\ "recv" \in Queues /\ "mq_recv" \notin ThreadOps
      BY <2>5, ObjectFacts, Kinds_
    <3>2. LinesUp(t, "recv", "mq_recv")
      BY <2>2, <2>5, <3>1, ListSuspendJoins
    <3> QED BY <2>2, <2>5, <3>2, MqWaitsServes
  <2> QED BY <2>1, <2>3, <2>4, <2>5
<1>4. CASE MqFree(t)
  <2>1. /\ Runs(t) /\ call[t].at = "copy" /\ UNCHANGED k /\ Goes(t, NoCall)
        /\ mq' = returned_to(mq, call[t].arg)
    BY <1>4 DEF MqFree
  <2>2. InCall(t) /\ t \notin OnTheWay("mq_recv")
    BY <2>1, CopyingInCall, RunnerWaits
  <2>3. mq'.entry = mq.entry
    BY <2>1, MqNumbers DEF returned_to, QueueData
  <2> QED BY <2>1, <2>2, <2>3, MqGoesServes
<1>5. CASE MqGivesUp(t)
  <2>1. Refused(t) /\ UNCHANGED mq
    BY <1>5, Kinds_ DEF MqGivesUp, Refused, objects
  <2>2. Quiet
    BY <2>1, RefusedQuiet
  <2> QED BY <2>1, <2>2, MqQuietServed
<1> QED BY <1>1, <1>2, <1>3, <1>4, <1>5 DEF MqCall

LEMMA MqServes ==
  ASSUME KInv, KInv', WInv, KindsOK, MqInv, MqServed, OwnCalls, Disciplined, kind = "mq", IpcNext
  PROVE  MqServed'
<1>1. CASE Kernel
  BY <1>1, KernelQuiet, MqQuietServed DEF objects
<1>2. CASE Handler
  <2>1. MqSendIsr
    BY <1>2 DEF Handler, About
  <2>2. PICK first \in BOOLEAN :
          mq' = [(IF first THEN linked_first(mq.free) ELSE linked_last(mq.free))
                   EXCEPT !.free = mq.next[mq.free]]
    BY <2>1 DEF MqSendIsr
  <2>3. mq'.entry = mq.entry + 1
    BY <2>2, MqNumbers DEF linked_last, linked_first, QueueData
  <2>4. Wakes(NULL, "recv") /\ NULL \notin OnTheWay("mq_recv")
    BY <2>1, ObjectFacts DEF MqSendIsr, OnTheWay
  <2> QED BY <1>2, <2>3, <2>4, MqLinkServes
<1>3. ASSUME NEW t \in Threads, Reset(t) PROVE MqServed'
  BY <1>3, ResetQuiet DEF MqServed, Served_, Wants, Thanked
<1>4. ASSUME NEW t \in Threads, Detach(t) \/ DetachStep(t) PROVE MqServed'
  <2>1. Quiet
    BY <1>4, RefusedQuiet DEF Refused
  <2>2. UNCHANGED mq
    BY <1>4 DEF Detach, DetachStep, objects
  <2> QED BY <2>1, <2>2, MqQuietServed
<1>5. ASSUME NEW t \in Threads, SemCall(t) \/ EventCall(t) \/ MbCall(t) \/ MqCall(t) \/ MpCall(t) \/ MutexCall(t)
      PROVE  MqServed'
  BY <1>5, CallsOfKind, MqCallServes
<1> QED BY <1>1, <1>2, <1>3, <1>4, <1>5, StepsOfKind

(***************************************************************************)
(* The pool: one list, and never fewer counted than wait on it.            *)
(***************************************************************************)
CountsEnough ==
  /\ \A q \in Queues \ {"recv"} : ToSet(k.wait[q]) = {}
  /\ mp.suspend_thread_count \in Int
  /\ Cardinality(ToSet(k.wait["recv"])) <= mp.suspend_thread_count
MpServed == Served_(mp.block_free_count, "recv", "mp") /\ CountsEnough

LEMMA MpNumbers ==
  ASSUME MpInv
  PROVE  /\ mp.block_free_count \in Nat /\ mp.block_free_count \in Int
         /\ \A n : LET r == [mp EXCEPT !.suspend_thread_count = n] IN
              r.suspend_thread_count = n /\ r.block_free_count = mp.block_free_count
         /\ mp_taken.suspend_thread_count = mp.suspend_thread_count
         /\ mp_taken.block_free_count = mp.block_free_count - 1
         /\ \A b, one : /\ mp_freed(b, one).block_free_count = mp.block_free_count + 1
                        /\ mp_freed(b, one).suspend_thread_count =
                             IF one THEN mp.suspend_thread_count - 1 ELSE mp.suspend_thread_count
BY DEF MpInv, mp_taken, mp_freed

LEMMA WaitersCount ==
  ASSUME KInv, KInv', NEW q \in Queues
  PROVE  /\ Cardinality(ToSet(k.wait[q])) \in Nat /\ Cardinality(ToSet(k'.wait[q])) \in Nat
         /\ ToSet(k'.wait[q]) \subseteq ToSet(k.wait[q]) =>
              Cardinality(ToSet(k'.wait[q])) <= Cardinality(ToSet(k.wait[q]))
         /\ ToSet(k'.wait[q]) \subseteq ToSet(k.wait[q]) =>
              \A w \in ToSet(k.wait[q]) \ ToSet(k'.wait[q]) :
                Cardinality(ToSet(k'.wait[q])) + 1 <= Cardinality(ToSet(k.wait[q]))
         /\ \A t : ToSet(k'.wait[q]) = ToSet(k.wait[q]) \cup {t} =>
              Cardinality(ToSet(k'.wait[q])) <= Cardinality(ToSet(k.wait[q])) + 1
<1> DEFINE A == ToSet(k.wait[q])
           B == ToSet(k'.wait[q])
<1>1. A \in SUBSET Threads /\ B \in SUBSET Threads
  <2>1. k.wait \in [Queues -> Seq(Threads)] /\ k'.wait \in [Queues -> Seq(Threads)]
    <3>1. k \in KernelData /\ k' \in KernelData
      BY SaneData, SaneAfter DEF KInv
    <3> QED BY <3>1 DEF KernelData
  <2> DEFINE a == k.wait[q]
             b == k'.wait[q]
  <2>2. a \in Seq(Threads) /\ b \in Seq(Threads)
    BY <2>1
  <2> HIDE DEF a, b
  <2>3. \A s \in Seq(Threads) : ToSet(s) \in SUBSET Threads
    BY DEF ToSet
  <2>4. ToSet(a) \in SUBSET Threads /\ ToSet(b) \in SUBSET Threads
    BY <2>2, <2>3
  <2> QED BY <2>4 DEF a, b
<1> HIDE DEF A, B
<1>2. /\ Cardinality(A) \in Nat /\ Cardinality(B) \in Nat
      /\ B \subseteq A => Cardinality(B) <= Cardinality(A)
      /\ \A w \in A \ B : B \subseteq A => Cardinality(B) + 1 <= Cardinality(A)
      /\ \A t : B \ {t} \subseteq A => Cardinality(B) <= Cardinality(A) + 1
  BY <1>1, SetsCompare
<1>3. \A t : B = A \cup {t} => B \ {t} \subseteq A
  OBVIOUS
<1> QED BY <1>2, <1>3 DEF A, B

(* The count is kept, or goes down by one with the list.                    *)
LEMMA CountedMoves ==
  ASSUME KInv, KInv', CountsEnough, \A x \in Queues : ToSet(k'.wait[x]) \subseteq ToSet(k.wait[x]),
         \/ mp'.suspend_thread_count = mp.suspend_thread_count
         \/ /\ mp'.suspend_thread_count = mp.suspend_thread_count - 1
            /\ \E w \in ToSet(k.wait["recv"]) : w \notin ToSet(k'.wait["recv"])
  PROVE  CountsEnough'
<1> DEFINE r == "recv"
           n == mp.suspend_thread_count
           m == mp'.suspend_thread_count
           a == Cardinality(ToSet(k.wait[r]))
           b == Cardinality(ToSet(k'.wait[r]))
<1>1. /\ r \in Queues /\ n \in Int /\ a <= n
      /\ \A q \in Queues \ {r} : ToSet(k.wait[q]) = {}
  BY ObjectFacts DEF CountsEnough
<1>2. m = n \/ (m = n - 1 /\ \E w \in ToSet(k.wait[r]) : w \notin ToSet(k'.wait[r]))
  OBVIOUS
<1> HIDE DEF r, n, m
<1>3. /\ a \in Nat /\ b \in Nat /\ b <= a
      /\ \A w \in ToSet(k.wait[r]) \ ToSet(k'.wait[r]) : b + 1 <= a
  BY <1>1, WaitersCount
<1>4. m = n \/ (m = n - 1 /\ b + 1 <= a)
  BY <1>2, <1>3
<1> HIDE DEF a, b
<1>5. m \in Int /\ b <= m
  BY <1>1, <1>3, <1>4
<1>6. \A q \in Queues \ {r} : ToSet(k'.wait[q]) = {}
  BY <1>1
<1> QED BY <1>5, <1>6 DEF CountsEnough, r, m, b

LEMMA MpServedThen ==
  ASSUME NEW m, mp'.block_free_count = m, Wants("recv", "mp")', CountsEnough',
         ToSet(k'.wait["recv"]) # {} => m <= Cardinality(OnTheWay("mp")')
  PROVE  MpServed'
BY DEF MpServed, Served_, Thanked

LEMMA MpQuietServed ==
  ASSUME KInv, KInv', MpInv, MpServed, Quiet, mp'.block_free_count = mp.block_free_count,
         \/ mp'.suspend_thread_count = mp.suspend_thread_count
         \/ /\ mp'.suspend_thread_count = mp.suspend_thread_count - 1
            /\ \E w \in ToSet(k.wait["recv"]) : w \notin ToSet(k'.wait["recv"])
  PROVE  MpServed'
<1> DEFINE n == mp.block_free_count
           r == "recv"
           o == "mp"
<1>1. n \in Int /\ r \in Queues /\ Wants(r, o) /\ Thanked(n, r, o) /\ mp'.block_free_count = n
  BY MpNumbers, ObjectFacts DEF MpServed, Served_
<1> HIDE DEF n, r, o
<1>2. Wants(r, o)' /\ (ToSet(k'.wait[r]) # {} => n <= Cardinality(OnTheWay(o)'))
  BY <1>1, QuietSide
<1>3. CountsEnough'
  <2>1. \A x \in Queues : ToSet(k'.wait[x]) \subseteq ToSet(k.wait[x])
    BY DEF Quiet, Thinner
  <2> QED BY <2>1, CountedMoves DEF MpServed
<1> QED BY <1>1, <1>2, <1>3, MpServedThen DEF r, o

LEMMA MpGoesServes ==
  ASSUME KInv, KInv', MpInv, MpServed, NEW t, InCall(t), UNCHANGED k, Goes(t, NoCall),
         mp'.suspend_thread_count = mp.suspend_thread_count,
         \/ mp.block_free_count # 0 /\ mp'.block_free_count = mp.block_free_count - 1
         \/ mp.block_free_count = 0 /\ mp'.block_free_count = 0
  PROVE  MpServed'
<1> DEFINE n == mp.block_free_count
           m == mp'.block_free_count
           r == "recv"
           o == "mp"
<1>1. n \in Int /\ r \in Queues /\ Wants(r, o) /\ Thanked(n, r, o)
  BY MpNumbers, ObjectFacts DEF MpServed, Served_
<1>2. m \in Int /\ (m <= n - 1 \/ m <= 0)
  BY <1>1
<1>3. mp'.block_free_count = m
  OBVIOUS
<1> HIDE DEF n, m, r, o
<1>4. /\ OthersKeep(t) /\ k'.wait[r] = k.wait[r] /\ t \notin ToSet(k.wait[r])
      /\ \A x \in Queues : ToSet(k'.wait[x]) \subseteq ToSet(k.wait[x])
  BY <1>1, LeavesGoOn, RunnerWaits DEF InCall
<1>5. Wants(r, o)' /\ (ToSet(k'.wait[r]) # {} => m <= Cardinality(OnTheWay(o)'))
  BY <1>1, <1>2, <1>4, SideMoves
<1>6. CountsEnough'
  BY <1>4, CountedMoves DEF MpServed
<1> QED BY <1>3, <1>5, <1>6, MpServedThen DEF r, o

LEMMA MpWaitsServes ==
  ASSUME KInv, KInv', MpInv, MpServed, NEW t, InCall(t), mp.block_free_count = 0,
         mp'.block_free_count = 0, mp'.suspend_thread_count = mp.suspend_thread_count + 1,
         LinesUp(t, "recv", "mp")
  PROVE  MpServed'
<1> DEFINE r == "recv"
           o == "mp"
           z == 0
           n == mp.suspend_thread_count
           m == mp'.suspend_thread_count
           a == Cardinality(ToSet(k.wait[r]))
           b == Cardinality(ToSet(k'.wait[r]))
<1>1. /\ r \in Queues /\ Wants(r, o) /\ LinesUp(t, r, o) /\ mp'.block_free_count = z
      /\ z \in Int /\ z <= 0 /\ n \in Int /\ a <= n /\ m = n + 1
      /\ \A q \in Queues \ {r} : ToSet(k.wait[q]) = {}
  <2>1. CountsEnough /\ Wants("recv", "mp")
    BY DEF MpServed, Served_
  <2>2. n \in Int /\ a <= n /\ \A q \in Queues \ {r} : ToSet(k.wait[q]) = {}
    BY <2>1 DEF CountsEnough
  <2>3. r \in Queues /\ z \in Int /\ z <= 0
    BY ObjectFacts
  <2>4. m = n + 1 /\ mp'.block_free_count = z /\ LinesUp(t, r, o)
    OBVIOUS
  <2> QED BY <2>1, <2>2, <2>3, <2>4
<1> HIDE DEF r, o, z, n, m
<1>2. Wants(r, o)' /\ z <= Cardinality(OnTheWay(o)')
  BY <1>1, JoinsSide, EmptySide
<1>3. a \in Nat /\ b \in Nat /\ b <= a + 1
  BY <1>1, WaitersCount DEF LinesUp
<1>4. \A q \in Queues \ {r} : ToSet(k'.wait[q]) = {}
  BY <1>1 DEF LinesUp
<1> HIDE DEF a, b
<1>5. m \in Int /\ b <= m
  BY <1>1, <1>3
<1>6. CountsEnough'
  BY <1>4, <1>5 DEF CountsEnough, r, m, b
<1> QED BY <1>1, <1>2, <1>6, MpServedThen DEF r, o

(* A block comes back.                                                      *)
LEMMA MpFreeServes ==
  ASSUME KInv, KInv', Disciplined, MpInv, MpServed, NEW by, InCall(by) \/ by = NULL,
         by \notin OnTheWay("mp"), MpFree(by)
  PROVE  MpServed'
<1> DEFINE n == mp.block_free_count
           m == n + 1
           r == "recv"
           o == "mp"
           z == mp.suspend_thread_count
           a == Cardinality(ToSet(k.wait[r]))
<1>1. /\ n \in Int /\ r \in Queues /\ Wants(r, o) /\ Thanked(n, r, o) /\ by \notin OnTheWay(o)
      /\ z \in Int /\ a <= z
  BY MpNumbers, ObjectFacts DEF MpServed, Served_, CountsEnough
<1>2. m \in Int /\ m <= n + 1
  BY <1>1
<1>3. PICK b \in Blocks, one \in BOOLEAN :
        /\ mp' = mp_freed(b, one)
        /\ \/ ~one /\ z = 0 /\ UNCHANGED kernel_vars
           \/ one /\ k.wait[r] # <<>> /\ Wakes(by, r)
           \/ /\ one /\ z > 0 /\ k.wait[r] = <<>>
              /\ \/ k' = rt_schedule(k) /\ UNCHANGED call
                 \/ k' = k /\ by # NULL /\ Reschedules(by)
  <2>1. head_resumed = {k}
    BY DEF head_resumed, Disciplined
  <2> QED BY <2>1 DEF MpFree
<1>4. /\ mp'.block_free_count = m
      /\ mp'.suspend_thread_count = IF one THEN z - 1 ELSE z
  BY <1>3, MpNumbers
<1> HIDE DEF n, m, r, o
<1>5. CASE ~one /\ z = 0 /\ UNCHANGED kernel_vars
  <2>1. ToSet(k.wait[r]) = {}
    <3>1. a \in Nat
      BY <1>1, WaitersCount
    <3>2. a = 0
      BY <1>1, <1>5, <3>1
    <3>3. ToSet(k.wait[r]) \in SUBSET Threads
      BY <1>1, WaitersAreSuspended
    <3>4. IsFiniteSet(ToSet(k.wait[r]))
      BY <3>3, KernelAssumption, FS_Subset
    <3> QED BY <3>2, <3>4, FS_EmptySet
  <2>2. UNCHANGED k /\ ToSet(k'.wait[r]) = {}
    BY <1>5, <2>1 DEF kernel_vars
  <2>3. CountsEnough'
    BY <1>4, <1>5, <2>2, CountedMoves DEF MpServed
  <2>4. Wants(r, o)'
    BY <2>2 DEF Wants
  <2> QED BY <1>4, <2>2, <2>3, <2>4, MpServedThen DEF r, o
<1>6. CASE one /\ k.wait[r] # <<>> /\ Wakes(by, r)
  <2>1. Wants(r, o)' /\ (ToSet(k'.wait[r]) # {} => m <= Cardinality(OnTheWay(o)'))
    BY <1>1, <1>2, <1>6, WakesSide
  <2>2. /\ \A x \in Queues : ToSet(k'.wait[x]) \subseteq ToSet(k.wait[x])
        /\ ToSet(k.wait[r]) # {} => \E w \in ToSet(k.wait[r]) : w \notin ToSet(k'.wait[r])
    BY <1>1, <1>6, WakesOne
  <2>3. ToSet(k.wait[r]) # {}
    <3>1. k.wait[r] \in Seq(Threads)
      BY <1>1, SaneData DEF KInv, KernelData
    <3>2. Head(k.wait[r]) \in ToSet(k.wait[r])
      BY <1>6, <3>1 DEF ToSet
    <3> QED BY <3>2
  <2>4. CountsEnough'
    BY <1>4, <1>6, <2>2, <2>3, CountedMoves DEF MpServed, r
  <2> QED BY <1>4, <2>1, <2>4, MpServedThen DEF r, o
<1>7. CASE /\ one /\ z > 0 /\ k.wait[r] = <<>>
           /\ \/ k' = rt_schedule(k) /\ UNCHANGED call
              \/ k' = k /\ by # NULL /\ Reschedules(by)
  <2>1. \A q \in Queues : k'.wait[q] = k.wait[q]
    <3>1. k \in KernelData
      BY SaneData DEF KInv
    <3> QED BY <1>7, <3>1 DEF rt_schedule, KernelData
  <2>2. ToSet(k.wait[r]) = {} /\ ToSet(k'.wait[r]) = {}
    BY <1>1, <1>7, <2>1 DEF ToSet
  <2>3. CountsEnough'
    <3>1. \A q \in Queues \ {"recv"} : ToSet(k'.wait[q]) = {}
      BY <2>1 DEF MpServed, CountsEnough
    <3>2. mp'.suspend_thread_count \in Int /\ 0 <= mp'.suspend_thread_count
      BY <1>1, <1>4, <1>7
    <3>3. Cardinality(ToSet(k'.wait["recv"])) = 0
      BY <2>2, FS_EmptySet DEF r
    <3> QED BY <3>1, <3>2, <3>3 DEF CountsEnough
  <2>4. Wants(r, o)'
    BY <2>2 DEF Wants
  <2> QED BY <1>4, <2>2, <2>3, <2>4, MpServedThen DEF r, o
<1> QED BY <1>3, <1>5, <1>6, <1>7

LEMMA MpDetachServes ==
  ASSUME KInv, KInv', MpInv, MpServed, kind = "mp", NEW t \in Threads, Detach(t) \/ DetachStep(t)
  PROVE  MpServed'
<1>1. Quiet
  BY RefusedQuiet DEF Refused
<1>2. CASE Detach(t)
  <2>1. UNCHANGED mp
    BY <1>2 DEF Detach, objects
  <2> QED BY <1>1, <2>1, MpQuietServed
<1>3. CASE DetachStep(t) /\ waiting = {}
  <2>1. UNCHANGED mp
    BY <1>3 DEF DetachStep
  <2> QED BY <1>1, <2>1, MpQuietServed
<1>4. CASE DetachStep(t) /\ waiting # {}
  <2> DEFINE r == "recv"
             w == Head(k.wait[r])
  <2>1. PICK q \in waiting :
          /\ k' = resumed_bad(k, Head(k.wait[q]))
          /\ mp' = [mp EXCEPT !.suspend_thread_count = @ - 1]
    BY <1>4 DEF DetachStep
  <2>2. k.wait \in [Queues -> Seq(Threads)]
    <3>1. k \in KernelData
      BY SaneData DEF KInv
    <3> QED BY <3>1 DEF KernelData
  <2>3. \A s \in Seq(Threads) : s # <<>> => Head(s) \in ToSet(s) /\ Head(s) \in Threads
    BY DEF ToSet
  <2>4. q \in Queues /\ k.wait[q] # <<>>
    BY <2>1 DEF waiting
  <2>5. q = r
    BY <2>2, <2>3, <2>4 DEF MpServed, CountsEnough
  <2>6. w \in ToSet(k.wait[r]) /\ k' = resumed_bad(k, w) /\ r \in Queues
    BY <2>1, <2>2, <2>3, <2>4, <2>5
  <2> HIDE DEF r, w
  <2>7. w \in Threads \ BeingDeleted /\ k.stat[w] = "SUSPEND"
    <3>1. Linked(k, BeingDeleted, Reaped, 1)
      BY SaneData DEF KInv
    <3>2. w \notin BeingDeleted
      <4>1. w \in Threads
        BY <2>6, WaitersAreSuspended
      <4> QED BY <2>6, <3>1, <4>1 DEF Linked, WaitLinked
    <3> QED BY <2>6, <3>2, WaitersAreSuspended
  <2>8. k \in Good(BeingDeleted, Reaped, 1)
    BY SaneData DEF KInv
  <2>9. k'.stat[w] = "READY"
    BY <2>6, <2>7, <2>8, ResumesBad
  <2>10. w \notin ToSet(k'.wait[r])
    <3>1. k' \in KernelData /\ Linked(k', BeingDeleted', Reaped', 1)
      BY SaneAfter
    <3> QED BY <2>6, <2>7, <2>9, <3>1 DEF Linked, WaitLinked
  <2>11. /\ mp'.suspend_thread_count = mp.suspend_thread_count - 1
         /\ mp'.block_free_count = mp.block_free_count
    BY <2>1, MpNumbers
  <2> QED BY <1>1, <2>6, <2>10, <2>11, MpQuietServed DEF r
<1> QED BY <1>2, <1>3, <1>4

LEMMA MpCallServes ==
  ASSUME KInv, KInv', Disciplined, KindsOK, MpInv, MpServed, OwnCalls, NEW t \in Threads, MpCall(t)
  PROVE  MpServed'
<1>1. CASE MpAlloc(t)
  <2>1. PICK time \in Waits[kind] :
          /\ Tries(t, "mp", "mp", NULL, time)
          /\ \/ mp.block_free_count # 0 /\ mp' = mp_taken /\ UNCHANGED k /\ Goes(t, NoCall)
             \/ mp.block_free_count = 0 /\ UNCHANGED <<k, mp>> /\ Goes(t, NoCall)
             \/ /\ mp.block_free_count = 0 /\ time # 0
                /\ mp' = [mp EXCEPT !.suspend_thread_count = @ + 1]
                /\ k' = mp_waits(k, t, time) /\ Goes(t, Blocked("mp", time, NULL))
    BY <1>1 DEF MpAlloc
  <2>2. InCall(t)
    BY <2>1, TriesInCall
  <2>3. CASE mp.block_free_count # 0 /\ mp' = mp_taken /\ UNCHANGED k /\ Goes(t, NoCall)
    BY <2>2, <2>3, MpNumbers, MpGoesServes
  <2>4. CASE mp.block_free_count = 0 /\ UNCHANGED <<k, mp>> /\ Goes(t, NoCall)
    BY <2>2, <2>4, MpGoesServes
  <2>5. CASE /\ mp.block_free_count = 0 /\ time # 0
             /\ mp' = [mp EXCEPT !.suspend_thread_count = @ + 1]
             /\ k' = mp_waits(k, t, time) /\ Goes(t, Blocked("mp", time, NULL))
    <3> DEFINE r == "recv"
               o == "mp"
               c == Blocked(o, time, NULL)
    <3>1. time \in Times \ {0} /\ r \in Queues /\ Goes(t, c) /\ Pend(c) /\ c.op = o
      BY <2>5, ObjectFacts, Kinds_ DEF Blocked, Pend, ThreadOps
    <3>2. /\ k' \in Good(BeingDeleted, Reaped, 1) /\ WaitsOn(k, k', t)
          /\ k'.err = [k.err EXCEPT ![t] = "EOK"]
          /\ ToSet(k'.wait[r]) = ToSet(k.wait[r]) \cup {t}
          /\ \A q \in Queues \ {r} : k'.wait[q] = k.wait[q]
      <4>1. /\ k \in Good(BeingDeleted, Reaped, 1) /\ t \in Threads \ {Idle}
            /\ t \notin BeingDeleted /\ k.stat[t] = "READY" /\ t = k.current
        BY <2>2, SaneData DEF InCall
      <4>2. k' = mp_waits(k, t, time)
        BY <2>5
      <4> QED BY <3>1, <4>1, <4>2, PoolSuspends
    <3>3. k.err \in [Threads -> {"EOK", "ERROR", "ETIMEOUT"}] /\ k.stat \in [Threads -> Stats]
      BY <2>2 DEF InCall, KernelData
    <3> HIDE DEF r, o, c
    <3>4. k'.stat[t] = "SUSPEND" /\ \A u \in Threads \ {t} : k'.stat[u] = k.stat[u]
      BY <3>2, <3>3 DEF WaitsOn
    <3>5. t \in Threads /\ k'.err[t] = "EOK" /\ \A u \in Threads \ {t} : k'.err[u] = k.err[u]
      BY <3>2, <3>3
    <3>6. LinesUp(t, r, o)
      BY <3>1, <3>2, <3>4, <3>5 DEF LinesUp
    <3>7. LinesUp(t, "recv", "mp")
      BY <3>6 DEF r, o
    <3>8. mp'.suspend_thread_count = mp.suspend_thread_count + 1 /\ mp'.block_free_count = 0
      BY <2>5, MpNumbers
    <3> QED BY <2>2, <2>5, <3>7, <3>8, MpWaitsServes
  <2> QED BY <2>1, <2>3, <2>4, <2>5
<1>2. CASE Uses(t, "mp") /\ MpFree(t)
  <2>1. InCall(t) /\ t \notin OnTheWay("mp")
    BY <1>2, BusyInCall, RunnerWaits DEF Uses, Calls
  <2> QED BY <1>2, <2>1, MpFreeServes
<1>3. CASE MpGivesUp(t)
  <2>1. Refused(t) /\ UNCHANGED mp
    BY <1>3, Kinds_ DEF MpGivesUp, Refused, objects
  <2>2. Quiet
    BY <2>1, RefusedQuiet
  <2> QED BY <2>1, <2>2, MpQuietServed
<1> QED BY <1>1, <1>2, <1>3 DEF MpCall

LEMMA MpServes ==
  ASSUME KInv, KInv', WInv, KindsOK, MpInv, MpServed, OwnCalls, Disciplined, kind = "mp", IpcNext
  PROVE  MpServed'
<1>1. CASE Kernel
  BY <1>1, KernelQuiet, MpQuietServed DEF objects
<1>2. CASE Handler
  <2>1. MpFree(NULL)
    BY <1>2 DEF Handler, About
  <2>2. NULL \notin OnTheWay("mp")
    BY ObjectFacts DEF OnTheWay
  <2> QED BY <1>2, <2>1, <2>2, MpFreeServes
<1>3. ASSUME NEW t \in Threads PROVE ~Reset(t)
  BY DEF Reset
<1>4. ASSUME NEW t \in Threads, Detach(t) \/ DetachStep(t) PROVE MpServed'
  BY <1>4, MpDetachServes
<1>5. ASSUME NEW t \in Threads, SemCall(t) \/ EventCall(t) \/ MbCall(t) \/ MqCall(t) \/ MpCall(t) \/ MutexCall(t)
      PROVE  MpServed'
  BY <1>5, CallsOfKind, MpCallServes
<1> QED BY <1>1, <1>2, <1>3, <1>4, <1>5, StepsOfKind

(***************************************************************************)
(* Semaphore and event: who waits is not kept waiting.                     *)
(***************************************************************************)
SemServed == ToSet(k.wait["recv"]) # {} => sem = 0
EventServed_ == \A t \in ToSet(k.wait["recv"]) : ~Granted(event.set, event.wish[t])

LEMMA QuietThins ==
  ASSUME Quiet
  PROVE  ToSet(k'.wait["recv"]) \subseteq ToSet(k.wait["recv"])
BY ObjectFacts DEF Quiet, Thinner

LEMMA SemServes ==
  ASSUME KInv, KInv', WInv, KindsOK, SemServed, OwnCalls, Disciplined, kind = "sem", IpcNext
  PROVE  SemServed'
<1>1. CASE Kernel
  <2>1. UNCHANGED sem
    BY <1>1, KernelQuiet DEF objects
  <2> QED BY <1>1, <2>1, KernelQuiet, QuietThins DEF SemServed
<1>2. ASSUME NEW by, SemRelease(by) PROVE SemServed'
  <2>1. CASE k.wait["recv"] = <<>>
    <3>1. UNCHANGED k
      BY <1>2, <2>1 DEF SemRelease, sem_waiting, kernel_vars
    <3> QED BY <2>1, <3>1 DEF SemServed, ToSet
  <2>2. CASE k.wait["recv"] # <<>>
    <3>1. sem' = sem
      BY <1>2, <2>2 DEF SemRelease, sem_waiting, released
    <3> DEFINE l == k.wait["recv"]
    <3>2. l \in Seq(Threads) /\ l # <<>>
      BY <2>2, ObjectFacts, SaneData DEF KInv, KernelData
    <3> HIDE DEF l
    <3>3. Head(l) \in ToSet(l)
      BY <3>2 DEF ToSet
    <3> QED BY <3>1, <3>3 DEF SemServed, l
  <2> QED BY <2>1, <2>2
<1>3. CASE Handler
  BY <1>2, <1>3 DEF Handler, About
<1>4. ASSUME NEW t \in Threads, SemCall(t) PROVE SemServed'
  <2>1. CASE SemTake(t)
    <3>1. \/ sem > 0 /\ UNCHANGED k
          \/ sem = 0 /\ UNCHANGED sem
      BY <2>1 DEF SemTake, kernel_vars
    <3>2. ~(sem > 0 /\ sem = 0)
      OBVIOUS
    <3> QED BY <3>1, <3>2 DEF SemServed
  <2>2. CASE SemTaken(t)
    BY <2>2 DEF SemTaken, SemServed, GivesUp, objects
  <2> QED BY <1>2, <1>4, <2>1, <2>2 DEF SemCall
<1>5. ASSUME NEW t \in Threads, Reset(t) PROVE SemServed'
  BY <1>5, ResetQuiet DEF SemServed
<1>6. ASSUME NEW t \in Threads, Detach(t) \/ DetachStep(t) PROVE SemServed'
  <2>1. UNCHANGED sem
    BY <1>6 DEF Detach, DetachStep, objects
  <2>2. Quiet
    BY <1>6, RefusedQuiet DEF Refused
  <2> QED BY <2>1, <2>2, QuietThins DEF SemServed
<1>7. ASSUME NEW t \in Threads, SemCall(t) \/ EventCall(t) \/ MbCall(t) \/ MqCall(t) \/ MpCall(t) \/ MutexCall(t)
      PROVE  SemServed'
  BY <1>4, <1>7, CallsOfKind
<1> QED BY <1>1, <1>3, <1>5, <1>6, <1>7, StepsOfKind

LEMMA EventSendServes ==
  ASSUME KInv, event \in EventData, EventServed_, NEW by, InCall(by) \/ by = NULL,
         EventSend(by)
  PROVE  EventServed_'
<1>1. k \in Good(BeingDeleted, Reaped, 1)
  BY SaneData DEF KInv
<1>2. PICK set \in SUBSET Bits \ {{}} :
        LET s == served(set) IN
        /\ event' = [set |-> s.set, wish |-> s.wish]
        /\ \/ s.k = k /\ UNCHANGED kernel_vars
           \/ k' = rt_schedule(s.k)
           \/ k' = s.k
  BY DEF EventSend
<1> DEFINE s == served(set)
<1>3. /\ s.k \in Good(BeingDeleted, Reaped, 1)
      /\ \A t \in ToSet(s.k.wait["recv"]) : ~Granted(s.set, s.wish[t])
  <2>1. set \in SUBSET Bits /\ "recv" \in Queues
    BY ObjectFacts
  <2> QED BY <1>1, <2>1, Serves
<1>4. /\ event' = [set |-> s.set, wish |-> s.wish]
      /\ \/ s.k = k /\ UNCHANGED kernel_vars
         \/ k' = rt_schedule(s.k)
         \/ k' = s.k
  BY <1>2
<1> HIDE DEF s
<1>5. k'.wait = s.k.wait
  <2>1. CASE k' = rt_schedule(s.k)
    <3> DEFINE up == s.k
    <3>1. up \in KernelData /\ k' = rt_schedule(up)
      BY <1>3, <2>1, GoodData
    <3> HIDE DEF up
    <3>2. k'.wait = up.wait
      BY <3>1 DEF rt_schedule, KernelData
    <3> QED BY <3>2 DEF up
  <2>2. CASE k' # rt_schedule(s.k)
    BY <1>4, <2>2 DEF kernel_vars
  <2> QED BY <2>1, <2>2
<1>6. event'.set = s.set /\ event'.wish = s.wish
  BY <1>4
<1> QED BY <1>3, <1>5, <1>6 DEF EventServed_

LEMMA EventCallServes ==
  ASSUME KInv, KindsOK, event \in EventData, EventServed_, NEW t \in Threads, EventCall(t)
  PROVE  EventServed_'
<1>1. event.wish \in [Threads -> Wish] /\ event = [set |-> event.set, wish |-> event.wish]
  BY DEF EventData
<1>2. \A u \in ToSet(k.wait["recv"]) : u \in Threads
  BY ObjectFacts, WaitersAreSuspended
<1>3. CASE EventRecv(t)
  <2>1. PICK w \in Wishes, time \in Waits[kind] :
          /\ Uses(t, "event")
          /\ \/ /\ event' = IF w.clear THEN [event EXCEPT !.set = @ \ w.set] ELSE event
                /\ k' = [k EXCEPT !.err[t] = "EOK"]
             \/ Fails(t, "ETIMEOUT") /\ UNCHANGED event
             \/ /\ ~Granted(event.set, w) /\ time # 0
                /\ k' = rt_ipc_list_suspend(k, t, "recv", time)
                /\ Goes(t, Blocked("event", time, NULL))
                /\ event' = [event EXCEPT !.wish[t] = w]
    BY <1>3 DEF EventRecv
  <2>2. InCall(t) /\ t \notin ToSet(k.wait["recv"])
    BY <2>1, BeginsFree, ObjectFacts
  <2>3. k = [k EXCEPT !.wait = k.wait] /\ \A e : [k EXCEPT !.err[t] = e].wait = k.wait
    BY <2>2 DEF InCall, KernelData
  <2>4. CASE /\ event' = IF w.clear THEN [event EXCEPT !.set = @ \ w.set] ELSE event
             /\ k' = [k EXCEPT !.err[t] = "EOK"]
    <3>1. event'.set \subseteq event.set /\ event'.wish = event.wish /\ k'.wait = k.wait
      BY <1>1, <2>3, <2>4
    <3>2. \A x : Granted(event'.set, x) => Granted(event.set, x)
      BY <3>1 DEF Granted
    <3> QED BY <3>1, <3>2 DEF EventServed_
  <2>5. CASE Fails(t, "ETIMEOUT") /\ UNCHANGED event
    <3>1. k'.wait = k.wait
      BY <2>3, <2>5 DEF Fails
    <3> QED BY <2>5, <3>1 DEF EventServed_
  <2>6. CASE /\ ~Granted(event.set, w) /\ time # 0
             /\ k' = rt_ipc_list_suspend(k, t, "recv", time)
             /\ Goes(t, Blocked("event", time, NULL))
             /\ event' = [event EXCEPT !.wish[t] = w]
    <3>1. time \in Times \ {0} /\ "recv" \in Queues /\ "event" \notin ThreadOps
      BY <2>6, ObjectFacts, Kinds_
    <3>2. LinesUp(t, "recv", "event")
      BY <2>2, <2>6, <3>1, ListSuspendJoins
    <3>3. ToSet(k'.wait["recv"]) = ToSet(k.wait["recv"]) \cup {t}
      BY <3>2 DEF LinesUp
    <3>4. event'.set = event.set /\ event'.wish[t] = w /\ \A u \in Threads \ {t} : event'.wish[u] = event.wish[u]
      BY <1>1, <2>6
    <3> QED BY <1>2, <2>2, <2>6, <3>3, <3>4 DEF EventServed_
  <2> QED BY <2>1, <2>4, <2>5, <2>6
<1>4. CASE Uses(t, "event") /\ EventSend(t)
  BY <1>4, BusyInCall, EventSendServes
<1>5. CASE EventReceived(t)
  <2>1. Woken(t, "event") /\ UNCHANGED k /\ event' = [event EXCEPT !.wish[t] = NoWish]
    BY <1>5 DEF EventReceived
  <2>2. t \notin ToSet(k.wait["recv"])
    BY <2>1, BusyInCall, RunnerWaits, ObjectFacts
  <2>3. event'.set = event.set /\ \A u \in Threads \ {t} : event'.wish[u] = event.wish[u]
    BY <1>1, <2>1
  <2> QED BY <1>2, <2>1, <2>2, <2>3 DEF EventServed_
<1> QED BY <1>3, <1>4, <1>5 DEF EventCall

LEMMA EventServes ==
  ASSUME KInv, KInv', WInv, KindsOK, event \in EventData, EventServed_, OwnCalls, Disciplined,
         kind = "event", IpcNext
  PROVE  EventServed_'
<1>1. CASE Kernel
  <2>1. UNCHANGED event
    BY <1>1, KernelQuiet DEF objects
  <2> QED BY <1>1, <2>1, KernelQuiet, QuietThins DEF EventServed_
<1>2. CASE Handler
  <2>1. EventSend(NULL)
    BY <1>2 DEF Handler, About
  <2> QED BY <1>2, <2>1, EventSendServes
<1>3. ASSUME NEW t \in Threads, Reset(t) PROVE EventServed_'
  BY <1>3, ResetQuiet DEF EventServed_
<1>4. ASSUME NEW t \in Threads, Detach(t) \/ DetachStep(t) PROVE EventServed_'
  <2>1. UNCHANGED event
    BY <1>4 DEF Detach, DetachStep, objects
  <2>2. Quiet
    BY <1>4, RefusedQuiet DEF Refused
  <2> QED BY <2>1, <2>2, QuietThins DEF EventServed_
<1>5. ASSUME NEW t \in Threads, SemCall(t) \/ EventCall(t) \/ MbCall(t) \/ MqCall(t) \/ MpCall(t) \/ MutexCall(t)
      PROVE  EventServed_'
  BY <1>5, CallsOfKind, EventCallServes
<1> QED BY <1>1, <1>2, <1>3, <1>4, <1>5, StepsOfKind

Serving ==
  /\ kind = "sem" => SemServed
  /\ kind = "event" => EventServed_
  /\ kind = "mb" => MbServed
  /\ kind = "mq" => MqServed
  /\ kind = "mp" => MpServed

LEMMA ServingFirst ==
  ASSUME IpcInit
  PROVE  Serving
<1>1. /\ \E S : KernelInit(S)
      /\ mp = NewMp
  BY DEF IpcInit
<1>2. k.wait = [q \in Queues |-> <<>>]
  BY <1>1 DEF KernelInit
<1>3. \A q \in Queues : ToSet(k.wait[q]) = {}
  BY <1>2 DEF ToSet
<1>4. \A n, op : Served_(n, "recv", op) /\ Served_(n, "send", op)
  BY <1>3, ObjectFacts DEF Served_, Wants, Thanked
<1>5. SemServed /\ EventServed_
  BY <1>3, ObjectFacts DEF SemServed, EventServed_
<1>6. CountsEnough
  <2>1. mp.suspend_thread_count = 0
    BY <1>1 DEF NewMp
  <2>2. ToSet(k.wait["recv"]) = {}
    BY <1>3, ObjectFacts
  <2>3. Cardinality(ToSet(k.wait["recv"])) = 0
    BY <2>2, FS_EmptySet
  <2> QED BY <1>3, <2>1, <2>3 DEF CountsEnough
<1> QED BY <1>4, <1>5, <1>6 DEF Serving, MbServed, MqServed, MpServed

LEMMA ServingNext ==
  ASSUME IInv, IInv', MbInv, MqInv, MpInv, OwnCalls, Serving, Disciplined,
         [IpcNext]_ipc_vars
  PROVE  Serving'
<1>1. KInv /\ KInv' /\ WInv /\ KindsOK /\ event \in EventData /\ kind' = kind
  BY KindStays DEF IInv, KInv, ObjectsOK, KindsOK
<1>2. CASE UNCHANGED ipc_vars
  <2>1. UNCHANGED <<k, call, sem, event, mb, mq, mp>>
    BY <1>2 DEF ipc_vars, kernel_vars, objects
  <2>2. \A op : OnTheWay(op)' = OnTheWay(op)
    BY <2>1 DEF OnTheWay
  <2> QED BY <1>1, <2>1, <2>2 DEF Serving, SemServed, EventServed_, MbServed, MqServed, MpServed, Served_,
                             Wants, Thanked, CountsEnough
<1>3. CASE IpcNext
  <2>1. kind = "sem" => SemServed'
    BY <1>1, <1>3, SemServes DEF Serving
  <2>2. kind = "event" => EventServed_'
    BY <1>1, <1>3, EventServes DEF Serving
  <2>3. kind = "mb" => MbServed'
    BY <1>1, <1>3, MbServes DEF Serving
  <2>4. kind = "mq" => MqServed'
    BY <1>1, <1>3, MqServes DEF Serving
  <2>5. kind = "mp" => MpServed'
    BY <1>1, <1>3, MpServes DEF Serving
  <2> QED BY <1>1, <2>1, <2>2, <2>3, <2>4, <2>5 DEF Serving
<1> QED BY <1>2, <1>3

(* Whoever is on the way has been announced to, in the sense of the         *)
(* property, and he is in the list that is not empty.                       *)
LEMMA WayIsAnnounced ==
  ASSUME NEW op
  PROVE  Announced(op) \in Nat /\ Cardinality(OnTheWay(op)) <= Announced(op)
<1> DEFINE A == OnTheWay(op)
           B == {t \in Threads : call[t].op = op /\ call[t].at # "copy" /\
                                   (k.stat[t] = "READY" \/ t \in Dead)}
<1>1. A \subseteq B /\ A \in SUBSET Threads /\ B \in SUBSET Threads
  BY DEF OnTheWay, Pend, Dead
<1>2. Announced(op) = Cardinality(B)
  BY DEF Announced
<1> HIDE DEF A, B
<1>3. Cardinality(B) \in Nat /\ Cardinality(A) <= Cardinality(B)
  BY <1>1, SetsCompare
<1> QED BY <1>2, <1>3 DEF A

LEMMA SideIsAnnounced ==
  ASSUME KInv, NEW q \in Queues, NEW op, NEW n \in Int, Served_(n, q, op), k.wait[q] # <<>>
  PROVE  n <= Announced(op)
<1> DEFINE l == k.wait[q]
           a == Cardinality(OnTheWay(op))
           b == Announced(op)
<1>1. l \in Seq(Threads) /\ l # <<>>
  <2>1. k \in KernelData
    BY SaneData DEF KInv
  <2> QED BY <2>1 DEF KernelData
<1>2. ToSet(l) # {} => n <= a
  BY DEF Served_, Thanked
<1>3. a \in Nat /\ b \in Nat /\ a <= b
  <2>1. OnTheWay(op) \in SUBSET Threads
    BY DEF OnTheWay
  <2> QED BY <2>1, SetsCompare, WayIsAnnounced
<1> HIDE DEF l, a, b
<1>4. Head(l) \in ToSet(l)
  BY <1>1 DEF ToSet
<1>5. n <= b
  BY <1>2, <1>3, <1>4
<1> QED BY <1>5 DEF b

(***************************************************************************)
(* NoneForgotten: nobody sleeps on an object that has what he waits for.   *)
(* A semaphore with waiters is at 0 (ipc.c:431); an event with waiters has *)
(* no set of bits that one of them waits for, although a send serves many  *)
(* of them in one pass and each may clear bits (ipc.c:1075); and as many   *)
(* waiters as there are messages, free slots or blocks have been told, and *)
(* are on their way (ipc.c:1440, 1588, 1962, 2137; mempool.c:304, 398).    *)
(* What a thread does after it was told, whether it is overtaken, deleted, *)
(* or finds its time is up, loses nobody else his wake-up.                 *)
(***************************************************************************)
THEOREM NoneIsForgotten ==
  ASSUME Disciplined
  PROVE  IpcSpec => []NoneForgotten
<1> DEFINE Kept == MbInv /\ MpInv /\ OwnCalls /\ MqInv /\ Serving
<1>1. IpcInit => IInv /\ Kept
  BY FirstState, MbFirst, MpFirst, MqFirst, ServingFirst
<1>2. IInv /\ [IpcNext]_ipc_vars => IInv'
  BY NextKeeps
<1>3. IInv /\ IInv' /\ Kept /\ [IpcNext]_ipc_vars => Kept'
  <2> SUFFICES ASSUME IInv, IInv', Kept, [IpcNext]_ipc_vars PROVE Kept'
    OBVIOUS
  <2>1. CallsOK
    BY DEF IInv, KInv
  <2>2. MbInv' /\ MpInv'
    BY MbNext, MpNext
  <2>3. OwnCalls' /\ MqInv'
    BY <2>1, OwnCallsNext, MqNext
  <2>4. Serving'
    BY ServingNext
  <2> QED BY <2>2, <2>3, <2>4
<1>4. IInv /\ Kept => NoneForgotten
  <2> SUFFICES ASSUME IInv, Kept PROVE NoneForgotten
    OBVIOUS
  <2>1. KInv
    BY DEF IInv, KInv
  <2>2. \A q \in Queues : k.wait[q] \in Seq(Threads)
    <3>1. k \in KernelData
      BY <2>1, SaneData DEF KInv
    <3> QED BY <3>1 DEF KernelData
  <2>3. EventServed
    <3> SUFFICES ASSUME kind = "event", NEW i \in DOMAIN k.wait["recv"]
                 PROVE  ~Granted(event.set, event.wish[k.wait["recv"][i]])
      BY DEF EventServed
    <3>1. k.wait["recv"][i] \in ToSet(k.wait["recv"])
      BY DEF ToSet
    <3> QED BY <3>1 DEF Serving, EventServed_
  <2>4. kind = "sem" /\ k.wait["recv"] # <<>> => sem = 0
    <3> DEFINE l == k.wait["recv"]
    <3>1. l \in Seq(Threads)
      BY <2>2, ObjectFacts
    <3>2. kind = "sem" /\ ToSet(l) # {} => sem = 0
      BY DEF Serving, SemServed
    <3> HIDE DEF l
    <3>3. l # <<>> => Head(l) \in ToSet(l)
      BY <3>1 DEF ToSet
    <3> QED BY <3>2, <3>3 DEF l
  <2>5. kind = "mb" /\ k.wait["recv"] # <<>> => mb.entry <= Announced("mb_recv")
    BY <2>1, MbNumbers, SideIsAnnounced DEF Serving, MbServed
  <2>6. kind = "mb" /\ k.wait["send"] # <<>> => MbSize - mb.entry <= Announced("mb_send")
    BY <2>1, MbNumbers, SideIsAnnounced DEF Serving, MbServed
  <2>7. kind = "mq" /\ k.wait["recv"] # <<>> => mq.entry <= Announced("mq_recv")
    BY <2>1, MqNumbers, ObjectFacts, SideIsAnnounced DEF Serving, MqServed
  <2>8. kind = "mp" /\ k.wait["recv"] # <<>> => mp.block_free_count <= Announced("mp")
    BY <2>1, MpNumbers, ObjectFacts, SideIsAnnounced DEF Serving, MpServed
  <2>9. NoIdleWaiters
    BY <2>4, <2>5, <2>6, <2>7, <2>8 DEF NoIdleWaiters
  <2> QED BY <2>3, <2>9 DEF NoneForgotten
<1> HIDE DEF Kept
<1> QED BY <1>1, <1>2, <1>3, <1>4, PTL DEF IpcSpec

(***************************************************************************)
(* MpCountCovers: the count rt_mp_free goes by (mempool.c:421) never falls *)
(* below the threads that wait for a block.  It is exact only until a wait *)
(* times out or a waiter is deleted, neither of which counts down          *)
(* (mempool.c:337, 357), and each free that then finds nobody counts one   *)
(* of those away: never one that still waits.                              *)
(***************************************************************************)
THEOREM PoolCoversItsWaiters ==
  ASSUME Disciplined
  PROVE  IpcSpec => []MpCountCovers
<1> DEFINE Kept == MbInv /\ MpInv /\ OwnCalls /\ MqInv /\ Serving
<1>1. IpcInit => IInv /\ Kept
  BY FirstState, MbFirst, MpFirst, MqFirst, ServingFirst
<1>2. IInv /\ [IpcNext]_ipc_vars => IInv'
  BY NextKeeps
<1>3. IInv /\ IInv' /\ Kept /\ [IpcNext]_ipc_vars => Kept'
  <2> SUFFICES ASSUME IInv, IInv', Kept, [IpcNext]_ipc_vars PROVE Kept'
    OBVIOUS
  <2>1. CallsOK
    BY DEF IInv, KInv
  <2>2. MbInv' /\ MpInv'
    BY MbNext, MpNext
  <2>3. OwnCalls' /\ MqInv'
    BY <2>1, OwnCallsNext, MqNext
  <2>4. Serving'
    BY ServingNext
  <2> QED BY <2>2, <2>3, <2>4
<1>4. IInv /\ Kept => MpCountCovers
  <2> SUFFICES ASSUME IInv, Kept, kind = "mp"
               PROVE  Len(k.wait["recv"]) <= mp.suspend_thread_count
    BY DEF MpCountCovers
  <2> DEFINE l == k.wait["recv"]
  <2>1. k.wait["recv"] \in Seq(Threads) /\ IsInjective(k.wait["recv"])
    <3>1. k \in KernelData /\ Linked(k, BeingDeleted, Reaped, 1)
      BY SaneData DEF IInv, KInv
    <3> QED BY <3>1, ObjectFacts DEF KernelData, Linked, WaitLinked
  <2>2. CountsEnough
    BY DEF Serving, MpServed
  <2>3. Cardinality(ToSet(l)) <= mp.suspend_thread_count
    BY <2>2 DEF CountsEnough
  <2> HIDE DEF l
  <2>4. Cardinality(ToSet(l)) = Len(l)
    BY <2>1, AsLongAsItsSet DEF l
  <2> QED BY <2>3, <2>4 DEF l
<1> HIDE DEF Kept
<1> QED BY <1>1, <1>2, <1>3, <1>4, PTL DEF IpcSpec
=============================================================================
