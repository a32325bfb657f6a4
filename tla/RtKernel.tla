------------------------------ MODULE RtKernel ------------------------------
(***************************************************************************)
(* Threads, ready lists, timeouts and the clock tick of the RT-Thread      *)
(* kernel sk_os runs on.  One processor: a section with interrupts         *)
(* disabled is one step, and the tick may come between any two.  The       *)
(* kernel's data is one record k, and every kernel routine is an operator  *)
(* from records to records, so that a call made inside another stays one.  *)
(***************************************************************************)
EXTENDS Naturals, SequencesExt

CONSTANTS
  Threads, Idle,    \* the threads; the idle thread is one of them
  Priority,         \* init_priority of each; a smaller number is more urgent
  Queues,           \* the lists a thread can be suspended on
  Mortal,           \* threads that exit, are deleted and are created again
  NULL,             \* nobody, nothing
  Slice,            \* init_tick: ticks before a thread makes room for its peers
  MaxWait,          \* longest timeout, in ticks
  MaxNest,          \* nested rt_enter_critical
  Careful           \* is a thread handled by one other thread at a time?

Prios == {Priority[t] : t \in Threads}

ASSUME KernelAssumption ==
  /\ IsFiniteSet(Threads) /\ Idle \in Threads /\ Mortal \subseteq Threads \ {Idle}
  /\ Priority \in [Threads -> Nat]
  /\ \A t \in Threads \ {Idle} : Priority[t] < Priority[Idle]
  /\ Slice \in Nat \ {0} /\ MaxWait \in Nat \ {0} /\ MaxNest \in Nat
  /\ Careful \in BOOLEAN

VARIABLES k, call
kernel_vars == <<k, call>>

FOREVER == MaxWait + 1
Times == 0..FOREVER

(* Where a thread is in the call it makes: between calls (run), due to     *)
(* call rt_schedule and return (resched), suspended but not yet switched   *)
(* away (suspending), after the switch (woken), or in the middle of a      *)
(* call.                                                                   *)
NoCall == [at |-> "run", op |-> "none", left |-> 0, arg |-> NULL]
Amid(at, u) == [at |-> at, op |-> "none", left |-> 0, arg |-> u]
Blocked(op, time, arg) == [at |-> "suspending", op |-> op, left |-> time, arg |-> arg]

FirstThread(started) ==
  CHOOSE t \in started : \A u \in started : Priority[t] <= Priority[u]
KernelInit(started) ==
  /\ k = [static |-> {}, current |-> FirstThread(started),
          nest |-> 0, defunct |-> <<>>, timers |-> <<>>,
          stat |-> [t \in Threads |-> IF t \in started THEN "READY" ELSE "INIT"],
          err |-> [t \in Threads |-> "EOK"],
          prio |-> Priority, slice |-> [t \in Threads |-> Slice],
          group |-> {Priority[t] : t \in started},
          ready |-> [p \in Prios |-> SetToSeq({t \in started : Priority[t] = p})],
          wait |-> [q \in Queues |-> <<>>]]
  /\ call = [t \in Threads |-> NoCall]

-----------------------------------------------------------------------------
(* rt_list_remove: a thread has one link, so it leaves whatever list it is *)
(* on.                                                                     *)
list_remove(kk, t) ==
  [kk EXCEPT !.ready = [p \in Prios |-> RemoveFirst(@[p], t)],
             !.wait = [q \in Queues |-> RemoveFirst(@[q], t)],
             !.defunct = RemoveFirst(@, t)]

rt_schedule_insert_thread(kk, t) ==
  [kk EXCEPT !.stat[t] = "READY", !.ready[kk.prio[t]] = Append(@, t),
             !.group = @ \cup {kk.prio[t]}]

rt_schedule_remove_thread(kk, t) ==
  LET off == list_remove(kk, t)
  IN  IF off.ready[kk.prio[t]] = <<>>
      THEN [off EXCEPT !.group = @ \ {kk.prio[t]}] ELSE off

rt_timer_stop(kk, t) ==
  [kk EXCEPT !.timers = RemoveFirstMatch(@, LAMBDA e : e.thread = t)]

(* rt_timer_start: behind the timers that are due no later.                *)
rt_timer_start(kk, t, time) ==
  LET others == rt_timer_stop(kk, t).timers
      started == [thread |-> t, left |-> time]
      i == SelectInSeq(others, LAMBDA e : e.left > time)
  IN  [kk EXCEPT !.timers = IF i = 0 THEN Append(others, started) ELSE InsertAt(others, i, started)]

(* rt_thread_suspend and rt_thread_resume, each as one step: that is what  *)
(* they are where the caller has interrupts disabled (ipc.c, mempool.c,    *)
(* rt_thread_sleep).                                                       *)
suspended(kk, t) ==
  rt_timer_stop([rt_schedule_remove_thread(kk, t) EXCEPT !.stat[t] = "SUSPEND"], t)
rt_thread_suspend(kk, t) == IF kk.stat[t] # "READY" THEN kk ELSE suspended(kk, t)

unlisted(kk, t) == rt_timer_stop(list_remove(kk, t), t)
rt_thread_resume(kk, t) ==
  IF kk.stat[t] # "SUSPEND" THEN kk ELSE rt_schedule_insert_thread(unlisted(kk, t), t)

rt_thread_change_priority(kk, t, p) ==
  IF kk.stat[t] = "READY"
  THEN rt_schedule_insert_thread([rt_schedule_remove_thread(kk, t) EXCEPT !.prio[t] = p], t)
  ELSE [kk EXCEPT !.prio[t] = p]

rt_schedule(kk) ==
  IF kk.nest # 0 THEN kk ELSE [kk EXCEPT !.current = Head(kk.ready[Min(kk.group)])]

(* rt_thread_yield: first to the end of the list, then rt_schedule.        *)
has_peers(kk) == kk.stat[kk.current] = "READY" /\ Len(kk.ready[kk.prio[kk.current]]) > 1
goes_last(kk) ==
  [kk EXCEPT !.ready[kk.prio[kk.current]] = Append(RemoveFirst(@, kk.current), kk.current)]
rt_thread_yield(kk) == IF has_peers(kk) THEN rt_schedule(goes_last(kk)) ELSE kk

rt_thread_timeout(kk, t) ==
  rt_schedule(rt_schedule_insert_thread(list_remove([kk EXCEPT !.err[t] = "ETIMEOUT"], t), t))

(* A loop over a list: f at each element in turn.                          *)
Along(f(_, _), x, s) ==
  LET after[i \in 0..Len(s)] == IF i = 0 THEN x ELSE f(after[i - 1], s[i])
  IN  after[Len(s)]

(* rt_timer_check: while the first timer is due, off the list with it and  *)
(* call its function.                                                      *)
expires(kk, e) ==
  IF kk.timers # <<>> /\ Head(kk.timers).left = 0
  THEN rt_thread_timeout([kk EXCEPT !.timers = Tail(@)], Head(kk.timers).thread) ELSE kk
aged(s) == [i \in DOMAIN s |-> [s[i] EXCEPT !.left = @ - 1]]
rt_timer_check(kk) == Along(expires, [kk EXCEPT !.timers = aged(@)], kk.timers)

rt_tick_increase(kk) ==
  LET t == kk.current
      spent == [kk EXCEPT !.slice[t] = IF @ = 1 THEN Slice ELSE @ - 1]
  IN  rt_timer_check(IF kk.slice[t] = 1 THEN rt_thread_yield(spent) ELSE spent)

-----------------------------------------------------------------------------
(* The tick.  What is left of the timeout of a blocked call is recomputed  *)
(* by the call when it wakes up (timeout -= tick_delta, at least 0).       *)
Deleting(t) == call[t].at = "delete"
BeingDeleted == {call[t].arg : t \in {u \in Threads : Deleting(u)}}

(* rt_thread_suspend, resume, startup and delete look at the status of a   *)
(* thread, then change it in one or more sections, with interrupts enabled *)
(* in between: the tick, a handler or another thread may come there.  The  *)
(* kernel leaves it to its callers that no two of them handle one thread;  *)
(* Careful says they see to it, and that no thread exits, and no timeout   *)
(* of it runs out, at the moment another one handles it.                   *)
Handling(t) == call[t].at \in {"suspend", "startup", "resume", "insert", "delete"}
Handled == {call[t].arg : t \in {u \in Threads : Handling(u)}}
LeftAlone(t, u) == Careful => {t, u} \cap Handled = {} /\ ~Handling(u)
Taken_off == {call[t].arg : t \in {u \in Threads : call[u].at \in {"resume", "delete"}}}
elapsed(c) == IF c.left \in 1..MaxWait /\ c.at \in {"suspending", "woken"}
              THEN [c EXCEPT !.left = @ - 1] ELSE c

Tick ==
  /\ Careful => \A i \in DOMAIN k.timers : k.timers[i].left = 1 => k.timers[i].thread \notin Taken_off
  /\ k' = rt_tick_increase(k)
  /\ call' = [t \in Threads |-> elapsed(call[t])]

Runs(t) == t = k.current
Calls(t) == Runs(t) /\ t # Idle /\ call[t].at = "run"
Goes(t, c) == call' = [call EXCEPT ![t] = c]
Continues(t, at) == Goes(t, [call[t] EXCEPT !.at = at])

(* rt_schedule at the end of a call, after interrupts were enabled again.  *)
Resched(t) ==
  /\ Runs(t) /\ call[t].at = "resched"
  /\ k' = rt_schedule(k) /\ Goes(t, NoCall)
SwitchAway(t) ==
  /\ Runs(t) /\ call[t].at = "suspending"
  /\ k' = rt_schedule(k) /\ Continues(t, "woken")

-----------------------------------------------------------------------------
(* The calls about threads.  A thread does not block with the scheduler    *)
(* locked.                                                                 *)
Yield(t) ==
  /\ Calls(t) /\ has_peers(k)
  /\ k' = goes_last(k) /\ Goes(t, [NoCall EXCEPT !.at = "resched"])

Sleep(t, times) ==
  \E time \in times :
    /\ Calls(t) /\ k.nest = 0
    /\ k' = rt_timer_start(rt_thread_suspend(k, t), t, time)
    /\ Goes(t, Blocked("sleep", time, NULL))
SleepDone(t) ==
  /\ Runs(t) /\ call[t].at = "woken" /\ call[t].op = "sleep"
  /\ k' = [k EXCEPT !.err[t] = IF @ = "ETIMEOUT" THEN "EOK" ELSE @]
  /\ Goes(t, NoCall)

Suspend(t) ==       \* the status is looked at, then the thread suspended
  \E u \in Threads \ {Idle} :
    /\ Calls(t) /\ k.nest = 0 /\ LeftAlone(t, u) /\ k.stat[u] = "READY"
    /\ UNCHANGED k /\ Goes(t, Amid("suspend", u))
SuspendNow(t) ==
  LET u == call[t].arg IN
    /\ Runs(t) /\ call[t].at = "suspend"
    /\ k' = suspended(k, u)
    /\ Goes(t, IF u = t THEN Blocked("suspend", FOREVER, {}) ELSE NoCall)
SuspendDone(t) ==
  /\ Runs(t) /\ call[t].at = "woken" /\ call[t].op = "suspend"
  /\ UNCHANGED k /\ Goes(t, NoCall)

Resume(t) ==        \* looked at, off its list, onto the ready list
  \E u \in Threads \ {t} :
    /\ Calls(t) /\ LeftAlone(t, u) /\ k.stat[u] = "SUSPEND"
    /\ UNCHANGED k /\ Goes(t, Amid("resume", u))
ResumeTake(t) ==
  /\ Runs(t) /\ call[t].at = "resume"
  /\ k' = unlisted(k, call[t].arg) /\ Continues(t, "insert")
ResumeInsert(t) ==
  /\ Runs(t) /\ call[t].at = "insert"
  /\ k' = rt_schedule_insert_thread(k, call[t].arg)
  /\ Goes(t, [NoCall EXCEPT !.at = IF call[t].op = "startup" THEN "resched" ELSE "run"])

(* rt_thread_control, RT_THREAD_CTRL_CHANGE_PRIORITY: schedules nothing.   *)
ChangePriority(t) ==
  \E u \in Mortal, p \in Prios \ {Priority[Idle]} :
    /\ Calls(t) /\ k.stat[u] \in {"READY", "SUSPEND"} /\ LeftAlone(t, u)
    /\ k' = rt_thread_change_priority(k, u, p) /\ UNCHANGED call

EnterCritical(t) ==
  /\ Calls(t) /\ k.nest < MaxNest
  /\ k' = [k EXCEPT !.nest = @ + 1] /\ UNCHANGED call
rt_exit_schedules(t) == Goes(t, [NoCall EXCEPT !.at = IF k.nest = 1 THEN "resched" ELSE "run"])
ExitCritical(t) ==
  /\ Calls(t) /\ k.nest > 0
  /\ k' = [k EXCEPT !.nest = @ - 1] /\ rt_exit_schedules(t)

-----------------------------------------------------------------------------
(* The life of a thread: its memory is the caller's (static) or from the    *)
(* heap.                                                                   *)
thread_new(u, static) ==
  /\ k' = [k EXCEPT !.stat[u] = "INIT", !.prio[u] = Priority[u], !.slice[u] = Slice,
                    !.err[u] = "EOK", !.static = IF static THEN @ \cup {u} ELSE @ \ {u}]
  /\ call' = [call EXCEPT ![u] = NoCall]
Gone(u) == k.stat[u] = "GONE" \/ (k.stat[u] = "CLOSE" /\ u \in k.static)
InitThread(t)  == \E u \in Mortal : Calls(t) /\ Gone(u) /\ thread_new(u, TRUE)
Create(t) == \E u \in Mortal : Calls(t) /\ Gone(u) /\ thread_new(u, FALSE)

startable(kk, u) == [kk EXCEPT !.stat[u] = "SUSPEND", !.prio[u] = Priority[u]]
Startup(t) ==
  \E u \in Mortal :
    /\ Calls(t) /\ k.stat[u] = "INIT" /\ LeftAlone(t, u)
    /\ k' = startable(k, u) /\ Goes(t, [Amid("startup", u) EXCEPT !.op = "startup"])
StartupResume(t) ==
  /\ Runs(t) /\ call[t].at = "startup" /\ UNCHANGED k
  /\ Continues(t, IF k.stat[call[t].arg] = "SUSPEND" THEN "resume" ELSE "resched")

(* rt_thread_delete and rt_thread_detach: off its list with interrupts     *)
(* disabled; only then the timer, the status and the list of the dead.     *)
Delete(t) ==
  \E u \in Mortal \ {t} :
    /\ Calls(t) /\ k.stat[u] \in {"INIT", "READY", "SUSPEND"} /\ LeftAlone(t, u)
    /\ k' = IF k.stat[u] = "INIT" THEN k ELSE rt_schedule_remove_thread(k, u)
    /\ Goes(t, Amid("delete", u))

closed(kk, u) == rt_timer_stop([kk EXCEPT !.stat[u] = "CLOSE"], u)
buried(kk, u) == IF u \in kk.static THEN kk ELSE [kk EXCEPT !.defunct = <<u>> \o @]
DeleteDone(t) ==
  /\ Runs(t) /\ Deleting(t)
  /\ k' = buried(closed(k, call[t].arg), call[t].arg) /\ Goes(t, NoCall)

linked_self(kk, t) == kk                                             \* faulty
unlinked_self(kk, t) == rt_schedule_remove_thread(kk, t)
Exit(t) ==
  /\ Calls(t) /\ t \in Mortal /\ k.nest = 0 /\ LeftAlone(t, t)
  /\ k' = buried(closed(unlinked_self(k, t), t), t)
  /\ Goes(t, [NoCall EXCEPT !.at = "resched"])

(* rt_thread_idle_excute: the dead thread leaves the list, the scheduler   *)
(* may run (rt_exit_critical), then its stack and object are freed.        *)
Reap ==
  /\ Runs(Idle) /\ call[Idle].at = "run" /\ k.defunct # <<>>
  /\ k' = rt_schedule([k EXCEPT !.defunct = Tail(@)])
  /\ Goes(Idle, Amid("reap", Head(k.defunct)))
ReapFree ==
  LET u == call[Idle].arg IN
    /\ Runs(Idle) /\ call[Idle].at = "reap"
    /\ k' = [k EXCEPT !.stat[u] = "GONE"] /\ Goes(Idle, NoCall)

ThreadCalls(t) ==
  \/ Yield(t) \/ Sleep(t, 1..MaxWait) \/ Suspend(t) \/ Resume(t)
  \/ EnterCritical(t) \/ ExitCritical(t)
  \/ ChangePriority(t) \/ InitThread(t) \/ Create(t) \/ Startup(t) \/ Delete(t) \/ Exit(t)

KernelStep ==
  \/ Tick \/ Reap \/ ReapFree
  \/ \E t \in Threads : \/ Resched(t) \/ SwitchAway(t) \/ SleepDone(t)
                        \/ SuspendNow(t) \/ SuspendDone(t) \/ ResumeTake(t) \/ ResumeInsert(t)
                        \/ StartupResume(t) \/ DeleteDone(t)

-----------------------------------------------------------------------------
(* Types of the kernel's data.                                             *)
KTypeOK ==
  /\ k.current \in Threads /\ k.nest \in 0..MaxNest
  /\ k.stat \in [Threads -> {"INIT", "READY", "SUSPEND", "CLOSE", "GONE"}]
  /\ k.err \in [Threads -> {"EOK", "ERROR", "ETIMEOUT"}]
  /\ k.prio \in [Threads -> Prios] /\ k.slice \in [Threads -> 1..Slice]
  /\ k.group \subseteq Prios
  /\ \A i \in DOMAIN k.timers : k.timers[i].thread \in Threads /\ k.timers[i].left \in 1..MaxWait
  /\ \A t \in Threads : call[t].left \in Times

Reaping(t) == call[Idle].at = "reap" /\ call[Idle].arg = t

(* How often a thread is linked, over all lists.                           *)
Count(s, t) == Cardinality({i \in DOMAIN s : s[i] = t})
OnReady(t) == {p \in Prios : Count(k.ready[p], t) > 0}
OnWait(t)  == {q \in Queues : Count(k.wait[q], t) > 0}

(* A thread has one list node: it is on the ready list of its priority     *)
(* when READY, on at most one other list otherwise, and never linked       *)
(* twice, however suspensions, timeouts, wake-ups, deletions and exits     *)
(* follow one another.                                                     *)
OneList ==
  \A t \in Threads :
    LET deleted == t \in BeingDeleted IN
    /\ OnReady(t) = IF k.stat[t] = "READY" /\ ~deleted THEN {k.prio[t]} ELSE {}
    /\ Cardinality(OnWait(t)) <= IF k.stat[t] = "SUSPEND" /\ ~deleted THEN 1 ELSE 0
    /\ \A p \in Prios : Count(k.ready[p], t) <= 1
    /\ \A q \in Queues : Count(k.wait[q], t) <= 1
    /\ Count(k.defunct, t) = IF k.stat[t] = "CLOSE" /\ ~Reaping(t) /\ t \notin k.static
                             THEN 1 ELSE 0

(* The bitmap the scheduler searches names exactly the priorities that     *)
(* have a ready thread.                                                    *)
GroupMatches == k.group = {p \in Prios : k.ready[p] # <<>>}

(* A running timeout belongs to one suspended thread: none is left behind  *)
(* that would make a READY or a dead thread ready.                         *)
TimersWait ==
  /\ \A i \in DOMAIN k.timers : k.stat[k.timers[i].thread] = "SUSPEND"
  /\ \A i, j \in DOMAIN k.timers : k.timers[i].thread = k.timers[j].thread => i = j

(* "The thread object will be removed from thread queue" (thread.c:400): a *)
(* thread that rt_thread_delete has taken off its list stays off it.  (Its *)
(* timer is released later; a timeout between the two makes it ready.)     *)
DeletedLeavesQueue ==
  \A t \in BeingDeleted : OnReady(t) = {} /\ OnWait(t) = {}

(* The assertion of rt_thread_timeout (thread.c:739): the thread whose     *)
(* timeout runs out at the next tick is suspended.  (Two threads that      *)
(* resume the same one may make it ready while it sleeps again.)           *)
DueSuspended ==
  \A i \in DOMAIN k.timers : k.timers[i].left = 1 => k.stat[k.timers[i].thread] = "SUSPEND"

(* The processor never executes a thread that was freed, nor a dead one    *)
(* beyond its last rt_schedule.                                            *)
RunsAlive ==
  /\ k.stat[k.current] \notin {"INIT", "GONE"}
  /\ k.stat[k.current] = "CLOSE" => call[k.current].at = "resched"
=============================================================================
