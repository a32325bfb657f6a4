-------------------------------- MODULE RtIpc --------------------------------
(***************************************************************************)
(* Semaphore, mutex, event, mailbox and message queue of the kernel        *)
(* (ipc.c) and its memory pool (mempool.c), used by threads of different   *)
(* priority and by an interrupt handler, with timeouts, reset and detach.  *)
(* A behaviour is about one kind of object, or about none: then the        *)
(* threads use the calls about threads.                                    *)
(***************************************************************************)
EXTENDS RtKernel

CONSTANTS
  Kinds,            \* the kinds of object a behaviour may be about
  Spare,            \* threads that are only started to use mutexes or no object
  Waits,            \* the timeouts calls about each kind are made with
  Mutexes,          \* the mutexes there are
  SemInit, SemMax,  \* first value of the semaphore and bound of its value
  MaxHold,          \* bound of nested takes of a mutex
  Bits,             \* the event bits in use
  MbSize, Values,   \* slots of the mailbox and values sent
  Blocks,           \* message blocks of the queue, or blocks of the pool
  MaxPend,          \* bound of the count of waiters a pool keeps
  Behind            \* may the memory behind a pool read as a suspended thread?

ASSUME IpcAssumption ==
  /\ Spare \subseteq Threads \ {Idle}
  /\ Kinds \subseteq {"thread", "sem", "mutex", "event", "mb", "mq", "mp"}
  /\ Waits \in [Kinds -> SUBSET Times]
  /\ Queues = Mutexes \cup {"recv", "send"}
  /\ SemInit \in 0..SemMax /\ SemMax \in Nat /\ MaxHold \in Nat \ {0} /\ MbSize \in Nat \ {0}
  /\ IsFiniteSet(Blocks) /\ Blocks # {} /\ MaxPend \in Nat /\ Behind \in BOOLEAN
  /\ NULL \notin Threads \cup Blocks

VARIABLES kind, flag, alive, sem, mutex, event, mb, mq, mp,
          outside,    \* history: tokens the takers have, less those given back
          inside      \* history: takes of a mutex a thread has not released
objects == <<sem, mutex, event, mb, mq, mp>>
ipc_vars == <<kernel_vars, kind, flag, alive, objects, outside, inside>>

(* The objects as the init functions leave them.                           *)
FreeMutex == [value |-> 1, owner |-> NULL, original_priority |-> 255, hold |-> 0]
NoWish == [set |-> {}, and |-> FALSE, clear |-> FALSE]
NewEvent == [set |-> {}, wish |-> [t \in Threads |-> NoWish]]
NewMb == [entry |-> 0, in_offset |-> 0, out_offset |-> 0,
          msg_pool |-> [i \in 0..MbSize - 1 |-> NULL], sent |-> <<>>]
Chained(bs) == [b \in Blocks |-> LET i == CHOOSE j \in DOMAIN bs : bs[j] = b
                                 IN IF i = Len(bs) THEN NULL ELSE bs[i + 1]]
NewMq == LET bs == SetToSeq(Blocks) IN
  [next |-> Chained(bs), free |-> Head(bs), head |-> NULL, tail |-> NULL, entry |-> 0]
NewMp == [block_list |-> SetToSeq(Blocks), block_free_count |-> Cardinality(Blocks),
          suspend_thread_count |-> 0]

IpcInit ==
  /\ kind \in Kinds
  /\ KernelInit(IF kind \in {"thread", "mutex"} THEN Threads ELSE Threads \ Spare)
  /\ flag \in {"FIFO", "PRIO"} /\ (kind \notin {"sem", "mutex"} => flag = "PRIO")
  /\ alive = TRUE
  /\ sem = SemInit /\ outside = 0
  /\ mutex = [m \in Mutexes |-> FreeMutex] /\ inside = [t \in Threads |-> [m \in Mutexes |-> 0]]
  /\ event = NewEvent /\ mb = NewMb /\ mq = NewMq /\ mp = NewMp

-----------------------------------------------------------------------------
(* rt_ipc_list_suspend, and the timer of a wait that is not for ever.      *)
listed(kk, s, t) ==
  LET i == SelectInSeq(s, LAMBDA u : kk.prio[t] < kk.prio[u])
  IN  IF flag = "FIFO" \/ i = 0 THEN Append(s, t) ELSE InsertAt(s, i, t)

rt_ipc_list_suspend(kk, t, q, time) ==
  LET off == rt_thread_suspend([kk EXCEPT !.err[t] = "EOK"], t)
      on  == [off EXCEPT !.wait[q] = listed(off, @, t)]
  IN  IF time = FOREVER THEN on ELSE rt_timer_start(on, t, time)

rt_ipc_list_resume(kk, q) == rt_thread_resume(kk, Head(kk.wait[q]))
resumed_bad(kk, t) == rt_thread_resume([kk EXCEPT !.err[t] = "ERROR"], t)
rt_ipc_list_resume_all(kk, q) == Along(resumed_bad, kk, kk.wait[q])

About(x) == kind = x /\ alive
Uses(t, x) == Calls(t) /\ About(x) /\ \A u \in Threads : call[u].at # "detach"
Woken(t, op) == Runs(t) /\ call[t].at = "woken" /\ call[t].op = op
GivesUp(t, op) == Woken(t, op) /\ k.err[t] # "EOK" /\ UNCHANGED k /\ Goes(t, NoCall)
Reschedules_not(t) == Goes(t, NoCall)                                \* faulty
Reschedules(t) == Goes(t, [NoCall EXCEPT !.at = "resched"])
Fails(t, e) == k' = [k EXCEPT !.err[t] = e] /\ Goes(t, NoCall)

-----------------------------------------------------------------------------
SemTake(t) ==
  /\ Uses(t, "sem") /\ k.nest = 0
  /\ \/ /\ sem > 0 /\ sem' = sem - 1 /\ outside' = outside + 1
        /\ UNCHANGED kernel_vars
     \/ \E time \in Waits[kind] \ {0} :
          /\ sem = 0
          /\ k' = rt_ipc_list_suspend(k, t, "recv", time)
          /\ Goes(t, Blocked("sem", time, NULL))
          /\ UNCHANGED <<sem, outside>>
  /\ UNCHANGED <<kind, flag, alive, mutex, event, mb, mq, mp, inside>>

SemTaken(t) ==
  /\ \/ GivesUp(t, "sem") /\ UNCHANGED outside
     \/ /\ Woken(t, "sem") /\ k.err[t] = "EOK"
        /\ outside' = outside + 1 /\ UNCHANGED k /\ Goes(t, NoCall)
  /\ UNCHANGED <<kind, flag, alive, objects, inside>>

sem_waiting == k.wait["recv"] # <<>>
released == IF sem_waiting THEN sem ELSE sem + 1
SemRelease(by) ==
  /\ sem < SemMax
  /\ sem' = released /\ outside' = outside - 1
  /\ IF sem_waiting
     THEN LET up == rt_ipc_list_resume(k, "recv") IN
          \/ by = NULL /\ k' = rt_schedule(up) /\ UNCHANGED call
          \/ by # NULL /\ k' = up /\ Reschedules(by)
     ELSE UNCHANGED kernel_vars
  /\ UNCHANGED <<kind, flag, alive, mutex, event, mb, mq, mp, inside>>

-----------------------------------------------------------------------------
Taken(t) == inside' = [inside EXCEPT ![t][call[t].arg] = @ + 1]

boosted(kk, t, o) ==
  IF kk.prio[t] < kk.prio[o] THEN rt_thread_change_priority(kk, o, kk.prio[t]) ELSE kk

MutexTake(t) ==
  \E m \in Mutexes, time \in Waits[kind] :
    LET x == mutex[m] IN
    /\ Uses(t, "mutex") /\ k.nest = 0
    /\ \/ /\ x.owner = t /\ x.hold < MaxHold
          /\ mutex' = [mutex EXCEPT ![m].hold = @ + 1]
          /\ inside' = [inside EXCEPT ![t][m] = @ + 1]
          /\ k' = [k EXCEPT !.err[t] = "EOK"] /\ UNCHANGED call
       \/ /\ x.owner # t /\ x.value > 0
          /\ mutex' = [mutex EXCEPT ![m] = [value |-> x.value - 1, owner |-> t, hold |-> 1,
                                            original_priority |-> k.prio[t]]]
          /\ inside' = [inside EXCEPT ![t][m] = @ + 1]
          /\ k' = [k EXCEPT !.err[t] = "EOK"] /\ UNCHANGED call
       \/ /\ x.owner # t /\ x.value = 0 /\ time = 0
          /\ Fails(t, "ETIMEOUT") /\ UNCHANGED <<mutex, inside>>
       \/ /\ x.owner # t /\ x.value = 0 /\ time # 0 /\ (Careful => x.owner \notin Handled)
          /\ k' = rt_ipc_list_suspend(boosted(k, t, x.owner), t, m, time)
          /\ Goes(t, Blocked("mutex", time, m))
          /\ UNCHANGED <<mutex, inside>>
    /\ UNCHANGED <<kind, flag, alive, sem, event, mb, mq, mp, outside>>

MutexTaken(t) ==
  /\ \/ GivesUp(t, "mutex") /\ UNCHANGED inside
     \/ /\ Woken(t, "mutex") /\ k.err[t] = "EOK"
        /\ Taken(t) /\ UNCHANGED k /\ Goes(t, NoCall)
  /\ UNCHANGED <<kind, flag, alive, objects, outside>>

restored_not(kk, t, p) == kk                                         \* faulty
restored(kk, t, p) == IF p # kk.prio[t] THEN rt_thread_change_priority(kk, t, p) ELSE kk

heir_state(kk, m, w) ==
  [value |-> 0, owner |-> w, original_priority |-> kk.prio[w], hold |-> 1]

MutexRelease(t) ==
  \E m \in Mutexes :
    LET x == mutex[m]
        down == restored(k, t, x.original_priority)
    IN
    /\ Uses(t, "mutex")
    /\ \/ x.owner # t /\ k.err[t] = "EOK" /\ Fails(t, "ERROR") /\ UNCHANGED <<mutex, inside>>
       \/ /\ x.owner = t /\ x.hold > 1
          /\ mutex' = [mutex EXCEPT ![m].hold = @ - 1] /\ UNCHANGED kernel_vars
          /\ inside' = [inside EXCEPT ![t][m] = @ - 1]
       \/ /\ x.owner = t /\ x.hold = 1 /\ k.wait[m] = <<>>
          /\ mutex' = [mutex EXCEPT ![m] = FreeMutex]
          /\ inside' = [inside EXCEPT ![t][m] = 0]
          /\ k' = down /\ UNCHANGED call
       \/ /\ x.owner = t /\ x.hold = 1 /\ k.wait[m] # <<>>
          /\ mutex' = [mutex EXCEPT ![m] = heir_state(down, m, Head(down.wait[m]))]
          /\ inside' = [inside EXCEPT ![t][m] = 0]
          /\ k' = rt_ipc_list_resume(down, m) /\ Reschedules(t)
    /\ UNCHANGED <<kind, flag, alive, sem, event, mb, mq, mp, outside>>

-----------------------------------------------------------------------------
(* An event receiver waits for all (AND) or for one (OR) of its bits and   *)
(* may clear them.                                                         *)
Wishes == {w \in [set : SUBSET Bits \ {{}}, and : BOOLEAN, clear : BOOLEAN] :
             w.and => Cardinality(w.set) > 1}
Granted(set, w) == IF w.and THEN w.set \subseteq set ELSE w.set \cap set # {}

EventRecv(t) ==
  \E w \in Wishes, time \in Waits[kind] :
    /\ Uses(t, "event") /\ k.nest = 0
    /\ \/ /\ Granted(event.set, w)
          /\ event' = IF w.clear THEN [event EXCEPT !.set = @ \ w.set] ELSE event
          /\ k' = [k EXCEPT !.err[t] = "EOK"] /\ UNCHANGED call
       \/ ~Granted(event.set, w) /\ time = 0 /\ Fails(t, "ETIMEOUT") /\ UNCHANGED event
       \/ /\ ~Granted(event.set, w) /\ time # 0
          /\ k' = rt_ipc_list_suspend(k, t, "recv", time)
          /\ Goes(t, Blocked("event", time, NULL))
          /\ event' = [event EXCEPT !.wish[t] = w]
    /\ UNCHANGED <<kind, flag, alive, sem, mutex, mb, mq, mp, outside, inside>>

EventReceived(t) ==
  /\ Woken(t, "event") /\ UNCHANGED k /\ Goes(t, NoCall)
  /\ event' = [event EXCEPT !.wish[t] = NoWish]
  /\ UNCHANGED <<kind, flag, alive, sem, mutex, mb, mq, mp, outside, inside>>

(* One pass over the waiters, in list order; what one of them clears, the  *)
(* next ones no longer see.  An OR waiter keeps the bits it got.           *)
Serve(s, t) ==
  LET w == s.wish[t]
      got == IF w.and THEN w.set ELSE w.set \cap s.set
  IN  IF ~Granted(s.set, w) THEN s
      ELSE [set |-> IF w.clear THEN s.set \ got ELSE s.set,
            wish |-> [s.wish EXCEPT ![t].set = got],
            k |-> rt_thread_resume(s.k, t)]
sending(set) == [set |-> event.set \cup set, wish |-> event.wish, k |-> k]
served(set) == Along(Serve, sending(set), k.wait["recv"])

EventSend(by) ==
  \E set \in SUBSET Bits \ {{}} :
    LET s == served(set) IN
    /\ event' = [set |-> s.set, wish |-> s.wish]
    /\ IF s.k = k THEN UNCHANGED kernel_vars
       ELSE \/ by = NULL /\ k' = rt_schedule(s.k) /\ UNCHANGED call
            \/ by # NULL /\ k' = s.k /\ Reschedules(by)
    /\ UNCHANGED <<kind, flag, alive, sem, mutex, mb, mq, mp, outside, inside>>

-----------------------------------------------------------------------------
(* A call that loops until it gets what it wants: it may begin, or be      *)
(* woken and find what is left of its timeout.                             *)
Tries(t, x, op, arg, time) ==
  \/ Uses(t, x) /\ k.nest = 0
  \/ Woken(t, op) /\ k.err[t] = "EOK" /\ arg = call[t].arg /\ time = call[t].left

mb_full == mb.entry = MbSize
wrapped(i) == IF i + 1 >= MbSize THEN 0 ELSE i + 1
posted(v) == [mb EXCEPT !.msg_pool[mb.in_offset] = v, !.in_offset = wrapped(@),
                        !.entry = @ + 1, !.sent = Append(@, v)]
fetched == [mb EXCEPT !.out_offset = wrapped(@), !.entry = @ - 1, !.sent = Tail(@)]

(* After a transfer the other side gets one waiter resumed.                *)
wakes_when_empty(q) == k.wait[q] # <<>> /\ mb.entry = 0              \* faulty
wakes_when(q) == k.wait[q] # <<>>
Wakes(by, q) ==
  IF ~wakes_when(q)
  THEN IF by = NULL THEN UNCHANGED kernel_vars ELSE UNCHANGED k /\ Goes(by, NoCall)
  ELSE LET up == rt_ipc_list_resume(k, q) IN
       \/ by = NULL /\ k' = rt_schedule(up) /\ UNCHANGED call
       \/ by # NULL /\ k' = up /\ Reschedules(by)

MbSend(t) ==
  \E v \in Values, time \in Waits[kind] :
    /\ Tries(t, "mb", "mb_send", v, time)
    /\ \/ ~mb_full /\ mb' = posted(v) /\ Wakes(t, "recv")
       \/ mb_full /\ time = 0 /\ UNCHANGED <<k, mb>> /\ Goes(t, NoCall)
       \/ /\ mb_full /\ time # 0 /\ UNCHANGED mb
          /\ k' = rt_ipc_list_suspend(k, t, "send", time)
          /\ Goes(t, Blocked("mb_send", time, v))
    /\ UNCHANGED <<kind, flag, alive, sem, mutex, event, mq, mp, outside, inside>>

MbRecv(t) ==
  \E time \in Waits[kind] :
    /\ Tries(t, "mb", "mb_recv", NULL, time)
    /\ \/ mb.entry # 0 /\ mb' = fetched /\ Wakes(t, "send")
       \/ mb.entry = 0 /\ time = 0 /\ UNCHANGED <<k, mb>> /\ Goes(t, NoCall)
       \/ /\ mb.entry = 0 /\ time # 0 /\ UNCHANGED mb
          /\ k' = rt_ipc_list_suspend(k, t, "recv", time)
          /\ Goes(t, Blocked("mb_recv", time, NULL))
    /\ UNCHANGED <<kind, flag, alive, sem, mutex, event, mq, mp, outside, inside>>

MbGivesUp(t) ==
  /\ GivesUp(t, "mb_send") \/ GivesUp(t, "mb_recv")
  /\ UNCHANGED <<kind, flag, alive, objects, outside, inside>>

-----------------------------------------------------------------------------
(* The message queue moves blocks between its free list, the thread that   *)
(* copies a message with interrupts enabled, and its chain of messages.    *)
taken_free == [mq EXCEPT !.free = mq.next[mq.free]]
linked_last(b) ==
  LET nx == [mq.next EXCEPT ![b] = NULL] IN
  [mq EXCEPT !.next = IF mq.tail = NULL THEN nx ELSE [nx EXCEPT ![mq.tail] = b],
             !.tail = b, !.head = IF @ = NULL THEN b ELSE @, !.entry = @ + 1]
linked_first(b) ==
  [mq EXCEPT !.next[b] = mq.head, !.head = b,
             !.tail = IF @ = NULL THEN b ELSE @, !.entry = @ + 1]
unlinked_tail_kept == [mq EXCEPT !.head = mq.next[mq.head], !.entry = @ - 1]  \* faulty
unlinked ==
  [mq EXCEPT !.head = mq.next[mq.head], !.entry = @ - 1,
             !.tail = IF @ = mq.head THEN NULL ELSE @]
returned_to(q, b) == [q EXCEPT !.next[b] = q.free, !.free = b]

MqSend(t) ==       \* take a free block, if there is one, and fill it
  \E op \in {"mq_send", "mq_urgent"} :
    /\ Uses(t, "mq")
    /\ mq.free # NULL /\ mq' = taken_free
    /\ UNCHANGED k /\ Goes(t, [at |-> "copy", op |-> op, left |-> 0, arg |-> mq.free])
    /\ UNCHANGED <<kind, flag, alive, sem, mutex, event, mb, mp, outside, inside>>
MqLink(t) ==
  /\ Runs(t) /\ call[t].at = "copy" /\ call[t].op # "mq_recv"
  /\ mq' = IF call[t].op = "mq_send" THEN linked_last(call[t].arg) ELSE linked_first(call[t].arg)
  /\ Wakes(t, "recv")
  /\ UNCHANGED <<kind, flag, alive, sem, mutex, event, mb, mp, outside, inside>>
MqSendIsr ==       \* a handler copies without being interrupted
  \E first \in BOOLEAN :
    /\ mq.free # NULL
    /\ mq' = [(IF first THEN linked_first(mq.free) ELSE linked_last(mq.free))
                  EXCEPT !.free = mq.next[mq.free]]
    /\ Wakes(NULL, "recv")
    /\ UNCHANGED <<kind, flag, alive, sem, mutex, event, mb, mp, outside, inside>>

MqRecv(t) ==
  \E time \in Waits[kind] :
    /\ Tries(t, "mq", "mq_recv", NULL, time)
    /\ \/ /\ mq.entry # 0 /\ mq' = unlinked /\ UNCHANGED k
          /\ Goes(t, [at |-> "copy", op |-> "mq_recv", left |-> 0, arg |-> mq.head])
       \/ mq.entry = 0 /\ time = 0 /\ UNCHANGED <<k, mq>> /\ Goes(t, NoCall)
       \/ /\ mq.entry = 0 /\ time # 0 /\ UNCHANGED mq
          /\ k' = rt_ipc_list_suspend(k, t, "recv", time)
          /\ Goes(t, Blocked("mq_recv", time, NULL))
    /\ UNCHANGED <<kind, flag, alive, sem, mutex, event, mb, mp, outside, inside>>
MqFree(t) ==
  /\ Runs(t) /\ call[t].at = "copy" /\ call[t].op = "mq_recv"
  /\ mq' = returned_to(mq, call[t].arg) /\ UNCHANGED k /\ Goes(t, NoCall)
  /\ UNCHANGED <<kind, flag, alive, sem, mutex, event, mb, mp, outside, inside>>
MqGivesUp(t) ==
  /\ GivesUp(t, "mq_recv")
  /\ UNCHANGED <<kind, flag, alive, objects, outside, inside>>

-----------------------------------------------------------------------------
(* The memory pool keeps its waiters last come, first served, and counts   *)
(* them on; it counts one off when it wakes it, not when its wait times    *)
(* out.  A block taken from it may be freed by anybody.                    *)
mp_waits(kk, t, time) ==
  LET off == rt_thread_suspend([kk EXCEPT !.err[t] = "EOK"], t)
      on  == [off EXCEPT !.wait["recv"] = <<t>> \o @]
  IN  IF time = FOREVER THEN on ELSE rt_timer_start(on, t, time)
mp_taken_uncounts ==   \* faulty: the free has counted its waiter down already
  [mp EXCEPT !.block_list = Tail(@), !.block_free_count = @ - 1,
             !.suspend_thread_count = IF @ > 0 THEN @ - 1 ELSE @]
mp_taken == [mp EXCEPT !.block_list = Tail(@), !.block_free_count = @ - 1]
mp_freed(b, served_one) ==
  [mp EXCEPT !.block_list = <<b>> \o @, !.block_free_count = @ + 1,
             !.suspend_thread_count = IF served_one THEN @ - 1 ELSE @]

MpAlloc(t) ==
  \E time \in Waits[kind] :
    /\ Tries(t, "mp", "mp", NULL, time)
    /\ \/ mp.block_free_count # 0 /\ mp' = mp_taken /\ UNCHANGED k /\ Goes(t, NoCall)
       \/ mp.block_free_count = 0 /\ time = 0 /\ UNCHANGED <<k, mp>> /\ Goes(t, NoCall)
       \/ /\ mp.block_free_count = 0 /\ time # 0 /\ mp.suspend_thread_count < MaxPend
          /\ mp' = [mp EXCEPT !.suspend_thread_count = @ + 1]
          /\ k' = mp_waits(k, t, time) /\ Goes(t, Blocked("mp", time, NULL))
    /\ UNCHANGED <<kind, flag, alive, sem, mutex, event, mb, mq, outside, inside>>
MpGivesUp(t) ==
  /\ GivesUp(t, "mp")
  /\ UNCHANGED <<kind, flag, alive, objects, outside, inside>>

(* rt_mp_free goes by the count alone.  With nobody on the list the thread *)
(* it takes is the list head itself, and the status rt_thread_resume tests *)
(* lies behind the pool; if that reads as suspended, what is no thread     *)
(* becomes ready at some priority.                                         *)
phantom(kk, p) == [kk EXCEPT !.ready[p] = Append(@, NULL), !.group = @ \cup {p}]
head_resumed == {k} \cup IF Behind THEN {phantom(k, p) : p \in Prios} ELSE {}

MpFree(by) ==
  \E b \in Blocks \ Range(mp.block_list) :
    /\ \/ /\ mp.suspend_thread_count = 0 /\ mp' = mp_freed(b, FALSE)
          /\ UNCHANGED kernel_vars
       \/ /\ mp.suspend_thread_count > 0 /\ k.wait["recv"] # <<>>
          /\ mp' = mp_freed(b, TRUE) /\ Wakes(by, "recv")
       \/ /\ mp.suspend_thread_count > 0 /\ k.wait["recv"] = <<>>
          /\ mp' = mp_freed(b, TRUE)
          /\ \E kk \in head_resumed :
               \/ by = NULL /\ k' = rt_schedule(kk) /\ UNCHANGED call
               \/ by # NULL /\ k' = kk /\ Reschedules(by)
    /\ UNCHANGED <<kind, flag, alive, sem, mutex, event, mb, mq, outside, inside>>

-----------------------------------------------------------------------------
(* RT_IPC_CMD_RESET: every waiter is resumed with an error and the object  *)
(* is as new, in one section; the chain of messages goes to the free list. *)
InHand == {t \in Threads : call[t].op = "sem" /\ k.stat[t] = "READY" /\ k.err[t] = "EOK"}

messages == LET step[i \in 0..mq.entry] == IF i = 0 THEN mq.head ELSE mq.next[step[i - 1]]
            IN [i \in 1..mq.entry |-> step[i - 1]]

(* What is left of the object; the waiters get an error and stay READY.    *)
sem_reset(value) ==
  /\ sem' = value /\ outside' = SemInit - value - Cardinality(InHand)
  /\ UNCHANGED <<event, mb, mq>>
event_reset == event' = [event EXCEPT !.set = {}] /\ UNCHANGED <<sem, outside, mb, mq>>
mb_reset ==
  /\ mb' = [mb EXCEPT !.entry = 0, !.in_offset = 0, !.out_offset = 0, !.sent = <<>>]
  /\ UNCHANGED <<sem, outside, event, mq>>
mq_reset ==
  /\ mq' = LET s == Along(returned_to, mq, messages)
            IN  [s EXCEPT !.head = NULL, !.tail = NULL, !.entry = 0]
  /\ UNCHANGED <<sem, outside, event, mb>>

Reset(t) ==
  /\ Uses(t, kind)
  /\ k' = rt_ipc_list_resume_all(rt_ipc_list_resume_all(k, "recv"), "send")
  /\ Reschedules(t)
  /\ \/ kind = "sem" /\ \E value \in 0..SemInit : sem_reset(value)
     \/ kind = "event" /\ event_reset
     \/ kind = "mb" /\ mb_reset
     \/ kind = "mq" /\ mq_reset
  /\ UNCHANGED <<kind, flag, alive, mutex, mp, inside>>

(* Detach and delete: the waiters are resumed one by one, each in a        *)
(* section of its own, then the object is gone.  Nothing is scheduled.     *)
waiting == {q \in Queues : k.wait[q] # <<>>}
Detach(t) ==
  /\ Uses(t, kind) /\ kind # "thread"
  /\ UNCHANGED k /\ Goes(t, [NoCall EXCEPT !.at = "detach"])
  /\ UNCHANGED <<kind, flag, alive, objects, outside, inside>>
DetachStep(t) ==
  /\ Runs(t) /\ call[t].at = "detach"
  /\ IF waiting # {}
     THEN LET q == IF "recv" \in waiting THEN "recv" ELSE CHOOSE x \in waiting : TRUE IN
          /\ k' = resumed_bad(k, Head(k.wait[q])) /\ UNCHANGED <<call, alive>>
          /\ mp' = IF kind = "mp" THEN [mp EXCEPT !.suspend_thread_count = @ - 1] ELSE mp
     ELSE alive' = FALSE /\ UNCHANGED <<k, mp>> /\ Goes(t, NoCall)
  /\ UNCHANGED <<kind, flag, sem, mutex, event, mb, mq, outside, inside>>

-----------------------------------------------------------------------------
(* What an interrupt handler may call.                                     *)
Handler ==
  /\ \A t \in Threads : call[t].at # "detach"
  /\ \/ About("sem") /\ SemRelease(NULL)
     \/ About("event") /\ EventSend(NULL)
     \/ /\ About("mb") /\ ~mb_full
        /\ \E v \in Values : mb' = posted(v)
        /\ Wakes(NULL, "recv")
        /\ UNCHANGED <<kind, flag, alive, sem, mutex, event, mq, mp, outside, inside>>
     \/ About("mq") /\ MqSendIsr
     \/ About("mp") /\ MpFree(NULL)

Kernel ==
  /\ \/ KernelStep
     \/ \E t \in Threads : IF kind = "thread" THEN ThreadCalls(t)
                       ELSE Delete(t) \/ ((kind = "mutex" \/ ~alive) /\ Sleep(t, {1}))
  /\ UNCHANGED <<kind, flag, alive, objects, outside, inside>>

Calling(t) ==
  \/ SemTake(t) \/ (Uses(t, "sem") /\ SemRelease(t))
  \/ MutexTake(t) \/ MutexRelease(t)
  \/ EventRecv(t) \/ (Uses(t, "event") /\ EventSend(t))
  \/ MbSend(t) \/ MbRecv(t) \/ MqSend(t) \/ MqRecv(t)
  \/ MpAlloc(t) \/ (Uses(t, "mp") /\ MpFree(t))
  \/ Reset(t) \/ Detach(t)
Finishing(t) ==
  \/ SemTaken(t) \/ MutexTaken(t) \/ EventReceived(t) \/ MbGivesUp(t) \/ MqGivesUp(t)
  \/ MpGivesUp(t) \/ MqLink(t) \/ MqFree(t) \/ DetachStep(t)

IpcNext == Kernel \/ Handler \/ \E t \in Threads : Calling(t) \/ Finishing(t)
IpcSpec == IpcInit /\ [][IpcNext]_ipc_vars

-----------------------------------------------------------------------------
(* Types of the objects.                                                   *)
IpcTypeOK ==
  /\ kind \in Kinds /\ flag \in {"FIFO", "PRIO"} /\ alive \in BOOLEAN
  /\ sem \in 0..SemMax /\ event.set \subseteq Bits
  /\ \A m \in Mutexes : /\ mutex[m].value \in {0, 1} /\ mutex[m].hold \in 0..MaxHold
                        /\ mutex[m].owner \in Threads \cup {NULL}
  /\ mb.entry \in 0..MbSize /\ {mb.in_offset, mb.out_offset} \subseteq 0..MbSize - 1
  /\ mq.entry \in 0..Cardinality(Blocks)
  /\ {mq.head, mq.tail, mq.free} \subseteq Blocks \cup {NULL}

Dead == {t \in Threads : k.stat[t] \in {"CLOSE", "GONE"}}

(* The kernel under the objects: types, and each thread in one place.      *)
ThreadsSound == KTypeOK /\ OneList /\ GroupMatches /\ TimersWait /\ RunsAlive

(* No token is lost or made: those of the semaphore, those handed to       *)
(* threads that have not come back yet and those in use are as many as it  *)
(* began with, whatever timeouts, releases and resets cross.  A thread     *)
(* deleted after it was handed one takes it along.                         *)
SemConserves ==
  kind = "sem" /\ alive =>
    LET have == sem + Cardinality(InHand) + outside IN
    have <= SemInit /\ (Dead = {} => have = SemInit)

(* A thread that returned from rt_mutex_take is the owner until it has     *)
(* released as often, though ownership is passed on by the releaser while  *)
(* the heir is not running.                                                *)
MutexExclusive ==
  kind = "mutex" => \A t \in Threads, m \in Mutexes :
    /\ inside[t][m] > 0 => mutex[m].owner = t /\ mutex[m].hold = inside[t][m]
    /\ mutex[m].owner = t /\ k.stat[t] = "READY" /\ inside[t][m] = 0 =>
         call[t].op = "mutex" /\ k.err[t] = "EOK"

(* While a thread waits for the mutex its owner is at least as urgent      *)
(* ("change the owner thread priority of mutex", ipc.c:719), if the        *)
(* waiters are kept by priority and the owner has no other mutex.          *)
PriorityInherited ==
  kind = "mutex" /\ flag = "PRIO" => \A m \in Mutexes :
    \A i \in DOMAIN k.wait[m] : k.prio[mutex[m].owner] <= k.prio[k.wait[m][i]]

(* "change the owner thread to original priority" (ipc.c:831): a thread    *)
(* that owns no mutex has its own priority again.                          *)
PriorityRestored ==
  kind = "mutex" /\ alive => \A t \in Threads :
    (\A m \in Mutexes : mutex[m].owner # t) => k.prio[t] = Priority[t]

(* No thread sleeps on an event that has what it waits for, although one   *)
(* send serves several receivers and each may clear bits of the others.    *)
EventServed ==
  kind = "event" => \A i \in DOMAIN k.wait["recv"] :
    ~Granted(event.set, event.wish[k.wait["recv"][i]])

(* The mailbox hands out what was posted, in that order, through every     *)
(* wrap of the ring.                                                       *)
MbIsFifo ==
  mb.sent = [i \in 1..mb.entry |-> mb.msg_pool[(mb.out_offset + i - 1) % MbSize]]

(* Whoever waits has somebody to thank for it: if receivers wait, every    *)
(* message there is has been announced to a receiver that is on its way    *)
(* (or was deleted on it); if senders wait, so has every free slot.        *)
Announced(op) == Cardinality({t \in Threads : call[t].op = op /\ call[t].at # "copy" /\
                                (k.stat[t] = "READY" \/ t \in Dead)})
NoIdleWaiters ==
  /\ k.wait["recv"] # <<>> /\ alive =>
       /\ kind = "sem" => sem = 0
       /\ kind = "mb" => mb.entry <= Announced("mb_recv")
       /\ kind = "mp" => mp.block_free_count <= Announced("mp")
       /\ kind = "mq" => mq.entry <= Announced("mq_recv")
  /\ kind = "mb" /\ k.wait["send"] # <<>> /\ alive => MbSize - mb.entry <= Announced("mb_send")

(* The chain of messages runs from head to tail and is as long as entry    *)
(* says; every block is in it, on the free list, or with the one thread    *)
(* that copies it.                                                         *)
Copying == {t \in Threads : call[t].at = "copy"}
FreeChain ==
  LET n == Cardinality(Blocks)
      step[i \in 0..n] == IF i = 0 THEN mq.free
                          ELSE IF step[i - 1] = NULL THEN NULL ELSE mq.next[step[i - 1]]
  IN  {step[i] : i \in 0..n} \ {NULL}
MqChained ==
  LET queued == {messages[i] : i \in DOMAIN messages}
      held   == {call[t].arg : t \in Copying}
  IN  /\ mq.entry = 0 <=> mq.head = NULL
      /\ mq.entry = 0 => mq.tail = NULL
      /\ mq.entry > 0 => mq.tail = messages[mq.entry] /\ mq.next[mq.tail] = NULL
      /\ Cardinality(queued) = mq.entry /\ Cardinality(held) = Cardinality(Copying)
      /\ queued \cup held \cup FreeChain = Blocks
      /\ Cardinality(queued) + Cardinality(held) + Cardinality(FreeChain) = Cardinality(Blocks)

(* A block of the pool is on its free list once, or in use, and the count  *)
(* that the next rt_mp_alloc trusts is the length of that list.            *)
MpConserves ==
  /\ mp.block_free_count = Len(mp.block_list)
  /\ IsInjective(mp.block_list)

(* suspend_thread_count is the "numbers of thread pended on this resource" *)
(* (rtdef.h:763).  It is not once a wait for a block timed out, or a       *)
(* thread was deleted while it waited for one.                             *)
MpCountsWaiters == kind = "mp" /\ alive => mp.suspend_thread_count = Len(k.wait["recv"])

(* It is never less: rt_mp_free, which goes by it, never returns a block   *)
(* past a thread that waits for one, whatever timeouts, deletions and      *)
(* frees that found nobody went before.                                    *)
MpCountCovers == kind = "mp" /\ alive => Len(k.wait["recv"]) <= mp.suspend_thread_count

(* What is given to an object stays there until somebody takes it.         *)
NothingLost == IpcTypeOK /\ SemConserves /\ MbIsFifo /\ MqChained /\ MpConserves

(* A mutex excludes, and lends its owner the priority of who waits for it, *)
(* no longer than it is owned.                                             *)
MutexSound == MutexExclusive /\ PriorityInherited /\ PriorityRestored

(* Nobody sleeps on an object that has what they wait for.                 *)
NoneForgotten == EventServed /\ NoIdleWaiters

(* The thread that executes its own code is the most urgent one that is    *)
(* ready: every send, release and tick that wakes somebody gives way       *)
(* before it returns.  (Detach does not, nor does the release of a mutex   *)
(* nobody waits for any more.)                                             *)
RunsHighest ==
  kind \in {"sem", "event", "mb", "mq", "mp"} /\ alive /\ call[k.current].at = "run" =>
    \A t \in Threads \ BeingDeleted : k.stat[t] = "READY" => k.prio[k.current] <= k.prio[t]
=============================================================================
