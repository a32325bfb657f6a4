------------------------------ MODULE RtTimer ------------------------------
(***************************************************************************)
(* Timers (timer.c): the sorted skip lists of hard and of soft timers, the *)
(* tick interrupt that checks the hard ones with interrupts disabled, and  *)
(* the timer thread, of the highest priority, that checks the soft ones    *)
(* and runs their functions with the scheduler unlocked.  Ticks are        *)
(* unsigned words that wrap.                                               *)
(***************************************************************************)
EXTENDS RtDef, Naturals, Sequences, FiniteSets, SequencesExt

CONSTANTS Timers, Soft,              \* all timers, those with RT_TIMER_FLAG_SOFT_TIMER
          Clients,                   \* threads that start and stop timers
          Programs,                  \* what a system uses its timers for, see Does
          RT_TIMER_SKIP_LIST_LEVEL,
          RT_TIMER_SKIP_LIST_MASK,
          TickMod,                   \* 2^32 of the code: rt_tick_t is a word
          Delays,                    \* values of init_tick
          MaxLate,                   \* bound: ticks that a thread lags behind
          Careful                    \* see MayStart, MayStop

RT_TICK_MAX == TickMod - 1
Level == 0 .. RT_TIMER_SKIP_LIST_LEVEL - 1
LastRow == RT_TIMER_SKIP_LIST_LEVEL - 1           \* the row that has every timer
Kind(t) == IF t \in Soft THEN "soft" ELSE "hard"
MaskShift == (RT_TIMER_SKIP_LIST_MASK + 1) \div 2     \* bits per level

(* What the timeout function of a timer does: nothing, or start or stop a  *)
(* timer; and the timers that threads start, stop and set.                 *)
Does == [op : {"none", "start", "stop"}, on : Timers]

(* The functions of a careful program start no timer that its threads      *)
(* start and stop, but a hard timer may start itself, and one that does is *)
(* periodic.  Those of hard timers, which the interrupt calls, leave the   *)
(* soft timers alone.                                                      *)
Disciplined(p) ==
  \A t \in Timers : LET f == p.func[t] IN
    /\ f.op = "start" /\ f.on \in p.owned => f.on = t /\ t \notin Soft
    /\ f.op = "start" /\ f.on = t /\ t \notin Soft => t \in p.periodic \ p.set
    /\ f.op # "none" /\ t \notin Soft => f.on \notin Soft

ASSUME TimerAssumption ==
  /\ NONE \notin Timers /\ Soft \subseteq Timers /\ TickMod \in Nat /\ TickMod > 3
  /\ RT_TIMER_SKIP_LIST_LEVEL \in Nat \ {0} /\ RT_TIMER_SKIP_LIST_MASK \in {1, 3} /\ MaxLate \in Nat
  /\ Delays # {} /\ \A d \in Delays : d \in Nat /\ d + MaxLate + 1 < RT_TICK_MAX \div 2
  /\ Programs \subseteq [func : [Timers -> Does], periodic : SUBSET Timers,
                         owned : SUBSET Timers, set : SUBSET Timers]
  /\ Careful \in BOOLEAN /\ (Careful => \A p \in Programs : Disciplined(p))

VARIABLES program,     \* the program that runs
          tick,        \* rt_tick
          s,           \* tm: each timer; row: the lists; nr: random_nr
          isr,         \* "check" while the tick interrupt checks the timers
          tcall,       \* each client in the middle of a call
          tt           \* the timer thread: pc, n, t, next, cur, due
timer_vars == <<program, tick, s, isr, tcall, tt>>

NoTcall == [stage |-> "idle", t |-> NONE]
TimerInit ==
  /\ program \in Programs /\ tick = 0 /\ isr = "off"
  /\ s = [tm  |-> [t \in Timers |-> [active |-> FALSE, timeout |-> 0,
                                     periodic |-> t \in program.periodic,
                                     init |-> CHOOSE d \in Delays : \A e \in Delays : d >= e]],
          row |-> [l \in {"hard", "soft"} |-> [j \in Level |-> <<>>]],
          nr  |-> 0]
  /\ tcall = [c \in Clients |-> NoTcall]
  /\ tt = [pc |-> "entry", n |-> NONE, t |-> NONE, next |-> 0, cur |-> 0]

-----------------------------------------------------------------------------
(* The difference of two ticks, and "is due" as the code decides it.       *)
minus(a, b) == (a + TickMod - b) % TickMod
half(d) == d < RT_TICK_MAX \div 2
due(z, t, now) == half(minus(now, z.tm[t].timeout))
bottom(z, l) == z.row[l][LastRow]

(* The next of a soft timer in its list; a removed one is its own next.    *)
behind(t) ==
  LET l == bottom(s, "soft") IN
  IF t \notin ToSet(l) THEN t
  ELSE LET i == CHOOSE i \in DOMAIN l : l[i] = t
       IN  IF i = Len(l) THEN NONE ELSE l[i + 1]

(* rt_list_remove on every row.  The timeout of a timer that is in no list *)
(* is forgotten here, unless the timer thread will come back to it.        *)
_rt_timer_remove(z, t) ==
  [z EXCEPT !.row[Kind(t)] = [j \in Level |-> RemoveFirst(@[j], t)],
            !.tm[t].timeout = IF tt.n = t /\ behind(t) = t THEN @ ELSE 0]
flagged(z, t, f) == [z EXCEPT !.tm[t].active = f]

(* rt_timer_start up to the time of the timeout, and from there on.        *)
prepared(z, t) ==
  LET y == flagged(_rt_timer_remove(z, t), t, FALSE)
  IN  [y EXCEPT !.tm[t].timeout = (tick + y.tm[t].init) % TickMod]

(* Where the search leaves a row, starting behind `from' (NONE: its head): *)
(* before the first timer that is due later.                               *)
searched(z, seq, from, t) ==
  LET start == IF from = NONE THEN 0 ELSE CHOOSE i \in DOMAIN seq : seq[i] = from
      later(u) == LET d == minus(z.tm[u].timeout, z.tm[t].timeout) IN d # 0 /\ half(d)
      stop == {i \in start .. Len(seq) : i < Len(seq) => later(seq[i + 1])}
  IN  CHOOSE i \in stop : \A j \in stop : i <= j
row_head(z, t) ==
  LET rows == z.row[Kind(t)]
      h[j \in Level] == 
        LET from == IF j = 0 \/ h[j - 1] = 0 THEN NONE ELSE rows[j - 1][h[j - 1]]
        IN  searched(z, rows[j], from, t)
  IN  h

(* random_nr decides in how many rows the timer is inserted: in the row    *)
(* above another one when the bits tested there are 0 as well.             *)
height(nr) ==
  {j \in Level : \A k \in j + 1 .. LastRow :
     (nr \div 2 ^ (MaskShift * (LastRow - k))) % (RT_TIMER_SKIP_LIST_MASK + 1) = 0}
inserted(z, t) ==
  LET h == row_head(z, t)
      nr == (z.nr + 1) % (2 ^ (MaskShift * LastRow))
  IN  [z EXCEPT !.nr = nr, !.tm[t].active = TRUE,
                !.row[Kind(t)] =
                  [j \in Level |-> IF j \in height(nr) THEN InsertAt(@[j], h[j] + 1, t)
                                   ELSE @[j]]]
started(z, t) == inserted(prepared(z, t), t)
stopped(z, t) == IF z.tm[t].active THEN flagged(_rt_timer_remove(z, t), t, FALSE) ELSE z

(* After its function has returned a timer is started again or inactive.   *)
renews(z, t) == z.tm[t].periodic /\ z.tm[t].active
over(z, t) == IF renews(z, t) THEN started(z, t) ELSE flagged(z, t, FALSE)

(* A timeout function that is called with interrupts disabled.             *)
called(z, t) ==
  LET f == program.func[t] IN
  CASE f.op = "start" -> started(z, f.on)
    [] f.op = "stop"  -> stopped(z, f.on)
    [] OTHER          -> z

(* rt_timer_start of a soft timer resumes the timer thread.                *)
resumed_if_suspended == IF tt.pc = "suspended" THEN [tt EXCEPT !.pc = "check"] ELSE tt  \* faulty
resumed == IF tt.pc \in {"asleep", "suspended"} THEN [tt EXCEPT !.pc = "check"] ELSE tt

-----------------------------------------------------------------------------
(* The tick interrupt.  It finds the timer thread asleep until `next'.     *)
Late(t) == minus(tick + 1, s.tm[t].timeout) \in (MaxLate + 1) .. (RT_TICK_MAX \div 2)
InTime ==                               \* no thread lags behind by MaxLate
  /\ \A c \in Clients : tcall[c].stage = "insert" => ~Late(tcall[c].t)
  /\ \A t \in ToSet(bottom(s, "soft")) : ~Late(t)
  /\ tt.pc = "restart" => ~Late(tt.t)
rt_tick_increase ==
  /\ isr = "off" /\ InTime
  /\ tick' = (tick + 1) % TickMod /\ isr' = "check"
  /\ tt' = IF tt.pc = "asleep" /\ half(minus(tick + 1, tt.next))
           THEN [tt EXCEPT !.pc = "check"] ELSE tt
  /\ UNCHANGED <<program, s, tcall>>

checks_due(z) == bottom(z, "hard") # <<>> /\ due(z, Head(bottom(z, "hard")), tick)
checks(z) == checks_due(z)
Fires ==
  /\ isr = "check" /\ checks(s)
  /\ LET t == Head(bottom(s, "hard"))
     IN  /\ s' = over(called(_rt_timer_remove(s, t), t), t)
         /\ tt' = IF program.func[t].op = "start" /\ program.func[t].on \in Soft
                  THEN resumed ELSE tt
  /\ UNCHANGED <<program, tick, isr, tcall>>
Checked ==
  /\ isr = "check" /\ ~checks(s) /\ isr' = "off"
  /\ UNCHANGED <<program, tick, s, tcall, tt>>
rt_timer_check == Fires \/ Checked

-----------------------------------------------------------------------------
(* A careful program does not start or stop the soft timer that the timer  *)
(* thread has noted; it does not start a one-shot timer, make one of a     *)
(* periodic timer, nor stop a timer from another thread, while the timer's *)
(* function runs.                                                          *)
MayStop(t) == Careful => tt.n # t
MayStart(t) == Careful => tt.n # t /\ (tt.t = t => s.tm[t].periodic)
MayRun(f) == (f.op = "stop" => MayStop(f.on)) /\ (f.op = "start" => MayStart(f.on))
Unfired(t) == Careful => tt.t # t

(* A client runs while the timer thread waits, or is in a function that    *)
(* may wait.  Nobody starts or stops the timer of another client's call.   *)
ClientMay == isr = "off" /\ tt.pc \in {"suspended", "asleep", "function"}
Unclaimed(t) == \A c \in Clients : tcall[c].t # t
Step(c, stage, t) == tcall' = [tcall EXCEPT ![c] = [stage |-> stage, t |-> t]]

StartBegins(c) ==
  \E t \in program.owned :
    /\ tcall[c].stage = "idle" /\ ClientMay /\ Unclaimed(t) /\ MayStart(t)
    /\ s' = prepared(s, t) /\ Step(c, "insert", t)
    /\ UNCHANGED <<program, tick, isr, tt>>
StartInserts(c) ==
  /\ tcall[c].stage = "insert" /\ ClientMay
  /\ s' = inserted(s, tcall[c].t)
  /\ IF tcall[c].t \in Soft THEN Step(c, "resume", tcall[c].t) ELSE Step(c, "idle", NONE)
  /\ UNCHANGED <<program, tick, isr, tt>>
StartResumes(c) ==
  /\ tcall[c].stage = "resume" /\ ClientMay
  /\ tt' = resumed /\ Step(c, "idle", NONE)
  /\ UNCHANGED <<program, tick, s, isr>>
rt_timer_start(c) == StartBegins(c) \/ StartInserts(c) \/ StartResumes(c)

(* rt_timer_stop and rt_timer_detach, which clears no flag.                *)
StopBegins(c) ==
  \E t \in program.owned :
    /\ tcall[c].stage = "idle" /\ ClientMay /\ Unclaimed(t) /\ MayStop(t) /\ Unfired(t)
    /\ s.tm[t].active /\ Step(c, "remove", t)
    /\ UNCHANGED <<program, tick, s, isr, tt>>
StopRemoves(c) ==
  /\ tcall[c].stage = "remove" /\ ClientMay /\ MayStop(tcall[c].t) /\ Unfired(tcall[c].t)
  /\ s' = _rt_timer_remove(s, tcall[c].t) /\ Step(c, "clear", tcall[c].t)
  /\ UNCHANGED <<program, tick, isr, tt>>
StopClears(c) ==
  /\ tcall[c].stage = "clear" /\ ClientMay
  /\ s' = flagged(s, tcall[c].t, FALSE) /\ Step(c, "idle", NONE)
  /\ UNCHANGED <<program, tick, isr, tt>>
rt_timer_stop(c) == StopBegins(c) \/ StopRemoves(c) \/ StopClears(c)

rt_timer_control(c) ==
  \E t \in program.set :
    /\ tcall[c].stage = "idle" /\ ClientMay /\ Unclaimed(t) /\ Unfired(t)
    /\ \/ \E d \in Delays : s' = [s EXCEPT !.tm[t].init = d]
       \/ \E p \in BOOLEAN : s' = [s EXCEPT !.tm[t].periodic = p]
    /\ UNCHANGED <<program, tick, isr, tcall, tt>>

-----------------------------------------------------------------------------
(* rt_thread_timer_entry.                                                  *)
Runs(pc) == isr = "off" /\ tt.pc = pc
next_timeout_top_row ==                                              \* faulty
  LET l == s.row["soft"][0] IN IF l = <<>> THEN RT_TICK_MAX ELSE s.tm[Head(l)].timeout
next_timeout == IF bottom(s, "soft") = <<>> THEN RT_TICK_MAX
                ELSE s.tm[Head(bottom(s, "soft"))].timeout
Watches ==
  /\ Runs("entry")
  /\ tt' = [tt EXCEPT !.next = next_timeout,
                      !.pc = IF next_timeout = RT_TICK_MAX THEN "suspend" ELSE "delay"]
  /\ UNCHANGED <<program, tick, s, isr, tcall>>
Suspends ==
  /\ Runs("suspend") /\ tt' = [tt EXCEPT !.pc = "suspended"]
  /\ UNCHANGED <<program, tick, s, isr, tcall>>
sleeps == half(minus(tt.next, tick))
Sleeps ==                      \* or not at all, when next_timeout has passed
  /\ Runs("delay")
  /\ tt' = [tt EXCEPT !.pc = IF sleeps THEN "asleep" ELSE "check"]
  /\ UNCHANGED <<program, tick, s, isr, tcall>>

(* rt_soft_timer_check: the scheduler is locked but for the function.      *)
CheckBegins ==
  /\ Runs("check")
  /\ tt' = [tt EXCEPT !.pc = "walk", !.cur = tick,
                      !.next = 0,
                      !.n = IF bottom(s, "soft") = <<>> THEN NONE ELSE Head(bottom(s, "soft"))]
  /\ UNCHANGED <<program, tick, s, isr, tcall>>
walk_fires == tt.n # NONE /\ due(s, tt.n, tt.cur)
WalkEnds ==
  /\ Runs("walk") /\ ~walk_fires
  /\ tt' = [tt EXCEPT !.pc = "entry", !.n = NONE, !.cur = 0]
  /\ UNCHANGED <<program, tick, s, isr, tcall>>
WalkFires ==
  /\ Runs("walk") /\ walk_fires
  /\ tt' = [tt EXCEPT !.pc = "function", !.n = behind(tt.n), !.t = tt.n]
  /\ s' = _rt_timer_remove(s, tt.n)
  /\ UNCHANGED <<program, tick, isr, tcall>>
FunctionRuns ==
  /\ Runs("function") /\ s' = IF MayRun(program.func[tt.t]) THEN called(s, tt.t) ELSE s
  /\ tt' = [tt EXCEPT !.pc = "over", !.cur = tick]
  /\ UNCHANGED <<program, tick, isr, tcall>>
WalkOver ==
  /\ Runs("over")
  /\ IF renews(s, tt.t)
     THEN s' = prepared(s, tt.t) /\ tt' = [tt EXCEPT !.pc = "restart"]
     ELSE s' = flagged(s, tt.t, FALSE) /\ tt' = [tt EXCEPT !.pc = "walk", !.t = NONE]
  /\ UNCHANGED <<program, tick, isr, tcall>>
WalkRestarts ==
  /\ Runs("restart") /\ s' = inserted(s, tt.t)
  /\ tt' = [tt EXCEPT !.pc = "walk", !.t = NONE]
  /\ UNCHANGED <<program, tick, isr, tcall>>
rt_soft_timer_check == CheckBegins \/ WalkEnds \/ WalkFires \/ FunctionRuns \/ WalkOver \/ WalkRestarts
rt_thread_timer_entry == Watches \/ Suspends \/ Sleeps \/ rt_soft_timer_check

ClientStep(c) == rt_timer_start(c) \/ rt_timer_stop(c) \/ rt_timer_control(c)
TimerNext == \/ rt_tick_increase \/ rt_timer_check \/ rt_thread_timer_entry
             \/ \E c \in Clients : ClientStep(c)
TimerSpec == TimerInit /\ [][TimerNext]_timer_vars

-----------------------------------------------------------------------------
(* Every row is in the order of the timeouts, across the wrap of the tick: *)
(* the check looks at the first timer only.                                *)
TimersSorted ==
  \A l \in {"hard", "soft"}, j \in Level : LET r == s.row[l][j] IN
    \A i \in 1 .. Len(r) - 1 : half(minus(s.tm[r[i + 1]].timeout, s.tm[r[i]].timeout))

(* No timer is twice in a row; the upper rows leave timers out and change  *)
(* no order, or the search that goes down a row at a timer would lose its  *)
(* place.                                                                  *)
Precedes(r, t, u) == \E i, k \in DOMAIN r : i < k /\ r[i] = t /\ r[k] = u
LevelsAgree ==
  \A l \in {"hard", "soft"} :
    /\ \A j \in Level : IsInjective(s.row[l][j])
    /\ \A j \in Level \ {LastRow} :
         LET up == s.row[l][j]
             down == s.row[l][j + 1]
         IN  /\ ToSet(up) \subseteq ToSet(down)
             /\ \A t, u \in ToSet(up) : Precedes(up, t, u) => Precedes(down, t, u)

(* Outside of calls a timer is active exactly while it is listed.          *)
ActiveIsListed ==
  \A t \in Timers : Unclaimed(t) /\ tt.t # t =>
    (s.tm[t].active <=> t \in ToSet(bottom(s, Kind(t))))

(* The timer thread never sleeps past the first soft timer: who starts an  *)
(* earlier one is about to resume it.                                      *)
ThreadWatches ==
  tt.pc = "asleep" /\ bottom(s, "soft") # <<>> /\ (\A c \in Clients : tcall[c].stage # "resume")
    => minus(next_timeout + 1, tt.next) <= RT_TICK_MAX \div 2

(* The rows, the flags and the sleep of the timer thread agree.            *)
TimersSound == TimersSorted /\ LevelsAgree /\ ActiveIsListed /\ ThreadWatches

(* The timer thread gives itself up only when no soft timer is listed (or  *)
(* the first is due at RT_TICK_MAX, which it takes for none): nobody has   *)
(* started one since it looked.                                            *)
SuspendsForNone ==
  [][Suspends => LET l == bottom(s, "soft") IN
                 l # <<>> => s.tm[Head(l)].timeout = RT_TICK_MAX]_timer_vars

(* When the interrupt has checked the timers none of them is due.          *)
NoneLeftDue ==
  [][isr = "check" /\ isr' = "off" =>
       \A t \in ToSet(bottom(s, "hard")) : ~due(s, t, tick)]_timer_vars

(* A function is called for a timer that is active and due, not before.    *)
FiresActive ==
  [][/\ Fires => LET t == Head(bottom(s, "hard")) IN s.tm[t].active /\ due(s, t, tick)
     /\ WalkFires => s.tm[tt.n].active /\ due(s, tt.n, tick)]_timer_vars

(* No timer is late, and none early.                                       *)
TimersFire == SuspendsForNone /\ NoneLeftDue /\ FiresActive
=============================================================================
