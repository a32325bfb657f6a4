------------------------------ MODULE RtObject ------------------------------
(***************************************************************************)
(* Kernel objects: the list of each class (object.c), the create and       *)
(* delete functions that pair an object with its second block of memory    *)
(* (ipc.c, mempool.c, thread.c, timer.c), and the shell commands that walk *)
(* the lists with interrupts enabled between batches (finsh/cmd.c).        *)
(* A section with interrupts disabled is one step.                         *)
(***************************************************************************)
EXTENDS RtDef, Naturals, Sequences, FiniteSets, SequencesExt

CONSTANTS Blocks,            \* blocks of the heap, large enough for anything
          Statics,           \* objects that are variables of the program
          Makers,            \* threads that create and delete objects
          InUse,             \* the classes and variables a program uses: [classes, statics]
          LIST_FIND_OBJ_NR

ObjectClasses == {"Thread", "Semaphore", "Mutex", "Event", "MailBox", "MessageQueue", "MemPool", "Timer"}
TwoBlocks == {"Thread", "MailBox", "MessageQueue", "MemPool"}
Nodes == Blocks \cup Statics

ASSUME ObjectAssumption ==
  /\ Blocks \cap Statics = {} /\ LIST_FIND_OBJ_NR \in Nat \ {0}
  /\ NONE \notin Nodes \cup ObjectClasses     \* no address, and no class's number
  /\ InUse \subseteq [classes : SUBSET ObjectClasses, statics : SUBSET Statics]

VARIABLES active,        \* what this program uses
          type,          \* the type word at each node; NONE when cleared
          object_list,   \* of each class, latest first
          pool,          \* stack, msg_pool or start_address of an object
          used,          \* blocks malloc has handed out
          making,        \* each maker in the middle of a function
          walk           \* list_thread and its likes in the shell's thread
object_vars == <<active, type, object_list, pool, used, making, walk>>

Idle == [stage |-> "idle", node |-> NONE, cls |-> NONE]
NoWalk == [stage |-> "idle", cls |-> NONE, current |-> NONE, batch |-> <<>>, shown |-> {}, owed |-> {}]
ObjectInit ==
  /\ active \in InUse
  /\ type = [n \in Nodes |-> NONE] /\ object_list = [c \in ObjectClasses |-> <<>>]
  /\ pool = [n \in Nodes |-> NONE] /\ used = {}
  /\ making = [m \in Makers |-> Idle] /\ walk = NoWalk

Doing(m, stage) == making[m].stage = stage
Goes(m, stage, n, c) == making' = [making EXCEPT ![m] = [stage |-> stage, node |-> n, cls |-> c]]
Moves(m, stage) == making' = [making EXCEPT ![m].stage = stage]
Ends(m) == making' = [making EXCEPT ![m] = Idle]
Room == Blocks \ used
Busy == {making[m].node : m \in Makers}
Listed(n) == \E c \in ObjectClasses : n \in ToSet(object_list[c])
Whole(n, c) == n \in ToSet(object_list[c]) /\ n \notin Busy

-----------------------------------------------------------------------------
(* rt_object_allocate and rt_object_init: the type is written before the   *)
(* node is in the list.                                                    *)
rt_object_allocate(m, c) ==
  /\ Doing(m, "idle") /\ c \in active.classes
  /\ \E n \in Room : /\ used' = used \cup {n}
                     /\ type' = [type EXCEPT ![n] = c]
                     /\ Goes(m, "typed", n, c)
  /\ UNCHANGED <<active, object_list, pool, walk>>
rt_object_init(m, c) ==
  /\ Doing(m, "idle") /\ c \in active.classes
  /\ \E n \in active.statics \ Busy : /\ ~Listed(n)
                               /\ type' = [type EXCEPT ![n] = c]
                               /\ Goes(m, "typed", n, c)
  /\ UNCHANGED <<active, object_list, pool, used, walk>>
Inserted(m) ==
  /\ Doing(m, "typed")
  /\ object_list' = [object_list EXCEPT ![making[m].cls] = <<making[m].node>> \o @]
  /\ IF making[m].cls \in TwoBlocks /\ making[m].node \in Blocks
     THEN Moves(m, "second") ELSE Ends(m)
  /\ UNCHANGED <<active, type, pool, used, walk>>

(* The second block; without one the object goes again.                    *)
second_failed(m) == Moves(m, "untype") /\ UNCHANGED <<pool, used>>
SecondBlock(m) ==
  /\ Doing(m, "second")
  /\ \/ \E b \in Room : /\ used' = used \cup {b}
                         /\ pool' = [pool EXCEPT ![making[m].node] = b]
                         /\ Ends(m)
     \/ Room = {} /\ second_failed(m)
  /\ UNCHANGED <<active, type, object_list, walk>>

(* Deleting: waiters are woken (RtIpc), the second block is freed, then    *)
(* the object.                                                             *)
deletes_keeps_second(m, c) ==                                        \* faulty
  \E n \in Blocks :
    /\ Doing(m, "idle") /\ Whole(n, c)
    /\ pool' = [pool EXCEPT ![n] = NONE]
    /\ Goes(m, "untype", n, c)
    /\ UNCHANGED <<active, type, object_list, used, walk>>
deletes(m, c) ==
  \E n \in Blocks :
    /\ Doing(m, "idle") /\ Whole(n, c)
    /\ used' = used \ {pool[n]} /\ pool' = [pool EXCEPT ![n] = NONE]
    /\ Goes(m, "untype", n, c)
    /\ UNCHANGED <<active, type, object_list, walk>>

(* rt_object_delete, rt_object_detach: the type is cleared, then the node  *)
(* leaves its list, then its memory goes back.                             *)
untype(m) == type' = [type EXCEPT ![making[m].node] = NONE] /\ Moves(m, "unlink")
without(n) == [c \in ObjectClasses |-> RemoveFirst(object_list[c], n)]
unlink(m) ==
  /\ object_list' = without(making[m].node)
  /\ IF making[m].node \in Blocks THEN Moves(m, "free") ELSE Ends(m)
Untype(m) == /\ Doing(m, "untype") /\ untype(m)
             /\ walk' = [walk EXCEPT !.owed = @ \ {making[m].node}]
             /\ UNCHANGED <<active, object_list, pool, used>>
Unlink(m) == Doing(m, "unlink") /\ unlink(m) /\ UNCHANGED <<active, type, pool, used, walk>>
Free(m) == /\ Doing(m, "free") /\ used' = used \ {making[m].node} /\ Ends(m)
           /\ UNCHANGED <<active, type, object_list, pool, walk>>
rt_object_delete(m) == Untype(m) \/ Unlink(m) \/ Free(m)
rt_object_detach(m, c) ==
  /\ \E n \in active.statics : Doing(m, "idle") /\ Whole(n, c) /\ Goes(m, "untype", n, c)
  /\ UNCHANGED <<active, type, object_list, pool, used, walk>>

rt_sem_create(m)    == rt_object_allocate(m, "Semaphore")
rt_sem_delete(m)    == deletes(m, "Semaphore")
rt_mutex_create(m)  == rt_object_allocate(m, "Mutex")
rt_mutex_delete(m)  == deletes(m, "Mutex")
rt_event_create(m)  == rt_object_allocate(m, "Event")
rt_event_delete(m)  == deletes(m, "Event")
rt_mb_create(m)     == rt_object_allocate(m, "MailBox")
rt_mb_delete(m)     == deletes(m, "MailBox")
rt_mq_create(m)     == rt_object_allocate(m, "MessageQueue")
rt_mq_delete(m)     == deletes(m, "MessageQueue")
rt_mp_create(m)     == rt_object_allocate(m, "MemPool")
rt_mp_delete(m)     == deletes(m, "MemPool")
rt_timer_create(m)  == rt_object_allocate(m, "Timer")
rt_timer_delete(m)  == deletes(m, "Timer")
rt_thread_create(m) == rt_object_allocate(m, "Thread")
idle_reaps(m)       == deletes(m, "Thread")       \* the end of a deleted thread

Makes(m) ==
  \/ rt_sem_create(m) \/ rt_sem_delete(m) \/ rt_mutex_create(m) \/ rt_mutex_delete(m)
  \/ rt_event_create(m) \/ rt_event_delete(m) \/ rt_mb_create(m) \/ rt_mb_delete(m)
  \/ rt_mq_create(m) \/ rt_mq_delete(m) \/ rt_mp_create(m) \/ rt_mp_delete(m)
  \/ rt_timer_create(m) \/ rt_timer_delete(m) \/ rt_thread_create(m) \/ idle_reaps(m)
  \/ Inserted(m) \/ SecondBlock(m) \/ rt_object_delete(m)
  \/ \E c \in ObjectClasses : rt_object_init(m, c) \/ rt_object_detach(m, c)

-----------------------------------------------------------------------------
(* A shell command begins: owed are the objects that are listed now and    *)
(* stay listed with their type, all of which the command should show.      *)
begins(c) ==
  /\ walk.stage = "idle" /\ c \in active.classes
  /\ walk' = [NoWalk EXCEPT !.stage = "next", !.cls = c, !.owed =
                {n \in ToSet(object_list[c]) : type[n] = c}]
  /\ UNCHANGED <<active, type, object_list, pool, used, making>>
list_thread   == begins("Thread")
list_sem      == begins("Semaphore")
list_event    == begins("Event")
list_mutex    == begins("Mutex")
list_mailbox  == begins("MailBox")
list_msgqueue == begins("MessageQueue")
list_mempool  == begins("MemPool")
list_timer    == begins("Timer")

(* list_get_next: up to LIST_FIND_OBJ_NR nodes behind the last one of the  *)
(* batch before, if that still has its type.  A variable that was detached *)
(* and has got its type again, but not its place, is linked to itself.  A  *)
(* block that was freed and is being made an object of that class again    *)
(* has the type and holds NULL for its links, and one that became          *)
(* somebody's second block holds data that may look like the type: the     *)
(* code follows what it finds there, and has left the list for good.       *)
Behind(n) ==
  LET l == object_list[walk.cls] IN
  IF n = NONE THEN l ELSE SubSeq(l, CHOOSE i \in DOMAIN l : l[i] = n, Len(l))
rest_of_list_skips(n) == IF n = NONE THEN Behind(n)                  \* faulty
                         ELSE SubSeq(Behind(n), 3, Len(Behind(n)))
rest_of_list(n) == IF n = NONE THEN Behind(n) ELSE Tail(Behind(n))
list_get_next ==
  /\ walk.stage = "next"
  /\ walk.current # NONE => type[walk.current] = walk.cls /\ Listed(walk.current)
  /\ LET rest == rest_of_list(walk.current)
         nr == IF Len(rest) < LIST_FIND_OBJ_NR THEN Len(rest) ELSE LIST_FIND_OBJ_NR
     IN  walk' = [walk EXCEPT !.batch = SubSeq(rest, 1, nr),
                              !.current = IF nr < LIST_FIND_OBJ_NR THEN NONE ELSE rest[nr],
                              !.stage = IF nr < LIST_FIND_OBJ_NR THEN "last" ELSE "show"]
  /\ UNCHANGED <<active, type, object_list, pool, used, making>>
RunsOnItself ==
  /\ walk.stage = "next" /\ walk.current \in Statics
  /\ type[walk.current] = walk.cls /\ ~Listed(walk.current)
  /\ walk' = [walk EXCEPT !.batch = [i \in 1 .. LIST_FIND_OBJ_NR |-> walk.current], !.stage = "show"]
  /\ UNCHANGED <<active, type, object_list, pool, used, making>>
GoesAstray ==
  /\ walk.stage = "next" /\ walk.current \in Blocks /\ ~Listed(walk.current)
  /\ type[walk.current] = walk.cls \/ \E n \in Nodes : pool[n] = walk.current
  /\ walk' = [walk EXCEPT !.stage = "astray"]
  /\ UNCHANGED <<active, type, object_list, pool, used, making>>
CutShort ==                       \* the node the walk stood at is gone
  /\ walk.stage = "next" /\ walk.current # NONE
  /\ type[walk.current] # walk.cls
  /\ walk' = NoWalk
  /\ UNCHANGED <<active, type, object_list, pool, used, making>>

(* A row is shown if the node still has its type.                          *)
ShowsRow ==
  /\ walk.stage \in {"show", "last"} /\ walk.batch # <<>>
  /\ LET n == Head(walk.batch) IN
     walk' = [walk EXCEPT !.batch = Tail(@),
                !.shown = IF type[n] = walk.cls THEN @ \cup {n} ELSE @]
  /\ UNCHANGED <<active, type, object_list, pool, used, making>>
BatchDone ==
  /\ walk.stage \in {"show", "last"} /\ walk.batch = <<>>
  /\ walk' = IF walk.stage = "last" THEN NoWalk ELSE [walk EXCEPT !.stage = "next"]
  /\ UNCHANGED <<active, type, object_list, pool, used, making>>

Walks == \/ list_thread \/ list_sem \/ list_event \/ list_mutex \/ list_mailbox
         \/ list_msgqueue \/ list_mempool \/ list_timer
         \/ list_get_next \/ RunsOnItself \/ GoesAstray \/ CutShort
         \/ ShowsRow \/ BatchDone
ObjectNext == (\E m \in Makers : Makes(m)) \/ Walks
ObjectSpec == ObjectInit /\ [][ObjectNext]_object_vars

-----------------------------------------------------------------------------
(* A node with a type is in that class's list, or about to enter it: the   *)
(* type is what list_get_next goes by before it follows the node's links.  *)
TypeMeansListed ==
  \A n \in Nodes : type[n] # NONE =>
    \/ n \in ToSet(object_list[type[n]])
    \/ \E m \in Makers : making[m].node = n /\ Doing(m, "typed")

(* Memory is never lost: every block handed out is an object that is       *)
(* listed or in the hands of a maker, or the second block of one.          *)
NoBlockLost ==
  used = {n \in Blocks : Listed(n) \/ n \in Busy} \cup ({pool[n] : n \in Nodes} \ {NONE})

(* An object is in one list, once, and its memory is its own.              *)
ListedOnce ==
  /\ \A c \in ObjectClasses : IsInjective(object_list[c])
  /\ \A c, d \in ObjectClasses : c # d => ToSet(object_list[c]) \cap ToSet(object_list[d]) = {}
  /\ \A n \in Blocks : Listed(n) => n \in used /\ \A o \in Nodes : pool[o] # n

(* Types, lists and memory agree between any two steps of makers.          *)
ObjectsSound == TypeMeansListed /\ NoBlockLost /\ ListedOnce

(* A command that reaches the end of its list has shown every object that  *)
(* was there all along, whatever was created, deleted and made again       *)
(* between its batches.  It need not reach the end: see CutShort,          *)
(* RunsOnItself and GoesAstray.                                            *)
ShowsAllThatStay ==
  [][walk.stage = "last" /\ walk' = NoWalk => walk.owed \subseteq walk.shown]_object_vars

(* A comment the code does not keep: the type test of list_get_next is to  *)
(* tell whether the node a command stands at is in the list ("The node in  *)
(* the list?", cmd.c:122), and the command goes on only from one that is.  *)
NodeInList ==
  [][walk.stage = "next" /\ walk.current # NONE /\ walk' # walk /\ walk' # NoWalk
       => walk.current \in ToSet(object_list[walk.cls])]_object_vars
=============================================================================
