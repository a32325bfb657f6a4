------------------------------- MODULE RtMem -------------------------------
(***************************************************************************)
(* The heap sk_os is built with (mem.c): blocks in address order, each     *)
(* with a header that knows its neighbours; lfree is where the search for  *)
(* memory begins.  heap_sem makes every operation one step, except that    *)
(* rt_realloc lets go of it before it moves a block.  Addresses count      *)
(* header-sized units.                                                     *)
(***************************************************************************)
EXTENDS RtDef, Naturals, FiniteSets

CONSTANTS MemSize,      \* mem_size_aligned
          MemSizes      \* sizes asked for, after RT_ALIGN and MIN_SIZE

SIZEOF_STRUCT_MEM == 1
MIN_SIZE == 1
heap_end == MemSize + SIZEOF_STRUCT_MEM

ASSUME MemAssumption ==
  /\ MemSize \in Nat \ {0} /\ MemSizes \subseteq Nat \ {0}
  /\ NONE \notin 0..heap_end                 \* RT_NULL is no address of the heap

VARIABLES mem,          \* the header at each address that has one
          lfree, used_mem,
          held,         \* what callers hold: [at, size]
          moving        \* rt_realloc on its way: [old, size, new]
mem_vars == <<mem, lfree, used_mem, held, moving>>

Junk == [used |-> FALSE, next |-> 0, prev |-> 0]
MemInit ==           \* rt_system_heap_init
  /\ mem = [a \in 0..heap_end |->
             CASE a = 0 -> [used |-> FALSE, next |-> heap_end, prev |-> 0]
               [] a = heap_end -> [used |-> TRUE, next |-> heap_end, prev |-> heap_end]
               [] OTHER -> Junk]
  /\ lfree = 0 /\ used_mem = 0 /\ held = {} /\ moving = NONE

(* A free neighbour on either side is swallowed.                           *)
merged_next(s, m) ==
  LET n == s.mem[m].next IN
  IF m # n /\ ~s.mem[n].used /\ n # heap_end
  THEN [mem |-> [s.mem EXCEPT ![m].next = s.mem[n].next, ![s.mem[n].next].prev = m],
        lfree |-> IF s.lfree = n THEN m ELSE s.lfree]
  ELSE s
merged_prev(s, m) ==
  LET p == s.mem[m].prev IN
  IF p # m /\ ~s.mem[p].used
  THEN [mem |-> [s.mem EXCEPT ![p].next = s.mem[m].next, ![s.mem[m].next].prev = p],
        lfree |-> IF s.lfree = m THEN p ELSE s.lfree]
  ELSE s
plug_holes(s, m) == merged_prev(merged_next(s, m), m)

(* The first block from lfree on that is free and large enough.            *)
room(p) == mem[p].next - (p + SIZEOF_STRUCT_MEM)
found_taken(size) ==                                                 \* faulty
  LET from[p \in 0..heap_end] ==
        IF p >= MemSize - size THEN NONE ELSE IF room(p) >= size THEN p ELSE from[mem[p].next]
  IN  from[lfree]
found(size) ==
  LET from[p \in 0..heap_end] ==
        IF p >= MemSize - size THEN NONE
        ELSE IF ~mem[p].used /\ room(p) >= size THEN p ELSE from[mem[p].next]
  IN  from[lfree]
next_free(m, p) ==
  LET from[q \in 0..heap_end] == IF m[q].used /\ q # heap_end THEN from[m[q].next] ELSE q
  IN  from[p]

(* The block at p after it was cut to size: a free one behind it.  The     *)
(* header at heap_end never learns who is before it.                       *)
cut(p, size, used) ==
  LET p2 == p + SIZEOF_STRUCT_MEM + size
      nx == mem[p].next
      m1 == [mem EXCEPT ![p2] = [used |-> FALSE, next |-> nx, prev |-> p],
                        ![p] = [@ EXCEPT !.next = p2, !.used = used]]
  IN  IF nx # heap_end THEN [m1 EXCEPT ![nx].prev = p2] ELSE m1

split_at == SIZEOF_STRUCT_MEM + MIN_SIZE
malloc(size) ==
  LET p == found(size)
      splits == room(p) >= size + split_at
      m == IF splits THEN cut(p, size, TRUE) ELSE [mem EXCEPT ![p].used = TRUE]
  IN  /\ p # NONE
      /\ mem' = m
      /\ used_mem' = used_mem + (m[p].next - p)
      /\ lfree' = IF p = lfree THEN next_free(m, p) ELSE lfree
      /\ held' = held \cup {[at |-> p + SIZEOF_STRUCT_MEM, size |-> size]}

rt_malloc ==
  \E size \in MemSizes : malloc(size) /\ UNCHANGED moving

freed(r) ==
  LET p == r.at - SIZEOF_STRUCT_MEM
      s == plug_holes([mem |-> [mem EXCEPT ![p].used = FALSE],
                       lfree |-> IF p < lfree THEN p ELSE lfree], p)
  IN  /\ mem' = s.mem /\ lfree' = s.lfree
      /\ used_mem' = used_mem - (mem[p].next - p)
      /\ held' = held \ {r}
Mine == IF moving = NONE THEN held ELSE held \ {moving.old, moving.new}
rt_free == \E r \in Mine : freed(r) /\ UNCHANGED moving

(* rt_realloc: a much smaller block is cut in place; any other change of   *)
(* size moves the block.                                                   *)
shrinks(size, newsize) == newsize + SIZEOF_STRUCT_MEM + MIN_SIZE < size
rt_realloc ==
  \E r \in Mine, newsize \in MemSizes :
    LET p == r.at - SIZEOF_STRUCT_MEM IN
    \/ /\ shrinks(room(p), newsize)
       /\ LET s == plug_holes([mem |-> cut(p, newsize, TRUE), lfree |-> lfree],
                              p + SIZEOF_STRUCT_MEM + newsize)
          IN  mem' = s.mem /\ lfree' = s.lfree
       /\ used_mem' = used_mem - (room(p) - newsize)
       /\ held' = (held \ {r}) \cup {[r EXCEPT !.size = newsize]}
       /\ UNCHANGED moving
    \/ /\ ~shrinks(room(p), newsize) /\ newsize # room(p) /\ moving = NONE
       /\ moving' = [old |-> r, size |-> newsize, new |-> NONE]
       /\ UNCHANGED <<mem, lfree, used_mem, held>>
realloc_allocates ==
  /\ moving # NONE /\ moving.new = NONE
  /\ \/ /\ malloc(moving.size)
        /\ moving' = [moving EXCEPT !.new = CHOOSE r \in held' : r \notin held]
     \/ /\ found(moving.size) = NONE /\ moving' = NONE
        /\ UNCHANGED <<mem, lfree, used_mem, held>>
realloc_frees ==
  /\ moving # NONE /\ moving.new # NONE
  /\ freed(moving.old) /\ moving' = NONE

MemNext == rt_malloc \/ rt_free \/ rt_realloc \/ realloc_allocates \/ realloc_frees
MemSpec == MemInit /\ [][MemNext]_mem_vars

-----------------------------------------------------------------------------
Chain == LET upto[p \in 0..heap_end] == IF p = heap_end THEN {} ELSE {p} \cup upto[mem[p].next]
         IN  upto[0]

(* The headers reached from the first cover the heap without a gap, and    *)
(* each knows the one before it: merging backwards (plug_holes) never      *)
(* meets a header that is not one.                                         *)
BlocksTile ==
  \A p \in Chain :
    /\ mem[p].next > p
    /\ mem[p].next # heap_end => mem[mem[p].next].prev = p

(* The used blocks are the ones callers hold, and are large enough.        *)
HeldAreUsed ==
  /\ {p \in Chain : mem[p].used} = {r.at - SIZEOF_STRUCT_MEM : r \in held}
  /\ \A r \in held : room(r.at - SIZEOF_STRUCT_MEM) >= r.size

(* Free memory is never left in two pieces that touch, so that what was    *)
(* freed can be allocated as one block again.                              *)
NoTwoFree ==
  \A p \in Chain : ~mem[p].used /\ mem[p].next # heap_end => mem[mem[p].next].used

(* list_mem's number is how much lies in used blocks, headers included.    *)
Extent(p) == p..(mem[p].next - 1)
UsedMemMatches == used_mem = Cardinality(UNION {Extent(p) : p \in {q \in Chain : mem[q].used}})

(* lfree is a block of the chain that is free, or the end: the search that *)
(* starts there walks real headers.                                        *)
LfreeIsFree == lfree = heap_end \/ (lfree \in Chain /\ ~mem[lfree].used)

MemPromise == INSTANCE Allocator WITH Pool <- 0..heap_end, live <- held
MemKeepsPromise == MemPromise!Spec

(* The list of blocks is one that every later call can walk.               *)
MemSound == BlocksTile /\ HeldAreUsed /\ NoTwoFree /\ UsedMemMatches /\ LfreeIsFree
=============================================================================
