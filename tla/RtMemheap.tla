----------------------------- MODULE RtMemheap -----------------------------
(***************************************************************************)
(* The heap of several pools (memheap.c): each pool is a ring of items in  *)
(* address order with a list of its free ones, under a lock of its own.    *)
(* rt_malloc tries the pools in turn; rt_realloc lets go of the lock       *)
(* before it moves a block.  Addresses count half headers, and the pools   *)
(* lie one behind the other.                                               *)
(***************************************************************************)
EXTENDS RtDef, Naturals, Sequences, FiniteSets, FiniteSetsExt, SequencesExt

CONSTANTS PoolSizes,     \* pool_size of each pool; the first is _heap
          HeapSizes,     \* sizes asked for, after RT_ALIGN and MINIALLOC
          Callers

RT_MEMHEAP_SIZE == 2
RT_MEMHEAP_MINIALLOC == 1
Pools == DOMAIN PoolSizes

ASSUME MemheapAssumption ==
  /\ PoolSizes \in Seq(Nat) /\ PoolSizes # <<>>
  /\ \A h \in Pools : PoolSizes[h] > 2 * RT_MEMHEAP_SIZE
  /\ HeapSizes \subseteq Nat \ {0}
  /\ NONE \notin Nat                        \* RT_NULL is no address

VARIABLES heap,     \* each pool: its items, free_list, available_size
          taken,    \* what callers hold: [at, size]
          call      \* each caller in rt_malloc or rt_realloc: [stage, size, pools, old]
heap_vars == <<heap, taken, call>>

start_addr == LET from[h \in Pools] == IF h = 1 THEN 0 ELSE from[h - 1] + PoolSizes[h - 1]
              IN  from
last_item(h) == start_addr[h] + PoolSizes[h] - RT_MEMHEAP_SIZE

(* The pool of an address: the item's pool_ptr.                            *)
pool_ptr(p) == CHOOSE h \in Pools : p \in start_addr[h]..last_item(h)

Junk_item == [used |-> FALSE, next |-> 0, prev |-> 0]    \* memory that is no header
HeapInit ==           \* rt_memheap_init of every pool
  /\ heap = [h \in Pools |->
       [item |-> [p \in start_addr[h]..last_item(h) |->
          CASE p = start_addr[h] -> [used |-> FALSE, next |-> last_item(h), prev |-> last_item(h)]
            [] p = last_item(h)  -> [used |-> TRUE, next |-> start_addr[h], prev |-> start_addr[h]]
            [] OTHER -> Junk_item],
        free_list |-> <<start_addr[h]>>,
        available_size |-> PoolSizes[h] - 2 * RT_MEMHEAP_SIZE]]
  /\ taken = {} /\ call = [c \in Callers |-> NONE]

-----------------------------------------------------------------------------
(* The pieces of the pool operations, on the pool s.                       *)
MEMITEM_SIZE(s, p) == s.item[p].next - p - RT_MEMHEAP_SIZE
inserted(s, p) == [s EXCEPT !.free_list = <<p>> \o @]
removed(s, p)  == [s EXCEPT !.free_list = RemoveFirst(@, p)]
linked(s, p, n) ==
  [s EXCEPT !.item = [x \in DOMAIN s.item |->
     CASE x = p -> [s.item[x] EXCEPT !.next = n]
       [] x = n -> [s.item[x] EXCEPT !.prev = p]
       [] x > p /\ x < n -> Junk_item
       [] OTHER -> s.item[x]]]
behind(p, size) == p + RT_MEMHEAP_SIZE + size

(* A new free item, not yet listed, size behind the head of item p.        *)
halved(s, p, size) ==
  LET new == behind(p, size)
      nx  == s.item[p].next
  IN  [s EXCEPT !.item[new] = [used |-> FALSE, next |-> nx, prev |-> p],
                !.item[nx].prev = new, !.item[p].next = new]

fits(s, size) ==
  LET i == SelectInSeq(s.free_list, LAMBDA p : MEMITEM_SIZE(s, p) >= size)
  IN  IF i = 0 THEN NONE ELSE s.free_list[i]
splits(s, p, size) ==
  MEMITEM_SIZE(s, p) >= size + RT_MEMHEAP_SIZE + RT_MEMHEAP_MINIALLOC
allocated(s, p, size) ==
  LET free_size == MEMITEM_SIZE(s, p)
      t == IF splits(s, p, size)
           THEN [inserted(removed(halved(s, p, size), p), behind(p, size))
                   EXCEPT !.available_size = @ - size - RT_MEMHEAP_SIZE]
           ELSE [removed(s, p) EXCEPT !.available_size = @ - free_size]
  IN  [t EXCEPT !.item[p].used = TRUE]

(* rt_memheap_free: merged with a free item before it and one behind it.   *)
merged_left(s, p) ==
  LET q == s.item[p].prev IN
  IF s.item[q].used THEN inserted(s, p)
  ELSE [linked(s, q, s.item[p].next) EXCEPT !.available_size = @ + RT_MEMHEAP_SIZE]
merged_right(s, p) ==
  LET n == s.item[p].next IN
  IF s.item[n].used THEN s
  ELSE [removed(linked(s, p, s.item[n].next), n)
          EXCEPT !.available_size = @ + RT_MEMHEAP_SIZE]
rt_memheap_freed(s, p) ==
  LET t == [s EXCEPT !.item[p].used = FALSE, !.available_size = @ + MEMITEM_SIZE(s, p)]
      q == s.item[p].prev
      at == IF s.item[q].used THEN p ELSE q
  IN  merged_right(merged_left(t, p), at)

(* rt_memheap_realloc into a free item behind, or cut in place.            *)
grows_taken(s, p, newsize) ==                                        \* faulty
  LET n == s.item[p].next IN
  MEMITEM_SIZE(s, n) + MEMITEM_SIZE(s, p) > newsize + RT_MEMHEAP_MINIALLOC
grows(s, p, newsize) ==
  LET n == s.item[p].next IN
  /\ ~s.item[n].used
  /\ MEMITEM_SIZE(s, n) + MEMITEM_SIZE(s, p) > newsize + RT_MEMHEAP_MINIALLOC
grown(s, p, newsize) ==
  LET n == s.item[p].next
      t == halved(linked(removed(s, n), p, s.item[n].next), p, newsize)
  IN  [inserted(t, behind(p, newsize))
         EXCEPT !.available_size = @ - (newsize - MEMITEM_SIZE(s, p))]
shrinks_to(s, p, newsize) ==
  newsize + RT_MEMHEAP_SIZE + RT_MEMHEAP_MINIALLOC < MEMITEM_SIZE(s, p)
shrunk(s, p, newsize) ==
  LET new == behind(p, newsize)
      n == s.item[p].next
      t == halved(s, p, newsize)
      u == IF s.item[n].used THEN t
           ELSE [removed(linked(t, new, s.item[n].next), n)
                   EXCEPT !.available_size = @ - MEMITEM_SIZE(s, n)]
  IN  [inserted(u, new) EXCEPT !.available_size = @ + MEMITEM_SIZE(u, new)]

-----------------------------------------------------------------------------
(* rt_malloc of a system of pools, and the allocation inside rt_realloc:   *)
(* one pool after the other, each glanced at without its lock and then     *)
(* searched with it.                                                       *)
Owned(c) == call[c] # NONE
Untouched == taken \ {call[c].old : c \in {d \in Callers : Owned(d)}}
AllPools == [h \in Pools |-> h]

heap_malloc(c) ==
  \E size \in HeapSizes :
    /\ ~Owned(c)
    /\ call' = [call EXCEPT ![c] =
                  [stage |-> "glance", size |-> size, pools |-> AllPools, old |-> NONE]]
    /\ UNCHANGED <<heap, taken>>

(* size < heap->available_size, before the lock is taken.                  *)
Glance(c) ==
  /\ Owned(c) /\ call[c].stage = "glance" /\ call[c].pools # <<>>
  /\ call' = [call EXCEPT ![c] =
       IF call[c].size < heap[Head(call[c].pools)].available_size
       THEN [@ EXCEPT !.stage = "search"] ELSE [@ EXCEPT !.pools = Tail(call[c].pools)]]
  /\ UNCHANGED <<heap, taken>>

rt_memheap_alloc(c) ==
  /\ Owned(c) /\ call[c].stage = "search"
  /\ LET h == Head(call[c].pools)
         p == fits(heap[h], call[c].size)
     IN  \/ /\ p # NONE
            /\ heap' = [heap EXCEPT ![h] = allocated(@, p, call[c].size)]
            /\ taken' = taken \cup {[at |-> p + RT_MEMHEAP_SIZE, size |-> call[c].size]}
            /\ call' = [call EXCEPT ![c] = IF @.old = NONE THEN NONE
                                           ELSE [@ EXCEPT !.stage = "copied"]]
         \/ /\ p = NONE
            /\ call' = [call EXCEPT ![c].stage = "glance", ![c].pools = Tail(@)]
            /\ UNCHANGED <<heap, taken>>

(* No pool has room: RT_NULL, and rt_realloc leaves the old block alone.   *)
ReturnsNull(c) ==
  /\ Owned(c) /\ call[c].stage = "glance" /\ call[c].pools = <<>>
  /\ call' = [call EXCEPT ![c] = NONE]
  /\ UNCHANGED <<heap, taken>>

let_go(r) ==
  LET p == r.at - RT_MEMHEAP_SIZE
      h == pool_ptr(p)
  IN  heap' = [heap EXCEPT ![h] = rt_memheap_freed(@, p)] /\ taken' = taken \ {r}
rt_memheap_free == \E r \in Untouched : let_go(r) /\ UNCHANGED call

rt_memheap_realloc(c) ==
  \E r \in Untouched, newsize \in HeapSizes :
    LET p == r.at - RT_MEMHEAP_SIZE
        h == pool_ptr(p)
        oldsize == MEMITEM_SIZE(heap[h], p)
        Resized(s) == /\ heap' = [heap EXCEPT ![h] = s]
                      /\ taken' = (taken \ {r}) \cup {[r EXCEPT !.size = newsize]}
                      /\ UNCHANGED call
    IN  /\ ~Owned(c)
        /\ \/ newsize > oldsize /\ grows(heap[h], p, newsize)
              /\ Resized(grown(heap[h], p, newsize))
           \/ /\ newsize > oldsize /\ ~grows(heap[h], p, newsize)
              /\ call' = [call EXCEPT ![c] =
                   [stage |-> "glance", size |-> newsize, pools |-> <<h>> \o AllPools, old |-> r]]
              /\ UNCHANGED <<heap, taken>>
           \/ newsize <= oldsize /\ ~shrinks_to(heap[h], p, newsize) /\ Resized(heap[h])
           \/ shrinks_to(heap[h], p, newsize) /\ Resized(shrunk(heap[h], p, newsize))

(* After the copy the old block is given back.                             *)
FreesOld(c) ==
  /\ Owned(c) /\ call[c].stage = "copied"
  /\ let_go(call[c].old)
  /\ call' = [call EXCEPT ![c] = NONE]

HeapNext ==
  \/ \E c \in Callers : \/ heap_malloc(c) \/ Glance(c) \/ rt_memheap_alloc(c)
                        \/ ReturnsNull(c) \/ rt_memheap_realloc(c) \/ FreesOld(c)
  \/ rt_memheap_free
HeapSpec == HeapInit /\ [][HeapNext]_heap_vars

-----------------------------------------------------------------------------
Ring(h) == LET nth[i \in 0..PoolSizes[h]] ==
                 IF i = 0 THEN start_addr[h] ELSE heap[h].item[nth[i - 1]].next
           IN  {nth[i] : i \in 0..PoolSizes[h]}
FreeItems(h) == {p \in Ring(h) : ~heap[h].item[p].used}

(* The items of a pool are a ring in address order, linked both ways       *)
(* through every split and merge.                                          *)
RingIsLinked ==
  \A h \in Pools : \A p \in Ring(h) :
    LET n == heap[h].item[p].next IN
    /\ IF p = last_item(h) THEN n = start_addr[h] ELSE n >= p + RT_MEMHEAP_SIZE
    /\ heap[h].item[n].prev = p

(* The free list holds every free item of the ring, once, and nothing      *)
(* else: an item merged away must have left it.                            *)
FreeIsListed ==
  \A h \in Pools : /\ ToSet(heap[h].free_list) = FreeItems(h)
                   /\ IsInjective(heap[h].free_list)

(* available_size, which rt_memheap_alloc trusts before it takes the lock, *)
(* is how much lies in the free items.                                     *)
Space(h, p) == (p + RT_MEMHEAP_SIZE)..(heap[h].item[p].next - 1)
AvailableMatches ==
  \A h \in Pools :
    heap[h].available_size = Cardinality(UNION {Space(h, p) : p \in FreeItems(h)})

(* No two free items touch, after a free and after a block is cut.         *)
FreeIsMerged ==
  \A h \in Pools : \A p \in FreeItems(h) : heap[h].item[heap[h].item[p].next].used

(* The used items are the callers' blocks, each large enough for its size. *)
TakenAreUsed ==
  \A h \in Pools :
    LET mine == {r \in taken : r.at \in start_addr[h]..last_item(h)} IN
    /\ Ring(h) \ (FreeItems(h) \cup {last_item(h)}) = {r.at - RT_MEMHEAP_SIZE : r \in mine}
    /\ \A r \in mine : MEMITEM_SIZE(heap[h], r.at - RT_MEMHEAP_SIZE) >= r.size

HeapPromise == INSTANCE Allocator
  WITH Pool <- 0..last_item(Len(PoolSizes)), live <- taken
HeapKeepsPromise == HeapPromise!Spec

(* Ring, free list and counter of every pool tell the same.                *)
MemheapSound == RingIsLinked /\ FreeIsListed /\ AvailableMatches /\ FreeIsMerged /\ TakenAreUsed
=============================================================================
