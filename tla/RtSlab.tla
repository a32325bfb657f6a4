------------------------------- MODULE RtSlab -------------------------------
(***************************************************************************)
(* The slab heap (slab.c): whole pages in a sorted list; zones of equal    *)
(* chunks cut from them, one class of zones per chunk size; large requests *)
(* take pages themselves.  heap_sem guards each piece of an operation, not *)
(* the operation: pages are taken and given back without it.  Addresses    *)
(* count MIN_CHUNK_SIZE.                                                   *)
(***************************************************************************)
EXTENDS RtDef, Integers, Sequences, FiniteSets, FiniteSetsExt, SequencesExt

CONSTANTS NPages,          \* pages of the heap, the first one for memusage
          PageBytes,       \* RT_MM_PAGE_SIZE
          zone_page_cnt, ZONE_RELEASE_THRESH,
          SlabSizes,       \* bytes asked for
          MaxOut,          \* bound: chunks in the hands of callers
          SlabCallers

MIN_CHUNK_SIZE == 8
SIZEOF_SLAB_ZONE == 36
zone_size == zone_page_cnt * PageBytes
zone_limit == zone_size \div 4
PageUnits == PageBytes \div MIN_CHUNK_SIZE

ASSUME SlabAssumption ==
  /\ NPages \in Nat /\ zone_page_cnt \in Nat \ {0} /\ PageBytes % MIN_CHUNK_SIZE = 0
  /\ zone_size <= 64 * 1024     \* else ZALLOC_ZONE_LIMIT caps zone_limit

VARIABLES page_list,    \* rt_page_list: runs of free pages [at, page]
          memusage,     \* per page: [type, size]
          zone,         \* per page: the header of the zone that begins there
          zone_array,   \* per class: zones with a free chunk, latest first
          zone_free,    \* empty zones kept for later
          slab_used,    \* used_mem, in units
          out,          \* what callers hold: [at, size]
          job           \* each caller between two holds of heap_sem
slab_vars == <<page_list, memusage, zone, zone_array, zone_free, slab_used, out, job>>

-----------------------------------------------------------------------------
(* zoneindex: the class of a size and the chunk size of the class.         *)
Classes == <<[below |-> 128, align |-> 8, off |-> -1], [below |-> 256, align |-> 16, off |-> 7],
             [below |-> 512, align |-> 32, off |-> 15], [below |-> 1024, align |-> 64, off |-> 23],
             [below |-> 2048, align |-> 128, off |-> 31], [below |-> 4096, align |-> 256, off |-> 39],
             [below |-> 8192, align |-> 512, off |-> 47], [below |-> 16384, align |-> 1024, off |-> 55]>>
rounded_to(n, align) == ((n + align - 1) \div align) * align
zoneindex(bytes) ==
  LET c == Classes[SelectInSeq(Classes, LAMBDA k : bytes < k.below)]
      n == rounded_to(bytes, c.align)
  IN  [bytes |-> n, zi |-> n \div c.align + c.off]
NZONES == 72

(* A new zone of a class: the chunks begin behind its header, aligned to   *)
(* their size when that is a power of two.                                 *)
is_pow2(n) == \E k \in 3..14 : n = 2^k
base_off(bytes) == rounded_to(SIZEOF_SLAB_ZONE, IF is_pow2(bytes) THEN bytes ELSE MIN_CHUNK_SIZE)
new_zone_one_more(bytes) ==                                          \* faulty
  LET nmax == (zone_size - base_off(bytes)) \div bytes + 1
  IN  [zi |-> zoneindex(bytes).zi, nmax |-> nmax, nfree |-> nmax - 1, uindex |-> 0,
       chunksize |-> bytes, freechunk |-> <<>>]
new_zone(bytes) ==
  LET nmax == (zone_size - base_off(bytes)) \div bytes
  IN  [zi |-> zoneindex(bytes).zi, nmax |-> nmax, nfree |-> nmax - 1, uindex |-> 0,
       chunksize |-> bytes, freechunk |-> <<>>]
chunk_at(z, bytes, i) == z * PageUnits + (base_off(bytes) + i * bytes) \div MIN_CHUNK_SIZE
chunk(at, bytes) == [at |-> at, size |-> bytes \div MIN_CHUNK_SIZE]

SlabClasses == {zoneindex(s).zi : s \in {t \in SlabSizes : t < zone_limit}}
Unused == [type |-> "FREE", size |-> 0]
SlabInit ==       \* rt_system_heap_init: memusage itself takes the first page
  /\ page_list = <<[at |-> 1, page |-> NPages - 1]>>
  /\ memusage = [p \in 0..(NPages - 1) |-> Unused]
  /\ zone = [p \in 0..(NPages - 1) |-> NONE]
  /\ zone_array = [zi \in SlabClasses |-> <<>>]
  /\ zone_free = <<>> /\ slab_used = 0 /\ out = {}
  /\ job = [c \in SlabCallers |-> NONE]

(* rt_page_alloc: the first run that is long enough gives its front.       *)
page_alloc_kept(n) ==                                                \* faulty
  LET i == SelectInSeq(page_list, LAMBDA b : b.page >= n)
  IN  IF i = 0 THEN [at |-> NONE, list |-> page_list] ELSE [at |-> page_list[i].at, list |-> page_list]
page_alloc(n) ==
  LET i == SelectInSeq(page_list, LAMBDA b : b.page >= n)
      b == page_list[i]
  IN  IF i = 0 THEN [at |-> NONE, list |-> page_list]
      ELSE [at |-> b.at,
            list |-> IF b.page = n THEN RemoveAt(page_list, i)
                     ELSE [page_list EXCEPT ![i] = [at |-> b.at + n, page |-> b.page - n]]]

(* rt_page_free: joined to the run before it, and that to the one behind   *)
(* it; or to the run behind it; or a run of its own, in order.             *)
page_freed(at, n) ==
  LET i == SelectInSeq(page_list, LAMBDA b : b.at + b.page = at \/ b.at >= at + n) IN
  IF i = 0 THEN Append(page_list, [at |-> at, page |-> n])
  ELSE LET b == page_list[i]
           grown_list == [page_list EXCEPT ![i].page = b.page + n] IN
       IF b.at + b.page = at
       THEN IF i < Len(page_list) /\ at + n = page_list[i + 1].at
            THEN RemoveAt([grown_list EXCEPT ![i].page = @ + page_list[i + 1].page], i + 1)
            ELSE grown_list
       ELSE IF b.at = at + n THEN [page_list EXCEPT ![i] = [at |-> at, page |-> b.page + n]]
       ELSE InsertAt(page_list, i, [at |-> at, page |-> n])

-----------------------------------------------------------------------------
Working(c) == job[c] # NONE
Settled == out \ {job[c].old : c \in {d \in SlabCallers : Working(d)}}
(* What an idle caller may ask for: a new block, or (rt_realloc) another   *)
(* size for one it holds, which moves unless its class stays.              *)
page_of(at) == at \div PageUnits
zone_of(at) == page_of(at) - memusage[page_of(at)].size
slab_malloc == {[size |-> size, old |-> NONE] : size \in SlabSizes}
slab_realloc == {q \in [size : SlabSizes, old : Settled] :
  memusage[page_of(q.old.at)].type = "SMALL" =>
    zone[zone_of(q.old.at)].chunksize # zoneindex(q.size).bytes}
Asks(c, q) == ~Working(c) /\ Cardinality(out) < MaxOut /\ q \in slab_malloc \cup slab_realloc
Small(q) == q.size < zone_limit
At(c, stage) == Working(c) /\ job[c].stage = stage

(* The caller has its chunk; rt_realloc then copies and frees the old one. *)
Returns(c, q, r) ==
  /\ out' = out \cup {r} /\ slab_used' = slab_used + r.size
  /\ job' = [job EXCEPT ![c] = IF q.old = NONE THEN NONE
                               ELSE [stage |-> "copied", size |-> 0, page |-> 0, old |-> q.old]]

(* A chunk of the first zone of the class: a fresh one while there are     *)
(* any, then those given back.  A zone that has no more leaves the list.   *)
taken_from(z, zi) ==
  IF zone[z].nfree = 1 THEN [zone_array EXCEPT ![zi] = Tail(@)] ELSE zone_array
FromZone(c) == \E q \in slab_malloc \cup slab_realloc :
  LET zc == zoneindex(q.size)
      z  == Head(zone_array[zc.zi])
      fresh == zone[z].uindex + 1 # zone[z].nmax
  IN  /\ Asks(c, q) /\ Small(q) /\ zone_array[zc.zi] # <<>>
      /\ zone' = [zone EXCEPT ![z] =
           IF fresh THEN [@ EXCEPT !.nfree = @ - 1, !.uindex = @ + 1]
           ELSE [@ EXCEPT !.nfree = @ - 1, !.freechunk = Tail(@)]]
      /\ zone_array' = taken_from(z, zc.zi)
      /\ Returns(c, q, chunk(IF fresh THEN chunk_at(z, zc.bytes, zone[z].uindex + 1)
                             ELSE Head(zone[z].freechunk), zc.bytes))
      /\ UNCHANGED <<page_list, memusage, zone_free>>

OpenZone(c, q, z) ==
  LET zc == zoneindex(q.size) IN
  /\ zone' = [zone EXCEPT ![z] = new_zone(zc.bytes)]
  /\ zone_array' = [zone_array EXCEPT ![zc.zi] = <<z>> \o @]
  /\ Returns(c, q, chunk(chunk_at(z, zc.bytes, 0), zc.bytes))
NewZone(c) == \E q \in slab_malloc \cup slab_realloc :    \* an empty zone is at hand
  /\ Asks(c, q) /\ Small(q)
  /\ zone_array[zoneindex(q.size).zi] = <<>> /\ zone_free # <<>>
  /\ OpenZone(c, q, Head(zone_free))
  /\ zone_free' = Tail(zone_free)
  /\ UNCHANGED <<page_list, memusage>>

(* heap_sem is let go before the pages of a new zone are asked for: by then *)
(* others may have listed a zone of the class or kept an empty one, and a  *)
(* second zone is opened all the same.  A large block needs no zone.       *)
pages_of(size) == IF size < zone_limit THEN zone_page_cnt ELSE rounded_to(size, PageBytes) \div PageBytes
Stage(name, q, page) == [stage |-> name, size |-> q.size, page |-> page, old |-> q.old]
NoZone(c) == \E q \in slab_malloc \cup slab_realloc :
  /\ Asks(c, q) /\ Small(q)
  /\ zone_array[zoneindex(q.size).zi] = <<>> /\ zone_free = <<>>
  /\ job' = [job EXCEPT ![c] = Stage("pages", q, 0)]
  /\ UNCHANGED <<page_list, memusage, zone, zone_array, zone_free, slab_used, out>>
Wants(c) == IF At(c, "pages") THEN {job[c]}
            ELSE {q \in slab_malloc \cup slab_realloc : Asks(c, q) /\ ~Small(q)}
rt_page_alloc(c) == \E q \in Wants(c) :
  LET got == page_alloc(pages_of(q.size)) IN
  /\ page_list' = got.list
  /\ job' = [job EXCEPT ![c] = IF got.at = NONE THEN NONE ELSE Stage("got", q, got.at)]
  /\ UNCHANGED <<memusage, zone, zone_array, zone_free, slab_used, out>>
PagesInto(c) ==
  /\ At(c, "got")
  /\ LET n == pages_of(job[c].size)
         z == job[c].page
     IN  \/ /\ Small(job[c])
            /\ memusage' = [p \in DOMAIN memusage |->
                 IF p \in z..(z + n - 1) THEN [type |-> "SMALL", size |-> p - z] ELSE memusage[p]]
            /\ OpenZone(c, job[c], z)
         \/ /\ ~Small(job[c])
            /\ memusage' = [memusage EXCEPT ![z] = [type |-> "LARGE", size |-> n]]
            /\ Returns(c, job[c], [at |-> z * PageUnits, size |-> n * PageUnits])
            /\ UNCHANGED <<zone, zone_array>>
  /\ UNCHANGED <<page_list, zone_free>>

-----------------------------------------------------------------------------
(* rt_free of a large block: its pages follow after heap_sem is let go.    *)
GoesBack(c, page, n) == job' = [job EXCEPT ![c] =
  [stage |-> "page_free", size |-> n, page |-> page, old |-> NONE]]
free_large(c, r) ==
  LET p == page_of(r.at) IN
  /\ memusage[p].type = "LARGE"
  /\ memusage' = [memusage EXCEPT ![p].size = 0]
  /\ GoesBack(c, p, memusage[p].size)
  /\ UNCHANGED <<page_list, zone, zone_array, zone_free>>

(* rt_free of a chunk: a full zone is listed again; an empty one that is   *)
(* not the last of its class is kept, and one too many gives its pages     *)
(* back.                                                                   *)
empties(z) ==
  /\ zone[z].nfree + 1 = zone[z].nmax
  /\ zone_array[zone[z].zi] # <<z>>
free_chunk(c, r) ==
  LET z == zone_of(r.at)
      zi == zone[z].zi
      listed == IF zone[z].nfree = 0 THEN <<z>> \o zone_array[zi] ELSE zone_array[zi]
      releases == empties(z) /\ Len(zone_free) >= ZONE_RELEASE_THRESH
  IN  /\ memusage[page_of(r.at)].type # "LARGE"
      /\ zone' = [zone EXCEPT ![z] =
           IF empties(z) THEN NONE
           ELSE [@ EXCEPT !.freechunk = <<r.at>> \o @, !.nfree = @ + 1]]
      /\ zone_array' = [zone_array EXCEPT ![zi] = IF empties(z) THEN Remove(listed, z) ELSE listed]
      /\ zone_free' = IF empties(z) /\ ~releases THEN <<z>> \o zone_free ELSE zone_free
      /\ memusage' = [p \in DOMAIN memusage |->
           IF releases /\ p \in z..(z + zone_page_cnt - 1) THEN Unused ELSE memusage[p]]
      /\ IF releases THEN GoesBack(c, z, zone_page_cnt) ELSE job' = [job EXCEPT ![c] = NONE]
      /\ UNCHANGED page_list
Frees(c, r) ==
  /\ out' = out \ {r} /\ slab_used' = slab_used - r.size
  /\ free_large(c, r) \/ free_chunk(c, r)

slab_free(c) == \E r \in Settled : ~Working(c) /\ Frees(c, r)
FreesCopied(c) == At(c, "copied") /\ Frees(c, job[c].old)
rt_page_free(c) ==
  /\ At(c, "page_free")
  /\ page_list' = page_freed(job[c].page, job[c].size)
  /\ job' = [job EXCEPT ![c] = NONE]
  /\ UNCHANGED <<memusage, zone, zone_array, zone_free, slab_used, out>>

SlabNext == \E c \in SlabCallers :
  \/ FromZone(c) \/ NewZone(c) \/ NoZone(c) \/ rt_page_alloc(c) \/ PagesInto(c)
  \/ slab_free(c) \/ FreesCopied(c) \/ rt_page_free(c)

-----------------------------------------------------------------------------
Zones == {p \in DOMAIN zone : zone[p] # NONE}
ChunksOf(z) == {r \in out : r.at \in (z * PageUnits)..((z + zone_page_cnt) * PageUnits - 1)}

(* z_nfree is what a zone still has, fresh or given back, and the zone is  *)
(* in its class's list exactly while that is not nothing: a full zone that *)
(* stays listed would give a chunk twice.                                  *)
ZonesCount ==
  \A z \in Zones :
    /\ zone[z].nfree = zone[z].nmax - zone[z].uindex - 1 + Len(zone[z].freechunk)
    /\ zone[z].nfree = zone[z].nmax - Cardinality(ChunksOf(z))
    /\ (zone[z].nfree > 0) <=> (\E i \in DOMAIN zone_array[zone[z].zi] : zone_array[zone[z].zi][i] = z)

(* Every page is free, or of one zone, kept zone or large block, or in the *)
(* hands of a caller that has let heap_sem go: none is lost, none is in    *)
(* two places.                                                             *)
PagesAt(p, n) == p..(p + n - 1)
LargeOut == {r \in out : memusage[page_of(r.at)].type = "LARGE"}
PageOwners ==
  {<<"list", i, PagesAt(page_list[i].at, page_list[i].page)>> : i \in DOMAIN page_list}
  \cup {<<"zone", z, PagesAt(z, zone_page_cnt)>> : z \in Zones}
  \cup {<<"kept", i, PagesAt(zone_free[i], zone_page_cnt)>> : i \in DOMAIN zone_free}
  \cup {<<"large", r.at, PagesAt(page_of(r.at), r.size \div PageUnits)>> : r \in LargeOut}
  \cup {<<"job", c, PagesAt(job[c].page, pages_of(job[c].size))>> :
          c \in {d \in SlabCallers : At(d, "got")}}
  \cup {<<"job", c, PagesAt(job[c].page, job[c].size)>> :
          c \in {d \in SlabCallers : At(d, "page_free")}}
PagesPartition ==
  /\ \A o1, o2 \in PageOwners : o1 # o2 => o1[3] \cap o2[3] = {}
  /\ UNION {o[3] : o \in PageOwners} = 1..(NPages - 1)

(* Free pages are listed in order, in runs that do not touch, so that a    *)
(* request for many finds them together.                                   *)
PageListSorted ==
  \A i \in 1..(Len(page_list) - 1) :
    page_list[i].at + page_list[i].page < page_list[i + 1].at

ZoneIndexFits(n) ==
  LET a == zoneindex(n)
      b == zoneindex(n + 1)
  IN  /\ a.bytes >= n /\ (a.bytes - n) * 8 <= n + 64 /\ a.zi \in 0..(NZONES - 1)
      /\ (a.zi = b.zi) <=> (a.bytes = b.bytes)
      /\ b.zi >= a.zi

SlabPromise == INSTANCE Allocator WITH Pool <- 0..(NPages * PageUnits - 1), live <- out
SlabKeepsPromise == SlabPromise!Spec

(* Zones and pages are accounted for, also while a caller holds no lock.   *)
SlabSound == ZonesCount /\ PagesPartition /\ PageListSorted
=============================================================================
