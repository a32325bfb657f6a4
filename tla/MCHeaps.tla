------------------------------ MODULE MCHeaps ------------------------------
(* The three heaps of the kernel, one of which a build takes: small pools, *)
(* two callers where the code lets go of its lock.                         *)
EXTENDS RtMem, RtMemheap, RtSlab

VARIABLES built, asked      \* asked: a size to look up in zoneindex
all_vars == <<built, asked, mem_vars, heap_vars, slab_vars>>

TwoPools == <<12, 7>>
HeapsInit ==
  /\ built \in {"RT_USING_SMALL_MEM", "RT_USING_MEMHEAP_AS_HEAP", "RT_USING_SLAB", "zoneindex"}
  /\ asked = 1 /\ MemInit /\ HeapInit /\ SlabInit
MemStep  == built = "RT_USING_SMALL_MEM" /\ MemNext /\ UNCHANGED <<built, asked, heap_vars, slab_vars>>
HeapStep == built = "RT_USING_MEMHEAP_AS_HEAP" /\ HeapNext /\ UNCHANGED <<built, asked, mem_vars, slab_vars>>
SlabStep == built = "RT_USING_SLAB" /\ SlabNext /\ UNCHANGED <<built, asked, mem_vars, heap_vars>>
Lookup   == /\ built = "zoneindex" /\ asked < 16382 /\ asked' = asked + 1
            /\ UNCHANGED <<built, mem_vars, heap_vars, slab_vars>>
HeapsSpec == HeapsInit /\ [][MemStep \/ HeapStep \/ SlabStep \/ Lookup]_all_vars

(* The books of each heap are right after every call, and between the      *)
(* sections of the calls that let go of their lock; and every size below   *)
(* 16K is rounded up, never by more than an eighth or 8 bytes, into a      *)
(* class it shares with the sizes of the same chunk (zoneindex, slab.c:401).*)
HeapsSound == MemSound /\ MemheapSound /\ SlabSound /\ ZoneIndexFits(asked)
=============================================================================
