----------------------------- MODULE MCObjects -----------------------------
(* Semaphores that are made and deleted on the heap while list_sem walks.  *)
EXTENDS RtObject

MCInUse == {[classes |-> {"Semaphore"}, statics |-> {}]}
=============================================================================
