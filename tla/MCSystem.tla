------------------------------ MODULE MCSystem ------------------------------
(* SceneSystem twice.  Once in full, for what never happens.  And once     *)
(* ("returning") with SystemFairness, for what must happen; there a render *)
(* is not stopped half-way and submits one triangle, and the UI presents   *)
(* but draws nothing itself (SketchDriver has its draws, under fairness).  *)
EXTENDS SceneSystem

VARIABLE returning
part_vars == <<returning, sys_vars>>

FewerJobs == /\ ui = "rendering" => ui' # "stop"
             /\ ui' = "poll" => op' = "present"
             /\ to_submit' <= 1

PartInit == SystemInit /\ returning \in BOOLEAN
PartNext == SystemNext /\ (returning => FewerJobs) /\ UNCHANGED returning
PartFairness ==
  /\ WF_sys_vars(returning /\ \E b \in Boundaries : UiClock(b))
  /\ WF_sys_vars(returning /\ (UiClock(TRUE) \/ QuietClock(TRUE)))
  /\ WF_sys_vars(returning /\ WorkEnding /\ \E b \in Boundaries : QuietClock(b))
PartSpec == PartInit /\ [][PartNext]_part_vars /\ PartFairness

(* UiReturns, there: no wait of the UI thread lasts for ever.              *)
WaitsEnd == returning => UiReturns
=============================================================================
