----------------------------- MODULE SceneSystem -----------------------------
(***************************************************************************)
(* The Scene controller and the CPU sharing one SketchBook core, as in     *)
(* soc_top_sketch: the two clocked components run on the same clock, the   *)
(* port arbiter (sketch_mmio_arbiter) gives the MMIO port to the Scene     *)
(* controller while it is busy, and the CPU runs the UI thread of sk_os    *)
(* (sk_os/sketch_os.c) over the SketchBook driver.                         *)
(*                                                                         *)
(* The UI thread repeats: draw, present and wait; render a rigid model     *)
(* into the back page; run a command frame that ends in the Scene's own    *)
(* PRESENT; stop the Scene.  It is slow: any number of clocks passes       *)
(* between two accesses.  A CPU access that the arbiter or the core does   *)
(* not answer in its clock is never answered (sketch_book_axi): "hung".    *)
(***************************************************************************)
EXTENDS ScenePipeline, SketchBook

CONSTANTS RenderCfgs,     \* the RENDER_CFG values the application may choose
          Stoppable       \* those whose render a scene change may stop

ASSUME SystemAssumption ==
  /\ RenderCfgs \subseteq SUBSET RenderBits /\ RenderCfgs # {}
  /\ Stoppable \subseteq RenderCfgs

VARIABLES ui,       \* where the UI thread is
          op,       \* what it is doing
          loaded,   \* g_scene_model_loaded and the mode it was loaded in
          seen,     \* the completed-frame count it read before a frame
          shell     \* where the shell thread is in skstatus

ui_vars  == <<ui, op, loaded, seen, shell>>
sys_vars == <<scene_vars, vars, ui_vars>>

UiPCs == {"app", "poll", "load", "push", "wait", "clear",
          "cfg", "mode", "start_load", "loading", "render", "rendering",
          "note", "draw_ready", "draw_push", "present_ready", "present_push",
          "start", "count", "stop", "abort", "stopping", "swapping",
          "discard", "hung"}

SystemInit ==
  /\ SceneInit /\ Init
  /\ ui = "app" /\ op = "draw" /\ loaded = "none" /\ seen = 0
  /\ shell = "idle"

-----------------------------------------------------------------------------
(* The port: who has it, and one clock of everything.  m and w are the     *)
(* CPU's accesses to SketchBook and to the Scene registers.                *)

port_owner_never == "cpu"                                            \* faulty
port_owner == IF busy THEN "scene" ELSE "cpu"

port(m)  == IF port_owner = "scene" THEN Request ELSE m
cpu_ready(m) == port_owner = "cpu" /\ mmio_ready(m)
scene_ready  == port_owner = "scene" /\ mmio_ready(Request)

SystemClock(m, w, b) ==
  /\ SceneClock(w, scene_ready, frame_done_sticky)
  /\ Clock(port(m), b)

-----------------------------------------------------------------------------
(***************************************************************************)
(* The UI thread.  Each action is one clock with one bus access, to        *)
(* SketchBook (a read is NoMmio) or to the Scene controller: where the     *)
(* thread must be for it, the request, and where it goes next.  b: the     *)
(* clock ends a video frame.                                               *)
(***************************************************************************)

Sketch(b, at, request, next) ==
  /\ ui = at /\ ui' = IF cpu_ready(request) THEN next ELSE "hung"
  /\ SystemClock(request, NoWrite, b)

SceneWrite(b, at, request, next) ==
  /\ ui = at /\ ui' = next /\ SystemClock(NoMmio, request, b)

SceneRead(b, at, next) == SceneWrite(b, at, NoWrite, next)

KeepJob == UNCHANGED <<op, loaded, seen>>

(* SketchBook driver (sketchbook.c) and present_wait.                      *)
next_step == IF op = "present" THEN "wait" ELSE "app"
submit_blocked == cmd_full \/ frame_closed

PollReady(b) == Sketch(b, "poll", NoMmio, IF submit_blocked THEN "poll" ELSE "load")
LoadCmd(b)   == Sketch(b, "load", Write("CMD", op = "present", FALSE), "push")
PushCmd(b)   == Sketch(b, "push", Write("CMD_PUSH", FALSE, FALSE), next_step)
PollDone(b)  == Sketch(b, "wait", NoMmio, IF frame_done_sticky THEN "clear" ELSE "wait")
ClearDone(b) == Sketch(b, "clear", Write("STATUS", TRUE, FALSE), "app")

Draws(b) ==
  /\ \/ PollReady(b) \/ LoadCmd(b) \/ PushCmd(b)
     \/ PollDone(b) \/ ClearDone(b)
  /\ KeepJob

(* scene_load_asset, with its early return when the model is loaded.       *)
job_start == IF op = "render" THEN "render" ELSE "note"
load_or_start == IF loaded = "none" THEN "mode" ELSE job_start
load_result == IF busy THEN "loading"
               ELSE IF cache_valid /\ ~scene_error THEN job_start ELSE "app"

SetMode_rigid(b) == SceneWrite(b, "mode", [reg |-> "CMD_CFG", on |-> FALSE], "start_load") \* faulty
SetMode(b)   == SceneWrite(b, "mode", [reg |-> "CMD_CFG", on |-> op = "frame"], "start_load")
LoadStart(b) == SceneWrite(b, "start_load", [reg |-> "LOAD"], "loading")
Loading(b) ==
  /\ SceneRead(b, "loading", load_result)
  /\ loaded' = IF load_result = job_start THEN op ELSE loaded
  /\ UNCHANGED <<op, seen>>

(* scene_render_rigid.                                                     *)
idle_result_early == "app"                                           \* faulty
idle_result == IF busy THEN "rendering" ELSE "app"

SetCfg(b) == \E c \in RenderCfgs :
  SceneWrite(b, "cfg", [reg |-> "RENDER_CFG", bits |-> c], load_or_start)
Render(b)    == SceneWrite(b, "render", [reg |-> "RENDER"], "rendering")

(* The UI may go on to scene_stop, which finds the Scene busy.              *)
MayInterrupt == render_cfg \in Stoppable
Rendering(b) == \/ SceneRead(b, "rendering", idle_result)
                \/ MayInterrupt /\ SceneRead(b, "rendering", "stop")

(* robot_walk_step: one DRAW stands for the five of the robot.             *)
frame_seen == cmd_frame_count # seen \/ scene_error

Note(b) == SceneRead(b, "note", "draw_ready") /\ seen' = cmd_frame_count
           /\ UNCHANGED <<op, loaded>>
CommandFrame(b) ==
  \/ SceneRead(b, "draw_ready", IF cmd_ready THEN "draw_push" ELSE "draw_ready")
  \/ SceneWrite(b, "draw_push", [reg |-> "CMD_PUSH", kind |-> "DRAW"], "present_ready")
  \/ SceneRead(b, "present_ready", IF cmd_ready THEN "present_push" ELSE "present_ready")
  \/ SceneWrite(b, "present_push", [reg |-> "CMD_PUSH", kind |-> "PRESENT"], "start")
  \/ SceneWrite(b, "start", [reg |-> "FRAME_START"], "count")
  \/ SceneRead(b, "count", IF frame_seen THEN "app" ELSE "count")

(* scene_stop.                                                             *)
swap_result == IF swap_pending THEN "swapping" ELSE "discard"
Stopping(b) ==
  \/ SceneRead(b, "stop", IF busy THEN "abort" ELSE "swapping")
  \/ SceneWrite(b, "abort", [reg |-> "ABORT"], "stopping")
  \/ SceneRead(b, "stopping", IF busy THEN "stopping" ELSE "swapping")
  \/ Sketch(b, "swapping", NoMmio, swap_result)

discarded_kept == Write("STATUS", FALSE, FALSE)                      \* faulty
discarded == Write("STATUS", TRUE, FALSE)
Discard(b) ==
  /\ Sketch(b, "discard", discarded, "app")
  /\ loaded' = "none" /\ UNCHANGED <<op, seen>>

UiClock(b) ==
  /\ CpuMay
  /\ \/ Draws(b) \/ Loading(b) \/ Note(b) \/ Discard(b)
     \/ /\ \/ SetMode(b) \/ LoadStart(b) \/ SetCfg(b)
           \/ Render(b) \/ Rendering(b)
           \/ CommandFrame(b) \/ Stopping(b)
        /\ KeepJob
  /\ UNCHANGED shell

(* What the thread turns to next: the UI presents only what it drew        *)
(* itself, and a command-mode card is left through scene_stop.             *)
FrameLeft == frame + (IF cmd_push_strobe /\ cmd_present THEN 1 ELSE 0) < MaxFrames
Begin ==
  /\ ui = "app"
  /\ \/ op' = "draw"    /\ ui' = "poll"
     \/ op' = "present" /\ ui' = "poll" /\ loaded # "frame" /\ FrameLeft
     \/ op' = "render"  /\ ui' = "cfg"  /\ loaded # "frame" /\ FrameLeft
     \/ op' = "frame"   /\ loaded # "render" /\ FrameLeft
        /\ ui' = (IF loaded = "none" THEN "mode" ELSE "note")
     \/ op' = op        /\ ui' = "stop"
  /\ UNCHANGED <<loaded, seen, shell>>

(* skstatus reads the frame counter of SketchBook.  The shell thread has   *)
(* the UI thread's priority, so it may run between any two of its accesses. *)
ShellAccess(b) ==
  /\ CpuMay /\ shell = "idle" /\ ui # "hung"
  /\ shell' = IF cpu_ready(NoMmio) THEN "done" ELSE "hung"
  /\ ui' = IF cpu_ready(NoMmio) THEN ui ELSE "hung"
  /\ KeepJob /\ SystemClock(NoMmio, NoWrite, b)

-----------------------------------------------------------------------------
(* A clock without an access of the CPU, in which the UI thread may go on  *)
(* to its next job.                                                        *)
QuietClock(b) ==
  /\ Begin \/ UNCHANGED ui_vars
  /\ SystemClock(NoMmio, NoWrite, b)

SystemNext == \E b \in Boundaries : UiClock(b) \/ QuietClock(b)
SystemSpec == SystemInit /\ [][SystemNext]_sys_vars

(* The same with the shell thread.                                         *)
ShellNext == SystemNext \/ \E b \in Boundaries : ShellAccess(b)
ShellSpec == SystemInit /\ [][ShellNext]_sys_vars

(***************************************************************************)
(* The UI thread eventually makes its next access; the clock never stops   *)
(* and the free-running video timing reaches the end of a frame again and  *)
(* again; loading and rendering a model take finitely many clocks.         *)
(***************************************************************************)
WorkEnding == /\ estate \in {"LOAD", "RENDER"}
              /\ estate' \in {"READY", "FAIL", "CMD_WRITE"}
SystemFairness ==
  /\ WF_sys_vars(\E b \in Boundaries : UiClock(b))
  /\ WF_sys_vars(UiClock(TRUE) \/ QuietClock(TRUE))
  /\ WF_sys_vars(WorkEnding /\ \E b \in Boundaries : QuietClock(b))
FairSystemSpec == SystemSpec /\ SystemFairness

-----------------------------------------------------------------------------
(* The UI thread never touches SketchBook while the Scene controller owns  *)
(* it, nor pushes into a FIFO that has filled or closed since it looked:   *)
(* the bus does not survive an access that is not answered at once.        *)
UiNeverHung == ui # "hung"

(* The push strobe of either producer reaches a FIFO that still takes it.  *)
PushTaken == cmd_push_strobe => push_fire

(* Both: every access of the UI and of the Scene controller is served.     *)
AccessServed == UiNeverHung /\ PushTaken

(* A command packet is several writes to shared registers: when a producer *)
(* is about to push, the registers hold its own command.                   *)
PacketIntact ==
  /\ ui = "push" => cmd_present = (op = "present")
  /\ qstate = "Q_MMIO" /\ mmio_phase = 1 => cmd_present = present_pending
  /\ estate = "CMD_WRITE" /\ write_phase = 1 => cmd_present = (cmd_kind = "present")

(* A CMD_PUSH the register bank does not accept is answered OK and dropped *)
(* (scene_ctrl_axi_regs.sv:54,70).  The UI thread reads CMD_READY some     *)
(* clocks before it writes CMD_PUSH, and its mode long before: what it     *)
(* knows still holds when it pushes, and a clock later the FIFO takes the  *)
(* command.                                                                *)
CommandsArrive ==
  /\ ui \in {"draw_push", "present_push"} => push_accepted
  /\ cmd_push => Pushed # <<>> /\ ~fifo_complete /\ ~fifo_error

(* "otherwise frame N+1 can unlock immediately on frame N's completion and *)
(* write the active page" (scene_ctrl_pipeline.sv:109-110): when a command *)
(* frame is retired its own PRESENT has swapped the pages.                 *)
FrameIsOwn == fifo_complete => swap_counter = frame

(* The engine's own automatic PRESENT does not discard an old completion   *)
(* before it polls (WAIT_FRAME); it relies on everybody else's clearing:   *)
(* when it sees FRAME_DONE its own frame is on display.                    *)
AutoFrameIsOwn == estate = "CLEAR_DONE" => swap_counter = frame

(* present_wait of the UI never takes a completion the Scene left behind   *)
(* for its own ("so the following UI present cannot mistake the Scene's    *)
(* old FRAME_DONE for its own", sketch_os.c:179-181).                      *)
UiDoneIsOwn == ui = "clear" => swap_counter = frame

(* Nobody who waits for FRAME_DONE (the UI thread, the sequencer, the       *)
(* engine) takes a completion for its own that is not.                     *)
CompletionsOwn == FrameIsOwn /\ UiDoneIsOwn /\ AutoFrameIsOwn

(* No wait of the UI thread lasts for ever: not for BUSY, the frame count, *)
(* the swap, nor FRAME_DONE, whose only pulse nobody may discard.          *)
UiReturns == ui # "app" ~> ui = "app"

(* skstatus gets its answer.  (Documented: the arbiter "serializes the CPU *)
(* AXI wrapper and Scene Controller command producers",                    *)
(* sketch_mmio_arbiter.sv:1.)                                              *)
ShellAnswered == shell # "hung"

(* With two producers the core is still the double buffer.                 *)
Buffer == INSTANCE DoubleBuffer WITH
            front <- front_idx, shown <- swap_counter, asked <- SwapsDue,
            drawn <- page
StaysDoubleBuffer == Buffer!Spec
=============================================================================
