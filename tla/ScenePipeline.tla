---------------------------- MODULE ScenePipeline ----------------------------
(***************************************************************************)
(* The Scene controller (rtl/ip/scene_ctrl) in command mode and in single- *)
(* model mode: the register bank's command strobes (scene_ctrl_axi_regs),  *)
(* the locked command FIFO (scene_cmd_fifo), the frame sequencer           *)
(* (scene_ctrl_pipeline) and the control flow of the render engine         *)
(* (scene_ctrl_engine), one clock per step.                                *)
(*                                                                         *)
(* Inputs of a clock: the CPU's register write w, and the answer of the    *)
(* SketchBook port to the controller's request (ready, and the FRAME_DONE  *)
(* bit a STATUS read returns).  Geometry is abstracted: a DRAW submits     *)
(* some number of triangles; loading and rendering take any number of      *)
(* clocks.                                                                 *)
(***************************************************************************)
EXTENDS Integers, Sequences

CONSTANTS QDepth,      \* DEPTH of scene_cmd_fifo
          LevelMod,    \* 2^width of the cmd_level wires of scene_ctrl_top
          CountMod,    \* 2^width of cmd_frame_count
          MaxTris,     \* bound: triangles submitted by one DRAW or RENDER
          CpuWrites    \* the registers the CPU writes

AllWrites == {"LOAD", "RENDER", "ABORT", "SOFT_RESET", "RENDER_CFG",
              "CMD_CFG", "CMD_PUSH", "FRAME_START"}

ASSUME SceneAssumption ==
  /\ QDepth \in Nat \ {0} /\ LevelMod \in Nat \ {0} /\ CountMod \in Nat \ {0}
  /\ MaxTris \in Nat \ {0} /\ CpuWrites \subseteq AllWrites

VARIABLES
  \* scene_ctrl_axi_regs: the modes and the one-clock strobes
  cmd_mode, render_cfg, cmd_push, cmd_data, cmd_frame_start,
  load_start, render_start, abort, soft_reset,
  \* scene_cmd_fifo
  queue, cmd_locked,
  \* scene_ctrl_pipeline
  qstate, fifo_pop, fifo_complete, fifo_error, mmio_phase, present_pending,
  cmd_draw_start, draw_ok, front_error, cmd_frame_count,
  \* scene_ctrl_engine
  estate, engine_busy, engine_error, cache_valid, render_done, cmd_draw_done,
  cmd_kind, write_phase, to_submit

strobe_vars == <<cmd_push, cmd_frame_start, load_start, render_start, abort,
                 soft_reset>>
reg_vars    == <<cmd_mode, render_cfg, cmd_data, strobe_vars>>
queue_vars  == <<queue, cmd_locked>>
seq_vars    == <<qstate, fifo_pop, fifo_complete, fifo_error, mmio_phase,
                 present_pending, cmd_draw_start, draw_ok, front_error,
                 cmd_frame_count>>
engine_vars == <<estate, engine_busy, engine_error, cache_valid, render_done,
                 cmd_draw_done, cmd_kind, write_phase, to_submit>>
scene_vars  == <<reg_vars, queue_vars, seq_vars, engine_vars>>

(* A DRAW names a mesh of the loaded model or not (BADMESH); BAD is an     *)
(* unknown opcode.                                                         *)
Kinds   == {"CLEAR", "DRAW", "BADMESH", "PRESENT", "BAD"}
QStates == {"Q_IDLE", "Q_DISPATCH", "Q_DRAW_WAIT", "Q_MMIO",
            "Q_PRESENT_CLEAR", "Q_PRESENT_WAIT", "Q_FAIL"}
EStates == {"IDLE", "LOAD", "READY", "RENDER", "CMD_WRITE", "WAIT_FRAME",
            "CLEAR_DONE", "RENDER_FINISH", "FAIL"}
RenderBits == {"AUTO_PRESENT", "ANIMATION"}

-----------------------------------------------------------------------------
(* Reset values.  SOFT_RESET resets the pipeline, not the register bank.   *)

ResetQueue == queue' = <<>> /\ cmd_locked' = FALSE
ResetSeq ==
  /\ qstate' = "Q_IDLE" /\ fifo_pop' = FALSE /\ fifo_complete' = FALSE
  /\ fifo_error' = FALSE /\ mmio_phase' = 0 /\ present_pending' = FALSE
  /\ cmd_draw_start' = FALSE /\ draw_ok' = FALSE /\ front_error' = FALSE
  /\ cmd_frame_count' = 0
ResetEngine ==
  /\ estate' = "IDLE" /\ engine_busy' = FALSE /\ engine_error' = FALSE
  /\ cache_valid' = FALSE /\ render_done' = FALSE /\ cmd_draw_done' = FALSE
  /\ cmd_kind' = "draw" /\ write_phase' = 0 /\ to_submit' = 0

SceneInit ==
  /\ cmd_mode = FALSE /\ render_cfg = {"AUTO_PRESENT"} /\ cmd_push = FALSE /\ cmd_data = "CLEAR"
  /\ cmd_frame_start = FALSE /\ load_start = FALSE /\ render_start = FALSE
  /\ abort = FALSE /\ soft_reset = FALSE
  /\ queue = <<>> /\ cmd_locked = FALSE
  /\ qstate = "Q_IDLE" /\ fifo_pop = FALSE /\ fifo_complete = FALSE
  /\ fifo_error = FALSE /\ mmio_phase = 0 /\ present_pending = FALSE
  /\ cmd_draw_start = FALSE /\ draw_ok = FALSE /\ front_error = FALSE
  /\ cmd_frame_count = 0
  /\ estate = "IDLE" /\ engine_busy = FALSE /\ engine_error = FALSE
  /\ cache_valid = FALSE /\ render_done = FALSE /\ cmd_draw_done = FALSE
  /\ cmd_kind = "draw" /\ write_phase = 0 /\ to_submit = 0

-----------------------------------------------------------------------------
(* Combinational outputs.                                                  *)

busy  == engine_busy \/ cmd_locked \/ qstate # "Q_IDLE"
scene_error == engine_error \/ front_error

cmd_ready_unlocked == Len(queue) < QDepth                            \* faulty
cmd_ready == ~cmd_locked /\ Len(queue) < QDepth

(* The FIFO's level is one bit wider than the wires it is connected to.    *)
cmd_level   == Len(queue) % LevelMod

front_mmio_valid  == qstate \in {"Q_MMIO", "Q_PRESENT_CLEAR", "Q_PRESENT_WAIT"}
engine_mmio_valid == estate \in {"CMD_WRITE", "WAIT_FRAME", "CLEAR_DONE"}

(* The request on the SketchBook port, the sequencer first.  Write phase 0 *)
(* stands for the writes of the four command words, 1 for CMD_PUSH.        *)
Access(r, b) == [reg |-> r, bit0 |-> b, bit1 |-> FALSE]
Submission_push_first(phase, present) ==                             \* faulty
  IF phase = 1 THEN Access("CMD", present) ELSE Access("CMD_PUSH", FALSE)
Submission(phase, present) ==
  IF phase = 0 THEN Access("CMD", present) ELSE Access("CMD_PUSH", FALSE)
Request ==
  CASE qstate = "Q_MMIO"          -> Submission(mmio_phase, present_pending)
    [] qstate = "Q_PRESENT_CLEAR" -> Access("STATUS", TRUE)
    [] qstate = "Q_PRESENT_WAIT"  -> Access("NONE", FALSE)
    [] ~front_mmio_valid /\ estate = "CMD_WRITE"  -> Submission(write_phase, cmd_kind = "present")
    [] ~front_mmio_valid /\ estate = "CLEAR_DONE" -> Access("STATUS", TRUE)
    [] OTHER -> Access("NONE", FALSE)

(* Command mode masks automatic presentation and animation.                *)
auto_present == "AUTO_PRESENT" \in render_cfg /\ ~cmd_mode
animation    == "ANIMATION" \in render_cfg /\ ~cmd_mode

-----------------------------------------------------------------------------
(***************************************************************************)
(* Register bank.  w is the CPU's write; a CMD_PUSH carries the command    *)
(* staged in the CMD_WORD registers, which are looked at only in the clock *)
(* of the push strobe; for the rest of the time cmd_data is CLEAR.         *)
(***************************************************************************)
NoWrite == [reg |-> "NONE"]
Writes ==
  {NoWrite}
    \cup [reg : CpuWrites \ {"RENDER_CFG", "CMD_CFG", "CMD_PUSH"}]
    \cup [reg : CpuWrites \cap {"RENDER_CFG"}, bits : SUBSET RenderBits]
    \cup [reg : CpuWrites \cap {"CMD_CFG"}, on : BOOLEAN]
    \cup [reg : CpuWrites \cap {"CMD_PUSH"}, kind : Kinds]

cfg_accepted   == ~busy
push_accepted  == cmd_mode /\ cmd_ready
start_accepted == cmd_mode /\ ~cmd_locked /\ cmd_level # 0

SceneRegs(w) ==
  /\ cmd_mode'   = IF w.reg = "CMD_CFG" /\ cfg_accepted THEN w.on ELSE cmd_mode
  /\ render_cfg' = IF w.reg = "RENDER_CFG" THEN w.bits ELSE render_cfg
  /\ cmd_data'   = IF w.reg = "CMD_PUSH" /\ push_accepted THEN w.kind ELSE "CLEAR"
  /\ cmd_push'        = (w.reg = "CMD_PUSH" /\ push_accepted)
  /\ cmd_frame_start' = (w.reg = "FRAME_START" /\ start_accepted)
  /\ load_start'      = (w.reg = "LOAD" /\ ~busy)
  /\ render_start'    = (w.reg = "RENDER" /\ ~busy /\ cache_valid)
  /\ abort'           = (w.reg = "ABORT")
  /\ soft_reset'      = (w.reg = "SOFT_RESET")

(* The bus answers a write before it takes the next one, so a strobe is    *)
(* gone by then.                                                           *)
CpuMay == ~(cmd_push \/ cmd_frame_start \/ load_start \/ render_start
              \/ abort \/ soft_reset)

(* The pipeline reset is asynchronous: it acts from the moment the strobe  *)
(* rises until the clock in which it falls.                                *)
in_reset == soft_reset \/ soft_reset'

-----------------------------------------------------------------------------
(* Command FIFO: the lock refuses pushes until the frame is retired, which *)
(* also empties it.                                                        *)

Pushed == IF cmd_push /\ cmd_mode /\ cmd_ready THEN <<cmd_data>> ELSE <<>>
Popped == IF fifo_pop /\ cmd_locked /\ queue # <<>> THEN Tail(queue) ELSE queue

Queue ==
  IF fifo_complete \/ fifo_error
  THEN ResetQueue
  ELSE /\ cmd_locked' = (cmd_locked \/ (cmd_frame_start /\ cmd_mode /\ queue # <<>>))
       /\ queue' = Popped \o Pushed

-----------------------------------------------------------------------------
(***************************************************************************)
(* Frame sequencer.  Each action is one state of the machine; its pulses   *)
(* default to low.                                                         *)
(***************************************************************************)

Pulses(pop, complete, err, draw) ==
  /\ fifo_pop' = pop /\ fifo_complete' = complete
  /\ fifo_error' = err /\ cmd_draw_start' = draw
NoPulse == Pulses(FALSE, FALSE, FALSE, FALSE)

Sequencing(s) == cmd_mode /\ ~engine_error /\ qstate = s
Fail == qstate' = "Q_FAIL" /\ front_error' = TRUE /\ Pulses(FALSE, FALSE, TRUE, FALSE)

(* Leaving command mode while a frame is in progress drops the frame; an   *)
(* engine error fails it (and holds the FIFO in reset while it lasts).     *)
QAbandon ==
  /\ qstate # "Q_IDLE" /\ (~cmd_mode \/ engine_error)
  /\ IF ~cmd_mode
     THEN qstate' = "Q_IDLE" /\ Pulses(FALSE, FALSE, TRUE, FALSE) /\ UNCHANGED front_error
     ELSE Fail
  /\ UNCHANGED <<mmio_phase, present_pending, draw_ok, cmd_frame_count>>

frame_ready_no_model == cmd_mode /\ cmd_locked /\ ~fifo_complete     \* faulty
frame_ready_twice == cmd_mode /\ cmd_locked /\ cache_valid           \* faulty
frame_ready == cmd_mode /\ cmd_locked /\ cache_valid /\ ~fifo_complete

QIdle ==
  /\ qstate = "Q_IDLE" /\ NoPulse
  /\ qstate' = IF frame_ready THEN "Q_DISPATCH" ELSE "Q_IDLE"
  /\ UNCHANGED <<mmio_phase, present_pending, draw_ok, front_error, cmd_frame_count>>

(* What Q_DISPATCH sees at the head; an empty queue is a command underflow. *)
fifo_head == IF queue = <<>> THEN "NONE" ELSE Head(queue)

QBadCommand ==
  /\ Sequencing("Q_DISPATCH") /\ fifo_head \in {"NONE", "BAD"} /\ Fail
  /\ UNCHANGED <<mmio_phase, present_pending, draw_ok, cmd_frame_count>>

QSubmit ==
  /\ Sequencing("Q_DISPATCH") /\ fifo_head \in {"CLEAR", "PRESENT"}
  /\ Pulses(TRUE, FALSE, FALSE, FALSE)
  /\ mmio_phase' = 0 /\ qstate' = "Q_MMIO"
  /\ present_pending' = (present_pending \/ fifo_head = "PRESENT")
  /\ UNCHANGED <<draw_ok, front_error, cmd_frame_count>>

QDraw ==
  /\ Sequencing("Q_DISPATCH") /\ fifo_head \in {"DRAW", "BADMESH"}
  /\ Pulses(TRUE, FALSE, FALSE, TRUE)
  /\ draw_ok' = (fifo_head = "DRAW") /\ qstate' = "Q_DRAW_WAIT"
  /\ UNCHANGED <<mmio_phase, present_pending, front_error, cmd_frame_count>>

draw_over_idle == ~engine_busy                                       \* faulty
draw_over == cmd_draw_done

QDrawWait ==
  /\ Sequencing("Q_DRAW_WAIT") /\ NoPulse
  /\ qstate' = IF draw_over THEN "Q_DISPATCH" ELSE "Q_DRAW_WAIT"
  /\ UNCHANGED <<mmio_phase, present_pending, draw_ok, front_error, cmd_frame_count>>

(* A PRESENT discards the completion of an older one before it polls.      *)
after_submit == IF present_pending THEN "Q_PRESENT_CLEAR" ELSE "Q_DISPATCH"

QMmio(ready) ==
  /\ Sequencing("Q_MMIO") /\ NoPulse
  /\ IF ready /\ mmio_phase = 1
     THEN /\ qstate' = after_submit
          /\ present_pending' = FALSE /\ UNCHANGED mmio_phase
     ELSE /\ mmio_phase' = IF ready THEN 1 ELSE mmio_phase
          /\ UNCHANGED <<qstate, present_pending>>
  /\ UNCHANGED <<draw_ok, front_error, cmd_frame_count>>

QPresentClear(ready) ==
  /\ Sequencing("Q_PRESENT_CLEAR") /\ NoPulse
  /\ qstate' = IF ready THEN "Q_PRESENT_WAIT" ELSE qstate
  /\ UNCHANGED <<mmio_phase, present_pending, draw_ok, front_error, cmd_frame_count>>

QPresentWait(ready, done) ==
  /\ Sequencing("Q_PRESENT_WAIT")
  /\ IF ready /\ done
     THEN /\ Pulses(FALSE, TRUE, FALSE, FALSE) /\ qstate' = "Q_IDLE"
          /\ cmd_frame_count' = (cmd_frame_count + 1) % CountMod
     ELSE NoPulse /\ UNCHANGED <<qstate, cmd_frame_count>>
  /\ UNCHANGED <<mmio_phase, present_pending, draw_ok, front_error>>

(* Q_FAIL has no exit but a reset.                                         *)
QFail ==
  /\ Sequencing("Q_FAIL") /\ NoPulse
  /\ UNCHANGED <<qstate, mmio_phase, present_pending, draw_ok, front_error, cmd_frame_count>>

Sequencer(ready, done) ==
  \/ QAbandon \/ QIdle \/ QBadCommand \/ QSubmit \/ QDraw \/ QDrawWait
  \/ QMmio(ready) \/ QPresentClear(ready) \/ QPresentWait(ready, done) \/ QFail

-----------------------------------------------------------------------------
(***************************************************************************)
(* Render engine: model load, transform and sort (RENDER), submission of   *)
(* one SketchBook command per CMD_WRITE round (an optional CLEAR counts as *)
(* one of them; a model with no visible triangle still submits one),       *)
(* automatic PRESENT, hand-back.                                           *)
(***************************************************************************)

EngineAt(s) == ~abort /\ estate = s
NoDrawDone  == cmd_draw_done' = FALSE
submission  == <<cmd_kind, write_phase, to_submit>>

EngineAbort ==
  /\ abort /\ NoDrawDone
  /\ estate' = "IDLE" /\ engine_busy' = FALSE /\ cache_valid' = FALSE
  /\ render_done' = FALSE
  /\ UNCHANGED <<engine_error, submission>>

StartLoad ==
  /\ engine_busy' = TRUE /\ engine_error' = FALSE /\ cache_valid' = FALSE
  /\ render_done' = FALSE /\ estate' = "LOAD"

EIdle ==
  /\ EngineAt("IDLE") /\ NoDrawDone
  /\ IF load_start THEN StartLoad
     ELSE UNCHANGED <<estate, engine_busy, engine_error, cache_valid, render_done>>
  /\ UNCHANGED submission

(* The model is read and checked: any number of clocks, then accepted or   *)
(* refused.                                                                *)
ELoad ==
  /\ EngineAt("LOAD") /\ NoDrawDone
  /\ estate' \in {"LOAD", "READY", "FAIL"}
  /\ UNCHANGED <<engine_busy, engine_error, cache_valid, render_done, submission>>

EFail ==
  /\ EngineAt("FAIL") /\ NoDrawDone
  /\ engine_error' = TRUE /\ engine_busy' = FALSE /\ estate' = "IDLE"
  /\ UNCHANGED <<cache_valid, render_done, submission>>

(* A DRAW of a mesh the model lacks sets the error and nothing else.       *)
single_start == render_start /\ ~cmd_mode
draw_start   == ~single_start /\ cmd_mode /\ cmd_draw_start

EReady ==
  /\ EngineAt("READY") /\ NoDrawDone /\ UNCHANGED submission
  /\ IF load_start THEN StartLoad
     ELSE LET render == single_start \/ (draw_start /\ draw_ok) IN
          /\ cache_valid'  = TRUE
          /\ estate'       = IF render THEN "RENDER" ELSE "READY"
          /\ engine_busy'  = render
          /\ engine_error' = (engine_error \/ (draw_start /\ ~draw_ok))
          /\ render_done'  = (render_done /\ ~single_start)

ERender ==
  /\ EngineAt("RENDER") /\ NoDrawDone
  /\ \/ UNCHANGED <<estate, to_submit>>
     \/ estate' = "CMD_WRITE" /\ to_submit' \in 1 .. MaxTris
  /\ cmd_kind' = "draw" /\ write_phase' = 0
  /\ UNCHANGED <<engine_busy, engine_error, cache_valid, render_done>>

(* What follows a submitted command.                                       *)
AfterSubmit ==
  IF cmd_kind = "present" THEN estate' = "WAIT_FRAME" /\ UNCHANGED <<cmd_kind, to_submit>>
  ELSE IF to_submit > 1 THEN to_submit' = to_submit - 1 /\ UNCHANGED <<estate, cmd_kind>>
  ELSE /\ to_submit' = 0
       /\ IF auto_present THEN cmd_kind' = "present" /\ UNCHANGED estate
          ELSE estate' = "RENDER_FINISH" /\ UNCHANGED cmd_kind

engine_mmio_ready(ready) == ready /\ ~front_mmio_valid

EWrite(ready) ==
  /\ EngineAt("CMD_WRITE") /\ NoDrawDone
  /\ IF engine_mmio_ready(ready) /\ write_phase = 1
     THEN write_phase' = 0 /\ AfterSubmit
     ELSE /\ write_phase' = IF engine_mmio_ready(ready) THEN 1 ELSE write_phase
          /\ UNCHANGED <<estate, cmd_kind, to_submit>>
  /\ UNCHANGED <<engine_busy, engine_error, cache_valid, render_done>>

EWaitFrame(ready, done) ==
  /\ EngineAt("WAIT_FRAME") /\ NoDrawDone
  /\ estate' = IF engine_mmio_ready(ready) /\ done THEN "CLEAR_DONE" ELSE estate
  /\ UNCHANGED <<engine_busy, engine_error, cache_valid, render_done, submission>>

(* An animated model starts over, any other is handed back.                *)
HandBack ==
  IF animation THEN estate' = "RENDER" /\ UNCHANGED <<engine_busy, render_done>>
  ELSE estate' = "READY" /\ engine_busy' = FALSE /\ render_done' = TRUE

EClearDone(ready) ==
  /\ EngineAt("CLEAR_DONE") /\ NoDrawDone
  /\ IF engine_mmio_ready(ready) THEN HandBack
     ELSE UNCHANGED <<estate, engine_busy, render_done>>
  /\ UNCHANGED <<engine_error, cache_valid, submission>>

draw_done_never == FALSE                                             \* faulty
draw_done == cmd_mode

ERenderFinish ==
  /\ EngineAt("RENDER_FINISH") /\ cmd_draw_done' = draw_done
  /\ IF cmd_mode THEN estate' = "READY" /\ engine_busy' = FALSE /\ UNCHANGED render_done
     ELSE HandBack
  /\ UNCHANGED <<engine_error, cache_valid, submission>>

Engine(ready, done) ==
  \/ EngineAbort \/ EIdle \/ ELoad \/ EFail \/ EReady \/ ERender
  \/ EWrite(ready) \/ EWaitFrame(ready, done) \/ EClearDone(ready)
  \/ ERenderFinish

-----------------------------------------------------------------------------
(* One clock of the controller.                                            *)
SceneClock(w, ready, done) ==
  /\ w.reg # "NONE" => CpuMay
  /\ SceneRegs(w)
  /\ \/ in_reset /\ ResetQueue /\ ResetSeq /\ ResetEngine
     \/ ~in_reset /\ Queue /\ Sequencer(ready, done) /\ Engine(ready, done)

(* The controller alone: any register writes, any SketchBook port.         *)
SceneNext == \E w \in Writes, ready, done \in BOOLEAN : SceneClock(w, ready, done)
SceneSpec == SceneInit /\ [][SceneNext]_scene_vars

(***************************************************************************)
(* The clock never stops, and the CPU need not write anything.  A request  *)
(* standing on the SketchBook port is answered in the end, a poll of       *)
(* FRAME_DONE with the completion; loading and rendering end.              *)
(***************************************************************************)
WorkEnds == estate \in {"LOAD", "RENDER"} /\ estate' # estate
SceneFairness ==
  /\ WF_scene_vars(\E ready, done \in BOOLEAN : SceneClock(NoWrite, ready, done))
  /\ WF_scene_vars(/\ front_mmio_valid \/ engine_mmio_valid
                   /\ \E w \in Writes : SceneClock(w, TRUE, TRUE))
  /\ WF_scene_vars(SceneNext /\ WorkEnds)
FairSceneSpec == SceneSpec /\ SceneFairness

(* A CPU that tries FRAME_START again and again.                           *)
Starting == \E w \in Writes, ready, done \in BOOLEAN :
              w.reg = "FRAME_START" /\ SceneClock(w, ready, done)
TryingSceneSpec == FairSceneSpec /\ SF_scene_vars(Starting)

-----------------------------------------------------------------------------
(* Types of every register.                                                *)
SceneTypeOK ==
  /\ cmd_mode \in BOOLEAN /\ render_cfg \subseteq RenderBits
  /\ cmd_push \in BOOLEAN /\ cmd_data \in Kinds /\ cmd_frame_start \in BOOLEAN
  /\ load_start \in BOOLEAN /\ render_start \in BOOLEAN
  /\ abort \in BOOLEAN /\ soft_reset \in BOOLEAN
  /\ queue \in Seq(Kinds) /\ Len(queue) <= QDepth /\ cmd_locked \in BOOLEAN
  /\ qstate \in QStates /\ fifo_pop \in BOOLEAN /\ fifo_complete \in BOOLEAN
  /\ fifo_error \in BOOLEAN /\ mmio_phase \in {0, 1}
  /\ present_pending \in BOOLEAN /\ cmd_draw_start \in BOOLEAN
  /\ draw_ok \in BOOLEAN /\ front_error \in BOOLEAN
  /\ cmd_frame_count \in 0 .. CountMod - 1
  /\ estate \in EStates /\ engine_busy \in BOOLEAN /\ engine_error \in BOOLEAN
  /\ cache_valid \in BOOLEAN /\ render_done \in BOOLEAN
  /\ cmd_draw_done \in BOOLEAN /\ cmd_kind \in {"draw", "present"}
  /\ write_phase \in {0, 1} /\ to_submit \in 0 .. MaxTris

(* The sequencer gives a frame up when it sees the mode change under it    *)
(* (scene_ctrl_pipeline.sv:95).  The register bank's BUSY guard makes that *)
(* impossible, although BUSY is read a clock before the mode changes.      *)
ModeStable == qstate # "Q_IDLE" => cmd_mode

(* The sequencer and the engine share one SketchBook port without an       *)
(* arbiter between them; a packet is five writes and must not be mixed     *)
(* with another.                                                           *)
PacketExclusive == ~(front_mmio_valid /\ engine_mmio_valid)

(* The sequencer executes locked frames only: it never dispatches from a   *)
(* queue the CPU is still filling, nor again from a frame just retired.    *)
FrameLocked == qstate \notin {"Q_IDLE", "Q_FAIL"} => cmd_locked

(* Types, and what the sequencer relies on while it executes a frame.      *)
PipelineSound == SceneTypeOK /\ ModeStable /\ FrameLocked

(* Q_DRAW_WAIT leaves only on a one-clock pulse of the engine, which       *)
(* itself starts on a one-clock pulse: while the model is valid one of     *)
(* the two is there or the engine is at work, and no DRAW is lost.         *)
DrawServed ==
  qstate = "Q_DRAW_WAIT" /\ cache_valid =>
    cmd_draw_start \/ engine_busy \/ cmd_draw_done \/ engine_error

(* A CMD_PUSH the register bank accepts, in command mode and with          *)
(* CMD_READY in the clock of the write, is stored, although it reaches the *)
(* FIFO a clock later.  (One it does not accept is answered OK too and     *)
(* dropped, scene_ctrl_axi_regs.sv:54,70: the pusher must look first,      *)
(* SceneSystem!CommandsArrive.  After an engine error the FIFO is held     *)
(* empty and pushes vanish.)                                               *)
PushKept ==
  cmd_push /\ ~engine_error => Pushed # <<>> /\ ~fifo_complete /\ ~fifo_error

(* With a model, a started frame is retired, completed or failed, unless   *)
(* the sequencer had failed before: Q_FAIL does not look at a new frame.   *)
FrameRetires ==
  cmd_locked /\ cache_valid /\ ~front_error ~> ~cmd_locked \/ ~cache_valid

(* A statement of a test that the controller does not keep: "FRAME_START    *)
(* closes the frame, including a full frame, until retire."                 *)
FullFrameStarts == cmd_mode /\ Len(queue) = QDepth ~> cmd_locked \/ ~cmd_mode
=============================================================================
