-------------------------- MODULE SceneSystemProofs --------------------------
(***************************************************************************)
(* Proofs about the Scene controller, for every depth of the command FIFO, *)
(* every width of its counters and every set of registers the CPU writes:  *)
(* a frame is executed under its lock and in its mode, no accepted push    *)
(* and no DRAW is lost, and the two masters of the SketchBook port never   *)
(* stand on it together.  And about the controller and the UI thread       *)
(* sharing SketchBook, for every depth of the two FIFOs, every length of a *)
(* draw and of a span, and every number of frames: no access is refused    *)
(* and no pushed command lost, no packet is mixed with another, nobody     *)
(* takes a completion for its own that is not, and the core is still the   *)
(* double buffer.                                                          *)
(***************************************************************************)
EXTENDS SceneSystem, SketchBookProofs, SequenceTheorems

-----------------------------------------------------------------------------
(* THE CONTROLLER                                                          *)
(***************************************************************************)
(* What the blocks know of each other.  BUSY is read a clock before the    *)
(* strobe it guards takes effect, and three pulses cross between the       *)
(* sequencer, the FIFO and the engine; each part says what is still true   *)
(* when such a pulse arrives.                                              *)
(***************************************************************************)
AtWork == estate \in {"RENDER", "CMD_WRITE", "WAIT_FRAME", "CLEAR_DONE", "RENDER_FINISH"}

(* The FIFO is released only by a sequencer that has left the frame.       *)
Released == /\ fifo_complete => qstate = "Q_IDLE"
            /\ fifo_error => qstate = "Q_FAIL"

(* A load starts with no frame under way or about to start.                *)
LoadAlone == load_start => ~cmd_locked /\ qstate = "Q_IDLE"

(* The engine's BUSY and the validity of its model follow its state.       *)
EngineTrue ==
  /\ AtWork => cache_valid
  /\ cache_valid => estate = "READY" \/ AtWork
  /\ engine_busy <=> \/ estate \in {"LOAD", "FAIL"} \/ AtWork
                     \/ estate = "READY" /\ ~cache_valid

(* While the sequencer executes a frame the engine loads no model; in      *)
(* command mode it renders only for the DRAW the sequencer waits for, and  *)
(* never presents by itself.                                               *)
EngineServes ==
  /\ qstate # "Q_IDLE" =>
       estate \notin {"LOAD", "FAIL"} /\ (estate = "READY" => cache_valid)
  /\ cmd_mode /\ AtWork =>
       /\ qstate \in {"Q_DRAW_WAIT", "Q_FAIL"}
       /\ estate \notin {"WAIT_FRAME", "CLEAR_DONE"}
       /\ estate = "CMD_WRITE" => cmd_kind = "draw"
  /\ cmd_draw_done => estate = "READY" /\ qstate \in {"Q_DRAW_WAIT", "Q_FAIL"}
  /\ cmd_draw_start => qstate = "Q_DRAW_WAIT" /\ ~cmd_draw_done

SInv == /\ SceneTypeOK /\ ModeStable /\ FrameLocked /\ Released /\ LoadAlone
        /\ PushKept /\ EngineTrue /\ EngineServes /\ DrawServed

(* The numbers, and the queue that reset leaves.                           *)
LEMMA Bounds ==
  /\ QDepth \in Nat /\ CountMod \in Nat /\ MaxTris \in Nat
  /\ 0 \in 0 .. CountMod - 1 /\ 0 \in 0 .. MaxTris
  /\ <<>> \in Seq(Kinds) /\ Len(<<>>) = 0 /\ 0 <= QDepth
<1>1. QDepth \in Nat /\ CountMod \in Nat \ {0} /\ MaxTris \in Nat
  BY SceneAssumption DEF SceneAssumption
<1> QED BY <1>1

LEMMA SceneStarts == SceneInit => SInv
<1> SUFFICES ASSUME SceneInit PROVE SInv
  OBVIOUS
<1>1. queue \in Seq(Kinds) /\ Len(queue) <= QDepth
  BY Bounds DEF SceneInit
<1>2. cmd_frame_count \in 0 .. CountMod - 1 /\ to_submit \in 0 .. MaxTris
  BY Bounds DEF SceneInit
<1>3. SceneTypeOK
  BY <1>1, <1>2 DEF SceneInit, SceneTypeOK, Kinds, QStates, EStates, RenderBits
<1> QED
  BY <1>3
  DEF SceneInit, SInv, ModeStable, FrameLocked, Released, LoadAlone, PushKept, EngineTrue,
      EngineServes, DrawServed, AtWork

-----------------------------------------------------------------------------
(* The blocks, one clock each.                                             *)

(* A write with the field its register takes.                              *)
GoodWrite(w) ==
  /\ w.reg = "RENDER_CFG" => w.bits \subseteq RenderBits
  /\ w.reg = "CMD_CFG" => w.on \in BOOLEAN
  /\ w.reg = "CMD_PUSH" => w.kind \in Kinds

LEMMA WritesGood == \A w \in Writes : GoodWrite(w)
<1> SUFFICES ASSUME NEW w \in Writes PROVE GoodWrite(w)
  OBVIOUS
<1> USE DEF GoodWrite
<1>1. CASE w = NoWrite
  BY <1>1 DEF NoWrite
<1>2. CASE w \in [reg : CpuWrites \ {"RENDER_CFG", "CMD_CFG", "CMD_PUSH"}]
  BY <1>2
<1>3. CASE w \in [reg : CpuWrites \cap {"RENDER_CFG"}, bits : SUBSET RenderBits]
  BY <1>3
<1>4. CASE w \in [reg : CpuWrites \cap {"CMD_CFG"}, on : BOOLEAN]
  BY <1>4
<1>5. CASE w \in [reg : CpuWrites \cap {"CMD_PUSH"}, kind : Kinds]
  BY <1>5
<1> QED BY <1>1, <1>2, <1>3, <1>4, <1>5 DEF Writes

(* A strobe or a change of mode is the answer to a write the guard let     *)
(* pass, and such a write finds no other strobe up.                        *)
LEMMA RegsStep ==
  ASSUME SceneTypeOK, NEW w, GoodWrite(w), w.reg # "NONE" => CpuMay, SceneRegs(w)
  PROVE  /\ cmd_mode' # cmd_mode => CpuMay /\ ~busy
         /\ load_start' => CpuMay /\ ~busy
         /\ cmd_push' => CpuMay /\ push_accepted /\ cmd_mode' = cmd_mode
                           /\ ~soft_reset'
         /\ in_reset => ~cmd_push' /\ ~load_start'
BY DEF SceneTypeOK, CpuMay, SceneRegs, cfg_accepted, in_reset

LEMMA RegsTypes ==
  ASSUME SceneTypeOK, NEW w, GoodWrite(w), SceneRegs(w)
  PROVE  /\ cmd_mode' \in BOOLEAN /\ render_cfg' \subseteq RenderBits
         /\ cmd_push' \in BOOLEAN /\ cmd_data' \in Kinds /\ cmd_frame_start' \in BOOLEAN
         /\ load_start' \in BOOLEAN /\ render_start' \in BOOLEAN
         /\ abort' \in BOOLEAN /\ soft_reset' \in BOOLEAN
<1>1. cmd_mode' \in BOOLEAN /\ render_cfg' \subseteq RenderBits /\ cmd_data' \in Kinds
  BY DEF GoodWrite, SceneTypeOK, SceneRegs, Kinds
<1>2. /\ cmd_push' \in BOOLEAN /\ cmd_frame_start' \in BOOLEAN
      /\ load_start' \in BOOLEAN /\ render_start' \in BOOLEAN
      /\ abort' \in BOOLEAN /\ soft_reset' \in BOOLEAN
  BY DEF SceneRegs
<1> QED BY <1>1, <1>2

(* The queue stays within its depth, and the lock changes only at a start  *)
(* or a release.                                                           *)
LEMMA LevelStep ==
  ASSUME SceneTypeOK, Queue
  PROVE  /\ queue' \in Seq(Kinds) /\ Len(queue') <= QDepth /\ cmd_locked' \in BOOLEAN
         /\ cmd_locked /\ ~fifo_complete /\ ~fifo_error => cmd_locked'
         /\ ~cmd_locked /\ ~cmd_frame_start => ~cmd_locked'
         /\ ~cmd_push => Len(queue') <= Len(queue)
<1> USE SceneAssumption DEF SceneAssumption
<1>1. CASE fifo_complete \/ fifo_error
  <2>1. queue' = <<>> /\ cmd_locked' = FALSE
    BY <1>1 DEF Queue, ResetQueue
  <2>2. Len(queue) \in Nat
    BY DEF SceneTypeOK
  <2>3. queue' \in Seq(Kinds) /\ Len(queue') = 0 /\ QDepth \in Nat
    BY <2>1, Bounds
  <2>4. cmd_locked' = FALSE
    BY <2>1
  <2>5. Len(queue') <= QDepth /\ Len(queue') <= Len(queue)
    BY <2>2, <2>3
  <2> QED BY <1>1, <2>3, <2>4, <2>5
<1>2. CASE ~(fifo_complete \/ fifo_error)
  <2>1. /\ cmd_locked' = (cmd_locked \/ (cmd_frame_start /\ cmd_mode /\ queue # <<>>))
        /\ queue' = Popped \o Pushed
    BY <1>2 DEF Queue
  <2>2. Popped \in Seq(Kinds) /\ Len(Popped) <= Len(queue) /\ Len(Popped) \in Nat
    BY DEF Popped, SceneTypeOK
  <2>3. CASE cmd_push /\ cmd_mode /\ cmd_ready
    <3>1. Pushed = <<cmd_data>> /\ <<cmd_data>> \in Seq(Kinds) /\ Len(<<cmd_data>>) = 1
      BY <2>3 DEF Pushed, SceneTypeOK
    <3>2. Len(queue) < QDepth /\ Len(queue) \in Nat
      BY <2>3 DEF cmd_ready, SceneTypeOK
    <3>3. queue' \in Seq(Kinds) /\ Len(queue') = Len(Popped) + 1
      BY <2>1, <2>2, <3>1
    <3> QED BY <1>2, <2>1, <2>2, <2>3, <3>2, <3>3 DEF SceneTypeOK
  <2>4. CASE ~(cmd_push /\ cmd_mode /\ cmd_ready)
    <3>1. Pushed = <<>>
      BY <2>4 DEF Pushed
    <3>2. queue' = Popped
      BY <2>1, <2>2, <3>1
    <3> QED BY <1>2, <2>1, <2>2, <3>2 DEF SceneTypeOK
  <2> QED BY <2>3, <2>4
<1> QED BY <1>1, <1>2

(* What a step of the sequencer tells the other blocks.                    *)
LEMMA SequencerStep ==
  ASSUME SceneTypeOK, ModeStable, NEW ready \in BOOLEAN, NEW done \in BOOLEAN,
         Sequencer(ready, done)
  PROVE  /\ qstate = "Q_IDLE" => IF frame_ready THEN qstate' = "Q_DISPATCH"
                                 ELSE qstate' = "Q_IDLE"
         /\ qstate = "Q_FAIL" => qstate' = "Q_FAIL" /\ (fifo_error' => engine_error)
         /\ qstate = "Q_DRAW_WAIT" =>
              IF engine_error THEN qstate' = "Q_FAIL"
              ELSE qstate' = IF draw_over THEN "Q_DISPATCH" ELSE "Q_DRAW_WAIT"
         /\ qstate' = "Q_DRAW_WAIT" =>
              qstate = "Q_DRAW_WAIT" \/ (qstate = "Q_DISPATCH" /\ cmd_draw_start')
         /\ cmd_draw_start' => qstate = "Q_DISPATCH" /\ qstate' = "Q_DRAW_WAIT"
         /\ fifo_complete' => qstate = "Q_PRESENT_WAIT" /\ qstate' = "Q_IDLE"
         /\ fifo_error' => qstate # "Q_IDLE" /\ qstate' = "Q_FAIL"
<1> USE DEF ModeStable, Sequencing, NoPulse, Pulses, Fail
<1>1. CASE QAbandon              BY <1>1 DEF QAbandon
<1>2. CASE QIdle                 BY <1>2 DEF QIdle
<1>3. CASE QBadCommand           BY <1>3 DEF QBadCommand
<1>4. CASE QSubmit               BY <1>4 DEF QSubmit
<1>5. CASE QDraw                 BY <1>5 DEF QDraw
<1>6. CASE QDrawWait             BY <1>6 DEF QDrawWait
<1>7. CASE QMmio(ready)          BY <1>7 DEF QMmio, after_submit
<1>8. CASE QPresentClear(ready)  BY <1>8 DEF QPresentClear
<1>9. CASE QPresentWait(ready, done)  BY <1>9 DEF QPresentWait
<1>10. CASE QFail                BY <1>10 DEF QFail
<1> QED BY <1>1, <1>2, <1>3, <1>4, <1>5, <1>6, <1>7, <1>8, <1>9, <1>10 DEF Sequencer

LEMMA SequencerTypes ==
  ASSUME SceneTypeOK, NEW ready \in BOOLEAN, NEW done \in BOOLEAN, Sequencer(ready, done)
  PROVE  /\ qstate' \in QStates /\ fifo_pop' \in BOOLEAN /\ fifo_complete' \in BOOLEAN
         /\ fifo_error' \in BOOLEAN /\ mmio_phase' \in {0, 1}
         /\ present_pending' \in BOOLEAN /\ cmd_draw_start' \in BOOLEAN
         /\ draw_ok' \in BOOLEAN /\ front_error' \in BOOLEAN
         /\ cmd_frame_count' \in 0 .. CountMod - 1
<1> USE DEF SceneTypeOK, Sequencing, NoPulse, Pulses, Fail, QStates
<1>1. CASE QAbandon              BY <1>1 DEF QAbandon
<1>2. CASE QIdle                 BY <1>2 DEF QIdle
<1>3. CASE QBadCommand           BY <1>3 DEF QBadCommand
<1>4. CASE QSubmit               BY <1>4 DEF QSubmit
<1>5. CASE QDraw                 BY <1>5 DEF QDraw
<1>6. CASE QDrawWait             BY <1>6 DEF QDrawWait
<1>7. CASE QMmio(ready)          BY <1>7 DEF QMmio, after_submit
<1>8. CASE QPresentClear(ready)  BY <1>8 DEF QPresentClear
<1>9. CASE QPresentWait(ready, done)
  <2>1. (cmd_frame_count + 1) % CountMod \in 0 .. CountMod - 1
    BY SceneAssumption DEF SceneAssumption
  <2> QED BY <1>9, <2>1 DEF QPresentWait
<1>10. CASE QFail                BY <1>10 DEF QFail
<1> QED BY <1>1, <1>2, <1>3, <1>4, <1>5, <1>6, <1>7, <1>8, <1>9, <1>10 DEF Sequencer

(* What a step of the engine tells the other blocks.                       *)
LEMMA EngineTypes ==
  ASSUME SceneTypeOK, NEW ready \in BOOLEAN, NEW done \in BOOLEAN, Engine(ready, done)
  PROVE  /\ estate' \in EStates /\ engine_busy' \in BOOLEAN /\ engine_error' \in BOOLEAN
         /\ cache_valid' \in BOOLEAN /\ render_done' \in BOOLEAN
         /\ cmd_draw_done' \in BOOLEAN /\ cmd_kind' \in {"draw", "present"}
         /\ write_phase' \in {0, 1} /\ to_submit' \in 0 .. MaxTris
<1> USE Bounds
    DEF SceneTypeOK, EngineAt, NoDrawDone, submission, EStates, StartLoad,
        HandBack
<1>1. CASE EngineAbort           BY <1>1 DEF EngineAbort
<1>2. CASE EIdle                 BY <1>2 DEF EIdle
<1>3. CASE ELoad                 BY <1>3 DEF ELoad
<1>4. CASE EFail                 BY <1>4 DEF EFail
<1>5. CASE EReady                BY <1>5 DEF EReady, single_start, draw_start
<1>6. CASE ERender
  <2>1. to_submit' \in 0 .. MaxTris
    BY <1>6 DEF ERender
  <2> QED BY <1>6, <2>1 DEF ERender
<1>7. CASE EWrite(ready)
  <2>1. to_submit' \in 0 .. MaxTris
    BY <1>7 DEF EWrite, AfterSubmit
  <2>2. estate' \in EStates /\ cmd_kind' \in {"draw", "present"} /\ write_phase' \in {0, 1}
    BY <1>7 DEF EWrite, AfterSubmit
  <2> QED BY <1>7, <2>1, <2>2 DEF EWrite
<1>8. CASE EWaitFrame(ready, done)  BY <1>8 DEF EWaitFrame
<1>9. CASE EClearDone(ready)     BY <1>9 DEF EClearDone
<1>10. CASE ERenderFinish        BY <1>10 DEF ERenderFinish, draw_done
<1> QED BY <1>1, <1>2, <1>3, <1>4, <1>5, <1>6, <1>7, <1>8, <1>9, <1>10 DEF Engine

(* While the model stands and no load starts, the engine only moves on the *)
(* DRAW it was given, and in command mode it ends with its pulse.          *)
LEMMA EngineStep ==
  ASSUME SceneTypeOK, NEW ready \in BOOLEAN, NEW done \in BOOLEAN, Engine(ready, done)
  PROVE  /\ AtWork' => AtWork \/ (estate = "READY" /\ (single_start \/ draw_start))
         /\ ~load_start /\ engine_error => engine_error'
         /\ cmd_draw_done' => estate = "RENDER_FINISH" /\ estate' = "READY" /\ cmd_mode
         /\ estate' = "LOAD" => load_start \/ estate = "LOAD"
         /\ estate' = "FAIL" => estate = "LOAD"
         /\ estate' = "READY" =>
              \/ estate = "LOAD" \/ (estate = "READY" /\ cache_valid')
              \/ AtWork /\ cache_valid' = cache_valid
         /\ cache_valid' => cache_valid \/ estate = "READY"
<1> USE DEF SceneTypeOK, EngineAt, NoDrawDone, submission, EStates, StartLoad, HandBack, AtWork
<1>1. CASE EngineAbort           BY <1>1 DEF EngineAbort
<1>2. CASE EIdle                 BY <1>2 DEF EIdle
<1>3. CASE ELoad                 BY <1>3 DEF ELoad
<1>4. CASE EFail                 BY <1>4 DEF EFail
<1>5. CASE EReady                BY <1>5 DEF EReady
<1>6. CASE ERender               BY <1>6 DEF ERender
<1>7. CASE EWrite(ready)         BY <1>7 DEF EWrite, AfterSubmit
<1>8. CASE EWaitFrame(ready, done)  BY <1>8 DEF EWaitFrame
<1>9. CASE EClearDone(ready)     BY <1>9 DEF EClearDone
<1>10. CASE ERenderFinish        BY <1>10 DEF ERenderFinish, draw_done
<1> QED BY <1>1, <1>2, <1>3, <1>4, <1>5, <1>6, <1>7, <1>8, <1>9, <1>10 DEF Engine

LEMMA EngineTrueStep ==
  ASSUME SceneTypeOK, EngineTrue, NEW ready \in BOOLEAN, NEW done \in BOOLEAN,
         Engine(ready, done)
  PROVE  EngineTrue'
<1> USE DEF SceneTypeOK, EngineAt, NoDrawDone, submission, EStates, StartLoad, HandBack,
            AtWork, EngineTrue
<1>1. CASE EngineAbort           BY <1>1 DEF EngineAbort
<1>2. CASE EIdle                 BY <1>2 DEF EIdle
<1>3. CASE ELoad                 BY <1>3 DEF ELoad
<1>4. CASE EFail                 BY <1>4 DEF EFail
<1>5. CASE EReady                BY <1>5 DEF EReady
<1>6. CASE ERender               BY <1>6 DEF ERender
<1>7. CASE EWrite(ready)         BY <1>7 DEF EWrite, AfterSubmit
<1>8. CASE EWaitFrame(ready, done)  BY <1>8 DEF EWaitFrame
<1>9. CASE EClearDone(ready)     BY <1>9 DEF EClearDone
<1>10. CASE ERenderFinish        BY <1>10 DEF ERenderFinish, draw_done
<1> QED BY <1>1, <1>2, <1>3, <1>4, <1>5, <1>6, <1>7, <1>8, <1>9, <1>10 DEF Engine

(* Without automatic presentation, as in command mode, no step of a DRAW   *)
(* or of a render leads to a present.                                      *)
LEMMA DrawOnly ==
  ASSUME SceneTypeOK, ~auto_present, NEW ready \in BOOLEAN, NEW done \in BOOLEAN,
         Engine(ready, done),
         AtWork => /\ estate \notin {"WAIT_FRAME", "CLEAR_DONE"}
                   /\ estate = "CMD_WRITE" => cmd_kind = "draw"
  PROVE  /\ estate' \notin {"WAIT_FRAME", "CLEAR_DONE"}
         /\ estate' = "CMD_WRITE" => cmd_kind' = "draw"
<1> USE DEF SceneTypeOK, EngineAt, NoDrawDone, submission, EStates, StartLoad, AtWork
<1>1. CASE EngineAbort           BY <1>1 DEF EngineAbort
<1>2. CASE EIdle                 BY <1>2 DEF EIdle
<1>3. CASE ELoad                 BY <1>3 DEF ELoad
<1>4. CASE EFail                 BY <1>4 DEF EFail
<1>5. CASE EReady                BY <1>5 DEF EReady
<1>6. CASE ERender               BY <1>6 DEF ERender
<1>7. CASE EWrite(ready)         BY <1>7 DEF EWrite, AfterSubmit
<1>8. CASE EWaitFrame(ready, done)  BY <1>8 DEF EWaitFrame
<1>9. CASE EClearDone(ready)     BY <1>9 DEF EClearDone
<1>10. CASE ERenderFinish        BY <1>10 DEF ERenderFinish, HandBack
<1> QED BY <1>1, <1>2, <1>3, <1>4, <1>5, <1>6, <1>7, <1>8, <1>9, <1>10 DEF Engine

(* A DRAW given to a waiting engine starts it or is refused with the       *)
(* error, and an engine at work on one stays at work until it reports.     *)
LEMMA DrawStep ==
  ASSUME SceneTypeOK, cmd_mode, ~load_start, EngineTrue, cache_valid, cache_valid',
         NEW ready \in BOOLEAN, NEW done \in BOOLEAN, Engine(ready, done),
         AtWork => estate \notin {"WAIT_FRAME", "CLEAR_DONE"},
         cmd_draw_start \/ engine_busy
  PROVE  engine_busy' \/ cmd_draw_done' \/ engine_error'
<1> USE DEF SceneTypeOK, EngineAt, NoDrawDone, submission, EngineTrue, AtWork
<1>1. CASE EngineAbort           BY <1>1 DEF EngineAbort
<1>2. CASE EIdle                 BY <1>2 DEF EIdle
<1>3. CASE ELoad                 BY <1>3 DEF ELoad
<1>4. CASE EFail                 BY <1>4 DEF EFail
<1>5. CASE EReady                BY <1>5 DEF EReady, single_start, draw_start
<1>6. CASE ERender               BY <1>6 DEF ERender
<1>7. CASE EWrite(ready)         BY <1>7 DEF EWrite
<1>8. CASE EWaitFrame(ready, done)  BY <1>8 DEF EWaitFrame
<1>9. CASE EClearDone(ready)     BY <1>9 DEF EClearDone
<1>10. CASE ERenderFinish        BY <1>10 DEF ERenderFinish, draw_done
<1> QED BY <1>1, <1>2, <1>3, <1>4, <1>5, <1>6, <1>7, <1>8, <1>9, <1>10 DEF Engine

-----------------------------------------------------------------------------
(* A clock in reset.  Only the register bank lives on, and no strobe rises *)
(* with the reset.                                                         *)
LEMMA ResetClock ==
  ASSUME SInv, NEW w, GoodWrite(w), w.reg # "NONE" => CpuMay, SceneRegs(w),
         in_reset, ResetQueue, ResetSeq, ResetEngine
  PROVE  SInv'
<1> USE DEF SInv, ResetQueue, ResetSeq, ResetEngine
<1>1. SceneTypeOK'
  <2>1. /\ queue' \in Seq(Kinds) /\ Len(queue') <= QDepth
        /\ cmd_frame_count' \in 0 .. CountMod - 1 /\ to_submit' \in 0 .. MaxTris
    BY Bounds
  <2> QED BY <2>1, RegsTypes DEF SceneTypeOK, QStates, EStates
<1>2. ~cmd_push' /\ ~load_start'
  BY RegsStep
<1> QED
  BY <1>1, <1>2
  DEF ModeStable, FrameLocked, Released, LoadAlone, PushKept, EngineTrue, EngineServes,
      DrawServed, AtWork

(* A working clock: register bank, FIFO, sequencer and engine together.    *)
WorkingClock(w, ready, done) ==
  /\ w.reg # "NONE" => CpuMay
  /\ SceneRegs(w) /\ ~in_reset /\ Queue /\ Sequencer(ready, done) /\ Engine(ready, done)

LEMMA TypesKept ==
  ASSUME SceneTypeOK, NEW w, GoodWrite(w), NEW ready \in BOOLEAN, NEW done \in BOOLEAN,
         WorkingClock(w, ready, done)
  PROVE  SceneTypeOK'
BY RegsTypes, LevelStep, SequencerTypes, EngineTypes DEF SceneTypeOK, WorkingClock

(* A frame is executed under the lock, and nothing of it changes under the *)
(* sequencer: a write that the guard let pass found the controller at rest.*)
LEMMA FrameKept ==
  ASSUME SInv, NEW w, GoodWrite(w), NEW ready \in BOOLEAN, NEW done \in BOOLEAN,
         WorkingClock(w, ready, done)
  PROVE  ModeStable' /\ FrameLocked' /\ Released' /\ LoadAlone'
<1>1. SceneTypeOK /\ ModeStable /\ FrameLocked /\ Released /\ LoadAlone
  BY DEF SInv
<1>2. /\ cmd_mode' # cmd_mode => CpuMay /\ ~busy
      /\ load_start' => CpuMay /\ ~busy
  BY <1>1, RegsStep DEF WorkingClock
<1>3. ~busy => ~cmd_locked /\ qstate = "Q_IDLE" /\ qstate' = "Q_IDLE"
  BY <1>1, SequencerStep DEF WorkingClock, busy, frame_ready
<1>4. ModeStable'
  <2>1. CASE cmd_mode' = cmd_mode
    BY <1>1, <2>1, SequencerStep DEF WorkingClock, ModeStable, frame_ready
  <2>2. CASE cmd_mode' # cmd_mode
    BY <1>2, <1>3, <2>2 DEF ModeStable
  <2> QED BY <2>1, <2>2
<1>5. FrameLocked'
  <2> SUFFICES ASSUME qstate' \notin {"Q_IDLE", "Q_FAIL"} PROVE cmd_locked'
    BY DEF FrameLocked
  <2>1. qstate # "Q_FAIL" /\ (qstate = "Q_IDLE" => frame_ready)
    BY <1>1, SequencerStep DEF WorkingClock
  <2>2. cmd_locked /\ ~fifo_complete /\ ~fifo_error
    BY <1>1, <2>1 DEF FrameLocked, Released, frame_ready
  <2> QED BY <1>1, <2>2, LevelStep DEF WorkingClock
<1>6. Released'
  BY <1>1, SequencerStep DEF WorkingClock, Released
<1>7. LoadAlone'
  <2> SUFFICES ASSUME load_start' PROVE ~cmd_locked' /\ qstate' = "Q_IDLE"
    BY DEF LoadAlone
  <2>1. ~cmd_locked /\ ~cmd_frame_start /\ qstate' = "Q_IDLE"
    BY <1>2, <1>3 DEF CpuMay
  <2> QED BY <1>1, <2>1, LevelStep DEF WorkingClock
<1> QED BY <1>4, <1>5, <1>6, <1>7

(* The clock between the guard of CMD_PUSH and the FIFO closes nothing and *)
(* fills nothing.                                                          *)
LEMMA PushStays ==
  ASSUME SInv, NEW w, GoodWrite(w), NEW ready \in BOOLEAN, NEW done \in BOOLEAN,
         WorkingClock(w, ready, done)
  PROVE  PushKept'
<1> SUFFICES ASSUME cmd_push', ~engine_error'
             PROVE  Pushed' # <<>> /\ ~fifo_complete' /\ ~fifo_error'
  BY DEF PushKept
<1>1. SceneTypeOK /\ ModeStable /\ FrameLocked /\ SceneTypeOK'
  BY TypesKept DEF SInv
<1>2. CpuMay /\ cmd_mode /\ ~cmd_locked /\ Len(queue) < QDepth /\ cmd_mode' = cmd_mode
  BY <1>1, RegsStep DEF WorkingClock, push_accepted, cmd_ready
<1>3. ~cmd_locked' /\ Len(queue') <= Len(queue)
  BY <1>1, <1>2, LevelStep DEF WorkingClock, CpuMay
<1>4. Pushed' # <<>>
  <2>1. QDepth \in Nat /\ Len(queue) \in Nat /\ Len(queue') \in Nat
    BY <1>1, Bounds DEF SceneTypeOK
  <2>2. Len(queue') < QDepth
    BY <1>2, <1>3, <2>1
  <2>3. Pushed' = <<cmd_data'>>
    BY <1>2, <1>3, <2>2 DEF Pushed, cmd_ready
  <2> QED BY <2>3
<1>5. qstate \in {"Q_IDLE", "Q_FAIL"} /\ ~engine_error
  <2>1. ~load_start
    BY <1>2 DEF CpuMay
  <2> QED BY <1>1, <1>2, <2>1, EngineStep DEF WorkingClock, FrameLocked
<1>6. ~fifo_complete' /\ ~fifo_error'
  BY <1>1, <1>5, SequencerStep DEF WorkingClock
<1> QED BY <1>4, <1>6

(* The engine under a frame: it keeps the model, works for the DRAW in     *)
(* progress only, and its pulses reach a sequencer that waits for them.    *)
LEMMA ServesKept ==
  ASSUME SInv, NEW w, GoodWrite(w), NEW ready \in BOOLEAN, NEW done \in BOOLEAN,
         WorkingClock(w, ready, done)
  PROVE  EngineServes'
<1>1. SceneTypeOK /\ ModeStable /\ LoadAlone /\ EngineTrue /\ EngineServes
  BY DEF SInv
<1>2. ASSUME qstate' # "Q_IDLE"
      PROVE  estate' \notin {"LOAD", "FAIL"} /\ (estate' = "READY" => cache_valid')
  <2>1. qstate # "Q_IDLE" \/ (cmd_locked /\ cache_valid)
    BY <1>1, <1>2, SequencerStep DEF WorkingClock, frame_ready
  <2>2. ~load_start /\ estate \notin {"LOAD", "FAIL"}
    BY <1>1, <2>1 DEF LoadAlone, EngineServes, EngineTrue, AtWork
  <2> QED BY <1>1, <2>2, EngineStep DEF WorkingClock, EngineTrue
<1>3. cmd_mode' /\ (AtWork \/ AtWork') => cmd_mode
  <2> SUFFICES ASSUME cmd_mode' # cmd_mode PROVE ~AtWork /\ ~AtWork'
    BY <1>1 DEF SceneTypeOK
  <2>1. CpuMay /\ ~busy
    BY <1>1, RegsStep DEF WorkingClock
  <2>2. ~AtWork /\ ~render_start /\ ~cmd_draw_start
    BY <1>1, <2>1 DEF CpuMay, busy, EngineTrue, EngineServes
  <2> QED BY <1>1, <2>2, EngineStep DEF WorkingClock, single_start, draw_start
<1>4. cmd_mode /\ AtWork => qstate' \in {"Q_DRAW_WAIT", "Q_FAIL"}
  <2> SUFFICES ASSUME cmd_mode, AtWork PROVE qstate' \in {"Q_DRAW_WAIT", "Q_FAIL"}
    OBVIOUS
  <2>1. qstate \in {"Q_DRAW_WAIT", "Q_FAIL"} /\ ~cmd_draw_done
    BY <1>1 DEF EngineServes, AtWork
  <2> QED BY <1>1, <2>1, SequencerStep DEF WorkingClock, draw_over
<1>5. ASSUME cmd_mode', AtWork'
      PROVE  /\ qstate' \in {"Q_DRAW_WAIT", "Q_FAIL"}
             /\ estate' \notin {"WAIT_FRAME", "CLEAR_DONE"}
             /\ estate' = "CMD_WRITE" => cmd_kind' = "draw"
  <2>1. cmd_mode
    BY <1>3, <1>5
  <2>2. CASE ~AtWork
    <3>1. cmd_draw_start
      BY <1>1, <1>5, <2>1, <2>2, EngineStep DEF WorkingClock, single_start, draw_start
    <3>2. qstate = "Q_DRAW_WAIT" /\ ~cmd_draw_done
      BY <1>1, <3>1 DEF EngineServes
    <3>3. qstate' \in {"Q_DRAW_WAIT", "Q_FAIL"}
      BY <1>1, <3>2, SequencerStep DEF WorkingClock, draw_over
    <3> QED BY <1>1, <2>1, <2>2, <3>3, DrawOnly DEF WorkingClock, auto_present
  <2>3. CASE AtWork
    BY <1>1, <1>4, <2>1, <2>3, DrawOnly DEF WorkingClock, EngineServes, auto_present
  <2> QED BY <2>2, <2>3
<1>6. cmd_draw_done' => /\ cmd_mode /\ AtWork /\ estate' = "READY"
                        /\ qstate' \in {"Q_DRAW_WAIT", "Q_FAIL"}
  BY <1>1, <1>4, EngineStep DEF WorkingClock, AtWork
<1>7. ASSUME cmd_draw_start' PROVE qstate' = "Q_DRAW_WAIT" /\ ~cmd_draw_done'
  <2>1. qstate = "Q_DISPATCH" /\ qstate' = "Q_DRAW_WAIT"
    BY <1>1, <1>7, SequencerStep DEF WorkingClock
  <2> QED BY <1>1, <1>6, <2>1 DEF EngineServes
<1> QED BY <1>2, <1>5, <1>6, <1>7 DEF EngineServes

LEMMA DrawKept ==
  ASSUME SInv, NEW w, GoodWrite(w), NEW ready \in BOOLEAN, NEW done \in BOOLEAN,
         WorkingClock(w, ready, done)
  PROVE  DrawServed'
<1> SUFFICES ASSUME qstate' = "Q_DRAW_WAIT", cache_valid'
             PROVE  cmd_draw_start' \/ engine_busy' \/ cmd_draw_done' \/ engine_error'
  BY DEF DrawServed
<1>1. SceneTypeOK /\ ModeStable /\ LoadAlone /\ EngineTrue /\ EngineServes /\ DrawServed
  BY DEF SInv
<1>2. CASE qstate # "Q_DRAW_WAIT"
  BY <1>1, <1>2, SequencerStep DEF WorkingClock
<1>3. CASE qstate = "Q_DRAW_WAIT"
  <2>1. cmd_mode /\ ~engine_error /\ ~cmd_draw_done /\ ~load_start
    BY <1>1, <1>3, SequencerStep DEF WorkingClock, ModeStable, LoadAlone, draw_over
  <2>2. cache_valid
    BY <1>1, <1>3, EngineStep DEF WorkingClock, EngineServes
  <2>3. cmd_draw_start \/ engine_busy
    BY <1>1, <1>3, <2>1, <2>2 DEF DrawServed
  <2>4. AtWork => estate \notin {"WAIT_FRAME", "CLEAR_DONE"}
    BY <1>1, <2>1 DEF EngineServes
  <2> QED BY <1>1, <2>1, <2>2, <2>3, <2>4, DrawStep DEF WorkingClock
<1> QED BY <1>2, <1>3

(* A clock of the controller, whatever is written and answered.            *)
LEMMA ClockKeepsScene ==
  ASSUME SInv, NEW w, GoodWrite(w), NEW ready \in BOOLEAN, NEW done \in BOOLEAN,
         SceneClock(w, ready, done)
  PROVE  SInv'
<1>1. CASE in_reset
  BY <1>1, ResetClock DEF SceneClock
<1>2. CASE ~in_reset
  <2>1. WorkingClock(w, ready, done)
    BY <1>2 DEF SceneClock, WorkingClock
  <2>2. SceneTypeOK' /\ EngineTrue'
    BY <2>1, TypesKept, EngineTrueStep DEF SInv, WorkingClock
  <2> QED BY <2>1, <2>2, FrameKept, PushStays, ServesKept, DrawKept DEF SInv
<1> QED BY <1>1, <1>2

LEMMA SceneStep == SInv /\ [SceneNext]_scene_vars => SInv'
<1> SUFFICES ASSUME SInv, [SceneNext]_scene_vars PROVE SInv'
  OBVIOUS
<1>1. CASE SceneNext
  <2>1. PICK w \in Writes, ready \in BOOLEAN, done \in BOOLEAN : SceneClock(w, ready, done)
    BY <1>1 DEF SceneNext
  <2> QED BY <2>1, WritesGood, ClockKeepsScene
<1>2. CASE UNCHANGED scene_vars
  BY <1>2
  DEF scene_vars, reg_vars, strobe_vars, queue_vars, seq_vars, engine_vars, SInv, SceneTypeOK,
      ModeStable, FrameLocked, Released, LoadAlone, PushKept, EngineTrue, EngineServes,
      DrawServed, AtWork, Pushed, cmd_ready
<1> QED BY <1>1, <1>2

LEMMA SceneInvariant == SceneSpec => []SInv
BY SceneStarts, SceneStep, PTL DEF SceneSpec

(* What the invariant says of the controller.                              *)
LEMMA ScenePromises == SInv => PipelineSound /\ PushKept /\ PacketExclusive /\ DrawServed
BY DEF SInv, PipelineSound, PacketExclusive, ModeStable, EngineServes, AtWork, front_mmio_valid,
       engine_mmio_valid

-----------------------------------------------------------------------------
(* The registers keep their types, a frame is never executed outside       *)
(* command mode, and only under the lock.                                  *)
THEOREM PipelineIsSound == SceneSpec => []PipelineSound
<1> QED BY ScenePromises, SceneInvariant, PTL

(* A command whose push the register bank accepts is in the FIFO a clock   *)
(* later.                                                                  *)
THEOREM PushesAreKept == SceneSpec => []PushKept
<1> QED BY ScenePromises, SceneInvariant, PTL

(* Sequencer and engine never drive the SketchBook port together: in a     *)
(* frame the engine renders only while the sequencer waits for its DRAW.   *)
THEOREM PortIsShared == SceneSpec => []PacketExclusive
<1> QED BY ScenePromises, SceneInvariant, PTL

(* The sequencer never waits for a DRAW that nobody executes.              *)
THEOREM NoDrawLost == SceneSpec => []DrawServed
<1> QED BY ScenePromises, SceneInvariant, PTL

-----------------------------------------------------------------------------
(* THE CONTROLLER AND THE UI THREAD                                        *)
(* What the theorems assume of the application: it does not interrupt a    *)
(* model that presents by itself.  scene_stop looks at SWAP_PENDING only,  *)
(* and a PRESENT the engine has just pushed is not there yet.  (sk_os      *)
(* interrupts no render and sets no AUTO_PRESENT.)                         *)
NoAbandonedPresent == \A c \in Stoppable : "AUTO_PRESENT" \notin c

(***************************************************************************)
(* The inductive invariant, part one: what the controller is at while the  *)
(* UI thread is where it is.  Outside its own waits the thread finds the   *)
(* controller at rest, so that the port is its own.                        *)
(***************************************************************************)
StopPCs == {"stop", "abort", "stopping"}
WaitPCs == {"loading", "rendering", "count"} \cup StopPCs
RestPCs == UiPCs \ (WaitPCs \cup {"hung"})
FramePCs == {"note", "draw_ready", "draw_push", "present_ready", "present_push",
             "start", "count"}

NoStart == ~cmd_frame_start /\ ~load_start /\ ~render_start
Resting == ~busy /\ ~fifo_complete /\ NoStart
NoFrame == ~cmd_locked /\ qstate = "Q_IDLE" /\ ~fifo_complete /\ ~cmd_frame_start

LoadPhase   == NoFrame /\ ~render_start /\ ~AtWork
RenderPhase == NoFrame /\ ~load_start /\ ~cmd_mode

(* A command frame: a DRAW and the PRESENT, from FRAME_START until the     *)
(* sequencer has retired it.  Counted: it is not retired yet.              *)
Job     == <<"DRAW", "PRESENT">>
Counted == cmd_frame_count = seen
Started == ~busy /\ ~fifo_complete /\ cmd_frame_start /\ ~load_start /\ ~render_start
Running ==
  /\ cmd_locked /\ NoStart /\ (fifo_complete \/ Counted)
  /\ qstate = "Q_IDLE" => ~engine_busy /\ (fifo_complete \/ queue = Job)
  /\ qstate = "Q_DISPATCH" => queue \in {Job, Tail(Job)}
  /\ qstate = "Q_DRAW_WAIT" => \/ fifo_pop /\ queue = Job /\ draw_ok
                               \/ ~fifo_pop /\ queue = Tail(Job) /\ ~cmd_draw_start
  /\ qstate = "Q_MMIO" => present_pending
FramePhase ==
  \/ Started /\ queue = Job /\ Counted
  \/ Resting /\ queue = Job /\ Counted                       \* start refused
  \/ Running
  \/ Resting /\ queue = <<>>                                 \* retired

Phase ==
  /\ ui \in RestPCs => Resting
  /\ ui = "loading" => LoadPhase
  /\ ui = "rendering" => RenderPhase
  /\ ui = "stop" => Resting \/ (RenderPhase /\ MayInterrupt)
  /\ ui \in {"abort", "stopping"} => RenderPhase /\ MayInterrupt
  /\ ui = "count" => FramePhase

(* The commands of a frame before it is started.                           *)
Assembled ==
  /\ ui \notin {"present_ready", "present_push", "start", "count"} => queue = <<>>
  /\ ui \notin {"present_ready", "start"} => ~cmd_push
  /\ ui = "present_ready" =>
       IF cmd_push THEN cmd_data = "DRAW" /\ queue = <<>> ELSE queue = <<"DRAW">>
  /\ ui = "present_push" => queue = <<"DRAW">> /\ 1 < QDepth
  /\ ui = "start" =>
       IF cmd_push THEN cmd_data = "PRESENT" /\ queue = <<"DRAW">> /\ 1 < QDepth
       ELSE queue = Job
  /\ ui \in FramePCs \ {"note", "count"} => Counted

(* The pulses and errors of the controller.                                *)
Orderly ==
  /\ ~front_error /\ qstate # "Q_FAIL" /\ ~soft_reset
  /\ fifo_pop => qstate \in {"Q_DRAW_WAIT", "Q_MMIO"}
  /\ abort => ui = "stopping"

(* What the thread knows of the mode and the loaded model.                 *)
Tied ==
  /\ ui \in UiPCs \ {"hung"} /\ op \in {"draw", "present", "render", "frame"}
  /\ loaded \in {"none", "render", "frame"}
  /\ loaded = "frame" => cmd_mode /\ ~engine_error
  /\ loaded = "render" => ~cmd_mode
  /\ ui \in FramePCs => loaded = "frame"
  /\ ui \in {"render", "rendering"} => loaded = "render"
  /\ ui \in {"mode", "start_load", "loading"} => loaded = "none" /\ op \in {"render", "frame"}
  /\ ui \in {"start_load", "loading"} => cmd_mode = (op = "frame")
  /\ ui = "cfg" => op = "render" /\ loaded # "frame"
  /\ ui \in {"poll", "load", "push"} /\ op = "present" => loaded # "frame"
  /\ ui \in {"wait", "clear"} => loaded # "frame"

(* The engine presents by itself only where nobody interrupts it.          *)
Presenting == \/ estate \in {"WAIT_FRAME", "CLEAR_DONE"}
              \/ estate = "CMD_WRITE" /\ cmd_kind = "present"
Alone == Presenting => ~MayInterrupt /\ ~cmd_mode

SceneSide == SInv /\ Phase /\ Assembled /\ Orderly /\ Tied /\ Alone

(***************************************************************************)
(* Part two: the SketchBook side.  Whoever is about to push finds no other *)
(* push before it, and whoever waits for a completion is the one whose     *)
(* PRESENT is under way.                                                   *)
(***************************************************************************)
Pushing == \/ ui = "push"
           \/ qstate = "Q_MMIO" /\ mmio_phase = 1
           \/ estate = "CMD_WRITE" /\ write_phase = 1
Pushes ==
  /\ PacketIntact
  /\ ui \in {"poll", "load"} \/ Pushing => ~cmd_push_strobe
  /\ ui \in {"load", "push"} \/ cmd_push_strobe => fifo_count # Depth

Waiting  == ui = "wait" \/ estate = "WAIT_FRAME" \/ qstate = "Q_PRESENT_WAIT"
Clearing == ui = "clear" \/ estate = "CLEAR_DONE"
Free == Settled /\ ~swap_done
Due  == Underway /\ ~swap_done /\ ~frame_done_sticky
Done == Settled /\ (swap_done \/ frame_done_sticky)
Owned ==
  /\ Waiting => Due \/ Done
  /\ Clearing => Free /\ frame_done_sticky
  /\ qstate = "Q_PRESENT_CLEAR" => Strobed /\ ~swap_done
  /\ ~Waiting /\ ~Clearing /\ qstate # "Q_PRESENT_CLEAR" =>
       Free /\ (frame_done_sticky => loaded = "frame")

SketchSide == FInv /\ PagesShown /\ Undisturbed /\ Pushes /\ Owned

SysInv == SceneSide /\ SketchSide

-----------------------------------------------------------------------------
(* The commands of a frame.                                                *)
LEMMA JobCommands ==
  /\ Job \in Seq(Kinds) /\ Job # <<>> /\ Head(Job) = "DRAW"
  /\ Tail(Job) = <<"PRESENT">> /\ Tail(Job) # <<>> /\ Head(Tail(Job)) = "PRESENT"
  /\ <<>> \o <<"DRAW">> = <<"DRAW">> /\ <<"DRAW">> \o <<"PRESENT">> = Job
  /\ Len(<<"DRAW">>) = 1 /\ Len(Job) = 2
<1> USE DEF Job, Kinds
<1>1. Job \in Seq(Kinds) /\ Len(Job) = 2 /\ Len(<<"DRAW">>) = 1
  OBVIOUS
<1>2. Job # <<>> /\ Head(Job) = "DRAW"
  OBVIOUS
<1>3. Tail(Job) = <<"PRESENT">>
  OBVIOUS
<1>4. <<"PRESENT">> # <<>> /\ Head(<<"PRESENT">>) = "PRESENT"
  OBVIOUS
<1>5. <<>> \o <<"DRAW">> = <<"DRAW">>
  OBVIOUS
<1>6. <<"DRAW">> \o <<"PRESENT">> = Job
  <2>1. /\ <<"DRAW">> \o <<"PRESENT">> \in Seq(Kinds)
        /\ Len(<<"DRAW">> \o <<"PRESENT">>) = 2
        /\ \A i \in 1 .. 2 : (<<"DRAW">> \o <<"PRESENT">>)[i] = Job[i]
    BY ConcatProperties
  <2> QED BY <1>1, <2>1, SeqEqual
<1> QED BY <1>1, <1>2, <1>3, <1>4, <1>5, <1>6

(* A clock with no frame: the sequencer stays idle and the queue only      *)
(* takes what is pushed.                                                   *)
LEMMA NoFrameStep ==
  ASSUME SInv, Orderly, NoFrame, NEW w, GoodWrite(w), NEW ready \in BOOLEAN,
         NEW done \in BOOLEAN, WorkingClock(w, ready, done)
  PROVE  /\ ~cmd_locked' /\ qstate' = "Q_IDLE" /\ ~fifo_complete' /\ ~fifo_pop'
         /\ ~front_error' /\ ~cmd_draw_start /\ cmd_frame_count' = cmd_frame_count
         /\ queue' = IF cmd_push /\ cmd_mode /\ Len(queue) < QDepth
                     THEN queue \o <<cmd_data>> ELSE queue
<1>1. SceneTypeOK /\ ~fifo_error /\ ~cmd_draw_start
  BY DEF SInv, Released, Orderly, EngineServes, NoFrame
<1>2. ~frame_ready
  BY DEF NoFrame, frame_ready
<1>3. QIdle
  BY <1>1
  DEF WorkingClock, NoFrame, Sequencer, QAbandon, Sequencing, QBadCommand, QSubmit, QDraw,
      QDrawWait, QMmio, QPresentClear, QPresentWait, QFail
<1>4. ~cmd_locked' /\ queue' = Popped \o Pushed
  BY <1>1 DEF WorkingClock, Queue, NoFrame, SceneTypeOK
<1>5. Popped = queue
  BY DEF Popped, NoFrame
<1>6. queue' = IF cmd_push /\ cmd_mode /\ Len(queue) < QDepth
               THEN queue \o <<cmd_data>> ELSE queue
  <2>1. CASE cmd_push /\ cmd_mode /\ Len(queue) < QDepth
    BY <1>4, <1>5, <2>1 DEF Pushed, cmd_ready, NoFrame
  <2>2. CASE ~(cmd_push /\ cmd_mode /\ Len(queue) < QDepth)
    <3>1. Pushed = <<>>
      BY <2>2 DEF Pushed, cmd_ready
    <3> QED BY <1>1, <1>4, <1>5, <2>2, <3>1 DEF SceneTypeOK
  <2> QED BY <2>1, <2>2
<1> QED BY <1>1, <1>2, <1>3, <1>4, <1>6 DEF QIdle, NoPulse, Pulses, Orderly

(* An engine with nothing to do does nothing.                              *)
LEMMA EngineRests ==
  ASSUME SceneTypeOK, EngineTrue, ~engine_busy, ~load_start, ~render_start, ~cmd_draw_start,
         NEW ready \in BOOLEAN, NEW done \in BOOLEAN, Engine(ready, done)
  PROVE  /\ ~engine_busy' /\ engine_error' = engine_error
         /\ ~abort => cache_valid' = cache_valid
<1>1. estate = "IDLE" \/ (estate = "READY" /\ cache_valid)
  BY DEF EngineTrue, AtWork, SceneTypeOK, EStates
<1> USE DEF SceneTypeOK
<1>2. CASE EngineAbort
  BY <1>2 DEF EngineAbort
<1>3. CASE EIdle
  BY <1>3 DEF EIdle
<1>4. CASE EReady
  BY <1>1, <1>4 DEF EReady, EngineAt, single_start, draw_start
<1> QED
  BY <1>1, <1>2, <1>3, <1>4
  DEF Engine, EngineAt, ELoad, EFail, ERender, EWrite, EWaitFrame, EClearDone, ERenderFinish

(* A clock that finds the controller at rest: it stays so, but for the     *)
(* strobe of the write it answers.                                         *)
LEMMA RestingStep ==
  ASSUME SInv, Orderly, Resting, ~abort, NEW w, GoodWrite(w), NEW ready \in BOOLEAN,
         NEW done \in BOOLEAN, WorkingClock(w, ready, done)
  PROVE  /\ ~busy' /\ ~fifo_complete' /\ ~fifo_pop' /\ ~front_error'
         /\ engine_error' = engine_error /\ cmd_frame_count' = cmd_frame_count
         /\ queue' = IF cmd_push /\ cmd_mode /\ Len(queue) < QDepth
                     THEN queue \o <<cmd_data>> ELSE queue
         /\ cmd_mode' = IF w.reg = "CMD_CFG" THEN w.on ELSE cmd_mode
         /\ load_start' => w.reg = "LOAD"
         /\ render_start' => w.reg = "RENDER"
         /\ cmd_frame_start' => w.reg = "FRAME_START"
         /\ abort' => w.reg = "ABORT"
         /\ soft_reset' => w.reg = "SOFT_RESET"
<1>1. NoFrame /\ ~engine_busy
  BY DEF Resting, NoFrame, NoStart, busy
<1>2. /\ ~cmd_locked' /\ qstate' = "Q_IDLE" /\ ~fifo_complete' /\ ~fifo_pop'
      /\ ~front_error' /\ ~cmd_draw_start /\ cmd_frame_count' = cmd_frame_count
      /\ queue' = IF cmd_push /\ cmd_mode /\ Len(queue) < QDepth
                  THEN queue \o <<cmd_data>> ELSE queue
  BY <1>1, NoFrameStep
<1>3. ~engine_busy' /\ engine_error' = engine_error
  BY <1>1, <1>2, EngineRests DEF SInv, WorkingClock, Resting, NoStart
<1> QED
  BY <1>2, <1>3 DEF WorkingClock, SceneRegs, Resting, busy, cfg_accepted

-----------------------------------------------------------------------------
(***************************************************************************)
(* A frame in progress.  Each step of the sequencer is one of these; none  *)
(* of them fails, since the mode stands, the queue holds what the thread   *)
(* pushed, and the engine has no error.                                    *)
(***************************************************************************)
LEMMA FrameMoves ==
  ASSUME SInv, Orderly, Running, cmd_mode, ~engine_error,
         NEW ready \in BOOLEAN, NEW done \in BOOLEAN, Sequencer(ready, done)
  PROVE  /\ ~front_error' /\ qstate' # "Q_FAIL"
         /\ qstate = "Q_IDLE" =>
              qstate' = (IF frame_ready THEN "Q_DISPATCH" ELSE "Q_IDLE")
         /\ qstate = "Q_DISPATCH" /\ queue = Job =>
              qstate' = "Q_DRAW_WAIT" /\ fifo_pop' /\ draw_ok'
         /\ qstate = "Q_DISPATCH" /\ queue # Job =>
              qstate' = "Q_MMIO" /\ mmio_phase' = 0 /\ present_pending'
         /\ qstate = "Q_DRAW_WAIT" =>
              qstate' \in {"Q_DRAW_WAIT", "Q_DISPATCH"} /\ ~cmd_draw_start'
         /\ qstate = "Q_MMIO" =>
              IF ready /\ mmio_phase = 1 THEN qstate' = "Q_PRESENT_CLEAR"
              ELSE /\ qstate' = "Q_MMIO" /\ present_pending'
                   /\ mmio_phase' = IF ready THEN 1 ELSE mmio_phase
         /\ qstate = "Q_PRESENT_CLEAR" =>
              qstate' = (IF ready THEN "Q_PRESENT_WAIT" ELSE "Q_PRESENT_CLEAR")
         /\ qstate = "Q_PRESENT_WAIT" =>
              qstate' = (IF ready /\ done THEN "Q_IDLE" ELSE "Q_PRESENT_WAIT")
         /\ fifo_complete' = (qstate = "Q_PRESENT_WAIT" /\ ready /\ done)
         /\ ~fifo_complete' => cmd_frame_count' = cmd_frame_count
         /\ fifo_pop' => qstate' \in {"Q_DRAW_WAIT", "Q_MMIO"}
<1> USE DEF Pulses, NoPulse, Sequencing, Orderly
<1>1. qstate \in QStates
  BY DEF SInv, SceneTypeOK
<1>2. qstate = "Q_DISPATCH" => fifo_head = IF queue = Job THEN "DRAW" ELSE "PRESENT"
  BY JobCommands DEF Running, fifo_head
<1>3. CASE QIdle                 BY <1>3 DEF QIdle
<1>4. CASE QSubmit               BY <1>2, <1>4 DEF QSubmit
<1>5. CASE QDraw                 BY <1>2, <1>5 DEF QDraw
<1>6. CASE QDrawWait             BY <1>6 DEF QDrawWait
<1>7. CASE QMmio(ready)          BY <1>7 DEF QMmio, after_submit, Running
<1>8. CASE QPresentClear(ready)  BY <1>8 DEF QPresentClear
<1>9. CASE QPresentWait(ready, done)  BY <1>9 DEF QPresentWait
<1>10. ~QBadCommand /\ ~QFail /\ ~QAbandon
  BY <1>2 DEF QBadCommand, QFail, QAbandon
<1> QED BY <1>3, <1>4, <1>5, <1>6, <1>7, <1>8, <1>9, <1>10 DEF Sequencer

(* The only error of a loaded model is a DRAW of a mesh it lacks.          *)
LEMMA NoError ==
  ASSUME SceneTypeOK, ~engine_error, estate # "FAIL", cmd_draw_start => draw_ok,
         NEW ready \in BOOLEAN, NEW done \in BOOLEAN, Engine(ready, done)
  PROVE  ~engine_error'
<1> USE DEF SceneTypeOK, EngineAt, StartLoad, HandBack
<1>1. CASE EngineAbort           BY <1>1 DEF EngineAbort
<1>2. CASE EIdle                 BY <1>2 DEF EIdle
<1>3. CASE ELoad                 BY <1>3 DEF ELoad
<1>4. CASE EFail                 BY <1>4 DEF EFail
<1>5. CASE EReady                BY <1>5 DEF EReady, draw_start
<1>6. CASE ERender               BY <1>6 DEF ERender
<1>7. CASE EWrite(ready)         BY <1>7 DEF EWrite
<1>8. CASE EWaitFrame(ready, done)  BY <1>8 DEF EWaitFrame
<1>9. CASE EClearDone(ready)     BY <1>9 DEF EClearDone
<1>10. CASE ERenderFinish        BY <1>10 DEF ERenderFinish
<1> QED BY <1>1, <1>2, <1>3, <1>4, <1>5, <1>6, <1>7, <1>8, <1>9, <1>10 DEF Engine

(* The frame goes on until the clock after its completion, which finds the *)
(* queue empty.                                                            *)
LEMMA RunningStep ==
  ASSUME SInv, Orderly, Running, cmd_mode, ~engine_error, ~abort, seen' = seen,
         NEW w, w.reg = "NONE", NEW ready \in BOOLEAN, NEW done \in BOOLEAN,
         WorkingClock(w, ready, done)
  PROVE  /\ IF fifo_complete THEN Resting' /\ queue' = <<>> /\ cmd_frame_count' = cmd_frame_count
            ELSE Running'
         /\ ~engine_error' /\ cmd_mode'
<1> USE DEF Running, NoStart
<1>1. /\ SceneTypeOK /\ Released /\ EngineTrue /\ EngineServes
      /\ qstate \in QStates /\ ~fifo_error
  BY DEF SInv, SceneTypeOK, Released, Orderly
<1>2. GoodWrite(w)
  BY DEF GoodWrite
<1>3. NoStart' /\ cmd_mode'
  BY DEF WorkingClock, SceneRegs
<1>4. ~engine_error'
  <2>1. cmd_draw_start => draw_ok
    BY <1>1 DEF EngineServes
  <2>2. estate # "FAIL"
    BY <1>1 DEF EngineServes, EngineTrue
  <2> QED BY <1>1, <2>1, <2>2, NoError DEF WorkingClock
<1>5. CASE fifo_complete
  <2>1. qstate = "Q_IDLE" /\ ~cmd_draw_start /\ ~frame_ready
    BY <1>1, <1>5 DEF Released, EngineServes, frame_ready
  <2>2. queue' = <<>> /\ ~cmd_locked'
    BY <1>5 DEF WorkingClock, Queue, ResetQueue
  <2>3. ~engine_busy'
    BY <1>1, <2>1, EngineRests DEF WorkingClock
  <2>4. qstate' = "Q_IDLE" /\ ~fifo_complete' /\ cmd_frame_count' = cmd_frame_count
    BY <2>1, FrameMoves DEF WorkingClock
  <2> QED BY <1>3, <1>4, <1>5, <2>2, <2>3, <2>4 DEF Resting, busy
<1>6. CASE ~fifo_complete
  <2> SUFFICES Running'
    BY <1>3, <1>4, <1>6
  <2>1. cmd_locked' /\ queue' = Popped \o Pushed
    BY <1>1, <1>6, LevelStep DEF WorkingClock, Queue
  <2>2. queue' = IF fifo_pop /\ queue # <<>> THEN Tail(queue) ELSE queue
    <3>1. Pushed = <<>>
      BY DEF Pushed, cmd_ready
    <3>2. Popped \in Seq(Kinds)
      BY <1>1 DEF Popped, SceneTypeOK
    <3> QED BY <2>1, <3>1, <3>2 DEF Popped
  <2>3. fifo_complete' \/ Counted'
    BY <1>6, FrameMoves DEF WorkingClock, Counted
  <2>4. qstate # "Q_FAIL"
    BY DEF Orderly
  <2>5. CASE qstate = "Q_IDLE"
    <3>1. ~fifo_pop /\ ~cmd_draw_start /\ ~fifo_complete'
      BY <1>1, <2>5, FrameMoves DEF WorkingClock, Orderly, EngineServes
    <3>2. ~engine_busy'
      BY <1>1, <2>5, <3>1, EngineRests DEF WorkingClock
    <3>3. queue' = Job
      BY <1>6, <2>2, <2>5, <3>1
    <3>4. qstate' \in {"Q_IDLE", "Q_DISPATCH"}
      BY <2>5, FrameMoves DEF WorkingClock
    <3> QED BY <1>3, <2>1, <2>3, <3>2, <3>3, <3>4
  <2>6. CASE qstate = "Q_DISPATCH"
    <3>1. ~fifo_pop /\ queue' = queue
      BY <2>2, <2>6 DEF Orderly
    <3>2. CASE queue = Job
      BY <1>3, <2>1, <2>3, <2>6, <3>1, <3>2, FrameMoves DEF WorkingClock
    <3>3. CASE queue # Job
      BY <1>3, <2>1, <2>3, <2>6, <3>3, FrameMoves DEF WorkingClock
    <3> QED BY <3>2, <3>3
  <2>7. CASE qstate = "Q_DRAW_WAIT"
    <3>1. queue' = Tail(Job)
      BY <2>2, <2>7, JobCommands
    <3>2. qstate' \in {"Q_DRAW_WAIT", "Q_DISPATCH"} /\ ~cmd_draw_start' /\ ~fifo_pop'
      <4>1. QDrawWait
        BY <2>4, <2>7
        DEF WorkingClock, Sequencer, QAbandon, QIdle, Sequencing, QBadCommand, QSubmit, QDraw,
            QMmio, QPresentClear, QPresentWait, QFail
      <4> QED BY <4>1 DEF QDrawWait, NoPulse, Pulses
    <3> QED BY <1>3, <2>1, <2>3, <3>1, <3>2
  <2>8. CASE qstate = "Q_MMIO"
    BY <1>3, <2>1, <2>3, <2>8, FrameMoves DEF WorkingClock
  <2>9. CASE qstate = "Q_PRESENT_CLEAR"
    BY <1>3, <2>1, <2>3, <2>9, FrameMoves DEF WorkingClock
  <2>10. CASE qstate = "Q_PRESENT_WAIT"
    <3>1. qstate' = "Q_PRESENT_WAIT" \/ (qstate' = "Q_IDLE" /\ fifo_complete')
      BY <2>10, FrameMoves DEF WorkingClock
    <3>2. ~AtWork
      BY <1>1, <2>10 DEF EngineServes
    <3>3. ~engine_busy
      BY <1>1, <2>10, <3>2 DEF EngineServes, EngineTrue
    <3>4. ~engine_busy'
      BY <1>1, <2>10, <3>3, EngineRests DEF WorkingClock, EngineServes
    <3> QED BY <1>3, <2>1, <2>3, <3>1, <3>4
  <2> QED BY <1>1, <2>4, <2>5, <2>6, <2>7, <2>8, <2>9, <2>10 DEF QStates
<1> QED BY <1>5, <1>6

LEMMA StartedStep ==
  ASSUME SInv, Orderly, Started, queue = Job, Counted, cmd_mode, ~engine_error, ~abort,
         seen' = seen, ~cmd_push, NEW w, w.reg = "NONE",
         NEW ready \in BOOLEAN, NEW done \in BOOLEAN, WorkingClock(w, ready, done)
  PROVE  /\ Running' /\ ~engine_error' /\ cmd_mode'
         /\ ~front_error' /\ qstate' = "Q_IDLE" /\ ~fifo_pop'
<1> USE DEF Started, NoStart
<1>1. /\ SceneTypeOK /\ EngineTrue /\ EngineServes /\ ~fifo_error
      /\ qstate = "Q_IDLE" /\ ~cmd_locked /\ ~engine_busy /\ ~fifo_pop
  BY DEF SInv, Released, Orderly, busy
<1>2. NoStart' /\ cmd_mode'
  BY DEF WorkingClock, SceneRegs
<1>3. ~frame_ready /\ ~cmd_draw_start
  BY <1>1 DEF frame_ready, EngineServes
<1>4. QIdle
  BY <1>1
  DEF WorkingClock, Sequencer, QAbandon, Sequencing, QBadCommand, QSubmit, QDraw, QDrawWait,
      QMmio, QPresentClear, QPresentWait, QFail
<1>5. /\ qstate' = "Q_IDLE" /\ ~fifo_complete' /\ cmd_frame_count' = cmd_frame_count
      /\ ~front_error' /\ ~fifo_pop'
  BY <1>3, <1>4 DEF QIdle, NoPulse, Pulses, Orderly
<1>6. ~engine_busy' /\ ~engine_error'
  BY <1>1, <1>3, EngineRests DEF WorkingClock
<1>7. cmd_locked' /\ queue' = Job
  <2>1. cmd_locked' = TRUE /\ queue' = Popped \o Pushed
    BY <1>1, JobCommands DEF WorkingClock, Queue
  <2>2. Popped = Job /\ Pushed = <<>>
    BY <1>1 DEF Popped, Pushed
  <2> QED BY <2>1, <2>2, JobCommands
<1> QED BY <1>2, <1>5, <1>6, <1>7 DEF Running, Counted

-----------------------------------------------------------------------------
(***************************************************************************)
(* The moves of the UI thread in one clock, apart from the clock itself:   *)
(* its access m to SketchBook, its write w to the Scene controller, where  *)
(* it goes.  A poll that sees nothing new is a stay.                       *)
(***************************************************************************)
Goes(from, to) == ui = from /\ ui' = to

Stay == UNCHANGED <<ui, op, loaded, seen>>

(* Moves of a thread that finds the controller at rest.                    *)
CoreMove(m) ==
  \/ Goes("poll", "load") /\ m = NoMmio /\ ~submit_blocked /\ KeepJob
  \/ Goes("load", "push") /\ m = Write("CMD", op = "present", FALSE) /\ KeepJob
  \/ Goes("push", next_step) /\ m = Write("CMD_PUSH", FALSE, FALSE) /\ KeepJob
  \/ Goes("wait", "clear") /\ m = NoMmio /\ frame_done_sticky /\ KeepJob
  \/ Goes("clear", "app") /\ m = Write("STATUS", TRUE, FALSE) /\ KeepJob
  \/ Goes("swapping", "discard") /\ m = NoMmio /\ KeepJob
  \/ Goes("discard", "app") /\ m = Write("STATUS", TRUE, FALSE) /\ loaded' = "none"
     /\ UNCHANGED <<op, seen>>

SceneMove(w) ==
  \/ Goes("mode", "start_load") /\ w = [reg |-> "CMD_CFG", on |-> op = "frame"] /\ KeepJob
  \/ Goes("start_load", "loading") /\ w = [reg |-> "LOAD"] /\ KeepJob
  \/ Goes("cfg", load_or_start) /\ KeepJob
     /\ \E c \in RenderCfgs : w = [reg |-> "RENDER_CFG", bits |-> c]
  \/ Goes("render", "rendering") /\ w = [reg |-> "RENDER"] /\ KeepJob
  \/ Goes("note", "draw_ready") /\ w = NoWrite /\ seen' = cmd_frame_count
     /\ UNCHANGED <<op, loaded>>
  \/ Goes("draw_ready", "draw_push") /\ w = NoWrite /\ cmd_ready /\ KeepJob
  \/ Goes("draw_push", "present_ready") /\ w = [reg |-> "CMD_PUSH", kind |-> "DRAW"] /\ KeepJob
  \/ Goes("present_ready", "present_push") /\ w = NoWrite /\ cmd_ready /\ KeepJob
  \/ Goes("present_push", "start") /\ w = [reg |-> "CMD_PUSH", kind |-> "PRESENT"] /\ KeepJob
  \/ Goes("start", "count") /\ w = [reg |-> "FRAME_START"] /\ KeepJob

(* Moves of a thread that waits for the controller.                        *)
LeaveMove(w) ==
  \/ Goes("loading", load_result) /\ ~busy /\ w = NoWrite /\ UNCHANGED <<op, seen>>
     /\ loaded' = IF load_result = job_start THEN op ELSE loaded
  \/ Goes("rendering", "app") /\ ~busy /\ w = NoWrite /\ KeepJob
  \/ Goes("rendering", "stop") /\ MayInterrupt /\ w = NoWrite /\ KeepJob
  \/ Goes("count", "app") /\ frame_seen /\ w = NoWrite /\ KeepJob
  \/ Goes("stop", "abort") /\ busy /\ w = NoWrite /\ KeepJob
  \/ Goes("abort", "stopping") /\ w = [reg |-> "ABORT"] /\ KeepJob
  \/ ui \in {"stop", "stopping"} /\ ui' = "swapping" /\ ~busy /\ w = NoWrite /\ KeepJob

UiMove(m, w) ==
  \/ m = NoMmio /\ w = NoWrite /\ (Stay \/ Begin)
  \/ CpuMay /\ w = NoWrite /\ CoreMove(m)
  \/ CpuMay /\ m = NoMmio /\ (SceneMove(w) \/ LeaveMove(w))

(* At a rest point of the thread the port is its own and a push is taken.  *)
LEMMA CpuServed ==
  ASSUME SysInv, ui \in RestPCs
  PROVE  /\ ~busy /\ port_owner = "cpu" /\ qstate = "Q_IDLE" /\ ~AtWork
         /\ ui = "push" => cmd_push_ready
<1>1. ~busy /\ EngineTrue
  BY DEF SysInv, SceneSide, SInv, Phase, Resting
<1>2. port_owner = "cpu" /\ qstate = "Q_IDLE" /\ ~AtWork
  BY <1>1 DEF port_owner, busy, EngineTrue
<1>3. ui = "push" => cmd_push_ready
  BY <1>2
  DEF SysInv, SketchSide, Owned, Pushes, Waiting, Clearing, AtWork, Free, Settled, AtRest,
      Clear, cmd_push_ready, render_allowed, cmd_full
<1> QED BY <1>1, <1>2, <1>3

(* One step of the system is a move of the thread and a clock.             *)
LEMMA UiMoves ==
  ASSUME SysInv, SystemNext
  PROVE  \E m \in Mmio, b \in BOOLEAN : \E w : UiMove(m, w) /\ SystemClock(m, w, b)
<1>1. PICK b \in Boundaries : UiClock(b) \/ QuietClock(b)
  BY DEF SystemNext
<1>2. b \in BOOLEAN
  BY DEF Boundaries
<1> DEFINE Step(m, w) == UiMove(m, w) /\ SystemClock(m, w, b)
<1>3. SUFFICES \E m \in Mmio : \E w : Step(m, w)
  BY <1>2
<1>4. NoMmio \in Mmio /\ discarded = Write("STATUS", TRUE, FALSE)
  BY DEF Mmio, discarded
<1>5. CASE QuietClock(b)
  <2>1. Step(NoMmio, NoWrite)
    BY <1>5 DEF QuietClock, UiMove, Stay, ui_vars
  <2> QED BY <1>4, <2>1
<1>6. CASE UiClock(b)
  <2> USE DEF Goes, KeepJob
  <2>1. CpuMay
    BY <1>6 DEF UiClock
  <2>2. ASSUME NEW at, NEW request, NEW next, at \in RestPCs, Sketch(b, at, request, next),
               request.reg = "CMD_PUSH" => at = "push"
        PROVE  Goes(at, next) /\ SystemClock(request, NoWrite, b)
    BY <2>2, CpuServed DEF Sketch, cpu_ready, mmio_ready
  <2>3. ASSUME NEW at, NEW request, NEW next, SceneWrite(b, at, request, next)
        PROVE  Goes(at, next) /\ SystemClock(NoMmio, request, b)
    BY <2>3 DEF SceneWrite
  <2> USE DEF RestPCs, WaitPCs, StopPCs, UiPCs
  <2>4. CASE PollReady(b) /\ KeepJob
    <3>1. /\ Goes("poll", IF submit_blocked THEN "poll" ELSE "load")
          /\ SystemClock(NoMmio, NoWrite, b)
      BY <2>2, <2>4 DEF PollReady, NoMmio, Write
    <3>2. Step(NoMmio, NoWrite)
      BY <2>1, <2>4, <3>1 DEF UiMove, CoreMove, Stay
    <3> QED BY <1>4, <3>2
  <2>5. CASE LoadCmd(b) /\ KeepJob
    <3> DEFINE m == Write("CMD", op = "present", FALSE)
    <3>1. Goes("load", "push") /\ SystemClock(m, NoWrite, b)
      BY <2>2, <2>5 DEF LoadCmd, Write
    <3>2. m \in Mmio
      BY DEF Mmio
    <3>3. Step(m, NoWrite)
      BY <2>1, <2>5, <3>1 DEF UiMove, CoreMove
    <3> QED BY <3>2, <3>3
  <2>6. CASE PushCmd(b) /\ KeepJob
    <3> DEFINE m == Write("CMD_PUSH", FALSE, FALSE)
    <3>1. Goes("push", next_step) /\ SystemClock(m, NoWrite, b)
      BY <2>2, <2>6 DEF PushCmd
    <3>2. m \in Mmio
      BY DEF Mmio
    <3>3. Step(m, NoWrite)
      BY <2>1, <2>6, <3>1 DEF UiMove, CoreMove
    <3> QED BY <3>2, <3>3
  <2>7. CASE PollDone(b) /\ KeepJob
    <3>1. /\ Goes("wait", IF frame_done_sticky THEN "clear" ELSE "wait")
          /\ SystemClock(NoMmio, NoWrite, b)
      BY <2>2, <2>7 DEF PollDone, NoMmio, Write
    <3>2. Step(NoMmio, NoWrite)
      BY <2>1, <2>7, <3>1 DEF UiMove, CoreMove, Stay
    <3> QED BY <1>4, <3>2
  <2>8. CASE (ClearDone(b) /\ KeepJob) \/ Discard(b)
    <3> DEFINE m == Write("STATUS", TRUE, FALSE)
    <3>1. ASSUME ClearDone(b), KeepJob PROVE Step(m, NoWrite)
      <4>1. Goes("clear", "app") /\ SystemClock(m, NoWrite, b)
        BY <2>2, <3>1 DEF ClearDone, Write
      <4> QED BY <2>1, <3>1, <4>1 DEF UiMove, CoreMove
    <3>2. ASSUME Discard(b) PROVE Step(m, NoWrite)
      <4>1. Goes("discard", "app") /\ SystemClock(m, NoWrite, b)
        BY <1>4, <2>2, <3>2 DEF Discard, Write
      <4> QED BY <2>1, <3>2, <4>1 DEF UiMove, CoreMove, Discard
    <3>3. Step(m, NoWrite) /\ m \in Mmio
      BY <2>8, <3>1, <3>2 DEF Mmio
    <3> QED BY <3>3
  <2>9. CASE Loading(b)
    <3>1. Goes("loading", load_result) /\ SystemClock(NoMmio, NoWrite, b)
      BY <2>3, <2>9 DEF Loading, SceneRead
    <3>2. busy => load_result = "loading" /\ job_start # "loading"
      BY DEF load_result, job_start
    <3>3. Step(NoMmio, NoWrite)
      BY <2>1, <2>9, <3>1, <3>2 DEF Loading, UiMove, LeaveMove, Stay
    <3> QED BY <1>4, <3>3
  <2>10. CASE Rendering(b) /\ KeepJob
    <3>1. /\ \/ Goes("rendering", idle_result)
             \/ MayInterrupt /\ Goes("rendering", "stop")
          /\ SystemClock(NoMmio, NoWrite, b)
      BY <2>3, <2>10 DEF Rendering, SceneRead
    <3>2. Step(NoMmio, NoWrite)
      BY <2>1, <2>10, <3>1 DEF UiMove, LeaveMove, Stay, idle_result
    <3> QED BY <1>4, <3>2
  <2>11. CASE Stopping(b) /\ KeepJob
    <3>1. CASE SceneRead(b, "stop", IF busy THEN "abort" ELSE "swapping")
      <4>1. Step(NoMmio, NoWrite)
        BY <2>1, <2>3, <2>11, <3>1 DEF SceneRead, UiMove, LeaveMove
      <4> QED BY <1>4, <4>1
    <3>2. CASE SceneWrite(b, "abort", [reg |-> "ABORT"], "stopping")
      <4>1. Step(NoMmio, [reg |-> "ABORT"])
        BY <2>1, <2>3, <2>11, <3>2 DEF UiMove, LeaveMove
      <4> QED BY <1>4, <4>1
    <3>3. CASE SceneRead(b, "stopping", IF busy THEN "stopping" ELSE "swapping")
      <4>1. Step(NoMmio, NoWrite)
        BY <2>1, <2>3, <2>11, <3>3 DEF SceneRead, UiMove, LeaveMove, Stay
      <4> QED BY <1>4, <4>1
    <3>4. CASE Sketch(b, "swapping", NoMmio, swap_result)
      <4>1. Goes("swapping", swap_result) /\ SystemClock(NoMmio, NoWrite, b)
        BY <2>2, <3>4 DEF NoMmio, Write
      <4>2. Step(NoMmio, NoWrite)
        BY <2>1, <2>11, <4>1 DEF UiMove, CoreMove, Stay, swap_result
      <4> QED BY <1>4, <4>2
    <3> QED BY <2>11, <3>1, <3>2, <3>3, <3>4 DEF Stopping
  <2>12. CASE \/ (SetMode(b) \/ LoadStart(b) \/ SetCfg(b) \/ Render(b)) /\ KeepJob
             \/ Note(b)
    <3>1. ASSUME NEW w, SystemClock(NoMmio, w, b), SceneMove(w)
          PROVE  \E m \in Mmio : \E v : Step(m, v)
      <4>1. Step(NoMmio, w)
        BY <2>1, <3>1 DEF UiMove
      <4> QED BY <1>4, <4>1
    <3>2. CASE SetMode(b) /\ KeepJob
      BY <2>3, <3>1, <3>2 DEF SetMode, SceneMove
    <3>3. CASE LoadStart(b) /\ KeepJob
      BY <2>3, <3>1, <3>3 DEF LoadStart, SceneMove
    <3>4. CASE SetCfg(b) /\ KeepJob
      <4>1. PICK c \in RenderCfgs :
              SceneWrite(b, "cfg", [reg |-> "RENDER_CFG", bits |-> c], load_or_start)
        BY <3>4 DEF SetCfg
      <4> QED BY <2>3, <3>1, <3>4, <4>1 DEF SceneMove
    <3>5. CASE Render(b) /\ KeepJob
      BY <2>3, <3>1, <3>5 DEF Render, SceneMove
    <3>6. CASE Note(b)
      BY <2>3, <3>1, <3>6 DEF Note, SceneRead, SceneMove
    <3> QED BY <2>12, <3>2, <3>3, <3>4, <3>5, <3>6
  <2>13. CASE CommandFrame(b) /\ KeepJob
    <3>1. ASSUME NEW w, SystemClock(NoMmio, w, b),
                 SceneMove(w) \/ LeaveMove(w) \/ (Stay /\ w = NoWrite)
          PROVE  \E m \in Mmio : \E v : Step(m, v)
      <4>1. Step(NoMmio, w)
        BY <2>1, <3>1 DEF UiMove
      <4> QED BY <1>4, <4>1
    <3>2. CASE SceneRead(b, "draw_ready", IF cmd_ready THEN "draw_push" ELSE "draw_ready")
      BY <2>3, <2>13, <3>1, <3>2 DEF SceneRead, SceneMove, Stay
    <3>3. CASE SceneWrite(b, "draw_push", [reg |-> "CMD_PUSH", kind |-> "DRAW"], "present_ready")
      BY <2>3, <2>13, <3>1, <3>3 DEF SceneMove
    <3>4. CASE SceneRead(b, "present_ready",
                         IF cmd_ready THEN "present_push" ELSE "present_ready")
      BY <2>3, <2>13, <3>1, <3>4 DEF SceneRead, SceneMove, Stay
    <3>5. CASE SceneWrite(b, "present_push", [reg |-> "CMD_PUSH", kind |-> "PRESENT"], "start")
      BY <2>3, <2>13, <3>1, <3>5 DEF SceneMove
    <3>6. CASE SceneWrite(b, "start", [reg |-> "FRAME_START"], "count")
      BY <2>3, <2>13, <3>1, <3>6 DEF SceneMove
    <3>7. CASE SceneRead(b, "count", IF frame_seen THEN "app" ELSE "count")
      BY <2>3, <2>13, <3>1, <3>7 DEF SceneRead, LeaveMove, Stay
    <3> QED BY <2>13, <3>2, <3>3, <3>4, <3>5, <3>6, <3>7 DEF CommandFrame
  <2> QED
    BY <1>6, <2>4, <2>5, <2>6, <2>7, <2>8, <2>9, <2>10, <2>11, <2>12, <2>13 DEF UiClock, Draws
<1> QED BY <1>1, <1>5, <1>6

(* What the controller asks of the port; its two masters never ask         *)
(* together.                                                               *)
LEMMA Requests ==
  ASSUME SInv
  PROVE  /\ Request \in Mmio /\ Request.reg # "CTRL"
         /\ qstate = "Q_MMIO" => Request = Submission(mmio_phase, present_pending)
         /\ qstate = "Q_PRESENT_CLEAR" => Request = Write("STATUS", TRUE, FALSE)
         /\ qstate = "Q_PRESENT_WAIT" => Request = NoMmio
         /\ estate = "CMD_WRITE" => Request = Submission(write_phase, cmd_kind = "present")
         /\ estate = "WAIT_FRAME" => Request = NoMmio
         /\ estate = "CLEAR_DONE" => Request = Write("STATUS", TRUE, FALSE)
         /\ ~front_mmio_valid /\ ~engine_mmio_valid => Request = NoMmio
         /\ engine_mmio_valid => ~front_mmio_valid
         /\ front_mmio_valid \/ engine_mmio_valid => busy
<1>1. /\ qstate \in QStates /\ estate \in EStates /\ mmio_phase \in {0, 1}
      /\ write_phase \in {0, 1} /\ present_pending \in BOOLEAN
  BY DEF SInv, SceneTypeOK
<1>2. engine_mmio_valid => ~front_mmio_valid
  BY DEF SInv, ModeStable, EngineServes, AtWork, front_mmio_valid, engine_mmio_valid
<1>3. front_mmio_valid \/ engine_mmio_valid => busy
  BY DEF SInv, EngineTrue, AtWork, front_mmio_valid, engine_mmio_valid, busy
<1>4. Access("STATUS", TRUE) = Write("STATUS", TRUE, FALSE)
  BY DEF Access, Write
<1>5. Access("NONE", FALSE) = NoMmio
  BY DEF Access, Write, NoMmio
<1>6. /\ qstate = "Q_MMIO" => Request = Submission(mmio_phase, present_pending)
      /\ qstate = "Q_PRESENT_CLEAR" => Request = Write("STATUS", TRUE, FALSE)
      /\ qstate = "Q_PRESENT_WAIT" => Request = NoMmio
  <2>1. qstate = "Q_MMIO" => Request = Submission(mmio_phase, present_pending)
    BY DEF Request, front_mmio_valid
  <2>2. qstate = "Q_PRESENT_CLEAR" => Request = Access("STATUS", TRUE)
    BY DEF Request, front_mmio_valid
  <2>3. qstate = "Q_PRESENT_WAIT" => Request = Access("NONE", FALSE)
    BY DEF Request, front_mmio_valid
  <2> QED BY <1>4, <1>5, <2>1, <2>2, <2>3, Zenon
<1>7. /\ estate = "CMD_WRITE" => Request = Submission(write_phase, cmd_kind = "present")
      /\ estate = "WAIT_FRAME" => Request = NoMmio
      /\ estate = "CLEAR_DONE" => Request = Write("STATUS", TRUE, FALSE)
      /\ ~front_mmio_valid /\ ~engine_mmio_valid => Request = NoMmio
  <2>1. estate = "CMD_WRITE" => Request = Submission(write_phase, cmd_kind = "present")
    BY <1>2 DEF Request, front_mmio_valid, engine_mmio_valid
  <2>2. estate = "WAIT_FRAME" => Request = Access("NONE", FALSE)
    <3> SUFFICES ASSUME estate = "WAIT_FRAME" PROVE Request = Access("NONE", FALSE)
      OBVIOUS
    <3>1. qstate # "Q_MMIO" /\ qstate # "Q_PRESENT_CLEAR" /\ qstate # "Q_PRESENT_WAIT"
      BY <1>2, SMT DEF front_mmio_valid, engine_mmio_valid
    <3>2. estate # "CMD_WRITE" /\ estate # "CLEAR_DONE"
      OBVIOUS
    <3> QED BY <3>1, <3>2, Zenon DEF Request
  <2>3. estate = "CLEAR_DONE" => Request = Access("STATUS", TRUE)
    BY <1>2 DEF Request, front_mmio_valid, engine_mmio_valid
  <2>4. ~front_mmio_valid /\ ~engine_mmio_valid => Request = Access("NONE", FALSE)
    <3> SUFFICES ASSUME ~front_mmio_valid, ~engine_mmio_valid PROVE Request = Access("NONE", FALSE)
      OBVIOUS
    <3>1. qstate # "Q_MMIO" /\ qstate # "Q_PRESENT_CLEAR" /\ qstate # "Q_PRESENT_WAIT"
      BY SMT DEF front_mmio_valid
    <3>2. estate # "CMD_WRITE" /\ estate # "CLEAR_DONE"
      BY SMT DEF engine_mmio_valid
    <3> QED BY <3>1, <3>2, Zenon DEF Request
  <2> QED BY <1>4, <1>5, <2>1, <2>2, <2>3, <2>4, Zenon
<1>8. ASSUME NEW phase \in {0, 1}, NEW bit \in BOOLEAN
      PROVE  Submission(phase, bit) \in Mmio /\ Submission(phase, bit).reg # "CTRL"
  <2>1. /\ Access("CMD", bit) = Write("CMD", bit, FALSE)
        /\ Access("CMD_PUSH", FALSE) = Write("CMD_PUSH", FALSE, FALSE)
    BY DEF Access, Write
  <2>2. Write("CMD", bit, FALSE) \in Mmio /\ Write("CMD_PUSH", FALSE, FALSE) \in Mmio
    BY DEF Mmio
  <2>3. Access("CMD", bit).reg = "CMD" /\ Access("CMD_PUSH", FALSE).reg = "CMD_PUSH"
    BY DEF Access
  <2>4. CASE phase = 0
    BY <2>1, <2>2, <2>3, <2>4 DEF Submission
  <2>5. CASE phase # 0
    BY <2>1, <2>2, <2>3, <2>5 DEF Submission
  <2> QED BY <2>4, <2>5
<1>9. /\ Write("STATUS", TRUE, FALSE) \in Mmio /\ Write("STATUS", TRUE, FALSE).reg # "CTRL"
      /\ NoMmio \in Mmio /\ NoMmio.reg # "CTRL"
  BY DEF Mmio, Write, NoMmio
<1>10. Request \in Mmio /\ Request.reg # "CTRL"
  BY <1>1, <1>6, <1>7, <1>8, <1>9 DEF front_mmio_valid, engine_mmio_valid
<1> QED BY <1>2, <1>3, <1>6, <1>7, <1>10

(* The two components see one clock: the port carries the thread's access  *)
(* or the controller's request, and nothing resets either.                 *)
LEMMA SystemMoves ==
  ASSUME SysInv, NEW m \in Mmio, NEW w, NEW b \in BOOLEAN, UiMove(m, w), SystemClock(m, w, b)
  PROVE  /\ ui \in RestPCs \/ ui \in WaitPCs
         /\ GoodWrite(w) /\ w.reg # "SOFT_RESET"
         /\ scene_ready \in BOOLEAN /\ frame_done_sticky \in BOOLEAN
         /\ WorkingClock(w, scene_ready, frame_done_sticky)
         /\ Clock(port(m), b) /\ port(m) \in Mmio /\ port(m).reg # "CTRL"
         /\ ui \in RestPCs => port(m) = m
         /\ ui \in WaitPCs => m = NoMmio /\ port(m) = Request
<1>1. ui \in RestPCs \/ ui \in WaitPCs
  BY DEF SysInv, SceneSide, Tied, RestPCs
<1>2. RenderCfgs \subseteq SUBSET RenderBits
  BY SystemAssumption DEF SystemAssumption
<1>3. GoodWrite(w) /\ w.reg # "SOFT_RESET" /\ (w = NoWrite \/ (CpuMay /\ m = NoMmio))
  <2>1. CASE w = NoWrite
    BY <2>1 DEF NoWrite, GoodWrite
  <2>2. CASE w # NoWrite
    <3>1. CpuMay /\ m = NoMmio /\ (SceneMove(w) \/ LeaveMove(w))
      BY <2>2 DEF UiMove
    <3>2. \/ w = [reg |-> "CMD_CFG", on |-> op = "frame"]
          \/ \E c \in RenderCfgs : w = [reg |-> "RENDER_CFG", bits |-> c]
          \/ \E k \in Kinds : w = [reg |-> "CMD_PUSH", kind |-> k]
          \/ \E r \in {"LOAD", "RENDER", "FRAME_START", "ABORT"} : w = [reg |-> r]
      BY <2>2, <3>1 DEF SceneMove, LeaveMove, Kinds
    <3>3. CASE w = [reg |-> "CMD_CFG", on |-> op = "frame"]
      BY <3>1, <3>3 DEF GoodWrite
    <3>4. CASE \E c \in RenderCfgs : w = [reg |-> "RENDER_CFG", bits |-> c]
      BY <1>2, <3>1, <3>4 DEF GoodWrite
    <3>5. CASE \E k \in Kinds : w = [reg |-> "CMD_PUSH", kind |-> k]
      BY <3>1, <3>5 DEF GoodWrite
    <3>6. CASE \E r \in {"LOAD", "RENDER", "FRAME_START", "ABORT"} : w = [reg |-> r]
      BY <3>1, <3>6 DEF GoodWrite
    <3> QED BY <3>2, <3>3, <3>4, <3>5, <3>6
  <2> QED BY <2>1, <2>2
<1>4. scene_ready \in BOOLEAN /\ frame_done_sticky \in BOOLEAN
  BY DEF scene_ready, mmio_ready, SysInv, SketchSide, FInv, IInv, TypeOK, cmd_push_ready
<1>5. WorkingClock(w, scene_ready, frame_done_sticky)
  <2>1. ~soft_reset /\ ~soft_reset'
    BY <1>3 DEF SysInv, SceneSide, Orderly, SystemClock, SceneClock, SceneRegs
  <2> QED BY <2>1 DEF SystemClock, SceneClock, WorkingClock, in_reset
<1>6. Clock(port(m), b)
  BY DEF SystemClock
<1>7. ui \in RestPCs => port(m) = m
  BY CpuServed DEF port
<1>8. ui \in WaitPCs => m = NoMmio
  BY DEF UiMove, CoreMove, Goes, WaitPCs, StopPCs
<1>9. ~busy => Request = NoMmio
  BY Requests DEF SysInv, SceneSide
<1>10. ui \in WaitPCs => port(m) = Request
  BY <1>8, <1>9 DEF port, port_owner
<1>11. m.reg # "CTRL"
  BY DEF UiMove, CoreMove, Write, NoMmio
<1> QED
  BY <1>1, <1>3, <1>4, <1>5, <1>6, <1>7, <1>8, <1>10, <1>11, Requests DEF port, SysInv, SceneSide

-----------------------------------------------------------------------------
(***************************************************************************)
(* The controller's side of the invariant, one clock.  First the phases.   *)
(***************************************************************************)
SystemStep(m, w, b) == UiMove(m, w) /\ SystemClock(m, w, b)

(* Which moves write what, and where a resting thread may go.              *)
LEMMA RestMoves ==
  ASSUME NEW m, NEW w, UiMove(m, w), ui \in RestPCs
  PROVE  /\ w.reg = "LOAD" => Goes("start_load", "loading")
         /\ w.reg = "RENDER" => Goes("render", "rendering")
         /\ w.reg = "FRAME_START" => Goes("start", "count")
         /\ w.reg = "CMD_CFG" => Goes("mode", "start_load") /\ w.on = (op = "frame")
         /\ w.reg = "RENDER_CFG" => Goes("cfg", load_or_start) /\ w.bits \in RenderCfgs
         /\ w.reg = "CMD_PUSH" => \/ Goes("draw_push", "present_ready") /\ w.kind = "DRAW"
                                  \/ Goes("present_push", "start") /\ w.kind = "PRESENT"
         /\ w.reg # "ABORT"
         /\ ui' = "loading" => Goes("start_load", "loading")
         /\ ui' = "rendering" => Goes("render", "rendering")
         /\ ui' = "count" => Goes("start", "count") /\ KeepJob /\ CpuMay
         /\ ui' \in RestPCs \cup {"loading", "rendering", "count", "stop"}
<1> USE DEF UiMove, RestPCs, WaitPCs, StopPCs, UiPCs, Goes
<1>1. CASE w = NoWrite
  <2>1. CASE Stay \/ Begin
    BY <1>1, <2>1 DEF Stay, Begin, NoWrite
  <2>2. CASE CoreMove(m)
    BY <1>1, <2>2 DEF CoreMove, NoWrite, next_step
  <2>3. CASE SceneMove(w)
    BY <1>1, <2>3 DEF SceneMove, NoWrite
  <2> QED BY <2>1, <2>2, <2>3 DEF LeaveMove
<1>2. CASE w # NoWrite
  <2>1. CpuMay /\ SceneMove(w)
    BY <1>2 DEF LeaveMove
  <2>2. load_or_start \in {"mode", "render", "note"}
    BY DEF load_or_start, job_start
  <2>3. CASE Goes("mode", "start_load") /\ w = [reg |-> "CMD_CFG", on |-> op = "frame"]
    BY <2>3
  <2>4. CASE \E c \in RenderCfgs : /\ Goes("cfg", load_or_start)
                                   /\ w = [reg |-> "RENDER_CFG", bits |-> c]
    BY <2>2, <2>4
  <2>5. CASE \/ Goes("start_load", "loading") /\ w = [reg |-> "LOAD"]
             \/ Goes("render", "rendering") /\ w = [reg |-> "RENDER"]
             \/ Goes("start", "count") /\ w = [reg |-> "FRAME_START"] /\ KeepJob
    BY <2>1, <2>5
  <2>6. CASE \/ /\ Goes("draw_push", "present_ready")
                /\ w = [reg |-> "CMD_PUSH", kind |-> "DRAW"]
             \/ /\ Goes("present_push", "start")
                /\ w = [reg |-> "CMD_PUSH", kind |-> "PRESENT"]
    BY <2>6
  <2> QED BY <1>2, <2>1, <2>3, <2>4, <2>5, <2>6 DEF SceneMove
<1> QED BY <1>1, <1>2

LEMMA WaitMoves ==
  ASSUME SysInv, NEW m, NEW w, UiMove(m, w), ui \in WaitPCs
  PROVE  /\ w.reg = "NONE" \/ (w.reg = "ABORT" /\ Goes("abort", "stopping"))
         /\ seen' = seen /\ op' = op
         /\ \/ Stay
            \/ LeaveMove(w) /\ CpuMay
<1> USE DEF UiMove, WaitPCs, StopPCs, Goes
<1>1. (Stay /\ w = NoWrite) \/ (LeaveMove(w) /\ CpuMay)
  BY DEF CoreMove, SceneMove, Begin
<1>2. CASE Stay /\ w = NoWrite
  BY <1>2 DEF Stay, NoWrite
<1>3. CASE LeaveMove(w) /\ CpuMay
  <2>1. w = NoWrite \/ (w = [reg |-> "ABORT"] /\ Goes("abort", "stopping"))
    BY <1>3 DEF LeaveMove
  <2>2. seen' = seen /\ op' = op
    BY <1>3 DEF LeaveMove, KeepJob
  <2> QED BY <1>3, <2>1, <2>2 DEF NoWrite
<1> QED BY <1>1, <1>2, <1>3

(* The phases in which no frame is under way keep the queue.               *)
LEMMA LoadPhaseStep ==
  ASSUME SInv, Orderly, LoadPhase, ~cmd_push, NEW w, w.reg = "NONE",
         NEW ready \in BOOLEAN, NEW done \in BOOLEAN, WorkingClock(w, ready, done)
  PROVE  LoadPhase' /\ queue' = queue /\ ~front_error' /\ ~fifo_pop' /\ ~cmd_push'
<1>1. NoFrame /\ GoodWrite(w) /\ SceneTypeOK
  BY DEF LoadPhase, GoodWrite, SInv
<1>2. /\ ~cmd_locked' /\ qstate' = "Q_IDLE" /\ ~fifo_complete' /\ ~fifo_pop'
      /\ ~front_error' /\ ~cmd_draw_start /\ queue' = queue
  BY <1>1, NoFrameStep
<1>3. ~AtWork'
  BY <1>1, <1>2, EngineStep DEF WorkingClock, LoadPhase, single_start, draw_start
<1> QED BY <1>2, <1>3 DEF LoadPhase, NoFrame, WorkingClock, SceneRegs

LEMMA RenderPhaseStep ==
  ASSUME SInv, Orderly, RenderPhase, NEW w, w.reg \in {"NONE", "ABORT"},
         NEW ready \in BOOLEAN, NEW done \in BOOLEAN, WorkingClock(w, ready, done)
  PROVE  RenderPhase' /\ queue' = queue /\ ~front_error' /\ ~fifo_pop' /\ ~cmd_push'
<1>1. NoFrame /\ GoodWrite(w)
  BY DEF RenderPhase, GoodWrite
<1>2. /\ ~cmd_locked' /\ qstate' = "Q_IDLE" /\ ~fifo_complete' /\ ~fifo_pop'
      /\ ~front_error' /\ queue' = queue
  BY <1>1, NoFrameStep DEF RenderPhase
<1> QED BY <1>2 DEF RenderPhase, NoFrame, WorkingClock, SceneRegs

(* A thread at rest starts what it starts.                                 *)
LEMMA RestPhase ==
  ASSUME SysInv, NEW m \in Mmio, NEW w, NEW b \in BOOLEAN, SystemStep(m, w, b), ui \in RestPCs
  PROVE  Phase' /\ Orderly'
<1>1. /\ GoodWrite(w) /\ w.reg # "SOFT_RESET" /\ scene_ready \in BOOLEAN
      /\ frame_done_sticky \in BOOLEAN /\ UiMove(m, w)
      /\ WorkingClock(w, scene_ready, frame_done_sticky)
  BY SystemMoves DEF SystemStep
<1>2. SInv /\ Phase /\ Assembled /\ Orderly /\ Tied /\ Resting
  BY DEF SysInv, SceneSide, Phase
<1>3. ~abort
  BY <1>2 DEF Orderly, RestPCs, WaitPCs, StopPCs
<1>4. /\ ~busy' /\ ~fifo_complete' /\ ~fifo_pop' /\ ~front_error'
      /\ cmd_frame_count' = cmd_frame_count
      /\ queue' = IF cmd_push /\ cmd_mode /\ Len(queue) < QDepth
                  THEN queue \o <<cmd_data>> ELSE queue
      /\ cmd_mode' = IF w.reg = "CMD_CFG" THEN w.on ELSE cmd_mode
      /\ load_start' => w.reg = "LOAD"
      /\ render_start' => w.reg = "RENDER"
      /\ cmd_frame_start' => w.reg = "FRAME_START"
      /\ abort' => w.reg = "ABORT"
      /\ soft_reset' => w.reg = "SOFT_RESET"
  BY <1>1, <1>2, <1>3, RestingStep
<1>5. Orderly'
  BY <1>1, <1>4, RestMoves DEF Orderly, busy
<1>6. ui' \in RestPCs \cup {"stop"} => Resting'
  BY <1>1, <1>4, RestMoves DEF Resting, NoStart, Goes, RestPCs, WaitPCs, StopPCs
<1>7. ui' = "loading" => LoadPhase'
  <2>1. EngineTrue'
    BY <1>1, <1>2, EngineTrueStep DEF WorkingClock, SInv
  <2> QED BY <1>1, <1>4, <2>1, RestMoves DEF LoadPhase, NoFrame, Goes, busy, EngineTrue
<1>8. ui' = "rendering" => RenderPhase'
  <2> SUFFICES ASSUME ui' = "rendering" PROVE RenderPhase'
    OBVIOUS
  <2>1. ui = "render" /\ w.reg # "RENDER_CFG" /\ w.reg # "CMD_CFG"
    BY <1>1, RestMoves DEF Goes
  <2>2. ~cmd_mode
    BY <1>2, <2>1 DEF Tied
  <2>3. ~cmd_mode'
    BY <1>4, <2>1, <2>2
  <2> QED BY <1>1, <1>4, <2>3, RestMoves DEF RenderPhase, NoFrame, Goes, busy
<1>9. ui' = "count" => FramePhase'
  <2> SUFFICES ASSUME ui' = "count" PROVE FramePhase'
    OBVIOUS
  <2>1. ui = "start" /\ CpuMay /\ seen' = seen
    BY <1>1, RestMoves DEF Goes, KeepJob
  <2>2. queue = Job /\ Counted /\ ~cmd_push
    BY <1>2, <2>1 DEF Assembled, CpuMay, FramePCs
  <2>3. queue' = Job /\ Counted'
    BY <1>4, <2>1, <2>2 DEF Counted
  <2>4. ~load_start' /\ ~render_start'
    BY <1>1, <1>4, <2>1, RestMoves DEF Goes
  <2>5. (cmd_frame_start /\ ~load_start)' \/ ~cmd_frame_start'
    BY <2>4
  <2> QED BY <1>4, <2>3, <2>4, <2>5 DEF FramePhase, Started, Resting, NoStart
<1> QED BY <1>1, <1>5, <1>6, <1>7, <1>8, <1>9, RestMoves DEF Phase, StopPCs, RestPCs, WaitPCs

(* A command frame, from the thread's FRAME_START until it has seen the    *)
(* count change.                                                           *)
LEMMA FramePhaseStep ==
  ASSUME SInv, Orderly, FramePhase, cmd_mode, ~engine_error, ~abort, ~cmd_push, seen' = seen,
         NEW w, w.reg = "NONE", NEW ready \in BOOLEAN, NEW done \in BOOLEAN,
         WorkingClock(w, ready, done)
  PROVE  /\ FramePhase' /\ ~engine_error' /\ cmd_mode' /\ ~front_error' /\ qstate' # "Q_FAIL"
         /\ fifo_pop' => qstate' \in {"Q_DRAW_WAIT", "Q_MMIO"}
         /\ CpuMay /\ frame_seen => Resting' /\ queue' = <<>>
<1>1. GoodWrite(w) /\ ~front_error
  BY DEF GoodWrite, Orderly
<1>2. CASE Started /\ queue = Job /\ Counted
  BY <1>2, StartedStep DEF FramePhase, Started, CpuMay
<1>3. CASE Resting
  <2>1. /\ ~busy' /\ ~fifo_complete' /\ ~fifo_pop' /\ ~front_error' /\ ~engine_error'
        /\ cmd_frame_count' = cmd_frame_count /\ queue' = queue /\ cmd_mode'
        /\ ~load_start' /\ ~render_start' /\ ~cmd_frame_start'
    BY <1>1, <1>3, RestingStep
  <2>2. Resting' /\ (Counted => Counted')
    BY <2>1 DEF Resting, NoStart, Counted
  <2>3. frame_seen => ~Counted
    BY <1>1 DEF frame_seen, scene_error, Counted
  <2>4. queue = <<>> \/ (queue = Job /\ Counted)
    BY <1>3 DEF FramePhase, Started, Running, Resting, NoStart, busy
  <2> QED BY <2>1, <2>2, <2>3, <2>4 DEF FramePhase, busy
<1>4. CASE Running
  <2>1. /\ ~front_error' /\ qstate' # "Q_FAIL"
        /\ fifo_pop' => qstate' \in {"Q_DRAW_WAIT", "Q_MMIO"}
    BY <1>4, FrameMoves DEF WorkingClock
  <2>2. frame_seen => fifo_complete
    BY <1>1, <1>4 DEF frame_seen, scene_error, Counted, Running
  <2> QED BY <1>4, <2>1, <2>2, RunningStep DEF FramePhase
<1> QED BY <1>2, <1>3, <1>4 DEF FramePhase

(* A thread that waits finds the controller done when it leaves.           *)
LEMMA WaitPhase ==
  ASSUME SysInv, NEW m \in Mmio, NEW w, NEW b \in BOOLEAN, SystemStep(m, w, b), ui \in WaitPCs
  PROVE  /\ Phase' /\ Orderly' /\ ~cmd_push'
         /\ ui \notin {"count"} \/ ui' # "count" => queue' = <<>>
         /\ loaded = "frame" => ~engine_error'
<1>1. /\ GoodWrite(w) /\ w.reg # "SOFT_RESET" /\ scene_ready \in BOOLEAN
      /\ frame_done_sticky \in BOOLEAN /\ UiMove(m, w)
      /\ WorkingClock(w, scene_ready, frame_done_sticky)
  BY SystemMoves DEF SystemStep
<1>2. SInv /\ Phase /\ Assembled /\ Orderly /\ Tied
  BY DEF SysInv, SceneSide
<1>3. /\ w.reg = "NONE" \/ (w.reg = "ABORT" /\ Goes("abort", "stopping"))
      /\ seen' = seen
      /\ Stay \/ (LeaveMove(w) /\ CpuMay)
  BY <1>1, WaitMoves
<1>4. ~cmd_push /\ ~cmd_push'
  BY <1>1, <1>2, <1>3 DEF Assembled, WaitPCs, StopPCs, WorkingClock, SceneRegs
<1>5. ASSUME Resting, ~abort, w.reg = "NONE"
      PROVE  /\ Resting' /\ queue' = queue /\ engine_error' = engine_error
             /\ ~front_error' /\ ~fifo_pop'
  BY <1>1, <1>2, <1>4, <1>5, RestingStep DEF Resting, NoStart
<1>6. /\ ~soft_reset' /\ (abort' => ui' = "stopping")
      /\ MayInterrupt' = MayInterrupt
  BY <1>1, <1>3 DEF WorkingClock, SceneRegs, Goes, MayInterrupt
<1>7. CASE ui = "loading"
  <2>1. LoadPhase /\ w.reg = "NONE" /\ ~abort /\ queue = <<>> /\ loaded # "frame"
    BY <1>2, <1>3, <1>7 DEF Phase, Goes, Orderly, Assembled, Tied
  <2>2. LoadPhase' /\ queue' = <<>> /\ ~front_error' /\ ~fifo_pop'
    BY <1>1, <1>2, <1>4, <2>1, LoadPhaseStep
  <2>3. Orderly'
    BY <1>6, <2>2 DEF Orderly, LoadPhase, NoFrame
  <2>4. CASE ui' = "loading"
    BY <1>4, <2>1, <2>2, <2>3, <2>4 DEF Phase, RestPCs, WaitPCs
  <2>5. CASE ui' # "loading"
    <3>1. CpuMay /\ ~busy /\ ui' \in {"render", "note", "app"}
      BY <1>3, <1>7, <2>5 DEF Stay, LeaveMove, Goes, load_result, job_start
    <3>2. Resting
      BY <2>1, <3>1 DEF Resting, NoStart, LoadPhase, NoFrame, CpuMay
    <3> QED BY <1>4, <1>5, <2>1, <2>2, <2>3, <3>1, <3>2
            DEF Phase, RestPCs, WaitPCs, StopPCs
  <2> QED BY <2>4, <2>5
<1>8. CASE ui = "count"
  <2>1. FramePhase /\ w.reg = "NONE" /\ ~abort /\ loaded = "frame"
    BY <1>2, <1>3, <1>8 DEF Phase, Goes, Orderly, Tied, FramePCs
  <2>2. cmd_mode /\ ~engine_error
    BY <1>2, <2>1 DEF Tied
  <2>3. /\ FramePhase' /\ ~engine_error' /\ ~front_error' /\ qstate' # "Q_FAIL"
        /\ fifo_pop' => qstate' \in {"Q_DRAW_WAIT", "Q_MMIO"}
        /\ CpuMay /\ frame_seen => Resting' /\ queue' = <<>>
    BY <1>1, <1>2, <1>3, <1>4, <2>1, <2>2, FramePhaseStep
  <2>4. ui' = "count" \/ (ui' = "app" /\ CpuMay /\ frame_seen)
    BY <1>3, <1>8 DEF Stay, LeaveMove, Goes
  <2> QED BY <1>4, <1>6, <1>8, <2>3, <2>4 DEF Orderly, Phase, RestPCs, WaitPCs, StopPCs
<1>9. CASE /\ ui \in {"rendering", "stop", "abort", "stopping"} /\ RenderPhase
           /\ ui # "rendering" => MayInterrupt
  <2>1. queue = <<>>
    BY <1>2, <1>9 DEF Assembled
  <2>2. loaded # "frame"
    BY <1>2, <1>9 DEF RenderPhase, Tied
  <2>3. RenderPhase' /\ queue' = <<>> /\ ~front_error' /\ ~fifo_pop'
    BY <1>1, <1>2, <1>3, <1>9, <2>1, RenderPhaseStep
  <2>4. Orderly'
    BY <1>6, <2>3 DEF Orderly, RenderPhase, NoFrame
  <2>5. \/ ui' \in {"rendering", "stop", "abort", "stopping"} /\ ui' = ui
        \/ Goes("rendering", "stop") /\ MayInterrupt
        \/ Goes("stop", "abort") /\ busy
        \/ Goes("abort", "stopping")
        \/ ui' \in {"app", "swapping"} /\ ~busy /\ w.reg = "NONE" /\ CpuMay
    BY <1>3, <1>9 DEF Stay, LeaveMove, Goes, NoWrite
  <2>6. CASE ui' \in {"app", "swapping"}
    <3>1. ~busy /\ w.reg = "NONE" /\ CpuMay
      BY <1>9, <2>5, <2>6 DEF Goes
    <3>2. Resting /\ ~abort
      BY <1>9, <3>1 DEF Resting, NoStart, RenderPhase, NoFrame, CpuMay
    <3> QED BY <1>4, <1>5, <1>9, <2>2, <2>3, <2>4, <2>6, <3>1, <3>2
            DEF Phase, RestPCs, WaitPCs, StopPCs
  <2>7. CASE ui' \notin {"app", "swapping"}
    <3>1. /\ ui' \in {"rendering", "stop", "abort", "stopping"}
          /\ ui' # "rendering" => MayInterrupt
      BY <1>9, <2>5, <2>7 DEF Goes
    <3> QED BY <1>4, <1>6, <1>9, <2>2, <2>3, <2>4, <3>1
            DEF Phase, RestPCs, WaitPCs, StopPCs
  <2> QED BY <2>6, <2>7
<1>10. CASE ui = "stop" /\ Resting
  <2>1. w.reg = "NONE" /\ ~abort /\ queue = <<>> /\ ~busy
    BY <1>2, <1>3, <1>10 DEF Goes, Orderly, Assembled, Resting
  <2>2. /\ Resting' /\ queue' = <<>> /\ engine_error' = engine_error
        /\ ~front_error' /\ ~fifo_pop'
    BY <1>5, <1>10, <2>1
  <2>3. ui' \in {"stop", "swapping"}
    BY <1>3, <1>10, <2>1 DEF Stay, LeaveMove, Goes
  <2> QED BY <1>2, <1>4, <1>6, <1>10, <2>2, <2>3
          DEF Orderly, Resting, busy, Phase, Tied, RestPCs, WaitPCs, StopPCs
<1> QED BY <1>2, <1>7, <1>8, <1>9, <1>10 DEF Phase, WaitPCs, StopPCs

(* A frame is assembled from an empty queue, and each of its two pushes is *)
(* accepted.                                                               *)
LEMMA AssembledStep ==
  ASSUME SysInv, NEW m \in Mmio, NEW w, NEW b \in BOOLEAN, SystemStep(m, w, b)
  PROVE  Assembled'
<1>1. /\ GoodWrite(w) /\ scene_ready \in BOOLEAN
      /\ frame_done_sticky \in BOOLEAN /\ UiMove(m, w)
      /\ WorkingClock(w, scene_ready, frame_done_sticky)
      /\ ui \in RestPCs \/ ui \in WaitPCs
  BY SystemMoves DEF SystemStep
<1>2. SInv /\ Phase /\ Assembled /\ Orderly /\ Tied /\ SceneTypeOK
  BY DEF SysInv, SceneSide, SInv
<1>3. CASE ui \in WaitPCs
  <2>1. ~cmd_push' /\ (ui # "count" \/ ui' # "count" => queue' = <<>>)
    BY <1>3, WaitPhase
  <2>2. ui' \in WaitPCs \cup {"render", "note", "app", "swapping"}
    BY <1>1, <1>3, WaitMoves DEF Stay, LeaveMove, Goes, load_result, job_start, WaitPCs, StopPCs
  <2> QED BY <1>3, <2>1, <2>2 DEF Assembled, WaitPCs, StopPCs, FramePCs
<1>4. CASE ui \in RestPCs
  <2>1. Resting /\ ~cmd_locked
    BY <1>2, <1>4 DEF Phase, Resting, busy
  <2>2. ~abort
    BY <1>2, <1>4 DEF Orderly, RestPCs, WaitPCs, StopPCs
  <2>3. /\ cmd_frame_count' = cmd_frame_count
        /\ queue' = IF cmd_push /\ cmd_mode /\ Len(queue) < QDepth
                    THEN queue \o <<cmd_data>> ELSE queue
    BY <1>1, <1>2, <2>1, <2>2, RestingStep
  <2>4. /\ cmd_push' = (w.reg = "CMD_PUSH" /\ cmd_mode /\ Len(queue) < QDepth)
        /\ cmd_push' => cmd_data' = w.kind
    BY <2>1 DEF SystemStep, SystemClock, SceneClock, SceneRegs, push_accepted, cmd_ready
  <2>5. ui \in FramePCs => cmd_mode /\ ~engine_error
    BY <1>2 DEF Tied
  <2>6. cmd_push /\ ~engine_error => Len(queue) < QDepth
    <3>1. cmd_push /\ ~engine_error => Pushed # <<>>
      BY <1>2 DEF SInv, PushKept
    <3> QED BY <3>1 DEF Pushed, cmd_ready
  <2>7. queue = <<>> => Len(queue) < QDepth
    <3>1. QDepth \in Nat \ {0} /\ Len(<<>>) = 0
      BY SceneAssumption DEF SceneAssumption
    <3> QED BY <3>1
  <2>8. CASE ui = "present_ready"
    <3>1. CASE cmd_push
      <4>1. queue' = <<"DRAW">>
        BY <1>2, <2>3, <2>5, <2>6, <2>8, <3>1, JobCommands DEF Assembled, FramePCs
      <4>2. Stay /\ w = NoWrite
        BY <1>1, <2>8, <3>1 DEF UiMove, CpuMay, Begin
      <4>3. ~cmd_push'
        BY <2>4, <4>2 DEF NoWrite
      <4> QED BY <1>2, <2>3, <2>8, <4>1, <4>2, <4>3
              DEF Assembled, Stay, FramePCs, Counted
    <3>2. CASE ~cmd_push
      <4>1. queue = <<"DRAW">> /\ queue' = <<"DRAW">>
        BY <1>2, <2>3, <2>8, <3>2 DEF Assembled
      <4>2. w = NoWrite /\ seen' = seen
            /\ (ui' = "present_ready" \/ (ui' = "present_push" /\ Len(queue) < QDepth))
        BY <1>1, <2>8
        DEF UiMove, Begin, Stay, CoreMove, SceneMove, LeaveMove, Goes, KeepJob, cmd_ready
      <4>3. ~cmd_push'
        BY <2>4, <4>2 DEF NoWrite
      <4> QED BY <1>2, <2>3, <2>8, <4>1, <4>2, <4>3, JobCommands
              DEF Assembled, FramePCs, Counted
    <3> QED BY <3>1, <3>2
  <2>9. CASE ui = "start"
    <3>1. CASE cmd_push
      <4>1. queue' = Job
        BY <1>2, <2>3, <2>5, <2>6, <2>9, <3>1, JobCommands DEF Assembled, FramePCs
      <4>2. Stay /\ w = NoWrite
        BY <1>1, <2>9, <3>1 DEF UiMove, CpuMay, Begin
      <4>3. ~cmd_push'
        BY <2>4, <4>2 DEF NoWrite
      <4> QED BY <1>2, <2>3, <2>9, <4>1, <4>2, <4>3
              DEF Assembled, Stay, FramePCs, Counted
    <3>2. CASE ~cmd_push
      <4>1. queue' = Job
        BY <1>2, <2>3, <2>9, <3>2 DEF Assembled
      <4>2. w.reg # "CMD_PUSH" /\ seen' = seen /\ ui' \in {"start", "count"}
        BY <1>1, <2>9
        DEF UiMove, Begin, Stay, CoreMove, SceneMove, LeaveMove, Goes, KeepJob, NoWrite
      <4> QED BY <1>2, <2>3, <2>4, <2>9, <4>1, <4>2 DEF Assembled, FramePCs, Counted
    <3> QED BY <3>1, <3>2
  <2>10. CASE ui = "present_push"
    <3>1. queue = <<"DRAW">> /\ queue' = <<"DRAW">> /\ 1 < QDepth
      BY <1>2, <2>3, <2>10 DEF Assembled
    <3>2. /\ seen' = seen
          /\ \/ ui' = ui /\ w = NoWrite
             \/ ui' = "start" /\ w = [reg |-> "CMD_PUSH", kind |-> "PRESENT"]
      BY <1>1, <2>10 DEF UiMove, Begin, Stay, CoreMove, SceneMove, LeaveMove, Goes, KeepJob
    <3>3. CASE ui' = ui /\ w = NoWrite
      <4>1. ~cmd_push'
        BY <2>4, <3>3 DEF NoWrite
      <4> QED BY <1>2, <2>3, <2>10, <3>1, <3>2, <3>3, <4>1 DEF Assembled, FramePCs, Counted
    <3>4. CASE ui' = "start" /\ w = [reg |-> "CMD_PUSH", kind |-> "PRESENT"]
      <4>1. cmd_push' /\ cmd_data' = "PRESENT"
        BY <2>4, <2>5, <2>10, <3>1, <3>4, JobCommands DEF FramePCs
      <4> QED BY <1>2, <2>3, <2>10, <3>1, <3>2, <3>4, <4>1 DEF Assembled, FramePCs, Counted
    <3> QED BY <3>2, <3>3, <3>4
  <2>11. CASE ui = "draw_push"
    <3>1. queue = <<>> /\ queue' = <<>>
      BY <1>2, <2>3, <2>11 DEF Assembled
    <3>2. /\ seen' = seen
          /\ \/ ui' = ui /\ w = NoWrite
             \/ ui' = "present_ready" /\ w = [reg |-> "CMD_PUSH", kind |-> "DRAW"]
      BY <1>1, <2>11 DEF UiMove, Begin, Stay, CoreMove, SceneMove, LeaveMove, Goes, KeepJob
    <3>3. CASE ui' = ui /\ w = NoWrite
      <4>1. ~cmd_push'
        BY <2>4, <3>3 DEF NoWrite
      <4> QED BY <1>2, <2>3, <2>11, <3>1, <3>2, <3>3, <4>1 DEF Assembled, FramePCs, Counted
    <3>4. CASE ui' = "present_ready" /\ w = [reg |-> "CMD_PUSH", kind |-> "DRAW"]
      <4>1. cmd_push' /\ cmd_data' = "DRAW"
        BY <2>4, <2>5, <2>7, <2>11, <3>1, <3>4 DEF FramePCs
      <4> QED BY <1>2, <2>3, <2>11, <3>1, <3>2, <3>4, <4>1 DEF Assembled, FramePCs, Counted
    <3> QED BY <3>2, <3>3, <3>4
  <2>12. CASE ui \notin {"present_ready", "present_push", "start", "draw_push"}
    <3>1. queue = <<>> /\ ~cmd_push /\ queue' = <<>>
      BY <1>2, <1>4, <2>3, <2>12 DEF Assembled, RestPCs, WaitPCs
    <3>2. w.reg # "CMD_PUSH" /\ ui' \notin {"present_ready", "present_push", "start", "count"}
      <4>1. w.reg # "CMD_PUSH"
        BY <1>1, <1>4, <2>12, RestMoves DEF Goes
      <4>2. ui' \notin {"present_ready", "present_push", "start", "count"}
        BY <1>1, <1>4, <2>12
        DEF UiMove, Begin, Stay, CoreMove, SceneMove, LeaveMove, Goes, next_step, load_or_start,
            job_start, load_result, RestPCs, WaitPCs
      <4> QED BY <4>1, <4>2
    <3>3. ui' \in FramePCs \ {"note", "count"} => Counted'
      <4> SUFFICES ASSUME ui' \in {"draw_ready", "draw_push"} PROVE Counted'
        BY <3>2 DEF FramePCs
      <4>1. \/ ui = "note" /\ seen' = cmd_frame_count
            \/ ui = "draw_ready" /\ seen' = seen
        BY <1>1, <1>4, <2>12
        DEF UiMove, Begin, Stay, CoreMove, SceneMove, LeaveMove, Goes, next_step, load_or_start,
            job_start, load_result, RestPCs, WaitPCs, KeepJob
      <4> QED BY <1>2, <2>3, <4>1 DEF Assembled, FramePCs, Counted
    <3> QED BY <2>4, <3>1, <3>2, <3>3 DEF Assembled
  <2> QED BY <2>8, <2>9, <2>10, <2>11, <2>12
<1> QED BY <1>1, <1>3, <1>4

(* What the thread knows of mode and model.                                *)
LEMMA TiedStep ==
  ASSUME SysInv, NEW m \in Mmio, NEW w, NEW b \in BOOLEAN, SystemStep(m, w, b)
  PROVE  Tied'
<1>1. /\ GoodWrite(w) /\ scene_ready \in BOOLEAN
      /\ frame_done_sticky \in BOOLEAN /\ UiMove(m, w)
      /\ WorkingClock(w, scene_ready, frame_done_sticky)
      /\ ui \in RestPCs \/ ui \in WaitPCs
  BY SystemMoves DEF SystemStep
<1>2. SInv /\ Phase /\ Orderly /\ Tied
  BY DEF SysInv, SceneSide
<1>3. CASE ui \in WaitPCs
  <2>1. cmd_mode' = cmd_mode /\ render_cfg' = render_cfg
    BY <1>1, <1>3, WaitMoves DEF WorkingClock, SceneRegs
  <2>2. op' = op /\ (Stay \/ (LeaveMove(w) /\ CpuMay))
    BY <1>1, <1>3, WaitMoves
  <2>3. loaded = "frame" => ~engine_error'
    BY <1>3, WaitPhase
  <2>4. CASE Stay
    BY <1>2, <1>3, <2>1, <2>3, <2>4 DEF Stay, Tied
  <2>5. CASE LeaveMove(w) /\ CpuMay /\ ui = "loading"
    <3>1. /\ loaded = "none" /\ op \in {"render", "frame"} /\ cmd_mode = (op = "frame")
      BY <1>2, <2>5 DEF Tied
    <3>2. CASE ui' = "app" /\ loaded' = loaded
      BY <2>1, <2>2, <3>1, <3>2 DEF Tied, UiPCs, FramePCs
    <3>3. CASE ui' = job_start /\ loaded' = op /\ ~scene_error /\ ~busy
      <4>1. ~engine_error'
        <5>1. Resting /\ ~abort /\ w.reg = "NONE"
          BY <1>2, <2>5, <3>3
          DEF LeaveMove, Goes, Phase, LoadPhase, NoFrame, Resting, NoStart, Orderly, NoWrite, CpuMay
        <5> QED BY <1>1, <1>2, <3>3, <5>1, RestingStep DEF scene_error
      <4> QED BY <2>1, <2>2, <3>1, <3>3, <4>1 DEF Tied, UiPCs, FramePCs, job_start
    <3> QED BY <2>5, <3>1, <3>2, <3>3 DEF LeaveMove, Goes, load_result, job_start
  <2>6. CASE LeaveMove(w) /\ ui # "loading"
    <3>1. /\ loaded' = loaded
          /\ ui' \in {"app", "stop", "abort", "stopping", "swapping"}
      BY <2>6 DEF LeaveMove, Goes, KeepJob
    <3> QED BY <1>2, <2>1, <2>2, <2>3, <3>1 DEF Tied, UiPCs, FramePCs
  <2> QED BY <2>2, <2>4, <2>5, <2>6
<1>4. CASE ui \in RestPCs
  <2>1. Resting /\ ~busy
    BY <1>2, <1>4 DEF Phase, Resting
  <2>2. ~abort
    BY <1>2, <1>4 DEF Orderly, RestPCs, WaitPCs, StopPCs
  <2>3. /\ engine_error' = engine_error
        /\ cmd_mode' = IF w.reg = "CMD_CFG" THEN w.on ELSE cmd_mode
        /\ render_cfg' = IF w.reg = "RENDER_CFG" THEN w.bits ELSE render_cfg
    BY <1>1, <1>2, <2>1, <2>2, RestingStep DEF WorkingClock, SceneRegs
  <2>4. CASE Stay /\ w = NoWrite
    BY <1>2, <2>3, <2>4 DEF Stay, Tied, NoWrite
  <2>5. CASE Begin /\ w = NoWrite
    BY <1>2, <2>3, <2>5 DEF Begin, Tied, NoWrite, UiPCs, FramePCs
  <2>6. CASE CoreMove(m) /\ w = NoWrite
    BY <1>2, <2>3, <2>6
    DEF CoreMove, Goes, KeepJob, next_step, Tied, NoWrite, UiPCs, FramePCs
  <2>7. CASE SceneMove(w) /\ ui = "cfg"
    <3>1. /\ op = "render" /\ loaded # "frame" /\ w.reg = "RENDER_CFG" /\ w.bits \in RenderCfgs
          /\ ui' = load_or_start /\ KeepJob
      BY <1>2, <2>7 DEF SceneMove, Goes, Tied
    <3>2. cmd_mode' = cmd_mode
      BY <2>3, <3>1
    <3> QED BY <1>2, <2>3, <3>1, <3>2
            DEF KeepJob, load_or_start, job_start, Tied, UiPCs, FramePCs
  <2>8. CASE SceneMove(w) /\ ui = "mode"
    <3>1. /\ w.reg = "CMD_CFG" /\ w.on = (op = "frame") /\ ui' = "start_load" /\ KeepJob
      BY <2>8 DEF SceneMove, Goes
    <3> QED BY <1>2, <2>3, <2>8, <3>1 DEF KeepJob, Tied, UiPCs, FramePCs
  <2>9. CASE SceneMove(w) /\ ui \notin {"cfg", "mode"}
    <3>1. w.reg # "RENDER_CFG" /\ w.reg # "CMD_CFG"
      BY <1>1, <1>4, <2>9, RestMoves DEF Goes
    <3> QED BY <1>2, <2>3, <2>9, <3>1
            DEF SceneMove, Goes, KeepJob, Tied, UiPCs, FramePCs
  <2> QED BY <1>1, <1>4, <2>4, <2>5, <2>6, <2>7, <2>8, <2>9
          DEF UiMove, LeaveMove, Goes, RestPCs, WaitPCs, StopPCs
<1> QED BY <1>1, <1>3, <1>4

(* Where a render may be interrupted the engine never presents by itself.  *)
LEMMA AloneStep ==
  ASSUME NoAbandonedPresent, SysInv, SInv', NEW m \in Mmio, NEW w, NEW b \in BOOLEAN,
         SystemStep(m, w, b)
  PROVE  Alone'
<1> SUFFICES ASSUME Presenting' PROVE ~MayInterrupt' /\ ~cmd_mode'
  BY DEF Alone
<1>1. /\ scene_ready \in BOOLEAN /\ frame_done_sticky \in BOOLEAN
      /\ Engine(scene_ready, frame_done_sticky) /\ UiMove(m, w)
      /\ WorkingClock(w, scene_ready, frame_done_sticky)
      /\ ui \in RestPCs \/ ui \in WaitPCs
  BY SystemMoves DEF SystemStep, WorkingClock
<1>2. SInv /\ SceneTypeOK /\ EngineTrue /\ Phase /\ Tied /\ Alone
  BY DEF SysInv, SceneSide, SInv
<1>3. ~cmd_mode'
  BY DEF SInv, EngineServes, Presenting, AtWork
<1>4. CASE render_cfg' = render_cfg
  <2> SUFFICES ASSUME MayInterrupt PROVE FALSE
    BY <1>3, <1>4 DEF MayInterrupt
  <2>1. ~Presenting
    BY <1>2 DEF Alone
  <2>2. auto_present
    <3>1. AtWork => /\ estate \notin {"WAIT_FRAME", "CLEAR_DONE"}
                    /\ estate = "CMD_WRITE" => cmd_kind = "draw"
      BY <1>2, <2>1 DEF Presenting, SceneTypeOK
    <3>2. ~auto_present => /\ estate' \notin {"WAIT_FRAME", "CLEAR_DONE"}
                           /\ estate' = "CMD_WRITE" => cmd_kind' = "draw"
      BY <1>1, <1>2, <3>1, DrawOnly
    <3> QED BY <3>2 DEF Presenting
  <2> QED BY <2>2 DEF auto_present, MayInterrupt, NoAbandonedPresent
<1>5. CASE render_cfg' # render_cfg
  <2>1. w.reg = "RENDER_CFG"
    BY <1>1, <1>5 DEF WorkingClock, SceneRegs
  <2>2. ui \in RestPCs
    BY <1>1, <2>1, WaitMoves
  <2>3. ~AtWork /\ ~render_start
    BY <1>2, <2>2 DEF Phase, Resting, NoStart, busy, EngineTrue
  <2>4. ~cmd_draw_start
    BY <1>2, <2>2 DEF SInv, EngineServes, ModeStable, Phase, Resting, busy
  <2>5. ~AtWork'
    BY <1>1, <1>2, <2>3, <2>4, EngineStep DEF single_start, draw_start
  <2> QED BY <2>5 DEF Presenting, AtWork
<1> QED BY <1>4, <1>5

LEMMA SceneSideStep ==
  ASSUME NoAbandonedPresent, SysInv, NEW m \in Mmio, NEW w, NEW b \in BOOLEAN,
         SystemStep(m, w, b)
  PROVE  SceneSide'
<1>1. SInv'
  BY SystemMoves, ClockKeepsScene DEF SysInv, SceneSide, SystemStep, SystemClock
<1>2. Phase' /\ Orderly'
  BY SystemMoves, RestPhase, WaitPhase DEF SystemStep
<1> QED BY <1>1, <1>2, AssembledStep, TiedStep, AloneStep DEF SceneSide

-----------------------------------------------------------------------------
(***************************************************************************)
(* The SketchBook side, one clock: who is on the port, and what it leaves  *)
(* behind.                                                                 *)
(***************************************************************************)

(* Nobody pushes while a PRESENT is under way, and the core does its part. *)
LEMMA SketchCore ==
  ASSUME SysInv, NEW m \in Mmio, NEW w, NEW b \in BOOLEAN, SystemStep(m, w, b)
  PROVE  /\ FInv' /\ PagesShown' /\ Undisturbed' /\ Regs(port(m))
         /\ Settled => NotYet /\ AtRest'
         /\ Strobed => NotYet /\ InFifo'
         /\ Underway => \/ NotYet /\ Underway'
                        \/ Swapped /\ AtRest'
         /\ ~cmd_push_strobe /\ fifo_count # Depth => fifo_count' # Depth
         /\ [TwoPages!Next]_(TwoPages!bvars)
<1>1. /\ Clock(port(m), b) /\ port(m) \in Mmio /\ port(m).reg # "CTRL"
      /\ ui \in RestPCs \/ ui \in WaitPCs
      /\ ui \in RestPCs => port(m) = m
      /\ ui \in WaitPCs => port(m) = Request
      /\ UiMove(m, w)
  BY SystemMoves DEF SystemStep
<1>2. FInv /\ PagesShown /\ Undisturbed /\ Pushes /\ Owned /\ SInv
  BY DEF SysInv, SketchSide, SceneSide
<1>3. ASSUME port(m).reg = "CMD_PUSH", Waiting \/ qstate = "Q_PRESENT_CLEAR" PROVE FALSE
  <2>1. CASE ui \in RestPCs
    <3>1. m.reg = "CMD_PUSH"
      BY <1>1, <1>3, <2>1
    <3>2. ui = "push"
      BY <1>1, <3>1 DEF UiMove, CoreMove, Goes, Write, NoMmio
    <3> QED BY <1>3, <2>1, <3>2, CpuServed DEF Waiting, AtWork
  <2>2. CASE ui \in WaitPCs
    <3>1. Request.reg = "CMD_PUSH" /\ ui # "wait"
      BY <1>1, <1>3, <2>2 DEF WaitPCs, StopPCs
    <3>2. Request = NoMmio \/ Request = Write("STATUS", TRUE, FALSE)
      BY <1>2, <1>3, <3>1, Requests DEF Waiting
    <3> QED BY <3>1, <3>2 DEF NoMmio, Write
  <2> QED BY <1>1, <2>1, <2>2
<1>4. Settled \/ (Underway /\ ~Written(port(m), "CMD_PUSH"))
  <2>1. Settled \/ (Underway /\ (Waiting \/ qstate = "Q_PRESENT_CLEAR"))
    BY <1>2 DEF Owned, Due, Done, Free, Underway
  <2> QED BY <1>3, <2>1 DEF Written
<1>5. /\ FInv' /\ PagesShown' /\ Regs(port(m))
      /\ Settled => NotYet /\ AtRest'
      /\ Strobed => NotYet /\ InFifo'
      /\ Underway => \/ NotYet /\ Underway'
                     \/ Swapped /\ AtRest'
      /\ ~cmd_push_strobe /\ fifo_count # Depth => fifo_count' # Depth
      /\ [TwoPages!Next]_(TwoPages!bvars)
  BY <1>1, <1>2, <1>4, CoreClock DEF Pushes
<1>6. Undisturbed'
  BY <1>1, <1>2, <1>5 DEF Undisturbed, Regs, Written
<1> QED BY <1>5, <1>6

(* The moves of the engine as the port sees them.                          *)
Answered(ready) == engine_mmio_ready(ready)

LEMMA EngineMoves ==
  ASSUME SceneTypeOK, Presenting => ~abort, NEW ready \in BOOLEAN, NEW done \in BOOLEAN,
         Engine(ready, done)
  PROVE  /\ estate' = "CMD_WRITE" /\ write_phase' = 1 =>
              /\ estate = "CMD_WRITE" /\ cmd_kind' = cmd_kind
              /\ write_phase = 0 => Answered(ready)
              /\ write_phase = 1 => ~Answered(ready)
         /\ estate' = "WAIT_FRAME" =>
              \/ estate = "WAIT_FRAME"
              \/ estate = "CMD_WRITE" /\ write_phase = 1 /\ cmd_kind = "present" /\ Answered(ready)
         /\ (estate = "CMD_WRITE" /\ write_phase = 1 /\ cmd_kind = "present" /\ Answered(ready))
              => estate' = "WAIT_FRAME"
         /\ estate' = "CLEAR_DONE" => estate \in {"WAIT_FRAME", "CLEAR_DONE"}
         /\ (estate = "WAIT_FRAME" /\ Answered(ready) /\ done) => estate' = "CLEAR_DONE"
         /\ (estate = "WAIT_FRAME" /\ ~(Answered(ready) /\ done)) => estate' = "WAIT_FRAME"
         /\ (estate = "CLEAR_DONE" /\ Answered(ready)) => estate' \in {"RENDER", "READY"}
         /\ (estate = "CLEAR_DONE" /\ ~Answered(ready)) => estate' = "CLEAR_DONE"
<1> USE DEF SceneTypeOK, EngineAt, NoDrawDone, submission, EStates, StartLoad, HandBack,
            Presenting, Answered
<1>1. CASE EngineAbort           BY <1>1 DEF EngineAbort
<1>2. CASE EIdle                 BY <1>2 DEF EIdle
<1>3. CASE ELoad                 BY <1>3 DEF ELoad
<1>4. CASE EFail                 BY <1>4 DEF EFail
<1>5. CASE EReady                BY <1>5 DEF EReady
<1>6. CASE ERender               BY <1>6 DEF ERender
<1>7. CASE EWrite(ready)         BY <1>7 DEF EWrite, AfterSubmit
<1>8. CASE EWaitFrame(ready, done)  BY <1>8 DEF EWaitFrame
<1>9. CASE EClearDone(ready)     BY <1>9 DEF EClearDone
<1>10. CASE ERenderFinish        BY <1>10 DEF ERenderFinish
<1> QED BY <1>1, <1>2, <1>3, <1>4, <1>5, <1>6, <1>7, <1>8, <1>9, <1>10 DEF Engine

(* What an access leaves in the register file and of a PRESENT.            *)
LEMMA PortTells ==
  ASSUME SysInv, NEW m \in Mmio, NEW w, NEW b \in BOOLEAN, SystemStep(m, w, b)
  PROVE  /\ port(m).reg = "CMD" => cmd_present' = port(m).bit0
         /\ port(m).reg # "CMD" => cmd_present' = cmd_present
         /\ cmd_push_strobe' = (port(m).reg = "CMD_PUSH" /\ cmd_push_ready)
         /\ ~cmd_push_strobe /\ fifo_count # Depth => fifo_count' # Depth
         /\ Settled => ~swap_done'
         (* nothing is cleared *)
         /\ port(m).reg # "STATUS" =>
              /\ Due /\ ~cmd_push_strobe' => Due' \/ Done'
              /\ Done /\ ~cmd_push_strobe' => Done'
              /\ Free /\ ~(cmd_push_strobe' /\ cmd_present') =>
                   Free' /\ frame_done_sticky' = frame_done_sticky
              /\ Free /\ cmd_push_strobe' /\ cmd_present' =>
                   Strobed' /\ ~swap_done' /\ frame_done_sticky' = frame_done_sticky
         (* the completion is cleared *)
         /\ port(m) = Write("STATUS", TRUE, FALSE) =>
              /\ Settled => Free' /\ ~frame_done_sticky'
              /\ Strobed => Due'
<1> DEFINE r == port(m)
<1>1. /\ Regs(r)
      /\ Settled => NotYet /\ AtRest'
      /\ Strobed => NotYet /\ InFifo'
      /\ Underway => \/ NotYet /\ Underway'
                     \/ Swapped /\ AtRest'
      /\ ~cmd_push_strobe /\ fifo_count # Depth => fifo_count' # Depth
  BY SketchCore
<1>2. TypeOK
  BY DEF SysInv, SketchSide, FInv, IInv
<1> HIDE DEF r
<1> USE DEF Regs, Written, mmio_ready
<1>3. /\ r.reg = "CMD" => cmd_present' = r.bit0
      /\ r.reg # "CMD" => cmd_present' = cmd_present
  BY <1>1
<1>4. cmd_push_strobe' = (r.reg = "CMD_PUSH" /\ cmd_push_ready)
  BY <1>1
<1>5. r.reg # "STATUS" => frame_done_sticky' = (frame_done_sticky \/ swap_done)
  BY <1>1, <1>2 DEF TypeOK
<1>6. ASSUME r.reg # "STATUS", ~cmd_push_strobe' PROVE (Due => Due' \/ Done') /\ (Done => Done')
  <2>1. ASSUME Due PROVE Due' \/ Done'
    <3>1. ~frame_done_sticky'
      BY <1>2, <1>5, <1>6, <2>1 DEF Due, TypeOK
    <3> QED BY <1>1, <1>6, <2>1, <3>1 DEF Due, Done, NotYet, Swapped, Settled
  <2>2. ASSUME Done PROVE Done'
    BY <1>1, <1>5, <1>6, <2>2 DEF Done, Settled
  <2> QED BY <2>1, <2>2
<1>7. ASSUME r.reg # "STATUS", Free
      PROVE  /\ frame_done_sticky' = frame_done_sticky /\ AtRest' /\ ~swap_done'
  BY <1>1, <1>2, <1>5, <1>7 DEF Free, NotYet, TypeOK
<1>8. ASSUME r = Write("STATUS", TRUE, FALSE)
      PROVE  (Settled => Free' /\ ~frame_done_sticky') /\ (Strobed => Due')
  <2>1. ~frame_done_sticky' /\ ~cmd_push_strobe'
    BY <1>1, <1>8 DEF Write
  <2> QED BY <1>1, <2>1 DEF Free, Settled, NotYet, Due, Underway
<1> QED
  BY <1>1, <1>3, <1>4, <1>6, <1>7, <1>8 DEF Free, Settled, Strobed, NotYet, r

(* The thread alone on the port.                                           *)
LEMMA RestBus ==
  ASSUME SysInv, NEW m \in Mmio, NEW w, NEW b \in BOOLEAN, SystemStep(m, w, b), ui \in RestPCs
  PROVE  Pushes' /\ Owned'
<1>1. /\ UiMove(m, w) /\ port(m) = m /\ GoodWrite(w)
      /\ scene_ready \in BOOLEAN /\ frame_done_sticky \in BOOLEAN
      /\ WorkingClock(w, scene_ready, frame_done_sticky)
  BY SystemMoves DEF SystemStep
<1>2. SInv /\ Phase /\ Orderly /\ Tied /\ Pushes /\ Owned
  BY DEF SysInv, SketchSide, SceneSide
<1>3. qstate = "Q_IDLE" /\ ~AtWork /\ (ui = "push" => cmd_push_ready)
  BY CpuServed
<1>4. qstate' = "Q_IDLE" /\ ~AtWork'
  <2>1. Resting /\ ~abort
    BY <1>2 DEF Phase, Orderly, RestPCs, WaitPCs, StopPCs
  <2>2. ~busy'
    BY <1>1, <1>2, <2>1, RestingStep
  <2>3. EngineTrue'
    BY <1>1, <1>2, EngineTrueStep DEF SInv, WorkingClock
  <2> QED BY <2>2, <2>3 DEF busy, EngineTrue
<1>5. /\ Waiting <=> ui = "wait"
      /\ Clearing <=> ui = "clear"
      /\ Pushing <=> ui = "push"
  BY <1>3 DEF Waiting, Clearing, Pushing, AtWork
<1>6. /\ Waiting' <=> ui' = "wait"
      /\ Clearing' <=> ui' = "clear"
      /\ Pushing' <=> ui' = "push"
  BY <1>4 DEF Waiting, Clearing, Pushing, AtWork
<1>7. /\ PacketIntact' <=> (ui' = "push" => cmd_present' = (op' = "present"))
  BY <1>4 DEF PacketIntact, AtWork
<1>8. CASE m = NoMmio
  <2>1. m.reg = "NONE"
    BY <1>8 DEF NoMmio, Write
  <2>2. /\ ~cmd_push_strobe' /\ cmd_present' = cmd_present
        /\ ~cmd_push_strobe /\ fifo_count # Depth => fifo_count' # Depth
        /\ Settled => ~swap_done'
        /\ Due => Due' \/ Done'
        /\ Done => Done'
        /\ Free => Free' /\ frame_done_sticky' = frame_done_sticky
    BY <1>1, <2>1, PortTells
  <2>3. /\ loaded' = loaded
        /\ ui' \in {"push", "clear", "wait"} =>
             ui = ui' \/ (Goes("wait", "clear") /\ frame_done_sticky)
        /\ ui' = "push" => op' = op
        /\ ui' = "load" => ui = "load" \/ (ui = "poll" /\ ~submit_blocked)
        /\ ui = "wait" => ui' \in {"wait", "clear"}
        /\ ui = "clear" => ui' = "clear"
    BY <1>1, <1>8 DEF UiMove, Stay, Begin, CoreMove, SceneMove, LeaveMove, Goes, KeepJob, RestPCs,
       WaitPCs, StopPCs, NoMmio, Write, load_or_start, job_start
  <2>4. Pushes'
    <3>1. PacketIntact'
      BY <1>2, <1>7, <2>2, <2>3 DEF Goes, Pushes, PacketIntact
    <3>2. ui' \in {"load", "push"} => fifo_count' # Depth
      BY <1>2, <1>5, <2>2, <2>3 DEF Goes, Pushes, submit_blocked, cmd_full
    <3> QED BY <2>2, <3>1, <3>2 DEF Pushes
  <2>5. Owned'
    <3>1. CASE ui = "wait"
      <4>1. Due \/ Done
        BY <1>2, <1>5, <3>1 DEF Owned
      <4>2. ui' = "clear" => Free' /\ frame_done_sticky'
        BY <2>2, <2>3, <3>1, <4>1 DEF Goes, Due, Done, Free
      <4> QED BY <1>4, <1>6, <2>2, <2>3, <3>1, <4>1, <4>2 DEF Owned
    <3>2. CASE ui # "wait"
      BY <1>2, <1>3, <1>4, <1>5, <1>6, <2>2, <2>3, <3>2 DEF Owned, Goes
    <3> QED BY <3>1, <3>2
  <2> QED BY <2>4, <2>5
<1>9. CASE m = Write("CMD", op = "present", FALSE) /\ ui = "load"
  <2>1. m.reg = "CMD" /\ m.bit0 = (op = "present")
    BY <1>9 DEF Write
  <2>2. /\ ~cmd_push_strobe' /\ cmd_present' = (op = "present")
        /\ ~cmd_push_strobe /\ fifo_count # Depth => fifo_count' # Depth
        /\ Free => Free' /\ frame_done_sticky' = frame_done_sticky
    BY <1>1, <2>1, PortTells
  <2>3. Goes("load", "push") /\ KeepJob
    BY <1>1, <2>1, <1>9 DEF UiMove, CoreMove, NoMmio, Write, Goes
  <2>4. Pushes'
    BY <1>2, <1>5, <1>6, <1>7, <2>2, <2>3 DEF Pushes, Goes, KeepJob
  <2>5. Owned'
    BY <1>2, <1>3, <1>4, <1>5, <1>6, <2>2, <2>3 DEF Owned, Goes, KeepJob
  <2> QED BY <2>4, <2>5
<1>10. CASE m = Write("CMD_PUSH", FALSE, FALSE) /\ ui = "push"
  <2>1. m.reg = "CMD_PUSH"
    BY <1>10 DEF Write
  <2>2. Goes("push", next_step) /\ KeepJob
    BY <1>1, <2>1, <1>10 DEF UiMove, CoreMove, NoMmio, Write, Goes
  <2>3. /\ cmd_push_strobe' /\ cmd_present' = cmd_present
        /\ ~cmd_push_strobe /\ fifo_count # Depth => fifo_count' # Depth
        /\ Free /\ ~cmd_present' => Free' /\ frame_done_sticky' = frame_done_sticky
        /\ Free /\ cmd_present' =>
             Strobed' /\ ~swap_done' /\ frame_done_sticky' = frame_done_sticky
    BY <1>1, <1>3, <1>10, <2>1, PortTells
  <2>4. Free /\ (frame_done_sticky => loaded = "frame")
    BY <1>2, <1>3, <1>5, <1>10 DEF Owned
  <2>5. cmd_present' <=> op = "present"
    BY <1>2, <1>10, <2>3 DEF Pushes, PacketIntact
  <2>6. Pushes'
    BY <1>2, <1>5, <1>6, <1>7, <1>10, <2>2, <2>3 DEF Pushes, Goes, next_step
  <2>7. Owned'
    <3>1. CASE op = "present"
      <4>1. ui' = "wait" /\ loaded # "frame"
        BY <1>2, <2>2, <3>1 DEF Goes, next_step, Tied
      <4>2. Due'
        BY <2>3, <2>4, <2>5, <3>1, <4>1 DEF Due, Underway
      <4> QED BY <1>4, <1>6, <4>1, <4>2 DEF Owned
    <3>2. CASE op # "present"
      <4>1. ui' = "app" /\ loaded' = loaded
        BY <2>2, <3>2 DEF Goes, next_step, KeepJob
      <4> QED BY <1>4, <1>6, <2>3, <2>4, <2>5, <3>2, <4>1 DEF Owned
    <3> QED BY <3>1, <3>2
  <2> QED BY <2>6, <2>7
<1>11. CASE m = Write("STATUS", TRUE, FALSE) /\ ui \in {"clear", "discard"}
  <2>1. m.reg = "STATUS"
    BY <1>11 DEF Write
  <2>2. ui' = "app"
    BY <1>1, <2>1, <1>11 DEF UiMove, CoreMove, NoMmio, Write, Goes
  <2>3. Settled
    BY <1>2, <1>3, <1>5, <1>11 DEF Owned, Free
  <2>4. ~cmd_push_strobe' /\ Free' /\ ~frame_done_sticky'
    BY <1>1, <1>11, <2>1, <2>3, PortTells
  <2>5. Pushes'
    BY <1>6, <1>7, <2>2, <2>4 DEF Pushes
  <2>6. Owned'
    BY <1>4, <1>6, <2>2, <2>4 DEF Owned
  <2> QED BY <2>5, <2>6
<1> QED BY <1>1, <1>8, <1>9, <1>10, <1>11 DEF UiMove, CoreMove, Goes
(* While the thread waits for the controller, the port answers the          *)
(* controller and the thread turns to no access of its own.                *)
LEMMA WaitPort ==
  ASSUME SysInv, NEW m \in Mmio, NEW w, NEW b \in BOOLEAN, SystemStep(m, w, b), ui \in WaitPCs
  PROVE  /\ port(m) = Request /\ Request \in Mmio
         /\ front_mmio_valid \/ engine_mmio_valid =>
              (scene_ready <=> (Request.reg = "CMD_PUSH" => cmd_push_ready))
         /\ ui' \notin {"poll", "load", "push", "wait", "clear"}
         /\ loaded # "none" => loaded' = loaded
<1>1. /\ UiMove(m, w) /\ port(m) = Request /\ SInv
  BY SystemMoves DEF SystemStep, SysInv, SceneSide
<1>2. front_mmio_valid \/ engine_mmio_valid => port_owner = "scene"
  BY <1>1, Requests DEF port_owner
<1>3. front_mmio_valid \/ engine_mmio_valid =>
        (scene_ready <=> (Request.reg = "CMD_PUSH" => cmd_push_ready))
  BY <1>2 DEF scene_ready, mmio_ready
<1>4. Stay \/ LeaveMove(w)
  BY <1>1, WaitMoves
<1>5. ui = "loading" => loaded = "none"
  BY DEF SysInv, SceneSide, Tied
<1>6. ui' \notin {"poll", "load", "push", "wait", "clear"}
  BY <1>4 DEF Stay, LeaveMove, Goes, WaitPCs, StopPCs, load_result, job_start
<1>7. loaded # "none" => loaded' = loaded
  BY <1>4, <1>5 DEF Stay, LeaveMove, Goes, KeepJob
<1> QED BY <1>1, <1>3, <1>6, <1>7, Requests

(* The sequencer on the port.                                              *)
LEMMA FrameBus ==
  ASSUME SysInv, SInv', NEW m \in Mmio, NEW w, NEW b \in BOOLEAN, SystemStep(m, w, b),
         ui \in WaitPCs, front_mmio_valid
  PROVE  Pushes' /\ Owned'
<1>1. /\ UiMove(m, w) /\ port(m) = Request
      /\ scene_ready \in BOOLEAN /\ frame_done_sticky \in BOOLEAN
      /\ WorkingClock(w, scene_ready, frame_done_sticky)
  BY SystemMoves DEF SystemStep
<1>2. SInv /\ Phase /\ Orderly /\ Tied /\ Pushes /\ Owned
  BY DEF SysInv, SketchSide, SceneSide
<1>3. ui = "count" /\ Running
  BY <1>2 DEF front_mmio_valid, Phase, WaitPCs, StopPCs, LoadPhase, RenderPhase, NoFrame, Resting,
              FramePhase, Started, busy
<1>4. loaded = "frame" /\ cmd_mode /\ ~engine_error
  BY <1>2, <1>3 DEF Tied, FramePCs
<1>5. w.reg = "NONE"
  BY <1>1, <1>3, WaitMoves DEF Goes
<1>6. cmd_mode'
  BY <1>1, <1>4, <1>5 DEF WorkingClock, SceneRegs
<1> DEFINE ready == scene_ready
           done == frame_done_sticky
<1>7. /\ qstate = "Q_MMIO" /\ ready /\ mmio_phase = 1 => qstate' = "Q_PRESENT_CLEAR"
      /\ qstate = "Q_MMIO" /\ ~(ready /\ mmio_phase = 1) =>
           /\ qstate' = "Q_MMIO" /\ present_pending'
           /\ mmio_phase' = IF ready THEN 1 ELSE mmio_phase
      /\ qstate = "Q_PRESENT_CLEAR" =>
           qstate' = (IF ready THEN "Q_PRESENT_WAIT" ELSE "Q_PRESENT_CLEAR")
      /\ qstate = "Q_PRESENT_WAIT" =>
           qstate' = (IF ready /\ done THEN "Q_IDLE" ELSE "Q_PRESENT_WAIT")
  BY <1>1, <1>2, <1>3, <1>4, FrameMoves DEF WorkingClock
<1>8. /\ ui' \notin {"poll", "load", "push", "wait", "clear"} /\ loaded' = "frame"
      /\ ready <=> (Request.reg = "CMD_PUSH" => cmd_push_ready)
  BY <1>4, WaitPort
<1>9. ~AtWork /\ ~AtWork'
  BY <1>2, <1>4, <1>6, <1>7 DEF SInv, EngineServes, front_mmio_valid
<1>10. /\ Waiting <=> qstate = "Q_PRESENT_WAIT"
       /\ ~Clearing
       /\ Pushing <=> qstate = "Q_MMIO" /\ mmio_phase = 1
  BY <1>3, <1>9 DEF Waiting, Clearing, Pushing, AtWork
<1>11. /\ Waiting' <=> qstate' = "Q_PRESENT_WAIT"
       /\ ~Clearing'
       /\ Pushing' <=> qstate' = "Q_MMIO" /\ mmio_phase' = 1
       /\ PacketIntact' <=> (qstate' = "Q_MMIO" /\ mmio_phase' = 1 =>
                                cmd_present' = present_pending')
  BY <1>8, <1>9 DEF Waiting, Clearing, Pushing, AtWork, PacketIntact
<1>12. /\ present_pending \in BOOLEAN /\ mmio_phase \in {0, 1} /\ cmd_present' \in BOOLEAN
  BY <1>2, SketchCore DEF SInv, SceneTypeOK, FInv, IInv, TypeOK
<1> HIDE DEF ready, done
<1>13. CASE qstate = "Q_MMIO" /\ mmio_phase = 0
  <2>1. Request.reg = "CMD" /\ Request.bit0 = present_pending
    BY <1>2, <1>13, Requests DEF Submission, Access
  <2>2. /\ ~cmd_push_strobe' /\ cmd_present' = present_pending
        /\ Free => Free' /\ frame_done_sticky' = frame_done_sticky
    BY <1>1, <2>1, PortTells
  <2>3. qstate' = "Q_MMIO" /\ mmio_phase' = 1 /\ present_pending' /\ present_pending
    BY <1>3, <1>7, <1>8, <1>13, <2>1 DEF Running
  <2>4. Pushes'
    BY <1>8, <1>11, <1>12, <2>2, <2>3, SketchCore DEF Pushes, FInv, IInv, TypeOK
  <2>5. Owned'
    BY <1>2, <1>8, <1>10, <1>11, <1>13, <2>2, <2>3 DEF Owned
  <2> QED BY <2>4, <2>5
<1>14. CASE qstate = "Q_MMIO" /\ mmio_phase = 1
  <2>1. Request.reg = "CMD_PUSH"
    BY <1>2, <1>14, Requests DEF Submission, Access
  <2>2. present_pending /\ cmd_present = present_pending /\ ~cmd_push_strobe
    BY <1>2, <1>3, <1>10, <1>14 DEF Running, Pushes, PacketIntact
  <2>3. Free
    BY <1>2, <1>10, <1>14 DEF Owned
  <2>4. CASE cmd_push_ready
    <3>1. /\ cmd_push_strobe' /\ cmd_present' = cmd_present
          /\ ~cmd_push_strobe /\ fifo_count # Depth => fifo_count' # Depth
      BY <1>1, <2>1, <2>4, PortTells
    <3>2. Strobed' /\ ~swap_done'
      BY <1>1, <2>1, <2>2, <2>3, <3>1, PortTells
    <3>3. qstate' = "Q_PRESENT_CLEAR"
      BY <1>7, <1>8, <1>14, <2>4
    <3>4. fifo_count' # Depth
      BY <2>2, <2>4, <3>1 DEF cmd_push_ready, cmd_full
    <3>5. Pushes' /\ Owned'
      BY <1>8, <1>11, <3>2, <3>3, <3>4 DEF Pushes, Owned
    <3> QED BY <3>5
  <2>5. CASE ~cmd_push_ready
    <3>1. /\ ~cmd_push_strobe' /\ cmd_present' = cmd_present
          /\ Free => Free' /\ frame_done_sticky' = frame_done_sticky
      BY <1>1, <2>1, <2>5, PortTells
    <3>2. qstate' = "Q_MMIO" /\ mmio_phase' = 1 /\ present_pending'
      BY <1>7, <1>8, <1>14, <2>1, <2>5
    <3>3. present_pending' = present_pending
      BY <1>2, <2>2, <3>2, SketchCore, SMT DEF SInv, SceneTypeOK
    <3>4. Pushes'
      BY <1>8, <1>11, <2>2, <3>1, <3>2, <3>3 DEF Pushes
    <3>5. Owned'
      BY <1>8, <1>11, <2>3, <3>1, <3>2 DEF Owned
    <3> QED BY <3>4, <3>5
  <2> QED BY <2>4, <2>5
<1>15. CASE qstate = "Q_PRESENT_CLEAR"
  <2>1. Request = Write("STATUS", TRUE, FALSE) /\ Request.reg = "STATUS"
    BY <1>2, <1>15, Requests DEF Write
  <2>2. Strobed
    BY <1>2, <1>15 DEF Owned
  <2>3. ~cmd_push_strobe' /\ Due'
    BY <1>1, <2>1, <2>2, PortTells
  <2>4. qstate' = "Q_PRESENT_WAIT"
    BY <1>7, <1>8, <1>15, <2>1
  <2>5. Pushes' /\ Owned'
    BY <1>8, <1>11, <2>3, <2>4 DEF Pushes, Owned
  <2> QED BY <2>5
<1>16. CASE qstate = "Q_PRESENT_WAIT"
  <2>1. Request.reg = "NONE"
    BY <1>2, <1>16, Requests DEF NoMmio, Write
  <2>2. /\ ~cmd_push_strobe' /\ (Due => Due' \/ Done') /\ (Done => Done')
        /\ Settled => ~swap_done'
    BY <1>1, <2>1, PortTells
  <2>3. Due \/ Done
    BY <1>2, <1>10, <1>16 DEF Owned
  <2>4. Pushes'
    BY <1>7, <1>8, <1>11, <1>16, <2>2 DEF Pushes
  <2>5. CASE done
    <3>1. qstate' = "Q_IDLE"
      BY <1>7, <1>8, <1>16, <2>1, <2>5
    <3>2. Free'
      BY <2>2, <2>3, <2>5 DEF Due, Done, Free, done
    <3> QED BY <1>8, <1>11, <2>4, <3>1, <3>2 DEF Owned
  <2>6. CASE ~done
    <3>1. qstate' = "Q_PRESENT_WAIT"
      BY <1>7, <1>16, <2>6
    <3> QED BY <1>11, <2>2, <2>3, <2>4, <3>1 DEF Owned
  <2> QED BY <2>5, <2>6
<1> QED BY <1>12, <1>13, <1>14, <1>15, <1>16 DEF front_mmio_valid

(* A sequencer that is not on the port comes to it with the first write of *)
(* a packet.                                                               *)
LEMMA FrameEnters ==
  ASSUME ~front_mmio_valid, NEW ready, NEW done, Sequencer(ready, done)
  PROVE  /\ qstate' \notin {"Q_PRESENT_CLEAR", "Q_PRESENT_WAIT"}
         /\ qstate' = "Q_MMIO" => mmio_phase' = 0
<1> USE DEF Sequencing, front_mmio_valid, Fail
<1>1. CASE QAbandon              BY <1>1 DEF QAbandon
<1>2. CASE QIdle                 BY <1>2 DEF QIdle
<1>3. CASE QBadCommand           BY <1>3 DEF QBadCommand
<1>4. CASE QSubmit               BY <1>4 DEF QSubmit
<1>5. CASE QDraw                 BY <1>5 DEF QDraw
<1>6. CASE QDrawWait             BY <1>6 DEF QDrawWait
<1>7. CASE QMmio(ready) \/ QPresentClear(ready) \/ QPresentWait(ready, done)
  BY <1>7 DEF QMmio, QPresentClear, QPresentWait
<1>8. CASE QFail                 BY <1>8 DEF QFail
<1> QED BY <1>1, <1>2, <1>3, <1>4, <1>5, <1>6, <1>7, <1>8 DEF Sequencer

(* The engine on the port, or nobody.                                      *)
LEMMA EngineBus ==
  ASSUME SysInv, NEW m \in Mmio, NEW w, NEW b \in BOOLEAN, SystemStep(m, w, b),
         ui \in WaitPCs, ~front_mmio_valid
  PROVE  Pushes' /\ Owned'
<1>1. /\ port(m) = Request /\ Engine(scene_ready, frame_done_sticky)
      /\ scene_ready \in BOOLEAN /\ frame_done_sticky \in BOOLEAN
      /\ Sequencer(scene_ready, frame_done_sticky)
  BY SystemMoves DEF SystemStep, WorkingClock
<1>2. SInv /\ SceneTypeOK /\ Phase /\ Orderly /\ Tied /\ Alone /\ Pushes /\ Owned
  BY DEF SysInv, SketchSide, SceneSide, SInv
<1>3. /\ qstate' \notin {"Q_PRESENT_CLEAR", "Q_PRESENT_WAIT"}
      /\ qstate' = "Q_MMIO" => mmio_phase' = 0
  BY <1>1, FrameEnters
<1>4. /\ ui' \notin {"poll", "load", "push", "wait", "clear"}
      /\ loaded = "frame" => loaded' = "frame"
  BY WaitPort
<1>5. Presenting => ~abort /\ loaded # "frame"
  BY <1>2 DEF Orderly, Phase, Alone, Tied
<1> DEFINE ready == scene_ready
           done == frame_done_sticky
<1>6. /\ estate' = "CMD_WRITE" /\ write_phase' = 1 =>
           /\ estate = "CMD_WRITE" /\ cmd_kind' = cmd_kind
           /\ write_phase = 0 => ready
           /\ write_phase = 1 => ~ready
      /\ estate' = "WAIT_FRAME" =>
           \/ estate = "WAIT_FRAME"
           \/ estate = "CMD_WRITE" /\ write_phase = 1 /\ cmd_kind = "present" /\ ready
      /\ (estate = "CMD_WRITE" /\ write_phase = 1 /\ cmd_kind = "present" /\ ready)
           => estate' = "WAIT_FRAME"
      /\ estate' = "CLEAR_DONE" => estate \in {"WAIT_FRAME", "CLEAR_DONE"}
      /\ (estate = "WAIT_FRAME" /\ ready /\ done) => estate' = "CLEAR_DONE"
      /\ (estate = "WAIT_FRAME" /\ ~(ready /\ done)) => estate' = "WAIT_FRAME"
      /\ (estate = "CLEAR_DONE" /\ ready) => estate' \in {"RENDER", "READY"}
  BY <1>1, <1>2, <1>5, EngineMoves DEF Answered, engine_mmio_ready
<1>7. engine_mmio_valid => (ready <=> (Request.reg = "CMD_PUSH" => cmd_push_ready))
  BY WaitPort
<1>8. /\ Waiting <=> estate = "WAIT_FRAME"
      /\ Clearing <=> estate = "CLEAR_DONE"
      /\ Pushing <=> estate = "CMD_WRITE" /\ write_phase = 1
  BY DEF Waiting, Clearing, Pushing, front_mmio_valid, WaitPCs, StopPCs
<1>9. /\ Waiting' <=> estate' = "WAIT_FRAME"
      /\ Clearing' <=> estate' = "CLEAR_DONE"
      /\ Pushing' <=> estate' = "CMD_WRITE" /\ write_phase' = 1
      /\ PacketIntact' <=> (estate' = "CMD_WRITE" /\ write_phase' = 1 =>
                              cmd_present' = (cmd_kind' = "present"))
  BY <1>3, <1>4 DEF Waiting, Clearing, Pushing, PacketIntact
<1>10. estate \notin {"WAIT_FRAME", "CLEAR_DONE"} => Free /\ (frame_done_sticky => loaded = "frame")
  BY <1>2, <1>8 DEF Owned, front_mmio_valid
<1>11. ~engine_mmio_valid => Request = NoMmio
  BY <1>2, Requests
<1>12. /\ port(m).reg # "STATUS" /\ ~cmd_push_strobe' =>
            /\ Due \/ Done => Due' \/ Done'
            /\ Done => Done'
            /\ Free => Free' /\ frame_done_sticky' = frame_done_sticky
       /\ port(m).reg # "CMD" => cmd_present' = cmd_present
       /\ port(m).reg # "CMD_PUSH" => ~cmd_push_strobe'
  BY PortTells
<1> HIDE DEF ready, done
<1>13. CASE ~engine_mmio_valid
  <2>1. Request.reg = "NONE"
    BY <1>11, <1>13 DEF NoMmio, Write
  <2>2. Free' /\ frame_done_sticky' = frame_done_sticky /\ ~cmd_push_strobe'
    BY <1>1, <1>10, <1>12, <1>13, <2>1 DEF engine_mmio_valid
  <2>3. /\ estate' \notin {"WAIT_FRAME", "CLEAR_DONE"}
        /\ ~(estate' = "CMD_WRITE" /\ write_phase' = 1)
    BY <1>6, <1>13 DEF engine_mmio_valid
  <2> QED BY <1>3, <1>4, <1>9, <1>10, <1>13, <2>2, <2>3 DEF Pushes, Owned, engine_mmio_valid
<1>14. CASE estate = "CMD_WRITE" /\ write_phase = 0
  <2>1. Request.reg = "CMD" /\ Request.bit0 = (cmd_kind = "present")
    BY <1>2, <1>14, Requests DEF Submission, Access
  <2>2. cmd_present' = (cmd_kind = "present")
    BY <1>1, <2>1, PortTells
  <2>3. Free' /\ frame_done_sticky' = frame_done_sticky /\ ~cmd_push_strobe'
    BY <1>1, <1>10, <1>12, <1>14, <2>1
  <2>4. /\ estate' \notin {"WAIT_FRAME", "CLEAR_DONE"}
        /\ estate' = "CMD_WRITE" /\ write_phase' = 1 => cmd_kind' = cmd_kind
    BY <1>6, <1>14
  <2> QED BY <1>3, <1>4, <1>9, <1>10, <1>14, <2>2, <2>3, <2>4 DEF Pushes, Owned
<1>15. CASE estate = "CMD_WRITE" /\ write_phase = 1
  <2>1. Request.reg = "CMD_PUSH"
    BY <1>2, <1>15, Requests DEF Submission, Access
  <2>2. (cmd_present <=> cmd_kind = "present") /\ ~cmd_push_strobe /\ cmd_present' = cmd_present
    BY <1>1, <1>2, <1>8, <1>12, <1>15, <2>1 DEF Pushes, PacketIntact
  <2>3. Free /\ (frame_done_sticky => loaded = "frame")
    BY <1>10, <1>15
  <2>4. estate' # "CLEAR_DONE"
    BY <1>6, <1>15
  <2>5. CASE cmd_push_ready
    <3>1. ready /\ ~Pushing'
      BY <1>6, <1>7, <1>9, <1>15, <2>5 DEF engine_mmio_valid
    <3>2. /\ cmd_push_strobe'
          /\ ~cmd_push_strobe /\ fifo_count # Depth => fifo_count' # Depth
      BY <1>1, <2>1, <2>5, PortTells
    <3>3. Pushes'
      BY <1>4, <1>9, <2>2, <2>5, <3>1, <3>2 DEF Pushes, cmd_push_ready, cmd_full
    <3>4. CASE cmd_kind = "present"
      <4>1. Strobed' /\ ~swap_done' /\ frame_done_sticky' = frame_done_sticky
        BY <1>1, <2>1, <2>2, <2>3, <3>2, <3>4, PortTells
      <4>2. estate' = "WAIT_FRAME" /\ loaded # "frame"
        BY <1>5, <1>6, <1>15, <3>1, <3>4 DEF Presenting
      <4>3. Due'
        BY <2>3, <4>1, <4>2 DEF Due, Underway
      <4> QED BY <1>3, <1>9, <3>3, <4>2, <4>3 DEF Owned
    <3>5. CASE cmd_kind # "present"
      <4>1. Free' /\ frame_done_sticky' = frame_done_sticky
        BY <1>1, <2>1, <2>2, <2>3, <3>2, <3>5, PortTells
      <4>2. estate' # "WAIT_FRAME"
        BY <1>6, <1>15, <3>5
      <4> QED BY <1>3, <1>4, <1>9, <2>3, <2>4, <3>3, <4>1, <4>2 DEF Owned
    <3> QED BY <3>4, <3>5
  <2>6. CASE ~cmd_push_ready
    <3>1. ~ready
      BY <1>7, <1>15, <2>1, <2>6 DEF engine_mmio_valid
    <3>2. ~cmd_push_strobe'
      BY <1>1, <2>1, <2>6, PortTells
    <3>3. Free' /\ frame_done_sticky' = frame_done_sticky
      BY <1>1, <1>12, <2>1, <2>3, <3>2
    <3>4. /\ estate' # "WAIT_FRAME"
          /\ estate' = "CMD_WRITE" /\ write_phase' = 1 => cmd_kind' = cmd_kind
      BY <1>6, <1>15, <3>1
    <3>5. cmd_present = (cmd_kind = "present")
      BY <1>2, <1>15 DEF Pushes, PacketIntact
    <3>6. Pushes'
      BY <1>4, <1>9, <2>2, <3>2, <3>4, <3>5 DEF Pushes
    <3> QED BY <1>3, <1>4, <1>9, <2>3, <2>4, <3>3, <3>4, <3>6 DEF Owned
  <2> QED BY <2>5, <2>6
<1>16. CASE estate = "WAIT_FRAME"
  <2>1. Request.reg = "NONE"
    BY <1>2, <1>16, Requests DEF NoMmio, Write
  <2>2. ready /\ ~cmd_push_strobe' /\ (Due \/ Done)
    BY <1>1, <1>2, <1>7, <1>8, <1>12, <1>16, <2>1 DEF engine_mmio_valid, Owned
  <2>3. (Due' \/ Done') /\ (Done => Done') /\ (Settled => ~swap_done')
    BY <1>1, <1>12, <2>1, <2>2, PortTells
  <2>4. estate' = IF done THEN "CLEAR_DONE" ELSE "WAIT_FRAME"
    BY <1>6, <1>16, <2>2
  <2>5. done => Free' /\ frame_done_sticky'
    BY <2>2, <2>3 DEF Due, Done, Free, done
  <2> QED BY <1>3, <1>4, <1>9, <2>2, <2>3, <2>4, <2>5 DEF Pushes, Owned
<1>17. CASE estate = "CLEAR_DONE"
  <2>1. Request = Write("STATUS", TRUE, FALSE) /\ Request.reg = "STATUS"
    BY <1>2, <1>17, Requests DEF Write
  <2>2. ready /\ ~cmd_push_strobe' /\ Settled
    BY <1>1, <1>2, <1>7, <1>8, <1>12, <1>17, <2>1 DEF engine_mmio_valid, Owned, Free
  <2>3. Free' /\ ~frame_done_sticky'
    BY <1>1, <2>1, <2>2, PortTells
  <2>4. estate' \in {"RENDER", "READY"}
    BY <1>6, <1>17, <2>2
  <2> QED BY <1>3, <1>4, <1>9, <2>2, <2>3, <2>4 DEF Pushes, Owned
<1>18. write_phase \in {0, 1}
  BY <1>2 DEF SceneTypeOK
<1> QED BY <1>13, <1>14, <1>15, <1>16, <1>17, <1>18 DEF engine_mmio_valid

LEMMA SketchSideStep ==
  ASSUME SysInv, SInv', NEW m \in Mmio, NEW w, NEW b \in BOOLEAN, SystemStep(m, w, b)
  PROVE  SketchSide'
<1>1. ui \in RestPCs \/ ui \in WaitPCs
  BY SystemMoves DEF SystemStep
<1>2. Pushes' /\ Owned'
  BY <1>1, RestBus, FrameBus, EngineBus
<1> QED BY <1>2, SketchCore DEF SketchSide

-----------------------------------------------------------------------------
(***************************************************************************)
(* The invariant, and what follows from it.                                *)
(***************************************************************************)
LEMMA SystemStarts == SystemInit => SysInv
<1> SUFFICES ASSUME SystemInit PROVE SysInv
  OBVIOUS
<1>1. SInv /\ FInv /\ PagesShown
  BY SceneStarts, FramesInit, PagesInit DEF SystemInit
<1>2. /\ ui = "app" /\ op = "draw" /\ loaded = "none" /\ qstate = "Q_IDLE" /\ estate = "IDLE"
      /\ queue = <<>> /\ ~cmd_push /\ ~cmd_mode
  BY DEF SystemInit, SceneInit
<1>3. Phase /\ Orderly
  BY <1>2 DEF SystemInit, SceneInit, Phase, Resting, NoStart, busy, Orderly, StopPCs
<1>4. Assembled /\ Tied /\ Alone
  BY <1>2 DEF Assembled, FramePCs, Tied, UiPCs, Alone, Presenting
<1>5. /\ Settled /\ ~swap_done /\ ~frame_done_sticky /\ ~cmd_push_strobe /\ Undisturbed
  BY DEF SystemInit, Init, Settled, AtRest, Clear, OnlyDraws, Undisturbed
<1>6. Pushes /\ Owned
  BY <1>2, <1>5 DEF Pushes, PacketIntact, Pushing, Owned, Waiting, Clearing, Free
<1> QED BY <1>1, <1>3, <1>4, <1>5, <1>6 DEF SysInv, SceneSide, SketchSide

LEMMA SystemStays == SysInv /\ UNCHANGED sys_vars => SysInv'
<1> SUFFICES ASSUME SysInv, UNCHANGED sys_vars PROVE SysInv'
  OBVIOUS
<1> USE DEF sys_vars, ui_vars
<1>1. SInv' /\ FInv'
  BY SceneStep, FramesStep DEF SysInv, SceneSide, SketchSide
<1>2. UNCHANGED <<ui, op, loaded, seen>>
  OBVIOUS
<1>3. UNCHANGED scene_vars /\ UNCHANGED vars
  OBVIOUS
<1>4. UNCHANGED <<OnlyDraws, OnlyLastPresents>>
  BY <1>3 DEF vars, fifo_vars, OnlyDraws, OnlyLastPresents, Queued, Slot
<1>5. /\ UNCHANGED <<cmd_mode, render_cfg, cmd_data, cmd_push, cmd_frame_start, load_start,
                    render_start, abort, soft_reset>>
      /\ UNCHANGED <<queue, cmd_locked, qstate, fifo_pop, fifo_complete, mmio_phase,
                    present_pending, cmd_draw_start, draw_ok, front_error, cmd_frame_count>>
      /\ UNCHANGED <<estate, engine_busy, engine_error, cmd_kind, write_phase>>
  BY <1>3 DEF scene_vars, reg_vars, strobe_vars, queue_vars, seq_vars, engine_vars
<1>6. /\ UNCHANGED <<cmd_present, cmd_push_strobe, soft_reset_strobe, display_enable,
                    frame_done_sticky>>
      /\ UNCHANGED <<fifo_count, frame, state, frame_closed, present_req, job, active>>
      /\ UNCHANGED <<front_idx, back_idx, swap_pending, swap_done, swap_counter, page>>
  BY <1>3 DEF vars, regs_vars, fifo_vars, gru_vars, writer_vars, frame_vars
<1>7. UNCHANGED <<Resting, NoFrame, RenderPhase, AtWork, Counted, MayInterrupt>>
  BY <1>2, <1>5
  DEF Resting, NoStart, busy, NoFrame, RenderPhase, AtWork, Counted, MayInterrupt
<1>8. UNCHANGED <<LoadPhase, Started, Running>>
  BY <1>5, <1>7 DEF LoadPhase, Started, Running, NoStart, busy
<1>9. Phase'
  BY <1>2, <1>5, <1>7, <1>8 DEF SysInv, SceneSide, Phase, FramePhase
<1>10. Assembled' /\ Orderly'
  BY <1>2, <1>5, <1>7 DEF SysInv, SceneSide, Assembled, Orderly
<1>11. Tied' /\ Alone'
  BY <1>2, <1>5, <1>7 DEF SysInv, SceneSide, Tied, Alone, Presenting
<1>12. UNCHANGED <<Settled, Strobed, Underway>>
  BY <1>4, <1>6
  DEF Settled, Underway, Strobed, AtRest, Clear, InFifo, Requested, AtBoundary
<1>13. PagesShown' /\ Undisturbed'
  BY <1>6 DEF SysInv, SketchSide, PagesShown, Undisturbed
<1>14. UNCHANGED <<Waiting, Clearing, Pushing, PacketIntact, Free, Due, Done>>
  BY <1>2, <1>5, <1>6, <1>12
  DEF Waiting, Clearing, Pushing, PacketIntact, Free, Due, Done
<1>15. Pushes' /\ Owned'
  BY <1>2, <1>5, <1>6, <1>12, <1>14 DEF SysInv, SketchSide, Pushes, Owned
<1> QED BY <1>1, <1>9, <1>10, <1>11, <1>13, <1>15 DEF SysInv, SceneSide, SketchSide

LEMMA SystemMove ==
  ASSUME NoAbandonedPresent, SysInv, SystemNext
  PROVE  SysInv' /\ [TwoPages!Next]_(TwoPages!bvars)
<1>1. PICK m \in Mmio, b \in BOOLEAN : \E w : UiMove(m, w) /\ SystemClock(m, w, b)
  BY UiMoves
<1>2. PICK w : SystemStep(m, w, b)
  BY <1>1 DEF SystemStep
<1>3. SceneSide'
  BY <1>2, SceneSideStep
<1>4. SketchSide'
  BY <1>2, <1>3, SketchSideStep DEF SceneSide
<1> QED BY <1>2, <1>3, <1>4, SketchCore DEF SysInv

LEMMA SystemInvariance == NoAbandonedPresent /\ SystemSpec => []SysInv
<1>1. NoAbandonedPresent /\ SysInv /\ [SystemNext]_sys_vars => SysInv'
  BY SystemMove, SystemStays
<1>2. CASE NoAbandonedPresent
  <2>1. SysInv /\ [SystemNext]_sys_vars => SysInv'
    BY <1>1, <1>2
  <2> QED BY <2>1, SystemStarts, PTL DEF SystemSpec
<1>3. CASE ~NoAbandonedPresent
  BY <1>3
<1> QED BY <1>2, <1>3

(* No access of the UI thread or of the Scene controller is refused and no *)
(* push strobe meets a full or closed FIFO: whoever has the port finds it  *)
(* as it was when it looked.                                               *)
THEOREM AccessIsServed == NoAbandonedPresent /\ SystemSpec => []AccessServed
<1>1. SysInv => AccessServed
  <2> SUFFICES ASSUME SysInv PROVE AccessServed
    OBVIOUS
  <2>1. UiNeverHung
    BY DEF SysInv, SceneSide, Tied, UiNeverHung
  <2>2. ASSUME cmd_push_strobe PROVE push_fire
    <3>1. fifo_count # Depth
      BY <2>2 DEF SysInv, SketchSide, Pushes
    <3>2. Settled \/ Underway
      BY DEF SysInv, SketchSide, Owned, Free, Due, Done, Underway
    <3>3. ~swap_pending /\ ~frame_closed
      BY <2>2, <3>2
      DEF Settled, Underway, Strobed, AtRest, Clear, InFifo, Requested, AtBoundary
    <3> QED BY <2>2, <3>1, <3>3 DEF push_fire, cmd_push_ready, render_allowed, cmd_full
  <2> QED BY <2>1, <2>2 DEF AccessServed, PushTaken
<1> QED BY <1>1, SystemInvariance, PTL

(* No command of the UI thread is dropped with an OK answer: at each of    *)
(* its pushes the register bank accepts, and the FIFO takes the command a  *)
(* clock later.  Nobody locks or fills the queue between the look at       *)
(* CMD_READY and the push, nor ends a frame in the clock after.            *)
THEOREM NoPushLost == NoAbandonedPresent /\ SystemSpec => []CommandsArrive
<1>1. SysInv => CommandsArrive
  <2> SUFFICES ASSUME SysInv PROVE CommandsArrive
    OBVIOUS
  <2>1. SceneSide
    BY DEF SysInv
  <2>2. ASSUME ui \in {"draw_push", "present_push"} PROVE push_accepted
    <3>1. ~cmd_locked
      BY <2>1, <2>2 DEF SceneSide, Phase, RestPCs, UiPCs, WaitPCs, StopPCs, Resting, busy
    <3>2. cmd_mode
      BY <2>1, <2>2 DEF SceneSide, Tied, FramePCs
    <3>3. Len(queue) < QDepth
      <4>1. queue = <<>> \/ (queue = <<"DRAW">> /\ 1 < QDepth)
        BY <2>1, <2>2 DEF SceneSide, Assembled
      <4>2. Len(<<>>) = 0 /\ Len(<<"DRAW">>) = 1
        OBVIOUS
      <4> QED BY <4>1, <4>2, SceneAssumption
    <3> QED BY <3>1, <3>2, <3>3 DEF push_accepted, cmd_ready
  <2>3. ASSUME cmd_push PROVE Pushed # <<>> /\ ~fifo_complete /\ ~fifo_error
    <3>1. ~engine_error
      BY <2>1, <2>3 DEF SceneSide, Assembled, Tied, FramePCs
    <3> QED BY <2>1, <2>3, <3>1 DEF SceneSide, SInv, PushKept
  <2> QED BY <2>2, <2>3 DEF CommandsArrive
<1> QED BY <1>1, SystemInvariance, PTL

(* The registers shared by the three producers hold, at each push, the     *)
(* command of the one that pushes.                                         *)
THEOREM PacketsAreIntact == NoAbandonedPresent /\ SystemSpec => []PacketIntact
<1>1. SysInv => PacketIntact
  BY DEF SysInv, SketchSide, Pushes
<1> QED BY <1>1, SystemInvariance, PTL

(* A completion is taken by the producer whose PRESENT it is: by the UI    *)
(* thread when it clears FRAME_DONE, by the sequencer when it retires a    *)
(* command frame, by the engine after its automatic PRESENT (WAIT_FRAME    *)
(* discards no old FRAME_DONE; everybody else has done so).                *)
THEOREM CompletionsAreOwn == NoAbandonedPresent /\ SystemSpec => []CompletionsOwn
<1>1. SysInv => CompletionsOwn
  <2> SUFFICES ASSUME SysInv PROVE CompletionsOwn
    OBVIOUS
  <2>1. Free => swap_counter = frame
    BY DEF Free, Settled, AtRest
  <2>2. ASSUME fifo_complete PROVE Free
    <3>1. qstate = "Q_IDLE"
      BY <2>2 DEF SysInv, SceneSide, SInv, Released
    <3>2. ui = "count"
      BY <2>2 DEF SysInv, SceneSide, Phase, Tied, Resting, LoadPhase, RenderPhase, NoFrame,
                  RestPCs, WaitPCs, StopPCs
    <3>3. ~Presenting
      BY <3>2 DEF SysInv, SceneSide, Tied, FramePCs, Alone
    <3> QED BY <3>1, <3>2, <3>3 DEF SysInv, SketchSide, Owned, Waiting, Clearing, Presenting
  <2>3. ui = "clear" => Free
    BY DEF SysInv, SketchSide, Owned, Clearing
  <2>4. AutoFrameIsOwn
    BY <2>1 DEF SysInv, SketchSide, Owned, Clearing, AutoFrameIsOwn
  <2> QED BY <2>1, <2>2, <2>3, <2>4 DEF CompletionsOwn, FrameIsOwn, UiDoneIsOwn
<1> QED BY <1>1, SystemInvariance, PTL

(* Each component keeps to its own promises in the company of the others:  *)
(* the controller executes locked frames in their mode, loses no push and  *)
(* no DRAW, and its masters never stand on the port together; the core     *)
(* retires every command of a frame before the frame's PRESENT.            *)
THEOREM ComponentsStaySound ==
  NoAbandonedPresent /\ SystemSpec =>
    [](/\ PipelineSound /\ PushKept /\ PacketExclusive /\ DrawServed
       /\ FramesInOrder /\ QueueSound /\ NoLateCommand)
<1>1. SysInv => SInv /\ FInv
  BY DEF SysInv, SceneSide, SketchSide
<1> QED BY <1>1, ScenePromises, FramesPromises, SystemInvariance, PTL

-----------------------------------------------------------------------------
(* The refinement.                                                         *)
LEMMA SystemBufferStep ==
  ASSUME NoAbandonedPresent, SysInv, [SystemNext]_sys_vars
  PROVE  [Buffer!Next]_(Buffer!bvars)
<1> USE DEF Buffer!Next, Buffer!bvars, Buffer!Draw, Buffer!Present, Buffer!Show
<1>1. CASE UNCHANGED sys_vars
  BY <1>1 DEF sys_vars, vars, gru_vars, frame_vars, SwapsDue
<1>2. CASE SystemNext
  <2>1. [TwoPages!Next]_(TwoPages!bvars)
    BY <1>2, SystemMove
  <2> QED BY <2>1
          DEF TwoPages!Next, TwoPages!bvars, TwoPages!Draw, TwoPages!Present, TwoPages!Show
<1> QED BY <1>1, <1>2

LEMMA SystemBufferInit == SystemInit => Buffer!Init
BY DEF SystemInit, Init, Buffer!Init, Buffer!Pages, SwapsDue, PowerUp

(* With the controller and the thread taking turns as its producers the    *)
(* core is still the two-page buffer: nothing is drawn on the page on      *)
(* display, nothing between a PRESENT and its swap, and each PRESENT shows *)
(* one frame.                                                              *)
THEOREM CoreStaysDoubleBuffer == NoAbandonedPresent /\ SystemSpec => StaysDoubleBuffer
<1>1. CASE NoAbandonedPresent
  <2>1. SysInv /\ [SystemNext]_sys_vars => [Buffer!Next]_(Buffer!bvars)
    BY <1>1, SystemBufferStep
  <2>2. SystemSpec => []SysInv
    BY <1>1, SystemInvariance
  <2>3. SystemSpec => Buffer!Spec
    BY <2>1, <2>2, SystemBufferInit, PTL DEF SystemSpec, Buffer!Spec
  <2> QED BY <2>3 DEF StaysDoubleBuffer
<1>2. CASE ~NoAbandonedPresent
  BY <1>2
<1> QED BY <1>1, <1>2
=============================================================================
