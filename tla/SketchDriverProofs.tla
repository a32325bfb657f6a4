------------------------- MODULE SketchDriverProofs -------------------------
(***************************************************************************)
(* Proofs about what stands between the CPU and the display core.  The     *)
(* driver, for every FIFO depth, every length of a draw and of a span, and *)
(* every number of frames: what it hands over is taken, what it waits for  *)
(* is its own, and the core under it is a double buffer.  The AXI wrapper, *)
(* whatever the timing of the master and of the register port: an answered *)
(* write has been carried out exactly once.                                *)
(***************************************************************************)
EXTENDS SketchDriver, SketchAxi, SketchBookProofs

-----------------------------------------------------------------------------
(* What the CPU knows at each point of the driver.                         *)
Knows ==
  \/ /\ pc \in {"app", "poll", "load", "push", "clear"}
     /\ Settled /\ swap_counter = issued /\ ~swap_done
     /\ frame_done_sticky <=> pc = "clear"
  \/ /\ pc = "wait" /\ Settled /\ swap_counter = issued
     /\ swap_done \/ frame_done_sticky
  \/ /\ pc = "wait" /\ Underway /\ swap_counter + 1 = issued
     /\ ~swap_done /\ ~frame_done_sticky

Pushing ==
  /\ cmd_push_strobe => pc \in {"app", "wait"}
  /\ pc \in {"load", "push"} \/ cmd_push_strobe => fifo_count # Depth
  /\ pc = "push" => cmd_present = (op = "present")
  /\ pc \in {"load", "push", "poll"} /\ op = "present" => issued < MaxFrames

DInv == /\ FInv /\ DTypeOK
        /\ Undisturbed /\ Knows /\ Pushing /\ PagesShown /\ NoWriteWhilePending

LEMMA DriverInit == DInit => DInv
<1> SUFFICES ASSUME DInit PROVE DInv
  OBVIOUS
<1>1. FInv
  BY FramesInit DEF DInit
<1>2. DTypeOK
  BY <1>1 DEF DInit, DTypeOK, FInv, IInv, PCs
<1>3. Undisturbed /\ Knows /\ Pushing /\ PagesShown /\ NoWriteWhilePending
  BY SketchBookAssumption
  DEF SketchBookAssumption, DInit, Init, Undisturbed, Knows, Settled, AtRest, Clear, OnlyDraws,
      Pushing, PagesShown, NoWriteWhilePending, PowerUp
<1> QED BY <1>1, <1>2, <1>3 DEF DInv

-----------------------------------------------------------------------------
(* The accesses of the CPU.                                                *)
Cpu(m) ==
  \/ PollReady(m) \/ LoadCmd(m) \/ Push(m) \/ PollDone(m) \/ ClearDone(m)
  \/ m = NoMmio /\ (Submit \/ UNCHANGED <<pc, op, issued>>)

(* A push is answered: the readiness polled is the readiness found.        *)
Ready == ~frame_closed /\ render_allowed /\ ~cmd_full

LEMMA StillReady == ASSUME DInv, pc = "push" PROVE Ready /\ cmd_push_ready
BY DEF DInv, Knows, Pushing, Settled, AtRest, Clear, Ready, render_allowed, cmd_full, cmd_push_ready

(* One step of the driver is an access and a clock of the core.            *)
LEMMA DriverClock ==
  ASSUME DNext
  PROVE  \E m \in Mmio, b \in BOOLEAN : Cpu(m) /\ Clock(m, b)
<1>1. clear_status \in Mmio /\ NoMmio \in Mmio
  BY DEF clear_status, Mmio
<1>2. Boundaries \subseteq BOOLEAN
  BY DEF Boundaries
<1> QED BY <1>1, <1>2 DEF DNext, Access, Quiet, Cpu

(* What the accesses leave in the register file.                           *)
LEMMA Accessed ==
  ASSUME DInv, NEW m \in Mmio, Cpu(m), Regs(m)
  PROVE  /\ ~soft_reset_strobe' /\ display_enable'
         /\ cmd_push_strobe' => /\ pc = "push" /\ cmd_present' = cmd_present
                                /\ pc' = next_step /\ op' = op
                                /\ issued' = IF op = "present" THEN issued + 1 ELSE issued
         /\ frame_done_sticky' = ((frame_done_sticky \/ swap_done) /\ ~(pc = "clear" /\ pc' = "app"))
         /\ ~cmd_push_strobe' =>
              /\ issued' = issued
              /\ \/ pc' = pc /\ op' = op /\ cmd_present' = cmd_present
                 \/ /\ pc = "app" /\ pc' = "poll" /\ op' \in {"draw", "present"}
                    /\ op' = "present" => issued < MaxFrames
                 \/ /\ pc = "poll" /\ pc' = "load" /\ op' = op /\ fifo_count # Depth
                 \/ /\ pc = "load" /\ pc' = "push" /\ op' = op
                    /\ cmd_present' = (op = "present")
                 \/ pc = "wait" /\ pc' = "clear" /\ op' = op /\ frame_done_sticky
                 \/ pc = "clear" /\ pc' = "app" /\ op' = op
<1> USE DEF Regs, Written, mmio_ready, Write, NoMmio, DInv, Undisturbed, DTypeOK, TypeOK, FInv, IInv
<1>1. CASE PollReady(m)
  BY <1>1 DEF PollReady, submit_blocked, cmd_full
<1>2. CASE LoadCmd(m)
  BY <1>2 DEF LoadCmd
<1>3. CASE Push(m)
  BY <1>3, StillReady DEF Push
<1>4. CASE PollDone(m)
  BY <1>4 DEF PollDone
<1>5. CASE ClearDone(m)
  BY <1>5 DEF ClearDone, clear_status
<1>6. CASE m = NoMmio /\ Submit
  BY <1>6 DEF Submit
<1>7. CASE m = NoMmio /\ UNCHANGED <<pc, op, issued>>
  BY <1>7
<1> QED BY <1>1, <1>2, <1>3, <1>4, <1>5, <1>6, <1>7 DEF Cpu

(* The core does its part: no push follows a PRESENT, for the CPU waits.   *)
LEMMA DriverCore ==
  ASSUME DInv, NEW m \in Mmio, NEW b \in BOOLEAN, Cpu(m), Clock(m, b)
  PROVE  /\ FInv' /\ PagesShown' /\ Regs(m) /\ NoWriteWhilePending'
         /\ Settled => NotYet /\ AtRest'
         /\ Strobed => NotYet /\ InFifo'
         /\ Underway => \/ NotYet /\ Underway'
                        \/ Swapped /\ AtRest'
         /\ ~cmd_push_strobe /\ fifo_count # Depth => fifo_count' # Depth
         /\ [TwoPages!Next]_(TwoPages!bvars)
<1>1. Settled \/ (Underway /\ ~Written(m, "CMD_PUSH"))
  <2>1. CASE Settled
    BY <2>1
  <2>2. CASE ~Settled
    <3>1. Underway /\ pc = "wait"
      BY <2>2 DEF DInv, Knows
    <3>2. m = NoMmio
      BY <3>1 DEF Cpu, PollReady, LoadCmd, Push, PollDone, ClearDone
    <3> QED BY <3>1, <3>2 DEF NoMmio, Write, Written
  <2> QED BY <2>1, <2>2
<1>2. cmd_push_strobe => fifo_count # Depth
  BY DEF DInv, Pushing
<1> QED BY <1>1, <1>2, CoreClock DEF DInv, NoWriteWhilePending

(***************************************************************************)
(* What the CPU knows stays true: stage by stage, a PRESENT moves on or    *)
(* swaps, and a swap comes only while the CPU waits for it.                *)
(***************************************************************************)
LEMMA KnowsStep ==
  ASSUME DInv, NEW m \in Mmio, NEW b \in BOOLEAN, Cpu(m), Clock(m, b)
  PROVE  Knows'
<1>1. Regs(m) /\ pc \in PCs /\ issued \in Nat /\ op \in {"draw", "present"}
  BY DriverCore DEF DInv, DTypeOK
<1>2. CASE /\ pc \in {"app", "poll", "load", "push", "clear"}
           /\ Settled /\ swap_counter = issued /\ ~swap_done
           /\ frame_done_sticky <=> pc = "clear"
  <2>1. AtRest' /\ ~swap_done' /\ swap_counter' = issued
    BY <1>2, DriverCore DEF NotYet
  <2>2. CASE cmd_push_strobe'
    <3>1. /\ pc = "push" /\ cmd_present' = cmd_present /\ pc' = next_step /\ op' = op
          /\ issued' = IF op = "present" THEN issued + 1 ELSE issued
          /\ ~frame_done_sticky'
      BY <1>1, <1>2, <2>2, Accessed
    <3>2. cmd_present = (op = "present")
      BY <3>1 DEF DInv, Pushing
    <3>3. CASE op = "present"
      <4>1. pc' = "wait" /\ issued' = issued + 1 /\ cmd_present'
        BY <3>1, <3>2, <3>3 DEF next_step
      <4>2. Strobed' /\ swap_counter' + 1 = issued'
        BY <2>1, <2>2, <4>1 DEF Strobed
      <4> QED BY <2>1, <3>1, <4>1, <4>2 DEF Knows, Underway
    <3>4. CASE op = "draw"
      <4>1. pc' = "app" /\ issued' = issued /\ ~cmd_present'
        BY <3>1, <3>2, <3>4 DEF next_step
      <4> QED BY <2>1, <3>1, <4>1 DEF Knows, Settled
    <3> QED BY <1>1, <3>3, <3>4
  <2>3. CASE ~cmd_push_strobe'
    <3>1. issued' = issued /\ pc' \in {"app", "poll", "load", "push", "clear"}
      BY <1>1, <1>2, <2>3, Accessed
    <3>2. frame_done_sticky' <=> pc' = "clear"
      BY <1>1, <1>2, <2>3, Accessed
    <3> QED BY <2>1, <2>3, <3>1, <3>2 DEF Knows, Settled
  <2> QED BY <2>2, <2>3
<1>3. CASE /\ pc = "wait" /\ Settled /\ swap_counter = issued
           /\ swap_done \/ frame_done_sticky
  <2>1. AtRest' /\ ~swap_done' /\ swap_counter' = issued
    BY <1>3, DriverCore DEF NotYet
  <2>2. ~cmd_push_strobe' /\ frame_done_sticky'
    BY <1>1, <1>3, Accessed
  <2>3. issued' = issued /\ pc' \in {"wait", "clear"}
    BY <1>1, <1>3, <2>2, Accessed
  <2> QED BY <2>1, <2>2, <2>3 DEF Knows, Settled
<1>4. CASE /\ pc = "wait" /\ Underway /\ swap_counter + 1 = issued
           /\ ~swap_done /\ ~frame_done_sticky
  <2>1. ~cmd_push_strobe' /\ ~frame_done_sticky'
    BY <1>1, <1>4, Accessed
  <2>2. issued' = issued /\ pc' = "wait"
    BY <1>1, <1>4, <2>1, Accessed
  <2>3. CASE NotYet /\ Underway'
    BY <1>4, <2>1, <2>2, <2>3 DEF NotYet, Knows
  <2>4. CASE Swapped /\ AtRest'
    BY <1>4, <2>1, <2>2, <2>4 DEF Swapped, Knows, Settled
  <2> QED BY <1>4, <2>3, <2>4, DriverCore
<1> QED BY <1>2, <1>3, <1>4 DEF DInv, Knows

LEMMA PushingStep ==
  ASSUME DInv, NEW m \in Mmio, NEW b \in BOOLEAN, Cpu(m), Clock(m, b)
  PROVE  Pushing'
<1>1. Regs(m) /\ op \in {"draw", "present"} /\ issued \in Nat
  BY DriverCore DEF DInv, DTypeOK
<1>2. pc \in {"poll", "load", "push"} => ~cmd_push_strobe
  BY DEF DInv, Pushing
<1>3. ~cmd_push_strobe /\ fifo_count # Depth => fifo_count' # Depth
  BY DriverCore
<1>4. CASE cmd_push_strobe'
  <2>1. pc = "push" /\ pc' \in {"app", "wait"}
    BY <1>1, <1>4, Accessed DEF next_step
  <2>2. fifo_count # Depth
    BY <2>1 DEF DInv, Pushing
  <2> QED BY <1>2, <1>3, <2>1, <2>2 DEF Pushing
<1>5. CASE ~cmd_push_strobe'
  <2>1. issued' = issued
    BY <1>1, <1>5, Accessed
  <2>2. CASE pc' = pc /\ op' = op /\ cmd_present' = cmd_present
    BY <1>2, <1>3, <1>5, <2>1, <2>2 DEF DInv, Pushing
  <2>3. CASE /\ pc = "app" /\ pc' = "poll" /\ op' \in {"draw", "present"}
             /\ op' = "present" => issued < MaxFrames
    BY <1>5, <2>1, <2>3 DEF Pushing
  <2>4. CASE pc = "poll" /\ pc' = "load" /\ op' = op /\ fifo_count # Depth
    BY <1>2, <1>3, <1>5, <2>1, <2>4 DEF DInv, Pushing
  <2>5. CASE pc = "load" /\ pc' = "push" /\ op' = op /\ cmd_present' = (op = "present")
    BY <1>2, <1>3, <1>5, <2>1, <2>5 DEF DInv, Pushing
  <2>6. CASE pc' \in {"clear", "app"} /\ op' = op
    BY <1>5, <2>6 DEF Pushing
  <2> QED BY <1>1, <1>5, <2>2, <2>3, <2>4, <2>5, <2>6, Accessed
<1> QED BY <1>4, <1>5

LEMMA DriverStep == DInv /\ [DNext]_dvars => DInv'
<1> SUFFICES ASSUME DInv, [DNext]_dvars PROVE DInv'
  OBVIOUS
<1>1. CASE DNext
  <2>1. PICK m \in Mmio, b \in BOOLEAN : Cpu(m) /\ Clock(m, b)
    BY <1>1, DriverClock
  <2>2. FInv' /\ PagesShown' /\ NoWriteWhilePending' /\ Regs(m)
    BY <2>1, DriverCore
  <2>3. Knows' /\ Pushing'
    BY <2>1, KnowsStep, PushingStep
  <2>4. op \in {"draw", "present"} /\ issued \in Nat /\ pc \in PCs
    BY DEF DInv, DTypeOK
  <2>5. Undisturbed'
    BY <2>1, <2>2, <2>4, Accessed DEF Undisturbed
  <2>6. pc' \in PCs
    BY <2>3 DEF Knows, PCs
  <2>7. op' \in {"draw", "present"} /\ issued' \in Nat
    BY <2>1, <2>2, <2>4, Accessed
  <2> QED BY <2>2, <2>3, <2>5, <2>6, <2>7 DEF DInv, DTypeOK, FInv, IInv
<1>2. CASE UNCHANGED dvars
  <2>1. FInv'
    BY <1>2, FramesStep DEF DInv, dvars
  <2>2. UNCHANGED <<OnlyDraws, OnlyLastPresents>>
    BY <1>2 DEF dvars, vars, fifo_vars, OnlyDraws, OnlyLastPresents, Queued, Slot
  <2>3. Knows'
    BY <1>2, <2>2
    DEF dvars, vars, regs_vars, fifo_vars, gru_vars, writer_vars, frame_vars, DInv, Knows,
        Settled, Underway, Strobed, AtRest, Clear, InFifo, Requested, AtBoundary
  <2>4. Undisturbed' /\ Pushing' /\ PagesShown' /\ NoWriteWhilePending' /\ DTypeOK'
    BY <1>2, <2>1
    DEF dvars, vars, regs_vars, fifo_vars, gru_vars, writer_vars, frame_vars, DInv, FInv, IInv,
        Undisturbed, Pushing, PagesShown, NoWriteWhilePending, DTypeOK
  <2> QED BY <2>1, <2>3, <2>4 DEF DInv
<1> QED BY <1>1, <1>2

LEMMA DriverInvariance == DSpec => []DInv
<1> QED BY DriverInit, DriverStep, PTL DEF DSpec

-----------------------------------------------------------------------------
(* A command handed over is taken: the CPU never stands in a push, and no  *)
(* push strobe meets a closed or full FIFO.                                *)
THEOREM PushIsServed == DSpec => []PushServed
<1>1. DInv => PushServed
  <2> SUFFICES ASSUME DInv PROVE PushServed
    OBVIOUS
  <2>1. pc # "hung"
    BY DEF DInv, Knows
  <2>2. cmd_push_strobe => push_fire
    BY DEF DInv, Knows, Pushing, Settled, Underway, Strobed, AtRest, Clear, InFifo, Requested,
           AtBoundary, push_fire, cmd_push_ready, render_allowed, cmd_full
  <2> QED BY <2>1, <2>2 DEF PushServed, NeverHung, NoPushLost
<1> QED BY <1>1, DriverInvariance, PTL

(* The completion the CPU clears is its own, the page on display holds     *)
(* only presented frames, and nothing was written while it waited.         *)
THEOREM PresentIsSound == DSpec => []PresentSound
<1>1. DInv => PresentSound
  BY DEF DInv, Knows, PagesShown, PresentSound, DoneIsOwn, FrontOnlyPresented
<1> QED BY <1>1, DriverInvariance, PTL

-----------------------------------------------------------------------------
(* The refinement.                                                         *)
LEMMA BufferStep == DInv /\ [DNext]_dvars => [Buffer!Next]_(Buffer!bvars)
<1> SUFFICES ASSUME DInv, [DNext]_dvars PROVE [Buffer!Next]_(Buffer!bvars)
  OBVIOUS
<1> USE DEF Buffer!Next, Buffer!bvars, Buffer!Draw, Buffer!Present, Buffer!Show
<1>1. CASE UNCHANGED dvars
  BY <1>1 DEF dvars, vars, gru_vars, frame_vars, SwapsDue
<1>2. CASE DNext
  <2>1. [TwoPages!Next]_(TwoPages!bvars)
    BY <1>2, DriverClock, DriverCore
  <2> QED BY <2>1
          DEF TwoPages!Next, TwoPages!bvars, TwoPages!Draw, TwoPages!Present, TwoPages!Show
<1> QED BY <1>1, <1>2

LEMMA BufferInit == DInit => Buffer!Init
BY DEF DInit, Init, Buffer!Init, Buffer!Pages, SwapsDue, PowerUp

(* The core under this driver implements the two-page buffer: its safety,  *)
(* for every value of the constants (that a presented frame is eventually  *)
(* shown is checked in the run).                                           *)
THEOREM ImplementsBuffer == DSpec => Buffer!Spec
<1> QED BY BufferInit, BufferStep, DriverInvariance, PTL DEF DSpec, Buffer!Spec

-----------------------------------------------------------------------------
(* The AXI wrapper.                                                        *)
(***************************************************************************)
(* Where the wrapper and the master can be together.  A write is in one of *)
(* four phases: not begun, address offered, address held by the wrapper,   *)
(* answered.  WriteOnce speaks of the last phase only; what makes it true  *)
(* is that nothing has been performed while the address is held, and that  *)
(* the burst flag the wrapper latched is that of the write it holds.       *)
(***************************************************************************)
WritePhase ==
  /\ aw = "idle"  => w = "idle" /\ ~wr_addr_valid /\ ~s_bvalid
  /\ aw = "valid" => w \in {"due", "valid"} /\ ~wr_addr_valid /\ ~s_bvalid
  /\ aw = "sent"  => w # "idle" /\ wr_addr_valid = ~s_bvalid
  /\ s_bvalid     => w = "sent"

Held == wr_addr_valid => performed = 0 /\ wr_error = (write_kind = "burst")

ReadPhase == s_rvalid => ar = "sent"

AInv == AxiTypeOK /\ WritePhase /\ Held /\ ReadPhase /\ WriteOnce

LEMMA AxiInitial == AxiInit => AInv
BY DEF AxiInit, AInv, AxiTypeOK, Channels, Resps, WriteKinds, ReadKinds,
       WritePhase, Held, ReadPhase, WriteOnce

(* A clock keeps the types; the counter stays at one because a write is    *)
(* performed only while held, and nothing was performed before.            *)
LEMMA AxiTypes ==
  ASSUME AInv, NEW ready \in BOOLEAN, NEW bready \in BOOLEAN, NEW rready \in BOOLEAN,
         WriteSide(ready, bready), ReadSide(ready, rready),
         MasterWrite(bready), MasterRead(rready), Perform(ready)
  PROVE  AxiTypeOK'
<1> USE DEF AInv, AxiTypeOK, Resps, Channels
<1>1. wr_addr_valid' \in BOOLEAN /\ wr_error' \in BOOLEAN /\ s_bvalid' \in BOOLEAN
      /\ s_bresp' \in Resps
  BY DEF WriteSide, aw_fire, s_awready, write_over, w_fire, bad_burst
<1>2. s_rvalid' \in BOOLEAN /\ s_rresp' \in Resps
  BY DEF ReadSide
<1>3. /\ aw' \in Channels \ {"due"} /\ w' \in Channels /\ write_kind' \in WriteKinds
      /\ ar' \in Channels \ {"due"} /\ read_kind' \in ReadKinds
  BY DEF MasterWrite, MasterRead
<1>4. performed' \in {0, 1}
  BY DEF Perform, Held, mmio_we
<1> QED BY <1>1, <1>2, <1>3, <1>4

(* The handshakes of a clock move a write to its next phase, or leave it.  *)
LEMMA AxiPhases ==
  ASSUME AInv, NEW ready \in BOOLEAN, NEW bready \in BOOLEAN, NEW rready \in BOOLEAN,
         WriteSide(ready, bready), ReadSide(ready, rready),
         MasterWrite(bready), MasterRead(rready)
  PROVE  WritePhase' /\ ReadPhase'
<1> USE DEF AInv, AxiTypeOK, Channels
<1>1. WritePhase'
  BY DEF WritePhase, WriteSide, MasterWrite, write_over, w_fire, aw_fire,
         s_wready, s_awready
<1>2. ReadPhase'
  BY DEF ReadPhase, ReadSide, MasterRead, read_over, ar_fire, s_arready
<1> QED BY <1>1, <1>2

(* A write ends in the clock of its W beat or never: in that clock it is   *)
(* performed, unless it is a burst, and the address is given up.           *)
LEMMA AxiHeld ==
  ASSUME AInv, NEW scene_busy \in BOOLEAN, NEW push_ready \in BOOLEAN,
         NEW bready \in BOOLEAN,
         WriteSide(port_ready(scene_busy, push_ready), bready), MasterWrite(bready),
         Perform(port_ready(scene_busy, push_ready))
  PROVE  Held' /\ WriteOnce'
<1> DEFINE ready == port_ready(scene_busy, push_ready)
<1> USE DEF AInv, AxiTypeOK, Channels, WritePhase, Held
<1>1. CASE aw_fire
  BY <1>1 DEF aw_fire, s_awready, WriteSide, MasterWrite, Perform, WriteOnce,
              write_over, w_fire, s_wready, mmio_we, bad_burst
<1>2. CASE ~aw_fire /\ write_over(ready)
  BY <1>2 DEF aw_fire, s_awready, WriteSide, MasterWrite, Perform, WriteOnce,
              write_over, w_fire, s_wready, mmio_we
<1>3. CASE ~aw_fire /\ ~write_over(ready)
  BY <1>3 DEF aw_fire, s_awready, WriteSide, MasterWrite, Perform, WriteOnce,
              write_over, w_fire, s_wready, mmio_we
<1> QED BY <1>1, <1>2, <1>3

LEMMA AxiStep == AInv /\ [AxiNext]_axi_vars => AInv'
<1> SUFFICES ASSUME AInv, [AxiNext]_axi_vars PROVE AInv'
  OBVIOUS
<1>1. CASE AxiNext
  <2>1. PICK scene_busy \in SceneBusy, push_ready \in BOOLEAN,
             bready \in BOOLEAN, rready \in BOOLEAN :
               AxiClock(scene_busy, push_ready, bready, rready)
    BY <1>1 DEF AxiNext
  <2>2. scene_busy \in BOOLEAN
    BY AxiAssumption DEF AxiAssumption
  <2>3. port_ready(scene_busy, push_ready) \in BOOLEAN
    BY DEF port_ready
  <2>4. AxiTypeOK'
    BY <2>1, <2>3, AxiTypes DEF AxiClock
  <2>5. WritePhase' /\ ReadPhase'
    BY <2>1, <2>3, AxiPhases DEF AxiClock
  <2>6. Held' /\ WriteOnce'
    BY <2>1, <2>2, AxiHeld DEF AxiClock
  <2> QED BY <2>4, <2>5, <2>6 DEF AInv
<1>2. CASE UNCHANGED axi_vars
  BY <1>2 DEF AInv, AxiTypeOK, WritePhase, Held, ReadPhase, WriteOnce,
              axi_vars, write_vars
<1> QED BY <1>1, <1>2

LEMMA AxiInvariance == AxiSpec => []AInv
<1> QED BY AxiInitial, AxiStep, PTL DEF AxiSpec

-----------------------------------------------------------------------------
(* An answered write was performed once, an answered burst never, the      *)
(* burst is answered with an error, and every answer has a complete        *)
(* request behind it.                                                      *)
THEOREM AnswersAreSound == AxiSpec => []AnswersSound
<1>1. AInv => AxiTypeOK /\ WriteOnce  BY DEF AInv
<1>2. AInv => AnswersPaired
  BY DEF AInv, AxiTypeOK, Channels, WritePhase, ReadPhase, AnswersPaired
<1>3. AInv => AnswersSound  BY <1>1, <1>2 DEF AnswersSound
<1> QED BY <1>3, AxiInvariance, PTL
=============================================================================
