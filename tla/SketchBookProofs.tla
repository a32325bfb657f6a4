-------------------------- MODULE SketchBookProofs --------------------------
(***************************************************************************)
(* Proofs about the display core, for every FIFO depth, every length of a  *)
(* draw command and of a span, and every number of frames.                 *)
(*                                                                         *)
(* A clock is a conjunction of blocks that assign different registers, so  *)
(* the invariant is proved block by block: a lemma for the registers of    *)
(* each block, and lemmas for what the command processor and the span      *)
(* writer guarantee together.                                              *)
(***************************************************************************)
EXTENDS SketchBook, TLAPS

-----------------------------------------------------------------------------
(* Types, block by block.                                                  *)

(* A raster state has a step left to do; GLYPH counts down to none.        *)
StepsLeft == state \in Shapes \ {"GLYPH"} => steps > 0

(* Every field of a register access is of its type.                        *)
LEMMA MmioFields ==
  ASSUME NEW m \in Mmio PROVE m.bit0 \in BOOLEAN /\ m.bit1 \in BOOLEAN
<1>1. \E r : \E b1, b2 \in BOOLEAN : m = Write(r, b1, b2)
  BY DEF Mmio, NoMmio
<1> QED BY <1>1 DEF Write

LEMMA RegsType ==
  ASSUME TypeOK, NEW m \in Mmio, Regs(m)
  PROVE  /\ cmd_present' \in BOOLEAN /\ cmd_push_strobe' \in BOOLEAN
         /\ soft_reset_strobe' \in BOOLEAN /\ display_enable' \in BOOLEAN
         /\ frame_done_sticky' \in BOOLEAN
BY MmioFields DEF TypeOK, Regs, Written

LEMMA FrameType ==
  ASSUME TypeOK, NEW b \in BOOLEAN, NEW we \in BOOLEAN, FrameCtrl(b, we), Pages(we)
  PROVE  /\ front_idx' \in {0, 1} /\ back_idx' \in {0, 1} /\ front_valid' \in BOOLEAN
         /\ swap_pending' \in BOOLEAN /\ swap_done' \in BOOLEAN
         /\ active_write_error' \in BOOLEAN /\ swap_counter' \in Nat
         /\ page' \in [{0, 1} -> Nat \cup {PowerUp}]
BY DEF TypeOK, FrameCtrl, Pages, swap_fire, next_pending, next_back, target_page

LEMMA WriterType ==
  ASSUME TypeOK, NEW span \in Span, Writer(span)
  PROVE  /\ active' \in BOOLEAN /\ last_q' \in BOOLEAN
         /\ remaining_q' \in 0 .. MaxBeats /\ cmd_done' \in BOOLEAN
<1> span.last \in BOOLEAN /\ span.beats \in 0 .. MaxBeats
  BY DEF Span
<1>1. active' \in BOOLEAN /\ last_q' \in BOOLEAN /\ cmd_done' \in BOOLEAN
  BY DEF TypeOK, Writer
<1>2. remaining_q' \in 0 .. MaxBeats
  BY SketchBookAssumption DEF SketchBookAssumption, TypeOK, Writer
<1> QED BY <1>1, <1>2

LEMMA HeadType ==
  ASSUME TypeOK PROVE head \in Cmd
BY DEF TypeOK, head

LEMMA AdvanceType ==
  ASSUME NEW p \in Slots PROVE Advance(p) \in Slots
BY SketchBookAssumption DEF SketchBookAssumption, Advance, Slots

LEMMA FifoType ==
  ASSUME TypeOK, swap_counter' \in Nat, Fifo
  PROVE  /\ mem' \in [Slots -> Cmd] /\ frame' \in Nat
         /\ wr_ptr' \in Slots /\ rd_ptr' \in Slots /\ fifo_count' \in 0 .. Depth
<1>1. CASE soft_reset_strobe
  BY <1>1, SketchBookAssumption DEF SketchBookAssumption, TypeOK, Fifo, Slots
<1>2. CASE ~soft_reset_strobe
  <2>1. mem' \in [Slots -> Cmd] /\ frame' \in Nat
    BY <1>2 DEF TypeOK, Fifo, Cmd
  <2>2. wr_ptr' \in Slots /\ rd_ptr' \in Slots
    BY <1>2, AdvanceType DEF TypeOK, Fifo
  <2>3. fifo_count' \in 0 .. Depth
    BY <1>2, SketchBookAssumption
    DEF SketchBookAssumption, TypeOK, Fifo, next_count, push_fire, pop_fire, cmd_push_ready, cmd_full
  <2> QED BY <2>1, <2>2, <2>3
<1> QED BY <1>1, <1>2

(* Each raster state leaves for WAIT_DONE or IDLE with its last step.      *)
LEMMA StepsType ==
  ASSUME TypeOK, StepsLeft, NEW span \in Span, Gru(span)
  PROVE  state' \in States /\ steps' \in Nat /\ job' \in Nat /\ StepsLeft'
<1> USE DEF TypeOK, StepsLeft, States, Shapes, RasterStep
<1>1. CASE GruReset(span)        BY <1>1 DEF GruReset
<1>2. CASE GruIdle(span)         BY <1>2 DEF GruIdle
<1>3. CASE DispatchDraw(span)    BY <1>3, HeadType DEF DispatchDraw, Cmd
<1>4. CASE DispatchReject(span)  BY <1>4 DEF DispatchReject
<1>5. CASE DispatchPresent(span) BY <1>5 DEF DispatchPresent
<1>6. CASE Fill(span)            BY <1>6 DEF Fill
<1>7. CASE Line(span)
  <2>1. CASE ~span.valid \/ span_ready
    BY <1>7, <2>1 DEF Line
  <2>2. CASE ~(~span.valid \/ span_ready)
    BY <1>7, <2>2 DEF Line
  <2> QED BY <2>1, <2>2
<1>8. CASE Glyph(span)
  <2>1. CASE steps > 0 /\ (~span.valid \/ span_ready)
    BY <1>8, <2>1 DEF Glyph
  <2>2. CASE steps > 0 /\ ~(~span.valid \/ span_ready)
    BY <1>8, <2>2 DEF Glyph
  <2>3. CASE ~(steps > 0)
    BY <1>8, <2>3 DEF Glyph
  <2> QED BY <2>1, <2>2, <2>3
<1>9. CASE Triangle(span)        BY <1>9 DEF Triangle
<1>10. CASE Blit(span)           BY <1>10 DEF Blit
<1>11. CASE WaitDone(span)       BY <1>11 DEF WaitDone
<1> QED BY <1>1, <1>2, <1>3, <1>4, <1>5, <1>6, <1>7, <1>8, <1>9, <1>10, <1>11 DEF Gru

LEMMA PulsesType ==
  ASSUME NEW span \in Span, Gru(span)
  PROVE  frame_closed' \in BOOLEAN /\ present_req' \in BOOLEAN
BY DEF Gru, GruReset, GruIdle, DispatchDraw, DispatchReject, DispatchPresent,
       Fill, Line, Glyph, Triangle, Blit, WaitDone, RasterStep, OpenFrame

-----------------------------------------------------------------------------
(***************************************************************************)
(* The inductive invariant.  The raster states and the span writer hand    *)
(* over to each other; what makes the hand-over safe is that the processor *)
(* takes a command from the FIFO only with the writer at rest, and marks   *)
(* exactly the span of the last step.                                      *)
(***************************************************************************)
PagesDiffer == front_idx # back_idx

IInv == /\ TypeOK
        /\ StepsLeft
        /\ PagesDiffer
        /\ FifoShape
        /\ PresentAfterRetire
        /\ PortExclusive
        /\ WaitDoneServed

LEMMA InitInvariant == Init => IInv
<1> SUFFICES ASSUME Init PROVE IInv
  OBVIOUS
<1> USE SketchBookAssumption DEF SketchBookAssumption, Init
<1>1. TypeOK
  <2>1. mem \in [Slots -> Cmd] /\ wr_ptr \in Slots /\ rd_ptr \in Slots
    BY DEF Slots, Cmd
  <2>2. page \in [{0, 1} -> Nat \cup {PowerUp}]
    OBVIOUS
  <2>3. state \in States
    BY DEF States
  <2>4. /\ fifo_count \in 0 .. Depth /\ remaining_q \in 0 .. MaxBeats
        /\ steps \in Nat /\ job \in Nat /\ frame \in Nat /\ swap_counter \in Nat
    OBVIOUS
  <2> QED BY <2>1, <2>2, <2>3, <2>4, Zenon DEF TypeOK
<1>2. StepsLeft /\ PagesDiffer /\ PresentAfterRetire /\ PortExclusive /\ WaitDoneServed
  BY DEF StepsLeft, PagesDiffer, PresentAfterRetire, PortExclusive, WaitDoneServed, Shapes
<1>3. FifoShape
  BY DEF FifoShape
<1> QED BY <1>1, <1>2, <1>3 DEF IInv

(* A clock is one step of every block.                                     *)
LEMMA ClockBlocks ==
  ASSUME TypeOK, NEW m \in Mmio, NEW b \in BOOLEAN, Clock(m, b)
  PROVE  \E span \in Span, we \in BOOLEAN :
           /\ FrameCtrl(b, we) /\ Pages(we) /\ Regs(m) /\ Fifo
           /\ Gru(span) /\ Writer(span)
<1>1. PICK span \in Span, visible \in BOOLEAN :
        /\ FrameCtrl(b, gru_we(visible)) /\ Pages(gru_we(visible))
        /\ Regs(m) /\ Fifo /\ Gru(span) /\ Writer(span)
  BY DEF Clock
<1>2. gru_we(visible) \in BOOLEAN
  BY DEF gru_we, TypeOK
<1> QED BY <1>1, <1>2

LEMMA TypeStep ==
  ASSUME TypeOK, StepsLeft, NEW m \in Mmio, NEW b \in BOOLEAN, Clock(m, b)
  PROVE  TypeOK' /\ StepsLeft'
<1>1. PICK span \in Span, we \in BOOLEAN :
        /\ FrameCtrl(b, we) /\ Pages(we) /\ Regs(m) /\ Fifo
        /\ Gru(span) /\ Writer(span)
  BY ClockBlocks
<1>2. /\ front_idx' \in {0, 1} /\ back_idx' \in {0, 1} /\ front_valid' \in BOOLEAN
      /\ swap_pending' \in BOOLEAN /\ swap_done' \in BOOLEAN
      /\ active_write_error' \in BOOLEAN /\ swap_counter' \in Nat
      /\ page' \in [{0, 1} -> Nat \cup {PowerUp}]
  BY <1>1, FrameType
<1>3. /\ mem' \in [Slots -> Cmd] /\ frame' \in Nat
      /\ wr_ptr' \in Slots /\ rd_ptr' \in Slots /\ fifo_count' \in 0 .. Depth
  BY <1>1, <1>2, FifoType
<1>4. /\ cmd_present' \in BOOLEAN /\ cmd_push_strobe' \in BOOLEAN
      /\ soft_reset_strobe' \in BOOLEAN /\ display_enable' \in BOOLEAN
      /\ frame_done_sticky' \in BOOLEAN
  BY <1>1, RegsType
<1>5. /\ active' \in BOOLEAN /\ last_q' \in BOOLEAN
      /\ remaining_q' \in 0 .. MaxBeats /\ cmd_done' \in BOOLEAN
  BY <1>1, WriterType
<1>6. /\ state' \in States /\ steps' \in Nat /\ job' \in Nat /\ StepsLeft'
      /\ frame_closed' \in BOOLEAN /\ present_req' \in BOOLEAN
  BY <1>1, StepsType, PulsesType
<1> QED BY <1>2, <1>3, <1>4, <1>5, <1>6 DEF TypeOK

(* The two pages stay distinct: a swap exchanges them.                     *)
LEMMA PagesStep ==
  ASSUME TypeOK, PagesDiffer, NEW b \in BOOLEAN, NEW we, FrameCtrl(b, we)
  PROVE  PagesDiffer'
BY DEF TypeOK, PagesDiffer, FrameCtrl, next_back

(* Level and pointers move together; only a wrap takes Depth away.         *)
LEMMA FifoStep ==
  ASSUME TypeOK, FifoShape, Fifo PROVE FifoShape'
<1> USE SketchBookAssumption
    DEF SketchBookAssumption, TypeOK, FifoShape, Fifo, Slots,
        push_fire, pop_fire, cmd_push_ready, cmd_full
<1>1. CASE soft_reset_strobe
  BY <1>1
<1>2. CASE ~soft_reset_strobe
  <2>1. /\ fifo_count' = next_count
        /\ wr_ptr' = IF push_fire THEN Advance(wr_ptr) ELSE wr_ptr
        /\ rd_ptr' = IF pop_fire THEN Advance(rd_ptr) ELSE rd_ptr
    BY <1>2
  <2>2. /\ push_fire => fifo_count < Depth
        /\ pop_fire => fifo_count > 0
    OBVIOUS
  <2> HIDE DEF push_fire, pop_fire
  <2>3. CASE push_fire /\ pop_fire
    BY <2>1, <2>2, <2>3 DEF Advance, next_count
  <2>4. CASE push_fire /\ ~pop_fire
    BY <2>1, <2>2, <2>4 DEF Advance, next_count
  <2>5. CASE ~push_fire /\ pop_fire
    BY <2>1, <2>2, <2>5 DEF Advance, next_count
  <2>6. CASE ~push_fire /\ ~pop_fire
    BY <2>1, <2>6 DEF Advance, next_count
  <2> QED BY <2>3, <2>4, <2>5, <2>6
<1> QED BY <1>1, <1>2

(* A writer at rest that is offered nothing stays at rest.                 *)
LEMMA WriterRests ==
  ASSUME ~active, Writer(NoSpan) PROVE ~active'
BY DEF Writer, NoSpan

(* The page port is handed to PRESENT and to BLIT with the writer at rest. *)
LEMMA HandOver ==
  ASSUME TypeOK, PresentAfterRetire, PortExclusive, NEW span \in Span,
         Gru(span), Writer(span)
  PROVE  PresentAfterRetire' /\ PortExclusive'
<1> USE DEF PresentAfterRetire, PortExclusive, RasterStep, pop_fire
<1>1. CASE GruReset(span)        BY <1>1 DEF GruReset
<1>2. CASE GruIdle(span)         BY <1>2 DEF GruIdle
<1>3. CASE DispatchDraw(span)    BY <1>3, WriterRests DEF DispatchDraw
<1>4. CASE DispatchReject(span)  BY <1>4 DEF DispatchReject
<1>5. CASE DispatchPresent(span) BY <1>5, WriterRests DEF DispatchPresent
<1>6. CASE Fill(span)            BY <1>6 DEF Fill
<1>7. CASE Line(span)            BY <1>7 DEF Line
<1>8. CASE Glyph(span)           BY <1>8 DEF Glyph
<1>9. CASE Triangle(span)        BY <1>9 DEF Triangle
<1>10. CASE Blit(span)           BY <1>10, WriterRests DEF Blit
<1>11. CASE WaitDone(span)       BY <1>11 DEF WaitDone
<1> QED BY <1>1, <1>2, <1>3, <1>4, <1>5, <1>6, <1>7, <1>8, <1>9, <1>10, <1>11 DEF Gru

(* An accepted last span makes the writer owe a cmd_done, and a writer     *)
(* that owes one keeps owing it or delivers it.                            *)
LEMMA WriterAccepts ==
  ASSUME ~soft_reset_strobe, ~active, NEW n \in Nat \ {0}, Writer(Offer(TRUE, n))
  PROVE  active' /\ last_q'
BY DEF Writer, Offer

LEMMA WriterDelivers ==
  ASSUME TypeOK, ~soft_reset_strobe, active, last_q, Writer(NoSpan)
  PROVE  cmd_done' \/ (active' /\ last_q')
BY DEF TypeOK, Writer, NoSpan

LEMMA WaitStep ==
  ASSUME TypeOK, StepsLeft, WaitDoneServed, NEW span \in Span,
         Gru(span), Writer(span)
  PROVE  WaitDoneServed'
<1> USE DEF WaitDoneServed, RasterStep
<1>1. CASE GruReset(span)        BY <1>1 DEF GruReset
<1>2. CASE GruIdle(span)         BY <1>2 DEF GruIdle
<1>3. CASE DispatchDraw(span)    BY <1>3 DEF DispatchDraw, Shapes
<1>4. CASE DispatchReject(span)  BY <1>4 DEF DispatchReject, pop_fire
<1>5. CASE DispatchPresent(span) BY <1>5 DEF DispatchPresent, pop_fire
<1>6. CASE Fill(span)
  <2>1. PICK n \in 1 .. MaxBeats : span = Offer(span_last, n)
    BY <1>6 DEF Fill
  <2>2. state' = "WAIT_DONE" => ~active /\ span_last = TRUE
    BY <1>6 DEF Fill, span_ready, span_last
  <2>3. state' = "WAIT_DONE" => ~active /\ span = Offer(TRUE, n)
    BY <2>1, <2>2
  <2>4. n \in Nat \ {0} /\ ~soft_reset_strobe
    BY <1>6, SketchBookAssumption DEF SketchBookAssumption, Fill
  <2> QED BY <2>3, <2>4, WriterAccepts
<1>7. CASE Line(span)
  <2>1. state' = "WAIT_DONE" => ~active /\ span.valid /\ ~(steps > 1)
    BY <1>7 DEF Line, span_ready
  <2>2. span.valid => span = Offer(span_last, 1)
    BY <1>7 DEF Line, NoSpan
  <2>3. ~(steps > 1) => span_last = TRUE
    BY <1>7 DEF Line, span_last, StepsLeft, Shapes, States, TypeOK
  <2>4. state' = "WAIT_DONE" => ~active /\ span = Offer(TRUE, 1)
    BY <2>1, <2>2, <2>3
  <2>5. 1 \in Nat \ {0} /\ ~soft_reset_strobe
    BY <1>7 DEF Line
  <2> QED BY <2>4, <2>5, WriterAccepts
<1>8. CASE Glyph(span)           BY <1>8 DEF Glyph
<1>9. CASE Triangle(span)
  <2>1. state' = "WAIT_DONE" => (~span.valid \/ ~active) /\ ~(steps > 1) /\ span.beats # 0
    BY <1>9 DEF Triangle, span_ready
  <2>2. ~(steps > 1) => \E n \in 0 .. MaxBeats : span = Offer(span_last, n)
    BY <1>9 DEF Triangle
  <2>3. ~(steps > 1) => span_last = TRUE
    BY <1>9 DEF Triangle, span_last, StepsLeft, Shapes, States, TypeOK
  <2>4. state' = "WAIT_DONE" => ~active /\ \E n \in Nat \ {0} : span = Offer(TRUE, n)
    <3> SUFFICES ASSUME state' = "WAIT_DONE"
                 PROVE  ~active /\ \E n \in Nat \ {0} : span = Offer(TRUE, n)
      OBVIOUS
    <3>1. PICK n \in 0 .. MaxBeats : span = Offer(TRUE, n)
      BY <2>1, <2>2, <2>3
    <3>2. span.valid /\ span.beats = n
      BY <3>1 DEF Offer
    <3>3. n \in Nat \ {0} /\ ~active
      BY <2>1, <3>2, SketchBookAssumption DEF SketchBookAssumption
    <3> QED BY <3>1, <3>3
  <2> QED BY <1>9, <2>4, WriterAccepts DEF Triangle
<1>10. CASE Blit(span)           BY <1>10 DEF Blit
<1>11. CASE WaitDone(span)
  BY <1>11, WriterDelivers DEF WaitDone
<1> QED BY <1>1, <1>2, <1>3, <1>4, <1>5, <1>6, <1>7, <1>8, <1>9, <1>10, <1>11 DEF Gru

(* A clock of the core, whatever is accessed.                              *)
LEMMA ClockInvariant ==
  ASSUME IInv, NEW m \in Mmio, NEW b \in BOOLEAN, Clock(m, b)
  PROVE  IInv'
<1>1. PICK span \in Span, we \in BOOLEAN :
        /\ FrameCtrl(b, we) /\ Pages(we) /\ Regs(m) /\ Fifo
        /\ Gru(span) /\ Writer(span)
  BY ClockBlocks DEF IInv
<1>2. TypeOK' /\ StepsLeft'
  BY TypeStep DEF IInv
<1>3. PagesDiffer'
  BY <1>1, PagesStep DEF IInv
<1>4. FifoShape'
  BY <1>1, FifoStep DEF IInv
<1>5. PresentAfterRetire' /\ PortExclusive'
  BY <1>1, HandOver DEF IInv
<1>6. WaitDoneServed'
  BY <1>1, WaitStep DEF IInv
<1> QED BY <1>2, <1>3, <1>4, <1>5, <1>6 DEF IInv

LEMMA StepInvariant == IInv /\ [Next]_vars => IInv'
<1> SUFFICES ASSUME IInv, [Next]_vars PROVE IInv'
  OBVIOUS
<1>1. CASE Next
  <2>1. PICK m \in Mmio, b \in BOOLEAN : Clock(m, b)
    BY <1>1 DEF Next, Boundaries
  <2> QED BY <2>1, ClockInvariant
<1>2. CASE UNCHANGED vars
  BY <1>2 DEF IInv, TypeOK, StepsLeft, PagesDiffer, FifoShape, PresentAfterRetire,
              PortExclusive, WaitDoneServed, vars, regs_vars, fifo_vars,
              gru_vars, writer_vars, frame_vars
<1> QED BY <1>1, <1>2

LEMMA Invariance == Spec => []IInv
<1> QED BY InitInvariant, StepInvariant, PTL DEF Spec

-----------------------------------------------------------------------------
(* The theorems that need no more than this invariant.                     *)

(* Every register of the display core keeps its type: in particular the    *)
(* FIFO's level never exceeds the configured depth and its pointers stay   *)
(* inside the memory, for any depth, not only a power of two.              *)
THEOREM TypeCorrect == Spec => []TypeOK
<1>1. IInv => TypeOK  BY DEF IInv
<1> QED BY <1>1, Invariance, PTL

(* Level counter and pointers of the command FIFO always agree.            *)
THEOREM FifoConsistent == Spec => []FifoShape
<1>1. IInv => FifoShape  BY DEF IInv
<1> QED BY <1>1, Invariance, PTL

(* PRESENT reaches the frame controller only after everything before it    *)
(* has been written to the page.                                           *)
THEOREM PresentRetires == Spec => []PresentAfterRetire
<1>1. IInv => PresentAfterRetire  BY DEF IInv
<1> QED BY <1>1, Invariance, PTL

(* BLIT and the span writer never drive the page port in the same clock.   *)
THEOREM PortIsExclusive == Spec => []PortExclusive
<1>1. IInv => PortExclusive  BY DEF IInv
<1> QED BY <1>1, Invariance, PTL

(* The pulse ST_WAIT_DONE waits for is always still to come, and no beat   *)
(* is lost to BLIT before it.                                              *)
THEOREM RasterIsSound == Spec => []RasterSound
<1>1. IInv => RasterSound  BY DEF IInv, RasterSound
<1> QED BY <1>1, Invariance, PTL

(* The page on display is never written, whatever the producers do.        *)
THEOREM NoTearing == Spec => FrontUntouched
<1>1. IInv /\ [Next]_vars => [page'[front_idx] = page[front_idx]]_vars
  <2> SUFFICES ASSUME IInv, Next PROVE page'[front_idx] = page[front_idx]
    OBVIOUS
  <2>1. PICK m \in Mmio, b \in BOOLEAN : Clock(m, b)
    BY DEF Next, Boundaries
  <2>2. PICK we \in BOOLEAN : Pages(we)
    BY <2>1, ClockBlocks DEF IInv
  <2> QED BY <2>2 DEF Pages, target_page, IInv, TypeOK, PagesDiffer
<1> QED BY <1>1, Invariance, PTL DEF Spec, FrontUntouched

-----------------------------------------------------------------------------
(***************************************************************************)
(* Frames.  A clock without a soft reset turns the queue into the queue    *)
(* without its head, if one is popped, and with the pushed command, if one *)
(* is pushed.                                                              *)
(***************************************************************************)
popped == IF pop_fire THEN 1 ELSE 0

(* Positions in the ring: the tail position is free, and a pop moves every *)
(* command one position towards the head.                                  *)
LEMMA RingSlots ==
  ASSUME TypeOK, FifoShape
  PROVE  /\ fifo_count < Depth => Slot(fifo_count) = wr_ptr
         /\ \A i \in 0 .. fifo_count - 1 : Slot(i) \in Slots
         /\ fifo_count < Depth => \A i \in 0 .. fifo_count - 1 : Slot(i) # wr_ptr
BY SketchBookAssumption DEF SketchBookAssumption, TypeOK, FifoShape, Slot, Slots

LEMMA QueueStep ==
  ASSUME TypeOK, FifoShape, Fifo, ~soft_reset_strobe
  PROVE  /\ fifo_count' = fifo_count + (IF push_fire THEN 1 ELSE 0) - popped
         /\ \A i \in 0 .. fifo_count - popped - 1 : Queued(i)' = Queued(i + popped)
         /\ push_fire => \A i \in Nat : i = fifo_count - popped =>
              Queued(i)' = [present |-> cmd_present, frame |-> frame]
         /\ frame' = IF push_fire /\ cmd_present THEN frame + 1 ELSE frame
<1> USE SketchBookAssumption DEF SketchBookAssumption, TypeOK
<1>1. fifo_count' = fifo_count + (IF push_fire THEN 1 ELSE 0) - popped
  BY DEF Fifo, next_count, popped
<1>2. /\ push_fire => fifo_count < Depth
      /\ pop_fire => fifo_count > 0
  BY DEF push_fire, pop_fire, cmd_push_ready, cmd_full
<1>3. popped \in 0 .. 1 /\ popped <= fifo_count
  BY <1>2 DEF popped
<1>4. \A i \in Nat : i + popped <= Depth => Slot(i)' = Slot(i + popped)
  <2> SUFFICES ASSUME NEW i \in Nat, i + popped <= Depth
               PROVE  Slot(i)' = Slot(i + popped)
    OBVIOUS
  <2>1. CASE pop_fire
    BY <2>1, SMTT(30) DEF Fifo, Slot, Slots, Advance, popped
  <2>2. CASE ~pop_fire
    BY <2>2 DEF Fifo, Slot, Slots, popped
  <2> QED BY <2>1, <2>2
<1>5. \A i \in 0 .. fifo_count - popped - 1 : Queued(i)' = Queued(i + popped)
  <2> SUFFICES ASSUME NEW i \in 0 .. fifo_count - popped - 1
               PROVE  Queued(i)' = Queued(i + popped)
    OBVIOUS
  <2>1. i \in Nat /\ i + popped \in 0 .. fifo_count - 1 /\ i + popped <= Depth
    BY <1>3
  <2>2. mem'[Slot(i + popped)] = mem[Slot(i + popped)]
    BY <2>1, <1>2, RingSlots DEF Fifo
  <2> QED BY <2>1, <2>2, <1>4 DEF Queued
<1>6. push_fire => \A i \in Nat : i = fifo_count - popped =>
        Queued(i)' = [present |-> cmd_present, frame |-> frame]
  <2> SUFFICES ASSUME push_fire, NEW i \in Nat, i = fifo_count - popped
               PROVE  Queued(i)' = [present |-> cmd_present, frame |-> frame]
    OBVIOUS
  <2>1. i + popped = fifo_count /\ i + popped <= Depth
    BY <1>2, <1>3
  <2>2. Slot(i)' = wr_ptr
    BY <2>1, <1>2, <1>4, RingSlots
  <2>3. mem'[wr_ptr] = [present |-> cmd_present, frame |-> frame]
    BY DEF Fifo
  <2> QED BY <2>2, <2>3 DEF Queued
<1>7. frame' = IF push_fire /\ cmd_present THEN frame + 1 ELSE frame
  BY DEF Fifo
<1> QED BY <1>1, <1>5, <1>6, <1>7

-----------------------------------------------------------------------------
(***************************************************************************)
(* The frame of every command, queued or executing, is one whose display   *)
(* has not been asked for yet.  NoLateCommand alone is not inductive: when *)
(* a PRESENT is popped every command left must belong to a later frame,    *)
(* which FramesInOrder says of neighbours only; and an empty queue must    *)
(* not be refilled with commands of an old frame.                          *)
(***************************************************************************)
HeadOfLine ==
  /\ frame >= SwapsDue
  /\ \A i \in 0 .. fifo_count - 1 : Queued(i).frame >= SwapsDue

LinedUp ==
  \A i \in 0 .. fifo_count - 1 :
    /\ i + 1 < fifo_count => Queued(i + 1).frame = FrameAfter(Queued(i))
    /\ i + 1 = fifo_count => frame = FrameAfter(Queued(i))

Sorted ==
  \A i \in 0 .. fifo_count - 1 :
    /\ FrameAfter(Queued(i)) <= frame
    /\ \A j \in 0 .. fifo_count - 1 : i < j => FrameAfter(Queued(i)) <= Queued(j).frame

JobDue == state # "IDLE" \/ active => job >= SwapsDue

FInv == IInv /\ HeadOfLine /\ LinedUp /\ Sorted /\ JobDue

(* Only a popped PRESENT adds a due frame, and it adds at most one: a      *)
(* PRESENT popped while a swap is pending is merged with it.               *)
LEMMA DueStep ==
  ASSUME TypeOK, NEW b \in BOOLEAN, NEW we \in BOOLEAN, FrameCtrl(b, we)
  PROVE  /\ SwapsDue \in Nat /\ SwapsDue' \in Nat
         /\ ~present_req' => SwapsDue' = SwapsDue
         /\ SwapsDue' <= SwapsDue + 1
<1> USE DEF TypeOK, SwapsDue
<1>1. CASE swap_fire(b)
  <2>1. swap_counter' = swap_counter + 1 /\ ~swap_pending'
    BY <1>1 DEF FrameCtrl, next_pending
  <2>2. SwapsDue = swap_counter + 1
    BY <1>1 DEF swap_fire
  <2> QED BY <2>1, <2>2
<1>2. CASE ~swap_fire(b)
  <2>1. swap_counter' = swap_counter /\ swap_pending' = (swap_pending \/ present_req)
    BY <1>2 DEF FrameCtrl, next_pending
  <2>2. CASE swap_pending \/ present_req
    BY <2>1, <2>2
  <2>3. CASE ~(swap_pending \/ present_req)
    BY <2>1, <2>3
  <2> QED BY <2>2, <2>3
<1> QED BY <1>1, <1>2

(* What the command processor has in its hands comes from the head of the  *)
(* queue, and it raises the PRESENT request for nothing else.              *)
Working == state # "IDLE" \/ active

LEMMA JobStep ==
  ASSUME TypeOK, NEW span \in Span, Gru(span), Writer(span)
  PROVE  /\ present_req' => pop_fire /\ head.present /\ ~soft_reset_strobe
         /\ Working' => /\ ~present_req'
                        /\ \/ job' = job /\ Working
                           \/ job' = head.frame /\ pop_fire
<1> USE DEF Working, RasterStep
<1>1. CASE GruReset(span)
  BY <1>1 DEF GruReset, Writer
<1>2. CASE GruIdle(span)         BY <1>2, WriterRests DEF GruIdle
<1>3. CASE DispatchDraw(span)    BY <1>3 DEF DispatchDraw
<1>4. CASE DispatchReject(span)
  BY <1>4, WriterRests DEF DispatchReject, pop_fire
<1>5. CASE DispatchPresent(span)
  BY <1>5, WriterRests DEF DispatchPresent, pop_fire
<1>6. CASE Fill(span)            BY <1>6 DEF Fill
<1>7. CASE Line(span)            BY <1>7 DEF Line
<1>8. CASE Glyph(span)           BY <1>8 DEF Glyph
<1>9. CASE Triangle(span)        BY <1>9 DEF Triangle
<1>10. CASE Blit(span)           BY <1>10 DEF Blit
<1>11. CASE WaitDone(span)       BY <1>11 DEF WaitDone
<1> QED BY <1>1, <1>2, <1>3, <1>4, <1>5, <1>6, <1>7, <1>8, <1>9, <1>10, <1>11 DEF Gru

LEMMA QueuedType ==
  ASSUME TypeOK, FifoShape
  PROVE  /\ \A i \in 0 .. fifo_count - 1 : Queued(i) \in Cmd
         /\ \A c \in Cmd : /\ c.frame \in Nat /\ FrameAfter(c) \in Nat
                           /\ c.present => FrameAfter(c) = c.frame + 1
                           /\ c.frame <= FrameAfter(c)
         /\ fifo_count > 0 => head = Queued(0)
<1>1. \A i \in 0 .. fifo_count - 1 : Queued(i) \in Cmd
  BY RingSlots DEF TypeOK, Queued
<1>2. \A c \in Cmd : /\ c.frame \in Nat /\ FrameAfter(c) \in Nat
                     /\ c.present => FrameAfter(c) = c.frame + 1
                     /\ c.frame <= FrameAfter(c)
  BY DEF Cmd, FrameAfter
<1>3. fifo_count > 0 => head = Queued(0)
  <2>1. Slot(0) = rd_ptr
    BY SketchBookAssumption DEF SketchBookAssumption, TypeOK, Slots, Slot
  <2> QED BY <2>1 DEF head, Queued
<1> QED BY <1>1, <1>2, <1>3

(* The queue after a clock without a soft reset, for the three parts of    *)
(* the invariant that speak of it.                                         *)
Entered == [present |-> cmd_present, frame |-> frame]

LEMMA NewQueue ==
  ASSUME TypeOK, FifoShape, Fifo, ~soft_reset_strobe
  PROVE  /\ Entered \in Cmd /\ Entered.frame = frame /\ frame' \in Nat
         /\ push_fire => frame' = FrameAfter(Entered)
         /\ ~push_fire => frame' = frame
         /\ popped \in 0 .. 1 /\ popped <= fifo_count
         /\ \A i \in 0 .. fifo_count' - 1 :
              \/ /\ i + popped < fifo_count
                 /\ Queued(i)' = Queued(i + popped)
              \/ /\ i + popped = fifo_count /\ push_fire
                 /\ i + 1 = fifo_count' /\ Queued(i)' = Entered
         /\ push_fire => fifo_count' = fifo_count - popped + 1
         /\ ~push_fire => fifo_count' = fifo_count - popped
<1>1. /\ Entered \in Cmd /\ Entered.frame = frame /\ frame' \in Nat
      /\ push_fire => frame' = FrameAfter(Entered)
      /\ ~push_fire => frame' = frame
  BY QueueStep DEF TypeOK, Cmd, Entered, FrameAfter
<1>2. popped \in 0 .. 1 /\ popped <= fifo_count
  BY DEF TypeOK, popped, pop_fire
<1>3. /\ push_fire => fifo_count' = fifo_count - popped + 1
      /\ ~push_fire => fifo_count' = fifo_count - popped
  BY <1>2, QueueStep DEF TypeOK
<1>4. ASSUME NEW i \in 0 .. fifo_count' - 1
      PROVE  \/ /\ i + popped < fifo_count
                /\ Queued(i)' = Queued(i + popped)
             \/ /\ i + popped = fifo_count /\ push_fire
                /\ i + 1 = fifo_count' /\ Queued(i)' = Entered
  <2>1. CASE i + popped < fifo_count
    <3>1. i \in 0 .. fifo_count - popped - 1
      BY <1>2, <1>3, <2>1 DEF TypeOK
    <3> QED BY <2>1, <3>1, QueueStep
  <2>2. CASE ~(i + popped < fifo_count)
    <3>1. /\ i \in Nat /\ i = fifo_count - popped /\ push_fire
          /\ i + popped = fifo_count /\ i + 1 = fifo_count'
      BY <1>2, <1>3, <2>2 DEF TypeOK
    <3> QED BY <3>1, QueueStep DEF Entered
  <2> QED BY <2>1, <2>2
<1> QED BY <1>1, <1>2, <1>3, <1>4

LEMMA LinedUpStep ==
  ASSUME TypeOK, FifoShape, LinedUp, Fifo, ~soft_reset_strobe
  PROVE  LinedUp'
<1> SUFFICES ASSUME NEW i \in 0 .. fifo_count' - 1
             PROVE  /\ i + 1 < fifo_count' => Queued(i + 1)'.frame = FrameAfter(Queued(i)')
                    /\ i + 1 = fifo_count' => frame' = FrameAfter(Queued(i)')
  BY DEF LinedUp, FrameAfter
<1>1. CASE i + popped < fifo_count /\ Queued(i)' = Queued(i + popped)
  <2>1. i + popped \in 0 .. fifo_count - 1
    BY <1>1, NewQueue DEF TypeOK
  <2>2. ASSUME i + 1 < fifo_count'
        PROVE  Queued(i + 1)'.frame = FrameAfter(Queued(i)')
    <3>1. i + 1 \in 0 .. fifo_count' - 1 /\ i + 1 + popped = i + popped + 1
      BY <2>2, NewQueue DEF TypeOK
    <3>2. CASE i + 1 + popped < fifo_count /\ Queued(i + 1)' = Queued(i + 1 + popped)
      BY <1>1, <2>1, <3>1, <3>2 DEF LinedUp
    <3>3. CASE i + 1 + popped = fifo_count /\ push_fire /\ Queued(i + 1)' = Entered
      BY <1>1, <2>1, <3>1, <3>3, NewQueue DEF LinedUp
    <3> QED BY <3>1, <3>2, <3>3, NewQueue
  <2>3. ASSUME i + 1 = fifo_count'
        PROVE  frame' = FrameAfter(Queued(i)')
    <3>1. ~push_fire /\ i + popped + 1 = fifo_count
      BY <1>1, <2>3, NewQueue DEF TypeOK
    <3> QED BY <1>1, <2>1, <3>1, NewQueue DEF LinedUp
  <2> QED BY <2>2, <2>3
<1>2. CASE push_fire /\ i + 1 = fifo_count' /\ Queued(i)' = Entered
  BY <1>2, NewQueue DEF TypeOK
<1> QED BY <1>1, <1>2, NewQueue

LEMMA SortedStep ==
  ASSUME TypeOK, FifoShape, Sorted, Fifo, ~soft_reset_strobe
  PROVE  Sorted'
<1> SUFFICES ASSUME NEW i \in 0 .. fifo_count' - 1
             PROVE  /\ FrameAfter(Queued(i)') <= frame'
                    /\ \A j \in 0 .. fifo_count' - 1 :
                         i < j => FrameAfter(Queued(i)') <= Queued(j)'.frame
  BY DEF Sorted, FrameAfter
<1>1. CASE i + popped < fifo_count /\ Queued(i)' = Queued(i + popped)
  <2>1. i + popped \in 0 .. fifo_count - 1
    BY <1>1, NewQueue DEF TypeOK
  <2>2. FrameAfter(Queued(i)') \in Nat /\ FrameAfter(Queued(i)') <= frame
    BY <1>1, <2>1, QueuedType DEF Sorted
  <2>3. frame <= frame'
    BY NewQueue, QueuedType DEF TypeOK
  <2>4. ASSUME NEW j \in 0 .. fifo_count' - 1, i < j
        PROVE  FrameAfter(Queued(i)') <= Queued(j)'.frame
    <3>1. CASE j + popped < fifo_count /\ Queued(j)' = Queued(j + popped)
      <4>1. j + popped \in 0 .. fifo_count - 1 /\ i + popped < j + popped
        BY <2>4, <3>1, NewQueue DEF TypeOK
      <4> QED BY <1>1, <2>1, <3>1, <4>1 DEF Sorted
    <3>2. CASE Queued(j)' = Entered
      BY <2>2, <3>2, NewQueue
    <3> QED BY <3>1, <3>2, NewQueue
  <2>5. FrameAfter(Queued(i)') <= frame'
    BY <2>2, <2>3, NewQueue DEF TypeOK
  <2> QED BY <2>4, <2>5
<1>2. CASE push_fire /\ i + 1 = fifo_count' /\ Queued(i)' = Entered
  <2>1. FrameAfter(Queued(i)') = frame' /\ frame' \in Nat
    BY <1>2, NewQueue
  <2>2. \A j \in 0 .. fifo_count' - 1 : ~(i < j)
    BY <1>2, NewQueue DEF TypeOK
  <2> QED BY <2>1, <2>2
<1> QED BY <1>1, <1>2, NewQueue

(* The frames in the FIFO stay ahead of the frames due: if a PRESENT is    *)
(* popped, everything behind it belongs to a later frame than its own.     *)
LEMMA HeadStep ==
  ASSUME TypeOK, FifoShape, HeadOfLine, Sorted, Fifo, ~soft_reset_strobe,
         SwapsDue \in Nat, SwapsDue' \in Nat, SwapsDue' <= SwapsDue + 1,
         SwapsDue' = SwapsDue \/ (pop_fire /\ head.present)
  PROVE  HeadOfLine'
<1>1. fifo_count \in Nat /\ frame \in Nat /\ frame' \in Nat /\ frame <= frame'
  BY NewQueue, QueuedType DEF TypeOK
<1>2. /\ frame >= SwapsDue'
      /\ \A i \in 0 .. fifo_count - 1 : i >= popped => Queued(i).frame >= SwapsDue'
  <2>1. CASE SwapsDue' = SwapsDue
    BY <2>1 DEF HeadOfLine
  <2>2. CASE pop_fire /\ head.present
    <3>1. fifo_count > 0 /\ popped = 1 /\ 0 \in 0 .. fifo_count - 1
      BY <2>2, <1>1 DEF pop_fire, popped
    <3>2. /\ Queued(0).frame >= SwapsDue /\ Queued(0).frame \in Nat
          /\ FrameAfter(Queued(0)) = Queued(0).frame + 1
      BY <2>2, <3>1, QueuedType DEF HeadOfLine
    <3>3. FrameAfter(Queued(0)) >= SwapsDue'
      BY <3>2
    <3>4. frame >= FrameAfter(Queued(0))
      BY <3>1 DEF Sorted
    <3>5. \A i \in 0 .. fifo_count - 1 : i >= 1 => Queued(i).frame >= FrameAfter(Queued(0))
      BY <3>1 DEF Sorted
    <3>6. \A i \in 0 .. fifo_count - 1 : Queued(i).frame \in Nat
      BY QueuedType
    <3>7. FrameAfter(Queued(0)) \in Nat
      BY <3>1, QueuedType
    <3> QED BY <1>1, <3>1, <3>3, <3>4, <3>5, <3>6, <3>7
  <2> QED BY <2>1, <2>2
<1>3. ASSUME NEW i \in 0 .. fifo_count' - 1 PROVE Queued(i)'.frame >= SwapsDue'
  <2>1. CASE i + popped < fifo_count /\ Queued(i)' = Queued(i + popped)
    <3>1. i + popped \in 0 .. fifo_count - 1 /\ i + popped >= popped
      BY <2>1, NewQueue DEF TypeOK
    <3> QED BY <1>2, <2>1, <3>1
  <2>2. CASE Queued(i)' = Entered
    BY <1>2, <2>2, NewQueue
  <2> QED BY <2>1, <2>2, NewQueue
<1>4. frame' >= SwapsDue'
  BY <1>1, <1>2
<1> QED BY <1>3, <1>4 DEF HeadOfLine

LEMMA FramesInit == Init => FInv
<1> SUFFICES ASSUME Init PROVE FInv
  OBVIOUS
<1>1. SwapsDue = 0
  BY DEF Init, SwapsDue
<1>2. HeadOfLine /\ LinedUp /\ Sorted /\ JobDue
  BY <1>1 DEF Init, HeadOfLine, LinedUp, Sorted, JobDue
<1> QED BY <1>2, InitInvariant DEF FInv

LEMMA ClockFrames ==
  ASSUME FInv, NEW m \in Mmio, NEW b \in BOOLEAN, Clock(m, b)
  PROVE  FInv'
<1>1. IInv' /\ TypeOK /\ FifoShape
  BY ClockInvariant DEF FInv, IInv
<1>2. PICK span \in Span, we \in BOOLEAN :
        /\ FrameCtrl(b, we) /\ Pages(we) /\ Regs(m) /\ Fifo
        /\ Gru(span) /\ Writer(span)
  BY <1>1, ClockBlocks
<1>3. /\ SwapsDue \in Nat /\ SwapsDue' \in Nat /\ SwapsDue' <= SwapsDue + 1
      /\ ~present_req' => SwapsDue' = SwapsDue
  BY <1>1, <1>2, DueStep
<1>4. /\ present_req' => pop_fire /\ head.present /\ ~soft_reset_strobe
      /\ Working' => /\ ~present_req'
                     /\ \/ job' = job /\ Working
                        \/ job' = head.frame /\ pop_fire
  BY <1>1, <1>2, JobStep
<1>5. JobDue'
  <2> SUFFICES ASSUME Working' PROVE job' >= SwapsDue'
    BY DEF JobDue, Working
  <2>1. SwapsDue' = SwapsDue
    BY <1>3, <1>4
  <2>2. CASE job' = job /\ Working
    BY <2>1, <2>2 DEF FInv, JobDue, Working
  <2>3. CASE job' = head.frame /\ pop_fire
    <3>1. fifo_count > 0 /\ 0 \in 0 .. fifo_count - 1
      BY <1>1, <2>3 DEF pop_fire, TypeOK
    <3>2. Queued(0).frame >= SwapsDue /\ head = Queued(0)
      BY <1>1, <3>1, QueuedType DEF FInv, HeadOfLine
    <3> QED BY <2>1, <2>3, <3>2
  <2> QED BY <1>4, <2>2, <2>3
<1>6. CASE soft_reset_strobe
  <2>1. fifo_count' = 0 /\ frame' = SwapsDue'
    BY <1>2, <1>4, <1>6 DEF Fifo, SwapsDue
  <2> QED BY <1>1, <1>3, <1>5, <2>1 DEF FInv, HeadOfLine, LinedUp, Sorted
<1>7. CASE ~soft_reset_strobe
  <2>1. HeadOfLine'
    BY <1>1, <1>2, <1>3, <1>4, <1>7, HeadStep DEF FInv
  <2>2. LinedUp'
    BY <1>1, <1>2, <1>7, LinedUpStep DEF FInv
  <2>3. Sorted'
    BY <1>1, <1>2, <1>7, SortedStep DEF FInv
  <2> QED BY <1>1, <1>5, <2>1, <2>2, <2>3 DEF FInv
<1> QED BY <1>6, <1>7

LEMMA FramesStep == FInv /\ [Next]_vars => FInv'
<1> SUFFICES ASSUME FInv, [Next]_vars PROVE FInv'
  OBVIOUS
<1>1. CASE Next
  <2>1. PICK m \in Mmio, b \in BOOLEAN : Clock(m, b)
    BY <1>1 DEF Next, Boundaries
  <2> QED BY <2>1, ClockFrames
<1>2. CASE UNCHANGED vars
  <2>1. IInv'
    BY <1>2, StepInvariant DEF FInv
  <2> QED BY <1>2, <2>1
          DEF FInv, HeadOfLine, LinedUp, Sorted, JobDue, Queued, Slot, FrameAfter,
              SwapsDue, vars, fifo_vars, gru_vars, writer_vars, frame_vars
<1> QED BY <1>1, <1>2

LEMMA FramesInvariance == Spec => []FInv
<1> QED BY FramesInit, FramesStep, PTL DEF Spec

(* What the invariant says of the queue.                                   *)
LEMMA FramesPromises == FInv => FramesInOrder /\ QueueSound /\ NoLateCommand
<1> SUFFICES ASSUME FInv PROVE FramesInOrder /\ QueueSound /\ NoLateCommand
  OBVIOUS
<1>1. fifo_count \in Nat
  BY DEF FInv, IInv, TypeOK
<1>2. \A i \in 0 .. fifo_count - 2 : Queued(i + 1).frame = FrameAfter(Queued(i))
  BY <1>1 DEF FInv, LinedUp
<1>3. fifo_count > 0 => frame = FrameAfter(Queued(fifo_count - 1))
  BY <1>1 DEF FInv, LinedUp
<1>4. FramesInOrder
  BY <1>2, <1>3 DEF FramesInOrder
<1> QED BY <1>4 DEF FInv, IInv, QueueSound, HeadOfLine, JobDue, NoLateCommand

(* Along the FIFO, from its head to the push still to come, the frame      *)
(* numbers follow the PRESENTs, over every wrap of the ring.               *)
THEOREM Ordered == Spec => []FramesInOrder
<1> QED BY FramesPromises, FramesInvariance, PTL

(* The FIFO is a queue: types, the fill level and the two pointers agree,  *)
(* and what was pushed is popped in order of the frames.                   *)
THEOREM QueueIsSound == Spec => []QueueSound
<1> QED BY FramesPromises, FramesInvariance, PTL

(* No swap exposes a page that a queued or executing command of its frame  *)
(* is still to draw on.  (Commands of the next frame are another matter:   *)
(* SketchDriverProofs!PresentIsSound.)                                     *)
THEOREM NoCommandLate == Spec => []NoLateCommand
<1> QED BY FramesPromises, FramesInvariance, PTL

-----------------------------------------------------------------------------
(***************************************************************************)
(* A PRESENT on its way through the core is in exactly one place: in the   *)
(* push strobe, at the tail of the FIFO, in the request to the frame       *)
(* controller, or waiting for the boundary.                                *)
(***************************************************************************)
Clear      == ~present_req /\ ~swap_pending /\ ~frame_closed
OnlyDraws  == \A i \in 0 .. fifo_count - 1 : ~Queued(i).present
OnlyLastPresents ==
  /\ fifo_count > 0
  /\ \A i \in 0 .. fifo_count - 1 : /\ i + 1 = fifo_count => Queued(i).present
                                    /\ i + 1 < fifo_count => ~Queued(i).present
AtRest     == Clear /\ OnlyDraws /\ frame = swap_counter
Strobed    == AtRest /\ cmd_push_strobe /\ cmd_present
InFifo     == /\ Clear /\ ~cmd_push_strobe /\ frame = swap_counter + 1
              /\ OnlyLastPresents
Requested  == /\ present_req /\ ~swap_pending /\ ~cmd_push_strobe
              /\ fifo_count = 0 /\ frame = swap_counter + 1
AtBoundary == /\ swap_pending /\ ~present_req /\ ~frame_closed /\ ~cmd_push_strobe
              /\ fifo_count = 0 /\ frame = swap_counter + 1
              /\ state = "IDLE" /\ ~active
Underway   == Strobed \/ InFifo \/ Requested \/ AtBoundary
Settled    == AtRest /\ ~(cmd_push_strobe /\ cmd_present)

(* Nobody resets the core or turns the display off.                        *)
Undisturbed == ~soft_reset_strobe /\ display_enable

(* The page on display holds frames that were presented, and everything    *)
(* drawn since is of the frame to be shown next.                           *)
PagesShown ==
  /\ page[front_idx] < swap_counter
  /\ page[back_idx] <= swap_counter
  /\ job <= swap_counter

-----------------------------------------------------------------------------
(* The blocks of the core, as far as a PRESENT can tell.                   *)

(* The command processor passes on a PRESENT it takes from the FIFO in the *)
(* next clock, and closes the frame for that clock only.                   *)
LEMMA PresentStep ==
  ASSUME TypeOK, ~soft_reset_strobe, NEW span \in Span, Gru(span), Writer(span)
  PROVE  /\ present_req' = (pop_fire /\ head.present)
         /\ frame_closed' = (present_req' \/ (frame_closed /\ swap_pending))
         /\ job' = job \/ (pop_fire /\ ~head.present /\ job' = head.frame)
         /\ state = "IDLE" /\ ~active /\ ~pop_fire => state' = "IDLE" /\ ~active'
<1> USE DEF RasterStep, OpenFrame, render_allowed, TypeOK, pop_fire, Cmd, head
<1>1. CASE GruReset(span)        BY <1>1 DEF GruReset
<1>2. CASE GruIdle(span)         BY <1>2, WriterRests DEF GruIdle
<1>3. CASE DispatchDraw(span)    BY <1>3 DEF DispatchDraw
<1>4. CASE DispatchReject(span)  BY <1>4 DEF DispatchReject
<1>5. CASE DispatchPresent(span) BY <1>5 DEF DispatchPresent
<1>6. CASE Fill(span)            BY <1>6 DEF Fill
<1>7. CASE Line(span)            BY <1>7 DEF Line
<1>8. CASE Glyph(span)           BY <1>8 DEF Glyph
<1>9. CASE Triangle(span)        BY <1>9 DEF Triangle
<1>10. CASE Blit(span)           BY <1>10 DEF Blit
<1>11. CASE WaitDone(span)       BY <1>11 DEF WaitDone
<1> QED BY <1>1, <1>2, <1>3, <1>4, <1>5, <1>6, <1>7, <1>8, <1>9, <1>10, <1>11 DEF Gru

(* The pages are exchanged for a request, at a boundary, and not twice.    *)
Swapped == /\ swap_done' /\ ~swap_pending' /\ swap_counter' = swap_counter + 1
           /\ front_idx' = back_idx /\ back_idx' = front_idx
NotYet  == /\ ~swap_done' /\ swap_counter' = swap_counter
           /\ front_idx' = front_idx /\ back_idx' = back_idx

LEMMA SwapStep ==
  ASSUME TypeOK, NEW b \in BOOLEAN, NEW we \in BOOLEAN, FrameCtrl(b, we)
  PROVE  /\ ~swap_pending /\ ~present_req => NotYet /\ ~swap_pending'
         /\ swap_pending \/ present_req => Swapped \/ (NotYet /\ swap_pending')
BY DEF TypeOK, FrameCtrl, swap_fire, next_pending, next_back, Swapped, NotYet

LEMMA DrawsStay ==
  ASSUME TypeOK, FifoShape, Fifo, ~soft_reset_strobe, OnlyDraws, ~(push_fire /\ cmd_present)
  PROVE  OnlyDraws' /\ frame' = frame
<1>1. frame' = frame
  BY QueueStep
<1>2. ASSUME NEW i \in 0 .. fifo_count' - 1 PROVE ~Queued(i)'.present
  <2>1. CASE i + popped < fifo_count /\ Queued(i)' = Queued(i + popped)
    <3>1. i + popped \in 0 .. fifo_count - 1
      BY <2>1, NewQueue DEF TypeOK
    <3> QED BY <2>1, <3>1 DEF OnlyDraws
  <2>2. CASE push_fire /\ Queued(i)' = Entered
    BY <2>2 DEF Entered
  <2> QED BY <2>1, <2>2, NewQueue
<1> QED BY <1>1, <1>2 DEF OnlyDraws

LEMMA PresentEnters ==
  ASSUME TypeOK, FifoShape, Fifo, ~soft_reset_strobe, OnlyDraws, push_fire, cmd_present
  PROVE  OnlyLastPresents' /\ frame' = frame + 1
<1>1. frame' = frame + 1 /\ fifo_count' = fifo_count - popped + 1
  BY QueueStep, NewQueue
<1>2. fifo_count' > 0 /\ fifo_count' \in Nat
  BY <1>1, NewQueue DEF TypeOK
<1>3. ASSUME NEW i \in 0 .. fifo_count' - 1
      PROVE  /\ i + 1 = fifo_count' => Queued(i)'.present
             /\ i + 1 < fifo_count' => ~Queued(i)'.present
  <2>1. CASE i + popped < fifo_count /\ Queued(i)' = Queued(i + popped)
    <3>1. i + popped \in 0 .. fifo_count - 1 /\ i + 1 # fifo_count'
      BY <1>1, <2>1, NewQueue DEF TypeOK
    <3> QED BY <2>1, <3>1 DEF OnlyDraws
  <2>2. CASE i + 1 = fifo_count' /\ Queued(i)' = Entered
    BY <1>2, <2>2 DEF Entered
  <2> QED BY <2>1, <2>2, NewQueue
<1> QED BY <1>1, <1>2, <1>3 DEF OnlyLastPresents

LEMMA PresentMoves ==
  ASSUME TypeOK, FifoShape, Fifo, ~soft_reset_strobe, OnlyLastPresents, ~push_fire
  PROVE  /\ frame' = frame
         /\ pop_fire /\ head.present => fifo_count' = 0
         /\ ~(pop_fire /\ head.present) => OnlyLastPresents'
<1>1. /\ frame' = frame /\ fifo_count' = fifo_count - popped
      /\ fifo_count \in Nat /\ fifo_count > 0 /\ fifo_count' \in Nat
  BY QueueStep, NewQueue DEF OnlyLastPresents, TypeOK
<1>2. head = Queued(0) /\ 0 \in 0 .. fifo_count - 1
  BY <1>1, QueuedType
<1>3. head.present => fifo_count = 1
  BY <1>1, <1>2 DEF OnlyLastPresents
<1>4. fifo_count = 1 => head.present
  BY <1>1, <1>2 DEF OnlyLastPresents
<1>5. ASSUME pop_fire, head.present PROVE fifo_count' = 0
  BY <1>1, <1>3, <1>5 DEF popped
<1>6. ASSUME ~(pop_fire /\ head.present) PROVE OnlyLastPresents'
  <2>1. fifo_count' > 0
    BY <1>1, <1>4, <1>6, NewQueue DEF popped
  <2>2. ASSUME NEW i \in 0 .. fifo_count' - 1
        PROVE  /\ i + 1 = fifo_count' => Queued(i)'.present
               /\ i + 1 < fifo_count' => ~Queued(i)'.present
    <3>1. /\ Queued(i)' = Queued(i + popped) /\ i + popped \in 0 .. fifo_count - 1
          /\ i + popped + 1 = fifo_count <=> i + 1 = fifo_count'
          /\ i + popped + 1 < fifo_count <=> i + 1 < fifo_count'
      BY <1>1, NewQueue
    <3> QED BY <3>1 DEF OnlyLastPresents
  <2> QED BY <2>1, <2>2 DEF OnlyLastPresents
<1> QED BY <1>1, <1>5, <1>6

-----------------------------------------------------------------------------
(***************************************************************************)
(* One clock of the core, stage by stage.  A strobe that finds the FIFO    *)
(* open enters it; no new strobe follows a PRESENT, for the CPU waits.     *)
(***************************************************************************)
Blocks(span, b, we) ==
  /\ FrameCtrl(b, we) /\ Pages(we) /\ Fifo /\ Gru(span) /\ Writer(span)

LEMMA RestStep ==
  ASSUME TypeOK, FifoShape, ~soft_reset_strobe, NEW span \in Span, NEW b \in BOOLEAN,
         NEW we \in BOOLEAN, Blocks(span, b, we),
         AtRest, cmd_push_strobe => fifo_count # Depth
  PROVE  /\ NotYet /\ ~swap_pending' /\ ~present_req' /\ ~frame_closed'
         /\ ~(cmd_push_strobe /\ cmd_present) => AtRest'
         /\ cmd_push_strobe /\ cmd_present => OnlyLastPresents' /\ frame' = frame + 1
<1> USE DEF Blocks
<1>1. pop_fire => ~head.present
  <2>1. pop_fire => head = Queued(0) /\ 0 \in 0 .. fifo_count - 1
    BY QueuedType DEF pop_fire, TypeOK
  <2> QED BY <2>1 DEF AtRest, OnlyDraws
<1>2. ~present_req' /\ ~frame_closed'
  BY <1>1, PresentStep DEF AtRest, Clear
<1>3. NotYet /\ ~swap_pending'
  BY SwapStep DEF AtRest, Clear
<1>4. push_fire <=> cmd_push_strobe
  BY DEF push_fire, cmd_push_ready, cmd_full, render_allowed, AtRest, Clear
<1>5. ~(cmd_push_strobe /\ cmd_present) => AtRest'
  BY <1>2, <1>3, <1>4, DrawsStay DEF AtRest, Clear, NotYet
<1>6. cmd_push_strobe /\ cmd_present => OnlyLastPresents' /\ frame' = frame + 1
  BY <1>4, PresentEnters DEF AtRest
<1> QED BY <1>2, <1>3, <1>5, <1>6

LEMMA QueuedStep ==
  ASSUME TypeOK, FifoShape, ~soft_reset_strobe, NEW span \in Span, NEW b \in BOOLEAN,
         NEW we \in BOOLEAN, Blocks(span, b, we), InFifo, ~cmd_push_strobe'
  PROVE  NotYet /\ (InFifo' \/ Requested')
<1> USE DEF Blocks
<1>1. NotYet /\ ~swap_pending'
  BY SwapStep DEF InFifo, Clear
<1>2. ~push_fire
  BY DEF InFifo, push_fire
<1>3. frame' = frame /\ frame' = swap_counter' + 1
  BY <1>1, <1>2, PresentMoves DEF InFifo, NotYet
<1>4. CASE pop_fire /\ head.present
  <2>1. present_req' /\ fifo_count' = 0
    BY <1>2, <1>4, PresentStep, PresentMoves DEF InFifo
  <2> QED BY <1>1, <1>3, <2>1 DEF Requested
<1>5. CASE ~(pop_fire /\ head.present)
  <2>1. OnlyLastPresents'
    BY <1>2, <1>5, PresentMoves DEF InFifo
  <2>2. ~present_req' /\ ~frame_closed'
    BY <1>5, PresentStep DEF InFifo, Clear
  <2> QED BY <1>1, <1>3, <2>1, <2>2 DEF InFifo, Clear
<1> QED BY <1>4, <1>5

(* From the request on the FIFO is empty and nothing draws.                *)
LEMMA EmptyStep ==
  ASSUME TypeOK, FifoShape, ~soft_reset_strobe, NEW span \in Span, NEW b \in BOOLEAN,
         NEW we \in BOOLEAN, Blocks(span, b, we), fifo_count = 0, ~cmd_push_strobe,
         state = "IDLE", ~active
  PROVE  /\ fifo_count' = 0 /\ frame' = frame /\ ~present_req'
         /\ state' = "IDLE" /\ ~active' /\ OnlyDraws'
         /\ frame_closed' = (frame_closed /\ swap_pending)
<1> USE DEF Blocks
<1>1. ~pop_fire /\ ~push_fire
  BY DEF pop_fire, push_fire
<1>2. fifo_count' = 0 /\ frame' = frame
  BY <1>1, QueueStep DEF popped
<1>3. OnlyDraws'
  BY <1>2 DEF OnlyDraws
<1> QED BY <1>1, <1>2, <1>3, PresentStep

LEMMA DueSwapStep ==
  ASSUME TypeOK, FifoShape, PresentAfterRetire, ~soft_reset_strobe, NEW span \in Span,
         NEW b \in BOOLEAN, NEW we \in BOOLEAN, Blocks(span, b, we),
         Requested \/ AtBoundary, ~cmd_push_strobe'
  PROVE  \/ NotYet /\ AtBoundary'
         \/ Swapped /\ AtRest'
<1>1. /\ fifo_count = 0 /\ ~cmd_push_strobe /\ state = "IDLE" /\ ~active
      /\ ~(frame_closed /\ swap_pending)
      /\ frame = swap_counter + 1
  BY DEF Requested, AtBoundary, PresentAfterRetire
<1>2. /\ fifo_count' = 0 /\ frame' = frame /\ ~present_req'
      /\ state' = "IDLE" /\ ~active' /\ OnlyDraws' /\ ~frame_closed'
  BY <1>1, EmptyStep
<1>3. Swapped \/ (NotYet /\ swap_pending')
  BY SwapStep DEF Blocks, Requested, AtBoundary
<1>4. CASE Swapped
  BY <1>1, <1>2, <1>4 DEF Swapped, AtRest, Clear
<1>5. CASE NotYet /\ swap_pending'
  BY <1>1, <1>2, <1>5 DEF NotYet, AtBoundary
<1> QED BY <1>3, <1>4, <1>5

(* A PRESENT on its way moves on or swaps, if no push follows it.          *)
LEMMA UnderwayStep ==
  ASSUME TypeOK, FifoShape, PresentAfterRetire, ~soft_reset_strobe, NEW span \in Span,
         NEW b \in BOOLEAN, NEW we \in BOOLEAN, Blocks(span, b, we),
         Underway, cmd_push_strobe => fifo_count # Depth, ~cmd_push_strobe'
  PROVE  /\ \/ NotYet /\ Underway'
            \/ Swapped /\ AtRest' /\ ~Working
         /\ Strobed => NotYet /\ InFifo'
<1>1. CASE Strobed
  <2>1. NotYet /\ OnlyLastPresents' /\ frame' = frame + 1 /\ Clear'
    BY <1>1, RestStep DEF Strobed, Clear
  <2>2. frame' = swap_counter' + 1
    BY <1>1, <2>1 DEF Strobed, AtRest, NotYet
  <2> QED BY <2>1, <2>2 DEF InFifo, Underway
<1>2. CASE InFifo /\ ~Strobed
  BY <1>2, QueuedStep DEF Underway
<1>3. CASE (Requested \/ AtBoundary) /\ ~Strobed
  BY <1>3, DueSwapStep DEF Underway, Requested, AtBoundary, PresentAfterRetire, Working
<1> QED BY <1>1, <1>2, <1>3 DEF Underway

(* Every draw taken from the FIFO is of the frame to be shown next.        *)
LEMMA HeadFrame ==
  ASSUME FInv, AtRest \/ Underway, pop_fire, ~head.present
  PROVE  head.frame <= swap_counter
<1>1. /\ TypeOK /\ FifoShape /\ Sorted /\ 0 \in 0 .. fifo_count - 1 /\ head = Queued(0)
      /\ fifo_count \in Nat /\ frame \in Nat /\ swap_counter \in Nat
  BY QueuedType DEF FInv, IInv, TypeOK, pop_fire
<1>2. /\ head.frame \in Nat /\ FrameAfter(head) <= frame
      /\ head.frame <= FrameAfter(head) /\ FrameAfter(head) \in Nat
  BY <1>1, QueuedType DEF Sorted
<1>3. CASE AtRest
  BY <1>1, <1>2, <1>3 DEF AtRest
<1>4. CASE InFifo
  <2>1. fifo_count # 1
    BY <1>1, <1>4 DEF InFifo, OnlyLastPresents
  <2> DEFINE last == fifo_count - 1
  <2>2. last \in 0 .. fifo_count - 1 /\ 0 < last /\ last + 1 = fifo_count
    BY <1>1, <2>1
  <2>3. Queued(last).present /\ Queued(last) \in Cmd /\ FrameAfter(Queued(last)) <= frame
    BY <1>1, <1>4, <2>2, QueuedType DEF InFifo, OnlyLastPresents, Sorted
  <2>4. FrameAfter(Queued(last)) = Queued(last).frame + 1 /\ Queued(last).frame \in Nat
    BY <1>1, <2>3, QueuedType
  <2>5. FrameAfter(head) <= Queued(last).frame
    BY <1>1, <2>2 DEF Sorted
  <2>6. frame = swap_counter + 1
    BY <1>4 DEF InFifo
  <2> HIDE DEF last
  <2> QED BY <1>1, <1>2, <2>3, <2>4, <2>5, <2>6
<1>5. CASE Requested \/ AtBoundary
  BY <1>1, <1>5 DEF Requested, AtBoundary
<1> QED BY <1>3, <1>4, <1>5 DEF Underway, Strobed

(* A page takes beats of the frame to be shown next, and only while it is  *)
(* hidden and no swap is due.                                              *)
LEMMA PagesShownStep ==
  ASSUME FInv, PagesShown, ~soft_reset_strobe, AtRest \/ Underway,
         NEW span \in Span, NEW b \in BOOLEAN, NEW we \in BOOLEAN, Blocks(span, b, we),
         NotYet \/ (Swapped /\ ~Working), ~Working => ~we
  PROVE  PagesShown' /\ (active_write_error' => active_write_error)
<1>1. /\ TypeOK /\ FifoShape /\ PagesDiffer
      /\ FrameCtrl(b, we) /\ Pages(we) /\ Fifo /\ Gru(span) /\ Writer(span)
  BY DEF FInv, IInv, Blocks
<1>2. job' \in Nat /\ swap_counter' \in Nat /\ swap_counter \in Nat /\ job \in Nat
  BY <1>1, StepsType, FrameType DEF FInv, IInv, TypeOK
<1>3. job' <= swap_counter
  <2>1. job' = job \/ (pop_fire /\ ~head.present /\ job' = head.frame)
    BY <1>1, PresentStep
  <2> QED BY <2>1, HeadFrame DEF PagesShown
<1>4. swap_counter <= swap_counter'
  BY <1>2 DEF NotYet, Swapped
<1>5. page[front_idx]' < swap_counter' /\ page[back_idx]' <= swap_counter'
  <2>1. CASE Swapped /\ ~we
    BY <1>1, <2>1 DEF Swapped, Pages, TypeOK, PagesDiffer, PowerUp, PagesShown
  <2>2. CASE NotYet /\ we
    BY <1>1, <2>2 DEF NotYet, Pages, target_page, TypeOK, PagesDiffer, PagesShown
  <2>3. CASE NotYet /\ ~we
    BY <1>1, <2>3 DEF NotYet, Pages, PagesShown
  <2> QED BY <2>1, <2>2, <2>3
<1>6. active_write_error' => active_write_error
  <2>1. swap_pending => ~Working
    BY DEF Underway, Strobed, AtRest, Clear, InFifo, Requested, AtBoundary, Working
  <2> QED BY <1>1, <2>1 DEF FrameCtrl, render_allowed
<1> QED BY <1>2, <1>3, <1>4, <1>5, <1>6 DEF PagesShown

-----------------------------------------------------------------------------
(***************************************************************************)
(* The two pages as their user sees them.  A clock with a beat is a Draw,  *)
(* the clock in which a PRESENT leaves the FIFO is a Present, the clock of *)
(* the swap is a Show, and every other clock is a stutter.                 *)
(***************************************************************************)
TwoPages == INSTANCE DoubleBuffer WITH
              front <- front_idx, shown <- swap_counter, asked <- SwapsDue,
              drawn <- page

LEMMA PagesInit == Init => TwoPages!Init /\ PagesShown
BY DEF Init, TwoPages!Init, TwoPages!Pages, SwapsDue, PowerUp, PagesShown

LEMMA TwoPagesStep ==
  ASSUME FInv, PagesShown, ~soft_reset_strobe, AtRest \/ Underway,
         NEW span \in Span, NEW b \in BOOLEAN, NEW we \in BOOLEAN, Blocks(span, b, we),
         NotYet \/ (Swapped /\ ~Working), ~Working => ~we
  PROVE  [TwoPages!Next]_(TwoPages!bvars)
<1> USE DEF TwoPages!Next, TwoPages!bvars
<1>1. /\ TypeOK /\ FifoShape /\ PagesDiffer /\ PresentAfterRetire
      /\ FrameCtrl(b, we) /\ Pages(we) /\ Gru(span) /\ Writer(span)
  BY DEF FInv, IInv, Blocks
<1>2. /\ present_req' => pop_fire
      /\ swap_pending \/ present_req => /\ ~Working /\ ~pop_fire
                                        /\ ~(swap_pending /\ present_req)
  BY <1>1, PresentStep
  DEF Underway, Strobed, AtRest, Clear, InFifo, Requested, AtBoundary, Working, pop_fire,
      PresentAfterRetire
<1>3. /\ ~swap_pending /\ ~present_req => NotYet /\ ~swap_pending'
      /\ swap_pending \/ present_req => Swapped \/ (NotYet /\ swap_pending')
  BY <1>1, SwapStep
<1>4. front_idx \in {0, 1} /\ back_idx = 1 - front_idx /\ swap_counter \in Nat
  BY <1>1 DEF TypeOK, PagesDiffer
<1>5. CASE we
  <2>1. Working /\ ~swap_pending /\ ~present_req /\ ~pop_fire
    BY <1>2, <1>5 DEF Working, pop_fire
  <2>2. NotYet /\ ~swap_pending' /\ ~present_req'
    BY <1>2, <1>3, <2>1
  <2>3. SwapsDue = swap_counter /\ SwapsDue' = swap_counter
    BY <1>4, <2>1, <2>2 DEF SwapsDue, NotYet
  <2>4. job = swap_counter
    BY <1>1, <2>1, <2>3 DEF FInv, JobDue, Working, PagesShown, TypeOK
  <2>5. page' = [page EXCEPT ![1 - front_idx] = swap_counter]
    BY <1>1, <1>4, <1>5, <2>4 DEF Pages, target_page
  <2> QED BY <2>2, <2>3, <2>5 DEF NotYet, TwoPages!Draw
<1>6. CASE ~we /\ ~swap_pending /\ ~present_req
  <2>1. NotYet /\ ~swap_pending' /\ page' = page /\ SwapsDue = swap_counter
    BY <1>1, <1>3, <1>4, <1>6 DEF Pages, SwapsDue
  <2>2. SwapsDue' = IF present_req' THEN swap_counter + 1 ELSE swap_counter
    BY <1>4, <2>1 DEF SwapsDue, NotYet
  <2> QED BY <2>1, <2>2 DEF NotYet, TwoPages!Present
<1>7. CASE ~we /\ (swap_pending \/ present_req)
  <2>1. page' = page /\ ~present_req' /\ SwapsDue = swap_counter + 1
    BY <1>1, <1>2, <1>7 DEF Pages, SwapsDue
  <2>2. CASE Swapped
    <3>1. SwapsDue' = swap_counter + 1
      BY <1>4, <2>1, <2>2 DEF Swapped, SwapsDue
    <3> QED BY <1>4, <2>1, <2>2, <3>1 DEF Swapped, TwoPages!Show
  <2>3. CASE NotYet /\ swap_pending'
    <3>1. SwapsDue' = swap_counter + 1
      BY <2>1, <2>3 DEF NotYet, SwapsDue
    <3> QED BY <2>1, <2>3, <3>1 DEF NotYet
  <2> QED BY <1>3, <1>7, <2>2, <2>3
<1> QED BY <1>5, <1>6, <1>7

(***************************************************************************)
(* One clock of the core as its producers see it, for a producer that      *)
(* pushes nothing behind a PRESENT on its way: what the access leaves in   *)
(* the register file, and where a PRESENT is.                              *)
(***************************************************************************)
LEMMA CoreClock ==
  ASSUME FInv, PagesShown, Undisturbed, NEW m \in Mmio, NEW b \in BOOLEAN, Clock(m, b),
         cmd_push_strobe => fifo_count # Depth,
         Settled \/ (Underway /\ ~Written(m, "CMD_PUSH"))
  PROVE  /\ FInv' /\ PagesShown' /\ Regs(m)
         /\ active_write_error' => active_write_error
         /\ Settled => NotYet /\ AtRest'
         /\ Strobed => NotYet /\ InFifo'
         /\ Underway => \/ NotYet /\ Underway'
                        \/ Swapped /\ AtRest'
         /\ ~cmd_push_strobe /\ fifo_count # Depth => fifo_count' # Depth
         /\ [TwoPages!Next]_(TwoPages!bvars)
<1>1. /\ TypeOK /\ FifoShape /\ PresentAfterRetire /\ ~soft_reset_strobe
      /\ AtRest \/ Underway
  BY DEF FInv, IInv, Undisturbed, Settled
<1>2. PICK span \in Span, visible \in BOOLEAN :
        Blocks(span, b, gru_we(visible)) /\ Regs(m)
  BY DEF Clock, Blocks
<1> DEFINE we == gru_we(visible)
<1>3. we \in BOOLEAN /\ (~Working => ~we)
  BY <1>1 DEF gru_we, Working, TypeOK
<1>4. Blocks(span, b, we) /\ Fifo
  BY <1>2 DEF Blocks
<1> HIDE DEF we
<1>5. Settled => NotYet /\ AtRest'
  BY <1>1, <1>3, <1>4, RestStep DEF Settled
<1>6. Underway => ~cmd_push_strobe'
  <2>1. ASSUME Settled PROVE ~Underway
    BY <2>1, <1>1 DEF Settled, AtRest, Clear, Underway, Strobed, InFifo, Requested, AtBoundary,
                      TypeOK
  <2> QED BY <1>2, <2>1 DEF Regs
<1>7. Underway => /\ \/ NotYet /\ Underway'
                     \/ Swapped /\ AtRest' /\ ~Working
                  /\ Strobed => NotYet /\ InFifo'
  BY <1>1, <1>3, <1>4, <1>6, UnderwayStep
<1>8. NotYet \/ (Swapped /\ ~Working)
  BY <1>5, <1>7
<1>9. PagesShown' /\ (active_write_error' => active_write_error)
  BY <1>1, <1>3, <1>4, <1>8, PagesShownStep
<1>10. [TwoPages!Next]_(TwoPages!bvars)
  BY <1>1, <1>3, <1>4, <1>8, TwoPagesStep
<1>11. ~cmd_push_strobe /\ fifo_count # Depth => fifo_count' # Depth
  BY <1>1, <1>4, NewQueue, SketchBookAssumption DEF SketchBookAssumption, push_fire, TypeOK
<1> QED BY <1>2, <1>5, <1>7, <1>9, <1>10, <1>11, ClockFrames DEF Underway
=============================================================================
