----------------------------- MODULE SketchBook -----------------------------
(***************************************************************************)
(* The SketchBook display core (rtl/ip/sketch_book), clocked by one pixel  *)
(* clock: the MMIO register file (sketch_book_top), the ordered command    *)
(* processor with its command FIFO (sketch_gru_top), the span writer       *)
(* (sketch_bram_writer) and the page-ownership controller                  *)
(* (sketch_frame_ctrl).                                                    *)
(*                                                                         *)
(* One step is one rising clock edge.  Every register block is one         *)
(* conjunct, so the one-clock latencies between blocks (the registered     *)
(* push strobe, PRESENT request, swap pulse) are exactly those of the RTL. *)
(* Data is abstracted: a command is a PRESENT or a draw, what a draw       *)
(* decodes to and how many spans and beats it takes are chosen when it is  *)
(* dispatched.                                                             *)
(***************************************************************************)
EXTENDS Integers

CONSTANTS Depth,      \* CMD_FIFO_DEPTH
          MaxSteps,   \* bound: raster steps of one draw command
          MaxBeats,   \* bound: 64-bit beats of one span
          MaxFrames   \* bound: PRESENT commands entering the FIFO in a run

ASSUME SketchBookAssumption ==
  /\ Depth \in Nat \ {0}
  /\ MaxSteps \in Nat \ {0}
  /\ MaxBeats \in Nat \ {0}
  /\ MaxFrames \in Nat

VARIABLES
  \* sketch_book_top register file
  cmd_present,        \* the opcode held in CMD0 is PRESENT
  cmd_push_strobe, soft_reset_strobe, display_enable, frame_done_sticky,
  \* sketch_gru_top
  state, mem, wr_ptr, rd_ptr, fifo_count, frame_closed, present_req,
  steps,              \* raster steps left of the command being executed
  \* sketch_bram_writer
  active, last_q, remaining_q, cmd_done,
  \* sketch_frame_ctrl
  front_idx, back_idx, front_valid, swap_pending, swap_done,
  active_write_error, swap_counter,
  page,               \* sketch_frame_bram_bank: the frame last drawn on a page
  \* history: the frame being pushed, and the frame the executing draw is of
  frame, job

regs_vars   == <<cmd_present, cmd_push_strobe, soft_reset_strobe,
                 display_enable, frame_done_sticky>>
fifo_vars   == <<mem, wr_ptr, rd_ptr, fifo_count, frame>>
gru_vars    == <<state, frame_closed, present_req, steps, job>>
writer_vars == <<active, last_q, remaining_q, cmd_done>>
frame_vars  == <<front_idx, back_idx, front_valid, swap_pending, swap_done,
                 active_write_error, swap_counter, page>>
vars == <<regs_vars, fifo_vars, gru_vars, writer_vars, frame_vars>>

States == {"IDLE", "FILL", "LINE", "GLYPH", "TRIANGLE", "BLIT", "WAIT_DONE"}
Shapes == States \ {"IDLE", "WAIT_DONE"}
Slots  == 0 .. Depth - 1
Cmd    == [present : BOOLEAN, frame : Nat]   \* frame: PRESENTs queued before it
PowerUp == -1                                \* what a page holds before any draw

Init ==
  /\ cmd_present = FALSE /\ cmd_push_strobe = FALSE
  /\ soft_reset_strobe = FALSE
  /\ display_enable = TRUE /\ frame_done_sticky = FALSE
  /\ state = "IDLE" /\ steps = 0 /\ job = 0
  /\ mem = [i \in Slots |-> [present |-> FALSE, frame |-> 0]]
  /\ wr_ptr = 0 /\ rd_ptr = 0 /\ fifo_count = 0 /\ frame = 0
  /\ frame_closed = FALSE /\ present_req = FALSE
  /\ active = FALSE /\ last_q = FALSE /\ remaining_q = 0 /\ cmd_done = FALSE
  /\ front_idx = 0 /\ back_idx = 1 /\ front_valid = FALSE
  /\ swap_pending = FALSE /\ swap_done = FALSE
  /\ active_write_error = FALSE /\ swap_counter = 0
  /\ page = [i \in {0, 1} |-> PowerUp]

-----------------------------------------------------------------------------
(* Combinational outputs.  A definition marked faulty is a variant of the  *)
(* one below it with a plausible bug; nothing of the specification uses it.*)
(* It serves to show that a property can fail.                             *)

render_allowed == ~swap_pending
cmd_full       == fifo_count = Depth
cmd_push_ready_unbounded == ~frame_closed /\ render_allowed          \* faulty
cmd_push_ready == ~frame_closed /\ render_allowed /\ ~cmd_full
push_fire      == cmd_push_strobe /\ cmd_push_ready
pop_fire_early == state \in {"IDLE", "WAIT_DONE"} /\ fifo_count # 0   \* faulty
pop_fire       == state = "IDLE" /\ ~active /\ fifo_count # 0
span_ready     == ~active
span_last_never == FALSE                                             \* faulty
span_last      == steps = 1
head           == mem[rd_ptr]
target_page    == back_idx

(***************************************************************************)
(* One MMIO request of a clock: the register written (a read changes       *)
(* nothing) and the two data bits the core tells apart.  CMD: bit0 = the   *)
(* packet's opcode is PRESENT; CTRL: bit0 = DISPLAY_ENABLE, bit1 =         *)
(* SOFT_RESET; STATUS: bit0 = the FRAME_DONE clear (wire bit 5).           *)
(***************************************************************************)
Write(r, b0, b1) == [reg |-> r, bit0 |-> b0, bit1 |-> b1]
NoMmio == Write("NONE", FALSE, FALSE)
Mmio   == {NoMmio, Write("CMD_PUSH", FALSE, FALSE), Write("STATUS", TRUE, FALSE)}
            \cup {Write("CMD", b, FALSE) : b \in BOOLEAN}
            \cup {Write("CTRL", b[1], b[2]) : b \in BOOLEAN \X BOOLEAN}

mmio_ready(m) == m.reg = "CMD_PUSH" => cmd_push_ready
Written(m, r) == m.reg = r /\ mmio_ready(m)

(* Register file.  A write of FRAME_DONE beats a completion of the same    *)
(* clock: the later non-blocking assignment wins.                          *)
Regs(m) ==
  /\ cmd_present'       = IF Written(m, "CMD") THEN m.bit0 ELSE cmd_present
  /\ cmd_push_strobe'   = Written(m, "CMD_PUSH")
  /\ soft_reset_strobe' = (Written(m, "CTRL") /\ m.bit1)
  /\ display_enable'    = IF Written(m, "CTRL") THEN m.bit0 ELSE display_enable
  /\ frame_done_sticky' = ((frame_done_sticky \/ swap_done)
                             /\ ~(Written(m, "STATUS") /\ m.bit0))

-----------------------------------------------------------------------------
(* Command FIFO.                                                           *)

Advance(p) == IF p = Depth - 1 THEN 0 ELSE p + 1

(* Push and pop in one clock leave the level as it is.                     *)
next_count == fifo_count + (IF push_fire THEN 1 ELSE 0)
                         - (IF pop_fire THEN 1 ELSE 0)

Fifo ==
  IF soft_reset_strobe
  THEN /\ wr_ptr' = 0 /\ rd_ptr' = 0 /\ fifo_count' = 0
       /\ frame' = swap_counter' + (IF swap_pending' THEN 1 ELSE 0)
       /\ UNCHANGED mem
  ELSE /\ IF push_fire
          THEN /\ mem' = [mem EXCEPT ![wr_ptr] =
                            [present |-> cmd_present, frame |-> frame]]
               /\ wr_ptr' = Advance(wr_ptr)
               /\ frame' = IF cmd_present THEN frame + 1 ELSE frame
          ELSE UNCHANGED <<mem, wr_ptr, frame>>
       /\ rd_ptr' = IF pop_fire THEN Advance(rd_ptr) ELSE rd_ptr
       /\ fifo_count' = next_count

-----------------------------------------------------------------------------
(* Span writer.  A span is offered (valid), may be the command's last, and *)
(* takes so many beats.                                                    *)

Span     == [valid : BOOLEAN, last : BOOLEAN, beats : 0 .. MaxBeats]
NoSpan   == [valid |-> FALSE, last |-> FALSE, beats |-> 0]
Offer(last, beats) == [valid |-> TRUE, last |-> last, beats |-> beats]

Writer(span) ==
  \/ /\ soft_reset_strobe
     /\ active' = FALSE /\ remaining_q' = 0 /\ cmd_done' = FALSE
     /\ UNCHANGED last_q
  \/ /\ ~soft_reset_strobe /\ active /\ remaining_q > 1
     /\ remaining_q' = remaining_q - 1 /\ cmd_done' = FALSE
     /\ UNCHANGED <<active, last_q>>
  \/ /\ ~soft_reset_strobe /\ active /\ remaining_q <= 1
     /\ active' = FALSE /\ remaining_q' = 0 /\ cmd_done' = last_q
     /\ UNCHANGED last_q
  \/ /\ ~soft_reset_strobe /\ ~active /\ span.valid /\ span.beats # 0
     /\ active' = TRUE /\ last_q' = span.last /\ remaining_q' = span.beats
     /\ cmd_done' = FALSE
  \/ /\ ~soft_reset_strobe /\ ~active /\ ~(span.valid /\ span.beats # 0)
     /\ cmd_done' = (span.valid /\ span.last)
     /\ UNCHANGED <<active, last_q, remaining_q>>

-----------------------------------------------------------------------------
(***************************************************************************)
(* Command processor.  Each action is what the state register does in one  *)
(* clock, with the span it offers to the writer.                           *)
(***************************************************************************)

gru_we(visible) == IF state = "BLIT" THEN visible ELSE active

(* frame_closed falls the clock after it rose unless a swap is pending.    *)
OpenFrame == frame_closed' = (frame_closed /\ ~render_allowed)

GruReset(span) ==
  /\ soft_reset_strobe /\ span = NoSpan
  /\ state' = "IDLE" /\ frame_closed' = FALSE
  /\ present_req' = FALSE
  /\ UNCHANGED <<steps, job>>

GruIdle(span) ==
  /\ ~soft_reset_strobe /\ state = "IDLE" /\ ~pop_fire /\ span = NoSpan
  /\ OpenFrame /\ present_req' = FALSE
  /\ UNCHANGED <<state, steps, job>>

(* A visible primitive: the raster state and how many steps it will take.  *)
(* A GLYPH may have no step at all (an empty character).                   *)
DispatchDraw(span) ==
  /\ ~soft_reset_strobe /\ pop_fire /\ ~head.present /\ span = NoSpan
  /\ state' \in Shapes
  /\ steps' \in (IF state' = "GLYPH" THEN 0 ELSE 1) .. MaxSteps
  /\ job' = head.frame
  /\ OpenFrame /\ present_req' = FALSE

(* A fully clipped primitive, an invalid BLIT or an unknown opcode: the    *)
(* processor stays idle (the last two also latch a status bit that nothing *)
(* in the core reads).                                                     *)
DispatchReject(span) ==
  /\ ~soft_reset_strobe /\ pop_fire /\ ~head.present /\ span = NoSpan
  /\ OpenFrame /\ present_req' = FALSE /\ UNCHANGED <<state, steps, job>>

DispatchPresent(span) ==
  /\ ~soft_reset_strobe /\ pop_fire /\ head.present /\ span = NoSpan
  /\ frame_closed' = TRUE /\ present_req' = TRUE
  /\ UNCHANGED <<state, steps, job>>

RasterStep(s) ==
  /\ ~soft_reset_strobe /\ state = s
  /\ OpenFrame /\ present_req' = FALSE /\ UNCHANGED job

(* CLEAR, RECT and straight LINE: a span per step, the last one marked.    *)
Fill(span) ==
  /\ RasterStep("FILL")
  /\ \E b \in 1 .. MaxBeats : span = Offer(span_last, b)
  /\ steps' = IF span_ready THEN steps - 1 ELSE steps
  /\ state' = IF span_ready /\ steps = 1 THEN "WAIT_DONE" ELSE "FILL"

(* Bresenham: points off the page are skipped without a span, so a line    *)
(* whose end is off the page returns to IDLE while the writer may work.    *)
Line(span) ==
  /\ RasterStep("LINE")
  /\ span \in {NoSpan, Offer(span_last, 1)}
  /\ LET move == ~span.valid \/ span_ready IN
       /\ steps' = IF move THEN steps - 1 ELSE steps
       /\ state' = IF ~move \/ steps > 1 THEN "LINE"
                   ELSE IF span.valid THEN "WAIT_DONE" ELSE "IDLE"

(* Glyph runs are never marked last; GLYPH_DRAIN (no step left) waits for  *)
(* the writer instead.                                                     *)
Glyph(span) ==
  /\ RasterStep("GLYPH")
  /\ IF steps > 0
     THEN /\ \/ span = NoSpan
             \/ \E b \in 1 .. MaxBeats : span = Offer(FALSE, b)
          /\ steps' = IF ~span.valid \/ span_ready THEN steps - 1 ELSE steps
          /\ UNCHANGED state
     ELSE /\ span = NoSpan
          /\ state' = IF active THEN "GLYPH" ELSE "IDLE"
          /\ UNCHANGED steps

(* Triangle: clocks without a span, then spans; an empty last span ends    *)
(* the command without waiting for the writer.                             *)
Triangle(span) ==
  /\ RasterStep("TRIANGLE")
  /\ \/ span = NoSpan /\ steps > 1
     \/ \E b \in 0 .. MaxBeats : span = Offer(span_last, b)
  /\ LET move == ~span.valid \/ span_ready IN
       /\ steps' = IF move THEN steps - 1 ELSE steps
       /\ state' = IF ~move \/ steps > 1 THEN "TRIANGLE"
                   ELSE IF span.beats = 0 THEN "IDLE" ELSE "WAIT_DONE"

(* BLIT drives the page port itself, one pixel a clock.                    *)
Blit(span) ==
  /\ RasterStep("BLIT") /\ span = NoSpan
  /\ steps' = steps - 1
  /\ state' = IF steps = 1 THEN "IDLE" ELSE "BLIT"

WaitDone(span) ==
  /\ RasterStep("WAIT_DONE") /\ span = NoSpan
  /\ state' = IF cmd_done THEN "IDLE" ELSE "WAIT_DONE"
  /\ UNCHANGED steps

Gru(span) ==
  \/ GruReset(span)     \/ GruIdle(span)
  \/ DispatchDraw(span) \/ DispatchReject(span) \/ DispatchPresent(span)
  \/ Fill(span) \/ Line(span) \/ Glyph(span) \/ Triangle(span)
  \/ Blit(span) \/ WaitDone(span)

-----------------------------------------------------------------------------
(* Page ownership.  A boundary in the very clock of the request swaps at   *)
(* once.  A display that is off has no boundaries.                         *)
swap_fire_ungated(boundary) == boundary                              \* faulty
swap_fire(boundary) == boundary /\ (swap_pending \/ present_req)

next_pending_kept(swap)  == swap_pending \/ present_req              \* faulty
next_pending_pulse(swap) == ~swap /\ present_req                     \* faulty
next_pending(swap) == ~swap /\ (swap_pending \/ present_req)

next_back_kept(swap) == back_idx                                     \* faulty
next_back(swap) == IF swap THEN front_idx ELSE back_idx

FrameCtrl(boundary, we) ==
  LET swap == swap_fire(boundary) IN
  /\ active_write_error' = (active_write_error \/ (we /\ ~render_allowed))
  /\ swap_pending' = next_pending(swap)
  /\ swap_done'    = swap
  /\ front_idx'    = IF swap THEN back_idx ELSE front_idx
  /\ back_idx'     = next_back(swap)
  /\ front_valid'  = (front_valid \/ swap)
  /\ swap_counter' = IF swap THEN swap_counter + 1 ELSE swap_counter

(* Every beat goes to the page that is the back page in that clock.        *)
Pages(we) == page' = IF we THEN [page EXCEPT ![target_page] = job] ELSE page

Boundaries == IF display_enable THEN BOOLEAN ELSE {FALSE}

(* One clock of the whole core: MMIO request m, frame boundary b.          *)
Clock(m, b) ==
  \E span \in Span, visible \in IF state = "BLIT" THEN BOOLEAN ELSE {FALSE} :
    /\ FrameCtrl(b, gru_we(visible)) /\ Pages(gru_we(visible))
    /\ Regs(m) /\ Fifo /\ Gru(span) /\ Writer(span)

(***************************************************************************)
(* The core alone, under every sequence of register accesses.  A producer  *)
(* writes CMD0 before each push (submit5, Q_MMIO), so two pushes are never *)
(* back to back.  MaxFrames bounds the PRESENTs of a run.                  *)
(***************************************************************************)
CanPush == ~cmd_push_strobe /\ (cmd_present => frame < MaxFrames)

Next == \E m \in Mmio, b \in Boundaries :
          /\ m.reg = "CMD_PUSH" => CanPush
          /\ Clock(m, b)

Spec == Init /\ [][Next]_vars

-----------------------------------------------------------------------------
(* Types of every register.                                                *)
TypeOK ==
  /\ cmd_present \in BOOLEAN /\ cmd_push_strobe \in BOOLEAN
  /\ soft_reset_strobe \in BOOLEAN /\ display_enable \in BOOLEAN
  /\ frame_done_sticky \in BOOLEAN
  /\ state \in States /\ steps \in Nat /\ job \in Nat
  /\ mem \in [Slots -> Cmd] /\ frame \in Nat
  /\ wr_ptr \in Slots /\ rd_ptr \in Slots /\ fifo_count \in 0 .. Depth
  /\ frame_closed \in BOOLEAN /\ present_req \in BOOLEAN
  /\ active \in BOOLEAN /\ last_q \in BOOLEAN /\ remaining_q \in 0 .. MaxBeats
  /\ cmd_done \in BOOLEAN
  /\ front_idx \in {0, 1} /\ back_idx \in {0, 1} /\ front_valid \in BOOLEAN
  /\ swap_pending \in BOOLEAN /\ swap_done \in BOOLEAN
  /\ active_write_error \in BOOLEAN /\ swap_counter \in Nat
  /\ page \in [{0, 1} -> Nat \cup {PowerUp}]

(* sketch_gru_top keeps the fill level of the command FIFO in a counter of *)
(* its own beside the two pointers; simultaneous push and pop, the wrap at *)
(* Depth - 1 and the soft reset must leave the three in agreement.         *)
FifoShape ==
  \/ wr_ptr = rd_ptr + fifo_count
  \/ wr_ptr + Depth = rd_ptr + fifo_count

Slot(i)   == IF rd_ptr + i < Depth THEN rd_ptr + i ELSE rd_ptr + i - Depth
Queued(i) == mem[Slot(i)]
FrameAfter(c) == IF c.present THEN c.frame + 1 ELSE c.frame

(* Commands are popped in the order they were pushed: along the queue the  *)
(* frame numbers follow the PRESENTs, up to the frame being assembled.     *)
FramesInOrder ==
  /\ \A i \in 0 .. fifo_count - 2 : Queued(i + 1).frame = FrameAfter(Queued(i))
  /\ fifo_count > 0 => frame = FrameAfter(Queued(fifo_count - 1))

(* The queue in one: what was pushed comes out, once, in that order.       *)
QueueSound == TypeOK /\ FifoShape /\ FramesInOrder

(* "PRESENT arrives only after the GRU has retired all earlier commands"   *)
(* (sketch_frame_ctrl.sv:1-2): when the request reaches the frame          *)
(* controller nothing is being rasterised and no beat is left to write.    *)
PresentAfterRetire == present_req => state = "IDLE" /\ ~active

(* BLIT takes the page port away from the writer (sketch_gru_top.sv:369):  *)
(* a beat of an earlier command would be lost, so none may be left.        *)
PortExclusive == state = "BLIT" => ~active

(* ST_WAIT_DONE leaves only on the writer's one-clock cmd_done pulse: the  *)
(* pulse is still to come, or is there now.  Otherwise the processor hangs.*)
WaitDoneServed == state = "WAIT_DONE" => cmd_done \/ (active /\ last_q)

(* The two ways in which a beat could be lost or waited for in vain.       *)
RasterSound == PortExclusive /\ WaitDoneServed

(* A swap exposes a page no command of that frame is still to draw on: all *)
(* that is queued or executing belongs to later frames.  It may execute    *)
(* while the swap is pending, for pop_fire (sketch_gru_top.sv:188) does    *)
(* not look; that the producers never let it come to that is               *)
(* NoWriteWhilePending of the driver.                                      *)
SwapsDue == swap_counter + (IF swap_pending \/ present_req THEN 1 ELSE 0)
NoLateCommand ==
  /\ \A i \in 0 .. fifo_count - 1 : Queued(i).frame >= SwapsDue
  /\ state # "IDLE" \/ active => job >= SwapsDue

(* No tearing: the page on display is not written, whatever the producers  *)
(* do, also in the clock of a swap.                                        *)
FrontUntouched == [][page'[front_idx] = page[front_idx]]_vars
=============================================================================
