---------------------------- MODULE SketchDriver ----------------------------
(***************************************************************************)
(* The CPU driver (sdk/software/bsp/drivers/sketchbook.c) running against  *)
(* the clocked SketchBook core: submit5 polls STATUS, writes the command   *)
(* registers and CMD_PUSH; present_wait (sk_os/sketch_os.c) submits        *)
(* PRESENT, polls FRAME_DONE and clears it.  The CPU is slow: any number   *)
(* of clocks passes between two accesses.                                  *)
(*                                                                         *)
(* The AXI wrapper (sketch_book_axi.sv) hands the W beat of a write over   *)
(* in the clock it is offered, but completes the write only if the core is *)
(* ready in that very clock: a CMD_PUSH that meets a core that is not      *)
(* ready never gets its response and the CPU stays in it ("hung").         *)
(***************************************************************************)
EXTENDS SketchBook

VARIABLES pc,      \* where the CPU is
          op,      \* the opcode being submitted
          issued   \* PRESENTs submitted so far

dvars == <<vars, pc, op, issued>>

PCs == {"app", "poll", "load", "push", "wait", "clear", "hung"}

DInit == Init /\ pc = "app" /\ op = "draw" /\ issued = 0

(* The application starts a draw or a PRESENT (MaxFrames bounds these).    *)
Submit ==
  /\ pc = "app"
  /\ \/ op' = "draw"
     \/ op' = "present" /\ issued < MaxFrames
  /\ pc' = "poll" /\ UNCHANGED issued

(* sketchbook_wait_submit_ready looks at these two bits only.              *)
submit_blocked == cmd_full \/ frame_closed

next_step_no_wait == "app"                                           \* faulty
next_step == IF op = "present" THEN "wait" ELSE "app"

clear_status_no_mask == Write("STATUS", FALSE, FALSE)                \* faulty
clear_status == Write("STATUS", TRUE, FALSE)

(* An access of the CPU in this clock: m is its MMIO request.              *)
PollReady(m) ==
  /\ pc = "poll" /\ m = NoMmio
  /\ pc' = IF submit_blocked THEN "poll" ELSE "load"
  /\ UNCHANGED <<op, issued>>

LoadCmd(m) ==
  /\ pc = "load" /\ m = Write("CMD", op = "present", FALSE)
  /\ pc' = "push" /\ UNCHANGED <<op, issued>>

Push(m) ==
  /\ pc = "push" /\ m = Write("CMD_PUSH", FALSE, FALSE)
  /\ pc' = IF ~mmio_ready(m) THEN "hung"
           ELSE next_step
  /\ issued' = IF mmio_ready(m) /\ op = "present" THEN issued + 1 ELSE issued
  /\ UNCHANGED op

PollDone(m) ==
  /\ pc = "wait" /\ m = NoMmio
  /\ pc' = IF frame_done_sticky THEN "clear" ELSE "wait"
  /\ UNCHANGED <<op, issued>>

ClearDone(m) ==
  /\ pc = "clear" /\ m = clear_status
  /\ pc' = "app" /\ UNCHANGED <<op, issued>>

Access(b) ==
  \E m \in Mmio \cup {clear_status} :
    /\ PollReady(m) \/ LoadCmd(m) \/ Push(m) \/ PollDone(m) \/ ClearDone(m)
    /\ Clock(m, b)

(* A clock without a CPU access, in which the application may go on.       *)
Quiet(b) ==
  /\ Submit \/ UNCHANGED <<pc, op, issued>>
  /\ Clock(NoMmio, b)

DNext == \E b \in Boundaries : Access(b) \/ Quiet(b)

(***************************************************************************)
(* The clock never stops, the CPU eventually makes its next access, and    *)
(* the free-running video timing reaches the end of a frame again and      *)
(* again while the display is on (it always is: the driver enables it).    *)
(***************************************************************************)
Fairness == /\ WF_dvars(DNext)
            /\ WF_dvars(\E b \in Boundaries : Access(b))
            /\ WF_dvars(TRUE \in Boundaries /\ (Access(TRUE) \/ Quiet(TRUE)))

DSpec     == DInit /\ [][DNext]_dvars
FairDSpec == DSpec /\ Fairness

-----------------------------------------------------------------------------
(* Types of the driver's own state.                                        *)
DTypeOK == TypeOK /\ pc \in PCs /\ op \in {"draw", "present"} /\ issued \in Nat

(* The driver polls CMD_FULL and FRAME_CLOSED and then spends clocks on    *)
(* the CMD registers; the readiness it saw must still hold when CMD_PUSH   *)
(* arrives, for the bus wrapper does not survive a push that is refused.   *)
NeverHung == pc # "hung"

(* The push strobe reaches the FIFO one clock after the bus acknowledged   *)
(* the write; the FIFO must not have closed in between, or the command is  *)
(* lost without anyone knowing.                                            *)
NoPushLost == cmd_push_strobe => push_fire

(* Both: a command the driver hands over is executed.                      *)
PushServed == NeverHung /\ NoPushLost

(* "While a page swap is pending no further write to the back page is      *)
(* allowed" (doc, frame control): the error latch never has to record one. *)
NoWriteWhilePending == ~active_write_error

(* What is on display never contains a beat of a frame whose PRESENT has   *)
(* not been carried out.                                                   *)
FrontOnlyPresented == page[front_idx] < swap_counter

(* wait_frame_done returns for the driver's own PRESENT, not for an older  *)
(* completion left in the sticky bit: by then every PRESENT has swapped.   *)
DoneIsOwn == pc = "clear" => swap_counter = issued

(* What the application may rely on at a present: its frame is the one     *)
(* shown, whole, and nothing was written while it waited for the boundary. *)
PresentSound == DoneIsOwn /\ NoWriteWhilePending /\ FrontOnlyPresented

(* present_wait returns.                                                   *)
PresentReturns == pc = "wait" ~> pc = "app"

(***************************************************************************)
(* What the two pages promise to the application, without FIFO or clock.   *)
(***************************************************************************)
Buffer == INSTANCE DoubleBuffer WITH
            front <- front_idx, shown <- swap_counter, asked <- SwapsDue,
            drawn <- page

(* The core under this driver is a double buffer.                          *)
IsDoubleBuffer == Buffer!FairSpec
=============================================================================
