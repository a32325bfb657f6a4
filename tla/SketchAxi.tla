------------------------------ MODULE SketchAxi ------------------------------
(***************************************************************************)
(* The AXI4 wrapper of the SketchBook registers (sketch_book_axi), one     *)
(* clock per step, between an AXI master with at most one write and one    *)
(* read outstanding and the register port behind the arbiter.  The port's  *)
(* readiness in a clock is an input: the Scene controller may own the port *)
(* and the command FIFO may be full or closed.                             *)
(***************************************************************************)
EXTENDS Naturals

CONSTANT SceneBusy   \* the values scene_busy may have in a clock

ASSUME AxiAssumption == SceneBusy \subseteq BOOLEAN /\ FALSE \in SceneBusy

VARIABLES
  wr_addr_valid, wr_error, s_bvalid, s_bresp,   \* write side of the wrapper
  s_rvalid, s_rresp,                            \* read side
  aw, w, ar,        \* the master's channels: idle, due, valid or sent
  write_kind, read_kind,
  performed         \* history: times the core carried out the current write

write_vars == <<wr_addr_valid, wr_error, s_bvalid, s_bresp>>
axi_vars == <<write_vars, s_rvalid, s_rresp, aw, w, ar, write_kind, read_kind,
              performed>>

(* A CMD_PUSH, another register, a burst, or a write with partial strobes. *)
WriteKinds == {"push", "reg", "burst", "strobe"}
ReadKinds  == {"reg", "burst"}
Resps      == {"OKAY", "SLVERR"}

AxiInit ==
  /\ wr_addr_valid = FALSE /\ wr_error = FALSE
  /\ s_bvalid = FALSE /\ s_bresp = "OKAY"
  /\ s_rvalid = FALSE /\ s_rresp = "OKAY"
  /\ aw = "idle" /\ w = "idle" /\ ar = "idle"
  /\ write_kind = "reg" /\ read_kind = "reg" /\ performed = 0

-----------------------------------------------------------------------------
(* The wrapper's combinational outputs.                                    *)
s_awready == ~wr_addr_valid /\ ~s_bvalid /\ ~s_rvalid
s_wready  == wr_addr_valid /\ ~s_bvalid
s_arready == ~wr_addr_valid /\ ~s_bvalid /\ ~s_rvalid
aw_fire   == aw = "valid" /\ s_awready
w_fire    == w = "valid" /\ s_wready
ar_fire   == ar = "valid" /\ s_arready
mmio_we   == wr_addr_valid /\ w = "valid" /\ ~wr_error

(* The register port in this clock: owned by the Scene controller or not,  *)
(* taking a CMD_PUSH or not (sketch_mmio_arbiter, sketch_book_top).        *)
port_ready(scene_busy, push_ready) ==
  ~scene_busy /\ (mmio_we /\ write_kind = "push" => push_ready)

write_over(ready) == w_fire /\ (wr_error \/ ready)

bad_burst_passed == FALSE                                            \* faulty
bad_burst == write_kind = "burst"

WriteSide(ready, bready) ==
  /\ wr_addr_valid' = ((wr_addr_valid \/ aw_fire) /\ ~write_over(ready))
  /\ wr_error' = IF aw_fire THEN bad_burst ELSE wr_error
  /\ s_bvalid' = (write_over(ready) \/ (s_bvalid /\ ~bready))
  /\ s_bresp'  = IF write_over(ready)
                 THEN IF wr_error \/ write_kind = "strobe" THEN "SLVERR" ELSE "OKAY"
                 ELSE s_bresp

read_over(ready) == ar_fire /\ (read_kind = "burst" \/ ready)

ReadSide(ready, rready) ==
  /\ s_rvalid' = (read_over(ready) \/ (s_rvalid /\ ~rready))
  /\ s_rresp'  = IF read_over(ready)
                 THEN IF read_kind = "burst" THEN "SLVERR" ELSE "OKAY"
                 ELSE s_rresp

-----------------------------------------------------------------------------
(* The master keeps a channel valid until its handshake; the data of a     *)
(* write may follow its address any number of clocks later.                *)
MasterWrite(bready) ==
  \/ /\ aw = "idle" /\ w = "idle"
     /\ aw' = "valid" /\ w' \in {"due", "valid"}
     /\ write_kind' \in WriteKinds
  \/ /\ aw' = IF aw_fire THEN "sent" ELSE IF s_bvalid /\ bready THEN "idle" ELSE aw
     /\ \/ w_fire /\ w' = "sent"
        \/ ~w_fire /\ s_bvalid /\ bready /\ w' = "idle"
        \/ /\ ~w_fire /\ ~(s_bvalid /\ bready)
           /\ w' = w \/ (w = "due" /\ w' = "valid")
     /\ UNCHANGED write_kind

MasterRead(rready) ==
  \/ ar = "idle" /\ ar' = "valid" /\ read_kind' \in ReadKinds
  \/ /\ ar' = IF ar_fire THEN "sent" ELSE IF s_rvalid /\ rready THEN "idle" ELSE ar
     /\ UNCHANGED read_kind

Perform(ready) ==
  performed' = IF mmio_we /\ ready THEN performed + 1
               ELSE IF aw_fire THEN 0 ELSE performed

AxiClock(scene_busy, push_ready, bready, rready) ==
  LET ready == port_ready(scene_busy, push_ready) IN
  /\ WriteSide(ready, bready) /\ ReadSide(ready, rready)
  /\ MasterWrite(bready) /\ MasterRead(rready) /\ Perform(ready)

AxiNext == \E scene_busy \in SceneBusy, push_ready, bready, rready \in BOOLEAN :
             AxiClock(scene_busy, push_ready, bready, rready)
AxiSpec == AxiInit /\ [][AxiNext]_axi_vars

-----------------------------------------------------------------------------
(* Types of the wrapper and of the master.                                 *)
Channels == {"idle", "due", "valid", "sent"}
AxiTypeOK ==
  /\ wr_addr_valid \in BOOLEAN /\ wr_error \in BOOLEAN
  /\ s_bvalid \in BOOLEAN /\ s_bresp \in Resps
  /\ s_rvalid \in BOOLEAN /\ s_rresp \in Resps
  /\ aw \in Channels \ {"due"} /\ w \in Channels /\ ar \in Channels \ {"due"}
  /\ write_kind \in WriteKinds /\ read_kind \in ReadKinds
  /\ performed \in {0, 1}

(* A write that is answered has been carried out exactly once (one with    *)
(* partial strobes too, although it is answered SLVERR), a burst not at all *)
(* ("deliberately rejected with SLVERR rather than being silently          *)
(* truncated", sketch_book_axi.sv:2-3).                                    *)
WriteOnce ==
  s_bvalid => /\ performed = IF write_kind = "burst" THEN 0 ELSE 1
              /\ write_kind = "burst" => s_bresp = "SLVERR"

(* No answer is given to a transaction whose request side is not complete, *)
(* though the data of a write may trail its address and a read may be      *)
(* asked for in between.                                                   *)
AnswersPaired ==
  /\ s_bvalid => aw = "sent" /\ w = "sent"
  /\ s_rvalid => ar = "sent"
  /\ wr_addr_valid => aw = "sent" /\ ~s_bvalid

(* An answer says what happened, and to whom.                              *)
AnswersSound == AxiTypeOK /\ WriteOnce /\ AnswersPaired
=============================================================================
