------------------------------ MODULE DblBufRx ------------------------------
(***************************************************************************)
(* double_buffer_rx.c (example 2e) as it is compiled: USE_MANUAL_RX_ENABLE *)
(* is 0, so the chip turns its own receiver on again after a frame, good   *)
(* or bad, and writes the next good one into its other buffer. rx_ok_cb    *)
(* only reads, in interrupt context; main only starts the reception. With  *)
(* both buffers full the chip hears nothing until one is given back        *)
(* (NOTE 4): it runs ahead of the host by two frames.                      *)
(*                                                                         *)
(* Only the events of the buffers interrupt; errors are not reported. A    *)
(* bad frame therefore changes nothing that is modelled. The flags of one  *)
(* buffer (RXFCG, RXFR, CIADONE) are one event. The chip is none of the    *)
(* DW3000 family, on which the example stops with a message.               *)
(*                                                                         *)
(* Frames are numbered, modulo SEQMOD. A frame of this PHY mode is never   *)
(* longer than FRAME_LEN_MAX, so that rx_ok_cb reads every one.            *)
(***************************************************************************)
EXTENDS IrqPort, Integers

CONSTANT SEQMOD    \* numbers wrap; more than the frames ever unread

DblBufAssumption ==
  /\ SEQMOD \in Nat /\ SEQMOD > 3
  /\ Event = {"SPIRDY", "RXOK0", "RXOK1"}

VARIABLES
  pc,       \* where main is
  dbl,      \* the double-buffer mode, with automatic re-enable, is on
  chip,     \* "idle" or "rx"
  buffer,   \* buffer[i]: the number of the frame in RX buffer i
  full,     \* the buffers that hold a frame and were not given back
  rxSide,   \* the buffer the receiver writes
  hostSide, \* the buffer the host reads
  heard,    \* the number of the last frame received
  taken,    \* the number of the last frame read into rx_buffer
  work      \* what dwt_isr has still to do for the frame it is at: "read" and
            \* "free" the buffer, only "free" it, or "none" of it

vars == <<irqVars, pc, dbl, chip, buffer, full, rxSide, hostSide, heard, taken, work>>
appVars == <<pc, dbl, chip, buffer, full, rxSide, hostSide, heard, taken, work>>

Step(from, to) == pc = from /\ ctx = "main" /\ pc' = to

Side == {0, 1}
Other(side) == IF dbl THEN 1 - side ELSE side
RxOkOf(side) == IF side = 0 THEN "RXOK0" ELSE "RXOK1"    \* in RDB_STATUS
-----------------------------------------------------------------------------
Clear ==
  /\ Step("clear", "install")
  /\ ClearEvents({"SPIRDY"})
  /\ UNCHANGED <<dbl, chip, buffer, full, rxSide, hostSide, heard, taken, work>>

Install ==
  /\ Step("install", "mode")
  /\ InstallIsr
  /\ UNCHANGED <<dbl, chip, buffer, full, rxSide, hostSide, heard, taken, work>>

(* dwt_setdblrxbuffmode(DBL_BUF_STATE_EN, DBL_BUF_MODE_AUTO).              *)
SetMode ==
  /\ Step("mode", "enable")
  /\ dbl' = TRUE
  /\ UNCHANGED <<irqVars, chip, buffer, full, rxSide, hostSide, heard, taken, work>>

Enable ==
  /\ Step("enable", "loop")
  /\ chip' = "rx"
  /\ UNCHANGED <<irqVars, dbl, buffer, full, rxSide, hostSide, heard, taken, work>>
-----------------------------------------------------------------------------
(* Mutant of RxOk: the buffer is given back before it is read.             *)
RxOkFreesFirst ==
  /\ Handle(RxOkOf(hostSide))
  /\ work = "none" /\ work' = "read"
  /\ full' = full \ {hostSide}
  /\ UNCHANGED <<pc, dbl, chip, buffer, rxSide, hostSide, heard, taken>>

(* dwt_isr clears the event of the buffer the host is at and calls         *)
(* rx_ok_cb: its re-enabling of the receiver is not compiled ...           *)
RxOk ==
  /\ Handle(RxOkOf(hostSide))
  /\ work = "none" /\ work' = "read"
  /\ UNCHANGED <<pc, dbl, chip, buffer, full, rxSide, hostSide, heard, taken>>

(* ... it reads the frame ...                                              *)
ReadData ==
  /\ work = "read" /\ work' = "free"
  /\ taken' = buffer[hostSide]
  /\ UNCHANGED <<irqVars, pc, dbl, chip, buffer, full, rxSide, hostSide, heard>>

(* ... and on its return dwt_isr gives the buffer back to the receiver and *)
(* turns to the other one.                                                 *)
Free ==
  /\ work = "free" /\ work' = "none"
  /\ full' = full \ {hostSide}
  /\ hostSide' = Other(hostSide)
  /\ UNCHANGED <<irqVars, pc, dbl, chip, buffer, rxSide, heard, taken>>

Isr ==
  \/ (TakeIrq \/ TestLine \/ (work = "none" /\ LeaveIsr)) /\ UNCHANGED appVars
  \/ RxOk \/ ReadData \/ Free

(* A good frame needs a buffer that was given back. In the automatic mode  *)
(* the receiver stays on and turns to the other buffer.                    *)
Receive ==
  /\ chip = "rx" /\ rxSide \notin full
  /\ chip' = IF dbl THEN "rx" ELSE "idle"
  /\ heard' = (heard + 1) % SEQMOD
  /\ buffer' = [buffer EXCEPT ![rxSide] = heard']
  /\ full' = full \cup {rxSide}
  /\ rxSide' = Other(rxSide)
  /\ Raise({RxOkOf(rxSide)})
  /\ UNCHANGED <<pc, dbl, hostSide, taken, work>>

Init ==
  /\ IrqInit({"SPIRDY"})
  /\ pc = "clear"
  /\ dbl = FALSE
  /\ chip = "idle"
  /\ buffer = [side \in Side |-> 0] /\ full = {}
  /\ rxSide = 0 /\ hostSide = 0
  /\ heard = 0 /\ taken = 0
  /\ work = "none"

Next == Clear \/ Install \/ SetMode \/ Enable \/ Isr \/ Receive

Spec == Init /\ [][Next]_vars
-----------------------------------------------------------------------------
TypeOK ==
  /\ IrqTypeOK
  /\ pc \in {"clear", "install", "mode", "enable", "loop"}
  /\ dbl \in BOOLEAN
  /\ chip \in {"idle", "rx"}
  /\ buffer \in [Side -> 0 .. SEQMOD - 1] /\ full \subseteq Side
  /\ rxSide \in Side /\ hostSide \in Side
  /\ heard \in 0 .. SEQMOD - 1 /\ taken \in 0 .. SEQMOD - 1
  /\ work \in {"none", "read", "free"}

(* The number of frames in a buffer that rx_ok_cb has not read.            *)
Unread(side) ==
  IF side \in full /\ ~(work = "free" /\ side = hostSide) THEN 1 ELSE 0

(* Every frame that the chip put into a buffer is read, once and in order, *)
(* though the chip goes on receiving while the handler reads: the numbers  *)
(* between the last one read and the last one heard are those of the       *)
(* frames that wait in the buffers.                                        *)
NoneLost == (heard - taken) % SEQMOD = Unread(0) + Unread(1)

(* Reception never stops for good: unless the handler is at work or about  *)
(* to be, the receiver is on and has a buffer to write. Two frames that    *)
(* come before the flag of the first is cleared raise the line once.       *)
KeepsListening ==
  pc = "loop" =>
    \/ chip = "rx" /\ rxSide \notin full
    \/ ctx # "main" \/ (Line /\ enabled /\ latched)
=============================================================================
