------------------------------- MODULE RxPdoa -------------------------------
(***************************************************************************)
(* simple_rx_pdoa.c (example 2h): the receiver is kept on by the call-     *)
(* backs, which pass the phase difference of a frame with a good STS to    *)
(* main in pdoa_val; main prints it whenever it changes.                   *)
(*                                                                         *)
(* pdoa_val is not volatile; the build modelled here reads it wherever the *)
(* source does (no optimisation).                                          *)
(***************************************************************************)
EXTENDS IrqPort

CONSTANTS
  Pdoa,   \* the values a frame with a good STS can have
  Noise   \* the value read from a frame with a bad one

RxPdoaAssumption ==
  /\ Event = {"SPIRDY", "RXFCG", "RXERR"}
  /\ 0 \in Pdoa /\ Noise \notin Pdoa

VARIABLES
  pc,            \* where main is
  pdoa_val,      \* the shared variable
  last_pdoa_val, \* what main has printed, or is about to
  shown,         \* what the terminal shows
  cb,            \* where rx_ok_cb is: "none", "value", "enable"
  chip,          \* "idle" or "rx"
  rxPdoa         \* the value in the registers of the last reception

vars == <<irqVars, pc, pdoa_val, last_pdoa_val, shown, cb, chip, rxPdoa>>
appVars == <<pc, pdoa_val, last_pdoa_val, shown, cb, chip, rxPdoa>>

Step(from, to) == pc = from /\ ctx = "main" /\ pc' = to
-----------------------------------------------------------------------------
Clear ==
  /\ Step("clear", "install")
  /\ ClearEvents({"SPIRDY"})
  /\ UNCHANGED <<pdoa_val, last_pdoa_val, shown, cb, chip, rxPdoa>>

Install ==
  /\ Step("install", "enable")
  /\ InstallIsr
  /\ UNCHANGED <<pdoa_val, last_pdoa_val, shown, cb, chip, rxPdoa>>

Enable ==
  /\ Step("enable", "test")
  /\ chip' = "rx"
  /\ UNCHANGED <<irqVars, pdoa_val, last_pdoa_val, shown, cb, rxPdoa>>

(* The three accesses to the shared value in a turn of the loop: the test, *)
(* the assignment, and the print, which uses the copy.                     *)
Test ==
  /\ last_pdoa_val # pdoa_val
  /\ Step("test", "copy")
  /\ UNCHANGED <<irqVars, pdoa_val, last_pdoa_val, shown, cb, chip, rxPdoa>>

Copy ==
  /\ Step("copy", "print")
  /\ last_pdoa_val' = pdoa_val
  /\ UNCHANGED <<irqVars, pdoa_val, shown, cb, chip, rxPdoa>>

(* Mutant of Display: the copy is made once more, after the print.         *)
DisplayThenCopy ==
  /\ Step("print", "test")
  /\ shown' = last_pdoa_val
  /\ last_pdoa_val' = pdoa_val
  /\ UNCHANGED <<irqVars, pdoa_val, cb, chip, rxPdoa>>

Display ==
  /\ Step("print", "test")
  /\ shown' = last_pdoa_val
  /\ UNCHANGED <<irqVars, pdoa_val, last_pdoa_val, cb, chip, rxPdoa>>

Main == Clear \/ Install \/ Enable \/ Test \/ Copy \/ Display
-----------------------------------------------------------------------------
(* Mutant of RxOk: the receiver is on again before the value is read, as   *)
(* the double-buffer example does it.                                      *)
RxOkEnablesFirst ==
  /\ Handle("RXFCG")
  /\ cb = "none"
  /\ cb' = IF rxPdoa # Noise THEN "value" ELSE "enable"
  /\ chip' = "rx"
  /\ UNCHANGED <<pc, pdoa_val, last_pdoa_val, shown, rxPdoa>>

(* rx_ok_cb asks for the quality of the STS ...                            *)
RxOk ==
  /\ Handle("RXFCG")
  /\ cb = "none"
  /\ cb' = IF rxPdoa # Noise THEN "value" ELSE "enable"
  /\ UNCHANGED <<pc, pdoa_val, last_pdoa_val, shown, chip, rxPdoa>>

(* ... reads the value if it is good ...                                   *)
ReadValue ==
  /\ cb = "value" /\ cb' = "enable"
  /\ pdoa_val' = rxPdoa
  /\ UNCHANGED <<irqVars, pc, last_pdoa_val, shown, chip, rxPdoa>>

(* ... and turns the receiver on again.                                    *)
ReEnable ==
  /\ cb = "enable" /\ cb' = "none"
  /\ chip' = "rx"
  /\ UNCHANGED <<irqVars, pc, pdoa_val, last_pdoa_val, shown, rxPdoa>>

(* Mutant of RxError: the receiver stays off.                              *)
RxErrorIgnored ==
  /\ Handle("RXERR")
  /\ cb = "none"
  /\ UNCHANGED appVars

(* rx_err_cb.                                                              *)
RxError ==
  /\ Handle("RXERR")
  /\ cb = "none"
  /\ chip' = "rx"
  /\ UNCHANGED <<pc, pdoa_val, last_pdoa_val, shown, cb, rxPdoa>>

Isr ==
  \/ (TakeIrq \/ TestLine \/ (cb = "none" /\ LeaveIsr)) /\ UNCHANGED appVars
  \/ RxOk \/ ReadValue \/ ReEnable \/ RxError

(* The chip receives a frame, of some value, or fails to.                  *)
Receive(v) ==
  /\ chip = "rx" /\ chip' = "idle"
  /\ rxPdoa' = v
  /\ Raise({"RXFCG"})
  /\ UNCHANGED <<pc, pdoa_val, last_pdoa_val, shown, cb>>

Fail ==
  /\ chip = "rx" /\ chip' = "idle"
  /\ Raise({"RXERR"})
  /\ UNCHANGED <<pc, pdoa_val, last_pdoa_val, shown, cb, rxPdoa>>

Init ==
  /\ IrqInit({"SPIRDY"})
  /\ pc = "clear"
  /\ pdoa_val = 0 /\ last_pdoa_val = 0 /\ shown = 0
  /\ cb = "none"
  /\ chip = "idle" /\ rxPdoa = 0

Next == Main \/ Isr \/ (\E v \in Pdoa \cup {Noise} : Receive(v)) \/ Fail

Spec == Init /\ [][Next]_vars

(* The handler returns with the line low, and main is resumed.             *)
LastReturn == Isr /\ LeaveIsr /\ ~Line
LastTest   == Isr /\ TestLine /\ ~Line

(* The processor runs. A frame takes longer than leaving the interrupt and *)
(* a step of main, so both happen however fast the frames come. No frame   *)
(* need ever come.                                                         *)
FairSpec == /\ Spec
            /\ WF_vars(Isr) /\ SF_vars(LastReturn) /\ SF_vars(LastTest)
            /\ SF_vars(Main)
-----------------------------------------------------------------------------
TypeOK ==
  /\ IrqTypeOK
  /\ pc \in {"clear", "install", "enable", "test", "copy", "print"}
  /\ {pdoa_val, last_pdoa_val, shown} \subseteq Pdoa \cup {Noise}
  /\ cb \in {"none", "value", "enable"}
  /\ chip \in {"idle", "rx"}
  /\ rxPdoa \in Pdoa \cup {Noise}

(* "If the STS quality is poor the returned PDoA value will not be         *)
(* accurate and as such will not be recorded" (NOTE 4): quality and value  *)
(* are those of one frame, though they are read one after the other.       *)
NeverNoise == pdoa_val # Noise

(* The receiver is never left off: unless the handler is at work or about  *)
(* to be, the chip receives.                                               *)
KeepsListening ==
  pc \in {"test", "copy", "print"} =>
    chip = "rx" \/ ctx # "main" \/ (Line /\ enabled /\ latched)

(* A value that stays is shown in the end, whatever came between the test, *)
(* the copy and the print.                                                 *)
LastIsShown == \A v \in Pdoa : <>[](pdoa_val = v) => <>[](shown = v)
=============================================================================
