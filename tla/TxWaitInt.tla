----------------------------- MODULE TxWaitInt -----------------------------
(***************************************************************************)
(* tx_wait_resp_int.c (example 3d): send a blink, wait for the end of the  *)
(* reception that follows it, rest, start again. The end is signalled by   *)
(* the call-backs in interrupt context through tx_delay_ms, which is the   *)
(* rest at the same time: -1 means no event yet.                           *)
(*                                                                         *)
(* The variable is not volatile. The project is built without optimisation *)
(* (dw3000_api.emProject, Level 0), so that the waiting loop reads it in   *)
(* every turn; a build that hoists the load would never leave the loop.    *)
(*                                                                         *)
(* What a frame holds, and rx_buffer, are left out: nothing reads them.    *)
(***************************************************************************)
EXTENDS IrqPort, Integers

CONSTANTS
  SEQMOD,           \* blink numbers wrap at this value (256)
  DFLT_TX_DELAY_MS, \* rest after a response
  RX_TO_TX_DELAY_MS \* rest after a timeout

RX_ERR_TX_DELAY_MS == 0
NoEvent == -1

TxWaitAssumption ==
  /\ SEQMOD \in Nat \ {0}
  /\ DFLT_TX_DELAY_MS \in Nat \ {0}
  /\ RX_TO_TX_DELAY_MS \in Nat \ {0}
  /\ Event = {"SPIRDY", "TXFRS", "RXFCG", "RXTO", "RXERR"}

VARIABLES
  pc,          \* where the main loop is
  tx_delay_ms, \* the shared variable
  seen,        \* its value as the waiting loop has loaded it
  seq,         \* the number in tx_msg
  chip,        \* "idle", "tx", or "rx" (the gap before it included)
  timed        \* a response timeout is set

vars == <<irqVars, pc, tx_delay_ms, seen, seq, chip, timed>>

RxEvent == {"RXFCG", "RXTO", "RXERR"}
Delays  == {NoEvent, DFLT_TX_DELAY_MS, RX_TO_TX_DELAY_MS, RX_ERR_TX_DELAY_MS}
-----------------------------------------------------------------------------
(* Before the loop: the chip still shows that it came out of reset.        *)
Clear ==
  /\ pc = "clear" /\ ctx = "main"
  /\ ClearEvents({"SPIRDY"})
  /\ pc' = "install"
  /\ UNCHANGED <<tx_delay_ms, seen, seq, chip, timed>>

(* Mutant of Install: no response timeout.                                 *)
InstallUntimed ==
  /\ pc = "install" /\ ctx = "main"
  /\ InstallIsr
  /\ timed' = FALSE
  /\ pc' = "start"
  /\ UNCHANGED <<tx_delay_ms, seen, seq, chip>>

Install ==
  /\ pc = "install" /\ ctx = "main"
  /\ InstallIsr
  /\ timed' = TRUE
  /\ pc' = "start"
  /\ UNCHANGED <<tx_delay_ms, seen, seq, chip>>

(* The frame is written and started, with a response expected. The command *)
(* stops whatever the transceiver was doing.                               *)
Start ==
  /\ pc = "start" /\ ctx = "main"
  /\ chip' = "tx"
  /\ pc' = "load"
  /\ UNCHANGED <<irqVars, tx_delay_ms, seen, seq, timed>>

(* The waiting loop: a load, then the test.                                *)
Load ==
  /\ pc = "load" /\ ctx = "main"
  /\ seen' = tx_delay_ms
  /\ pc' = "test"
  /\ UNCHANGED <<irqVars, tx_delay_ms, seq, chip, timed>>

Test ==
  /\ pc = "test" /\ ctx = "main"
  /\ pc' = IF seen # NoEvent THEN "rest" ELSE "load"
  /\ UNCHANGED <<irqVars, tx_delay_ms, seen, seq, chip, timed>>

(* The Sleep(), then the number of the next blink and, last, the reset of  *)
(* the signal.                                                             *)
Rest ==
  /\ pc = "rest" /\ ctx = "main"
  /\ seq' = (seq + 1) % SEQMOD
  /\ pc' = "reset"
  /\ UNCHANGED <<irqVars, tx_delay_ms, seen, chip, timed>>

Reset ==
  /\ pc = "reset" /\ ctx = "main"
  /\ tx_delay_ms' = NoEvent
  /\ pc' = "start"
  /\ UNCHANGED <<irqVars, seen, seq, chip, timed>>

Main == Clear \/ Install \/ Start \/ Load \/ Test \/ Rest \/ Reset
-----------------------------------------------------------------------------
(* The call-backs.                                                         *)

(* Mutant of Signal: tx_conf_cb signals, too.                              *)
SignalConfirmation(e) ==
  IF e = "RXFCG" THEN DFLT_TX_DELAY_MS
  ELSE IF e = "RXTO" THEN RX_TO_TX_DELAY_MS
  ELSE RX_ERR_TX_DELAY_MS

(* Mutant of Signal: no rx_err_cb.                                        *)
SignalNoError(e) ==
  IF e = "RXFCG" THEN DFLT_TX_DELAY_MS
  ELSE IF e = "RXTO" THEN RX_TO_TX_DELAY_MS ELSE tx_delay_ms

(* rx_ok_cb, rx_to_cb and rx_err_cb say how long to rest; tx_conf_cb does  *)
(* nothing, and there is no call-back for SPIRDY.                          *)
Signal(e) ==
  IF e = "RXFCG" THEN DFLT_TX_DELAY_MS
  ELSE IF e = "RXTO" THEN RX_TO_TX_DELAY_MS
  ELSE IF e = "RXERR" THEN RX_ERR_TX_DELAY_MS ELSE tx_delay_ms

CallBack(e) ==
  /\ Handle(e)
  /\ tx_delay_ms' = Signal(e)
  /\ UNCHANGED <<pc, seen, seq, chip, timed>>

Isr ==
  \/ (TakeIrq \/ TestLine \/ LeaveIsr)
     /\ UNCHANGED <<pc, tx_delay_ms, seen, seq, chip, timed>>
  \/ \E e \in Event : CallBack(e)

(* The chip: the frame has gone, and one event ends the reception.         *)
Sent ==
  /\ chip = "tx" /\ chip' = "rx"
  /\ Raise({"TXFRS"})
  /\ UNCHANGED <<pc, tx_delay_ms, seen, seq, timed>>

Received(e) ==
  /\ chip = "rx" /\ chip' = "idle"
  /\ e = "RXTO" => timed
  /\ Raise({e})
  /\ UNCHANGED <<pc, tx_delay_ms, seen, seq, timed>>

Init ==
  /\ IrqInit({"SPIRDY"})
  /\ pc = "clear"
  /\ tx_delay_ms = NoEvent /\ seen = NoEvent
  /\ seq = 0
  /\ chip = "idle"
  /\ timed = FALSE

Next == Main \/ Isr \/ Sent \/ \E e \in RxEvent : Received(e)

Spec == Init /\ [][Next]_vars

(* The processor runs, and the chip ends what it does. Only the timeout is *)
(* sure to end a reception: no frame need ever come.                       *)
Fairness == WF_vars(Main) /\ WF_vars(Isr) /\ WF_vars(Sent) /\ WF_vars(Received("RXTO"))

FairSpec == Spec /\ Fairness
-----------------------------------------------------------------------------
TypeOK ==
  /\ IrqTypeOK
  /\ pc \in {"clear", "install", "start", "load", "test", "rest", "reset"}
  /\ tx_delay_ms \in Delays /\ seen \in Delays
  /\ seq \in 0 .. SEQMOD - 1
  /\ chip \in {"idle", "tx", "rx"}
  /\ timed \in BOOLEAN

(* Once the handler is installed no event is left without it: process_deca *)
(* _irq looks at the line again after each round, because an event that    *)
(* comes while dwt_isr runs makes no new edge.                             *)
EventsServed == pc \notin {"clear", "install"} => Served

(* A blink is started only when the reception of the one before has ended  *)
(* and the end was handled: main and the call-backs stay in step, though   *)
(* one variable serves as signal and as delay and is reset late.           *)
StartsIdle ==
  pc \in {"rest", "reset", "start"} => chip = "idle" /\ ~Line

(* While main waits, an event is still to come, on its way, or signalled:  *)
(* the reset of tx_delay_ms never wipes out a signal.                      *)
SignalKept ==
  pc \in {"load", "test"} =>
    \/ chip # "idle" \/ status \cap RxEvent # {}
    \/ tx_delay_ms # NoEvent

(* Blinks go on for ever, whatever is received.                            *)
AlwaysNextBlink == []<>(pc = "start")
=============================================================================
