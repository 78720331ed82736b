----------------------------- MODULE PolledHost -----------------------------
(***************************************************************************)
(* The hosts of the examples without interrupts: each is a loop that       *)
(* starts an operation of its chip, busy-waits on SYS_STATUS in            *)
(* waitforsysstatus() and looks at what came, with a Sleep() at the end.   *)
(*                                                                         *)
(* One action is everything a host does from the end of one wait to the    *)
(* start of the next. Nothing else runs on a host, and its chip is quiet   *)
(* in between, so an action is atomic; MaxLag lets it come late.           *)
(***************************************************************************)
EXTENDS UwbLink

VARIABLES
  pc,   \* pc[n]: the point of the loop the host n is at
  nap,  \* nap[n]: ticks the host still sleeps
  lag,  \* lag[n]: ticks the host has not noticed what it waits for
  buf   \* buf[n]: the host's rx_buffer

pollVars == <<pc, nap, lag, buf>>

(* "sleep" is the top of a loop, with the Sleep() before it if there is    *)
(* one; "stopped" is a while (1) without a body, or main after a loop that *)
(* was left. The others are the waits: for the end of a transmission, for  *)
(* a frame or error, and for a frame, timeout or error.                    *)
TxPoints   == {"waitTx", "waitPoll", "waitRepTx"}
DataPoints == {"waitData"}
RespPoints == {"waitResp", "waitAck", "listen", "waitFinal", "waitReport"}
Points     == {"sleep", "stopped"} \cup TxPoints \cup DataPoints \cup RespPoints

(* Mutant of Awaited: the responder's second wait forgets the timeouts.    *)
AwaitedNoTimeout(n) ==
  IF pc[n] \in TxPoints THEN {"TXFRS"}
  ELSE IF pc[n] \in DataPoints \cup {"waitFinal"} THEN RxMask \ {"RXTO"}
  ELSE IF pc[n] \in RespPoints THEN RxMask ELSE {}

(* The flags a host waits for at each point of its loop.                   *)
Awaited(n) ==
  IF pc[n] \in TxPoints THEN {"TXFRS"}
  ELSE IF pc[n] \in DataPoints THEN RxMask \ {"RXTO"}
  ELSE IF pc[n] \in RespPoints THEN RxMask ELSE {}

Waiting(n)  == pc[n] \notin {"sleep", "stopped"}
Noticed(n)  == status[n] \cap Awaited(n) # {}
Rested(n)   == pc[n] = "sleep" /\ nap[n] = 0

Goto(n, to)  == /\ pc'  = [pc EXCEPT ![n] = to]
                /\ lag' = [lag EXCEPT ![n] = 0]
                /\ UNCHANGED nap
Sleep(n, ms) == /\ pc'  = [pc EXCEPT ![n] = "sleep"]
                /\ nap' = [nap EXCEPT ![n] = ms]
                /\ lag' = [lag EXCEPT ![n] = 0]

(* dwt_readrxdata: a frame longer than rx_buffer is not read, and the      *)
(* buffer keeps what an earlier reception left there.                      *)
ReadFrame(n) == IF rxBuf[n].kind = "long" THEN buf[n] ELSE rxBuf[n]

(* A tick: a host that is due is noticed to be so within MaxLag ticks.     *)
HostTick(due) ==
  /\ \A n \in due : lag[n] < MaxLag
  /\ LinkTick
  /\ nap' = [n \in Node |-> IF nap[n] > 0 THEN nap[n] - 1 ELSE 0]
  /\ lag' = [n \in Node |-> IF n \in due THEN lag[n] + 1 ELSE 0]
  /\ UNCHANGED <<pc, buf>>

HostInit ==
  /\ pc  = [n \in Node |-> "sleep"]
  /\ nap = [n \in Node |-> 0]
  /\ lag = [n \in Node |-> 0]
  /\ buf = [n \in Node |-> NoFrame]

HostTypeOK(frames) ==
  /\ pc  \in [Node -> Points]
  /\ nap \in [Node -> Nat]
  /\ lag \in [Node -> 0 .. MaxLag]
  /\ buf \in [Node -> frames]

(* waitforsysstatus has no timeout of its own: the loops go on only if the *)
(* chip ends every wait. While a host waits, its chip is still at work or  *)
(* an awaited flag is up; NOTE 11 of ds_twr_responder.c warns of the wait  *)
(* "for subsequent RX event that will never come".                         *)
WaitWillEnd == \A n \in Node : Waiting(n) => mode[n] # "idle" \/ Noticed(n)

(* The chip is still at work on what the host waits for: a transmission,   *)
(* or all that leads to the end of a reception.                            *)
Pending(n) == IF pc[n] \in TxPoints THEN mode[n] = "tx" ELSE mode[n] # "idle"

(* No wait is ended by a flag that an earlier operation left up: as long   *)
(* as the chip works on what a host waits for, the awaited flags are down. *)
(* This is what the clearing of RXFCG, TXFRS and the error flags on every  *)
(* path of a loop is for.                                                  *)
NoStaleEvent == \A n \in Node : Waiting(n) /\ Pending(n) => ~Noticed(n)
=============================================================================
