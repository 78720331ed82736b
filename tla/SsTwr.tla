------------------------------- MODULE SsTwr -------------------------------
(***************************************************************************)
(* Single-sided two-way ranging: ss_twr_initiator.c (node "I") and         *)
(* ss_twr_responder.c (node "R").                                          *)
(*                                                                         *)
(*   I: poll ------> R         I keeps the times of poll TX, response RX   *)
(*   I <------- resp R         the response carries the times of poll RX   *)
(*                             and, predicted, of its own transmission     *)
(*                                                                         *)
(* Both sides look at rx_buffer only when the frame fitted into it, so     *)
(* what the buffer held before plays no part. frame_seq_nb is left out, as *)
(* the receivers zero the field. The clock offset ratio is left out with   *)
(* the clock rates it corrects for.                                        *)
(***************************************************************************)
EXTENDS PolledHost, Sequences

CONSTANTS
  POLL_TX_TO_RESP_RX_DLY, \* I: receiver on this long after the poll
  RESP_RX_TIMEOUT,        \* I: receiver off after this long
  POLL_RX_TO_RESP_TX_DLY, \* R: poll RX to response TX
  RNG_DELAY,              \* I: pause between exchanges
  MaxPolls,               \* bound: polls sent
  Starts                  \* possible values of the clocks at the start

ASSUME SsAssumption ==
  /\ POLL_TX_TO_RESP_RX_DLY \in Nat /\ RESP_RX_TIMEOUT \in Nat \ {0}
  /\ POLL_RX_TO_RESP_TX_DLY \in Nat /\ RNG_DELAY \in Nat
  /\ MaxPolls \in Nat /\ Starts \subseteq Timestamps

VARIABLES
  twiceTof,  \* I: <<>>, or <<twice the time of flight computed last>>
  polls      \* polls sent so far

hostVars == <<pollVars, twiceTof, polls>>
vars     == <<linkVars, hostVars>>

(* A host at the top of its loop goes on; MaxPolls ends the model.         *)
Awake(n)   == Rested(n) /\ (n = "I" => polls < MaxPolls)
HostDue(n) == Noticed(n) \/ Awake(n)

Init ==
  /\ LinkInit(Starts)
  /\ rxDly = [n \in Node |-> IF n = "I" THEN POLL_TX_TO_RESP_RX_DLY ELSE 0]
  /\ rxTo  = [n \in Node |-> IF n = "I" THEN RESP_RX_TIMEOUT ELSE 0]
  /\ HostInit
  /\ twiceTof = <<>>
  /\ polls = 0

(* What every action of a host leaves alone.                               *)
Rest == UNCHANGED <<clock, rxDly, rxTo, air, faults, buf>>
-----------------------------------------------------------------------------
(* The initiator.                                                          *)

(* Mutant of SendPoll: DWT_RESPONSE_EXPECTED forgotten.                    *)
SendPollNoResponse ==
  /\ Awake("I")
  /\ polls' = polls + 1
  /\ StartTxNow("I", Frame("poll", <<>>), FALSE, {"TXFRS"})
  /\ Goto("I", "waitResp")
  /\ UNCHANGED twiceTof /\ Rest

(* TXFRS, which nothing waits for here, goes down before the poll leaves.  *)
SendPoll ==
  /\ Awake("I")
  /\ polls' = polls + 1
  /\ StartTxNow("I", Frame("poll", <<>>), TRUE, {"TXFRS"})
  /\ Goto("I", "waitResp")
  /\ UNCHANGED twiceTof /\ Rest

InitiatorGotFrame ==
  /\ pc["I"] = "waitResp" /\ "RXFCG" \in status["I"]
  /\ ClearFlags("I", {"RXFCG"})
  /\ Sleep("I", RNG_DELAY)
  /\ UNCHANGED polls /\ Rest

RecvResponse ==
  /\ InitiatorGotFrame
  /\ rxBuf["I"].kind = "resp"
  /\ LET ts == rxBuf["I"].data
     IN  twiceTof' = <<SsTwiceTof(MsgTs(txTs["I"]), ts[1],
                                  ts[2], MsgTs(rxTs["I"]))>>

RecvNoResponse ==
  /\ InitiatorGotFrame
  /\ rxBuf["I"].kind # "resp"
  /\ UNCHANGED twiceTof

(* Mutant of ResponseFailed: the timeout flag stays up.                    *)
ResponseFailedKeepTimeout ==
  /\ pc["I"] = "waitResp" /\ "RXFCG" \notin status["I"] /\ Noticed("I")
  /\ ClearFlags("I", {"RXERR"})
  /\ Sleep("I", RNG_DELAY)
  /\ UNCHANGED <<twiceTof, polls>> /\ Rest

ResponseFailed ==
  /\ pc["I"] = "waitResp" /\ "RXFCG" \notin status["I"] /\ Noticed("I")
  /\ ClearFlags("I", {"RXTO", "RXERR"})
  /\ Sleep("I", RNG_DELAY)
  /\ UNCHANGED <<twiceTof, polls>> /\ Rest

Initiator == SendPoll \/ RecvResponse \/ RecvNoResponse \/ ResponseFailed
-----------------------------------------------------------------------------
(* The responder.                                                          *)

Listen ==
  /\ Awake("R")
  /\ EnableRx("R", 0)
  /\ Goto("R", "waitData")
  /\ UNCHANGED <<twiceTof, polls>> /\ Rest

(* Mutant of ResponseFrame: the antenna delay is left out of the predicted *)
(* transmission time.                                                      *)
ResponseFrameNoAntenna ==
  Frame("resp", <<MsgTs(rxTs["R"]),
                  MsgTs(DelayedTxTime(rxTs["R"], POLL_RX_TO_RESP_TX_DLY))>>)

ResponseTime  == DelayedTxTime(rxTs["R"], POLL_RX_TO_RESP_TX_DLY)
ResponseFrame ==
  Frame("resp", <<MsgTs(rxTs["R"]),
                  MsgTs(DelayedTxTs(rxTs["R"], POLL_RX_TO_RESP_TX_DLY))>>)

ResponderGotFrame ==
  /\ pc["R"] = "waitData" /\ "RXFCG" \in status["R"]
  /\ UNCHANGED <<twiceTof, polls>> /\ Rest

RecvPoll ==
  /\ ResponderGotFrame
  /\ rxBuf["R"].kind = "poll"
  /\ ~TooLate("R", ResponseTime)
  /\ StartTxAt("R", ResponseFrame, ResponseTime, FALSE, {"RXFCG"})
  /\ Goto("R", "waitTx")

(* Mutant of RecvPollLate: the error of dwt_starttx is not looked at.      *)
RecvPollLateUnhandled ==
  /\ ResponderGotFrame
  /\ rxBuf["R"].kind = "poll"
  /\ TooLate("R", ResponseTime)
  /\ FailTx("R", {"RXFCG"})
  /\ Goto("R", "waitTx")

RecvPollLate ==
  /\ ResponderGotFrame
  /\ rxBuf["R"].kind = "poll"
  /\ TooLate("R", ResponseTime)
  /\ FailTx("R", {"RXFCG"})
  /\ Sleep("R", 0)

RecvNoPoll ==
  /\ ResponderGotFrame
  /\ rxBuf["R"].kind # "poll"
  /\ ClearFlags("R", {"RXFCG"})
  /\ Sleep("R", 0)

ResponseSent ==
  /\ pc["R"] = "waitTx" /\ Noticed("R")
  /\ ClearFlags("R", {"TXFRS"})
  /\ Sleep("R", 0)
  /\ UNCHANGED <<twiceTof, polls>> /\ Rest

PollFailed ==
  /\ pc["R"] = "waitData" /\ "RXFCG" \notin status["R"] /\ Noticed("R")
  /\ ClearFlags("R", {"RXERR"})
  /\ Sleep("R", 0)
  /\ UNCHANGED <<twiceTof, polls>> /\ Rest

Responder == \/ Listen \/ RecvPoll \/ RecvPollLate \/ RecvNoPoll
             \/ ResponseSent \/ PollFailed
-----------------------------------------------------------------------------
Tick == HostTick({n \in Node : HostDue(n)}) /\ UNCHANGED <<twiceTof, polls>>

Radio == (Hardware \/ Interference(Foreign)) /\ UNCHANGED hostVars

Next == Initiator \/ Responder \/ Radio \/ Tick

Spec == Init /\ [][Next]_vars

(* The hosts' loops never stop, the hardware acts when its moment comes    *)
(* and time passes. Interference may happen or not.                        *)
FairSpec == /\ Spec
            /\ WF_vars(Initiator) /\ WF_vars(Responder)
            /\ WF_vars(Hardware /\ UNCHANGED hostVars) /\ WF_vars(Tick)
-----------------------------------------------------------------------------
Frames == [kind : {"none", "poll", "resp", "short", "long"},
           data : Seq(0 .. LOMOD - 1)]

(* Types of the variables.                                                 *)
TypeOK ==
  /\ LinkTypeOK(Frames)
  /\ HostTypeOK(Frames)
  /\ pc["I"] \in {"sleep", "waitResp"}
  /\ pc["R"] \in {"sleep", "waitData", "waitTx"}
  /\ Len(twiceTof) \in {0, 1}
  /\ polls \in 0 .. MaxPolls

(* The initiator only ever reports the true time of flight: the response   *)
(* it used answers its latest poll, the responder's prediction of its own  *)
(* transmission time came true, and neither the wrapping clocks nor the    *)
(* 32-bit copies nor the signed differences spoil the result.              *)
DistanceIsTrue == twiceTof \in {<<>>, <<2 * FLIGHT>>}

(* Every poll that finds the responder listening ends with its response:   *)
(* the initiator's receive window contains it, and the responder listens   *)
(* again before the next poll. Only a disturbed channel excuses a failure, *)
(* or a host more than PROMPT ticks late.                                  *)
PROMPT == 1
PollIsRanged ==
  (/\ pc["I"] = "waitResp" /\ pc["R"] = "waitData"
   /\ mode["I"] = "tx" /\ faults = 0)
    ~> \/ /\ pc["I"] = "sleep" /\ nap["I"] = RNG_DELAY
          /\ rxBuf["I"].kind = "resp" /\ twiceTof # <<>>
       \/ faults > 0
       \/ \E n \in Node : lag[n] > PROMPT
=============================================================================
