------------------------------- MODULE StsTwr -------------------------------
(***************************************************************************)
(* Ranging with a scrambled timestamp sequence (STS) in every frame:       *)
(*   "ds": ds_twr_initiator_sts.c and ds_twr_responder_sts.c,              *)
(*   "ss": ss_twr_initiator_sts.c and ss_twr_responder_sts.c,              *)
(*   "nd": the same without data in poll and response, *_sts_no_data.c,    *)
(*         where a report in an ordinary frame follows the response.       *)
(*                                                                         *)
(* The sequence is generated from a key and a counter that moves on with   *)
(* every frame sent or received, so a reception is good only if both nodes *)
(* are at the same frame of the same exchange. The loops bring the counter *)
(* back to the start with dwt_configurestsiv and dwt_configurestsloadiv.   *)
(*                                                                         *)
(* The loops leave flags of receptions up on some paths (RXFCG after a bad *)
(* STS, RXFR always); they rely on the receiver to take them down when it  *)
(* is enabled again. In "nd" the awaited flag of a good reception is RXFR, *)
(* called RXFCG here. The responder of "ds" returns after RANGE_COUNT      *)
(* listens, which is beyond the bound on polls.                            *)
(***************************************************************************)
EXTENDS PolledHost, Sequences

CONSTANTS
  POLL_TX_TO_RESP_RX_DLY,   \* I: receiver on this long after the poll
  RESP_RX_TIMEOUT,          \* I: receiver off after this long
  POLL_TX_TO_REPORT_RX_DLY, \* I: "nd", from the response window to the report
  RESP_RX_TO_FINAL_TX_DLY,  \* I: "ds", response RX to final TX
  POLL_RX_TO_RESP_TX_DLY,   \* R: poll RX to response TX
  RESP_TX_TO_FINAL_RX_DLY,  \* R: "ds", receiver on this long after response
  RNG_DELAY,                \* I: pause between exchanges
  RNG_DELAY_RESP,           \* R: "ds", pause after a result
  MaxPolls,                 \* bound: MaxPolls[p], the polls sent in "ds", ...
  Starts                    \* possible values of the clocks at the start

VARIABLES
  proto,    \* which of the three pairs of examples runs
  sts,      \* sts[n]: the STS counter of n's chip, from the reloaded value
  pollRxTs, \* R: poll_rx_ts
  kept,     \* I: "nd", <<poll_tx_ts, resp_rx_ts>> for the report
  result,   \* <<>>, or <<the time of flight computed last>>, of "ss" and
            \* "nd" its double
  polls,    \* polls sent so far
  since     \* history: polls sent since something excused a loss (a fault of
            \* the air, a host too late for a delayed start) or a result; the
            \* first one, sent maybe before R listens, is not counted

ownVars == <<proto, sts, pollRxTs, kept>>
stsVars == <<ownVars, result, polls, since>>

Awake(n)   == Rested(n) /\ (n = "I" => polls < MaxPolls[proto])
HostDue(n) == Noticed(n) \/ Awake(n)

StsAssumption ==
  /\ {POLL_TX_TO_RESP_RX_DLY, POLL_TX_TO_REPORT_RX_DLY, RESP_RX_TO_FINAL_TX_DLY,
      POLL_RX_TO_RESP_TX_DLY, RESP_TX_TO_FINAL_RX_DLY, RNG_DELAY,
      RNG_DELAY_RESP} \subseteq Nat
  /\ MaxPolls \in [{"ds", "ss", "nd"} -> Nat]
  /\ RESP_RX_TIMEOUT \in Nat \ {0}
  /\ Starts \subseteq Timestamps

Protos == {"ds", "ss", "nd"}

Idle == proto = "ds" /\ sts = [n \in Node |-> 0] /\ pollRxTs = 0 /\ kept = <<>>

Init ==
  /\ LinkInit(Starts)
  /\ rxDly = [n \in Node |-> IF n = "I" THEN POLL_TX_TO_RESP_RX_DLY
                                        ELSE RESP_TX_TO_FINAL_RX_DLY]
  /\ rxTo  = [n \in Node |-> IF n = "I" THEN RESP_RX_TIMEOUT ELSE 0]
  /\ HostInit
  /\ proto \in Protos
  /\ sts = [n \in Node |-> 0]
  /\ pollRxTs = 0 /\ kept = <<>> /\ result = <<>>
  /\ polls = 0 /\ since = -1

Rest == UNCHANGED <<clock, rxDly, rxTo, air, faults, buf, proto>>

StsAt(n, count) == sts' = [sts EXCEPT ![n] = count]

(* A frame with STS starts with the sender's counter. The report has none. *)
StsFrame(n, kind, data) == Frame(kind, <<sts[n]>> \o data)

(* dwt_readstsquality and dwt_readstsstatus report a good STS.             *)
StsGood(n) == /\ rxBuf[n].kind \in {"poll", "resp", "final"}
              /\ rxBuf[n].data[1] = sts[n]

GoodFrame(n) == "RXFCG" \in status[n] /\ StsGood(n)

(* dwt_rxenable with a start "delay" ticks from now, 0 for at once.        *)
EnableFresh(n, delay, clear) ==
  /\ mode'   = [mode EXCEPT ![n] = "gap"]
  /\ left'   = [left EXCEPT ![n] = delay]
  /\ status' = [status EXCEPT ![n] = @ \ (RxMask \cup clear)]
  /\ rxBuf'  = [rxBuf EXCEPT ![n] = NoFrame]
  /\ UNCHANGED <<w4r, txTs, rxTs, txBuf>>

(* set_delayed_rx_time and dwt_rxenable(DWT_START_RX_DLY_TS): the time     *)
(* counts from the TX timestamp; if it has passed the receiver starts.     *)
EnableAfterTx(n, dly, clear) ==
  LET time == txTs[n] + dly
  IN  EnableFresh(n, IF TooLate(n, time) THEN 0 ELSE TicksTo(n, time), clear)

RxFlags == RxMask
-----------------------------------------------------------------------------
(* The initiator.                                                          *)

(* The counter is reloaded and the poll leaves.                            *)
SendPoll ==
  /\ Awake("I")
  /\ polls' = polls + 1 /\ since' = since + 1
  /\ StsAt("I", 1)
  /\ StartTxNow("I", Frame("poll", <<0>>), proto = "ds", {"TXFRS"})
  /\ Goto("I", "waitPoll")
  /\ UNCHANGED <<pollRxTs, kept, result>> /\ Rest

(* The poll has left. In "ds" the receiver opens by itself; in the others  *)
(* the host starts it at a time counted from the poll.                     *)
PollSent ==
  /\ pc["I"] = "waitPoll" /\ Noticed("I")
  /\ IF proto = "ds" THEN ClearFlags("I", {"TXFRS"})
     ELSE EnableAfterTx("I", POLL_TX_TO_RESP_RX_DLY, {"TXFRS"})
  /\ Goto("I", "waitResp")
  /\ UNCHANGED <<sts, pollRxTs, kept, result, polls, since>> /\ Rest

(* Without data there is nothing to tell a response by but its STS.        *)
GotResponse == /\ pc["I"] = "waitResp" /\ GoodFrame("I")
               /\ proto # "nd" => rxBuf["I"].kind = "resp"

FinalTime == DelayedTxTime(rxTs["I"], RESP_RX_TO_FINAL_TX_DLY)
FinalData == <<MsgTs(txTs["I"]), MsgTs(rxTs["I"]),
               MsgTs(DelayedTxTs(rxTs["I"], RESP_RX_TO_FINAL_TX_DLY))>>

RecvResponseDs ==
  /\ GotResponse /\ proto = "ds" /\ ~TooLate("I", FinalTime)
  /\ StsAt("I", sts["I"] + 2)
  /\ StartTxAt("I", Frame("final", <<sts["I"] + 1>> \o FinalData),
               FinalTime, FALSE, RxFlags)
  /\ Goto("I", "waitTx")
  /\ UNCHANGED <<pollRxTs, kept, result, polls, since>> /\ Rest

RecvResponseLate ==
  /\ GotResponse /\ proto = "ds" /\ TooLate("I", FinalTime)
  /\ FailTx("I", RxFlags)
  /\ since' = -1
  /\ Sleep("I", RNG_DELAY)
  /\ UNCHANGED <<sts, pollRxTs, kept, result, polls>> /\ Rest

FinalSent ==
  /\ pc["I"] = "waitTx" /\ Noticed("I")
  /\ ClearFlags("I", {"TXFRS"} \cup RxFlags)
  /\ Sleep("I", RNG_DELAY)
  /\ UNCHANGED <<sts, pollRxTs, kept, result, polls, since>> /\ Rest

Report(tx, rx, ts) == result' = <<SsTwiceTof(tx, ts[1], ts[2], rx)>> /\ since' = 0

RecvResponseSs ==
  /\ GotResponse /\ proto = "ss"
  /\ Report(MsgTs(txTs["I"]), MsgTs(rxTs["I"]), Tail(rxBuf["I"].data))
  /\ ClearFlags("I", RxFlags)
  /\ Sleep("I", RNG_DELAY)
  /\ UNCHANGED <<sts, pollRxTs, kept, polls>> /\ Rest

ReportWindow == POLL_TX_TO_RESP_RX_DLY + POLL_TX_TO_REPORT_RX_DLY

(* The times are kept, STS is switched off and the report awaited.         *)
RecvResponseNd ==
  /\ GotResponse /\ proto = "nd"
  /\ kept' = <<MsgTs(txTs["I"]), MsgTs(rxTs["I"])>>
  /\ EnableAfterTx("I", ReportWindow, {})
  /\ since' = IF TooLate("I", txTs["I"] + ReportWindow) THEN -1 ELSE since
  /\ Goto("I", "waitReport")
  /\ UNCHANGED <<sts, pollRxTs, result, polls>> /\ Rest

GotReport == /\ pc["I"] = "waitReport" /\ "RXFCG" \in status["I"]
             /\ rxBuf["I"].kind = "report"

(* Mutant of RecvReport: the times are read from the chip now.             *)
RecvReportRegisters ==
  /\ GotReport
  /\ Report(MsgTs(txTs["I"]), MsgTs(rxTs["I"]), rxBuf["I"].data)
  /\ ClearFlags("I", RxFlags)
  /\ Sleep("I", RNG_DELAY)
  /\ UNCHANGED <<sts, pollRxTs, kept, polls>> /\ Rest

RecvReport ==
  /\ GotReport
  /\ Report(kept[1], kept[2], rxBuf["I"].data)
  /\ ClearFlags("I", RxFlags)
  /\ Sleep("I", RNG_DELAY)
  /\ UNCHANGED <<sts, pollRxTs, kept, polls>> /\ Rest

(* Mutant of InitiatorFailed: it forgets the flags of the reception.       *)
InitiatorFailedKeepFlags ==
  /\ pc["I"] \in {"waitResp", "waitReport"} /\ Noticed("I")
  /\ ~GotResponse /\ ~GotReport
  /\ ClearFlags("I", {})
  /\ Sleep("I", RNG_DELAY)
  /\ UNCHANGED <<sts, pollRxTs, kept, result, polls, since>> /\ Rest

(* A timeout, an error, a bad STS or another message.                      *)
InitiatorFailed ==
  /\ pc["I"] \in {"waitResp", "waitReport"} /\ Noticed("I")
  /\ ~GotResponse /\ ~GotReport
  /\ ClearFlags("I", RxFlags)
  /\ Sleep("I", RNG_DELAY)
  /\ UNCHANGED <<sts, pollRxTs, kept, result, polls, since>> /\ Rest

Initiator == \/ SendPoll \/ PollSent \/ RecvResponseDs \/ RecvResponseLate
             \/ FinalSent \/ RecvResponseSs \/ RecvResponseNd \/ RecvReport
             \/ InitiatorFailed
-----------------------------------------------------------------------------
(* The responder. Its messageFlag is set exactly at "waitFinal".           *)

(* Mutant of Listen: the counter is loaded in the first loop only.         *)
ListenKeepCounter ==
  /\ Awake("R")
  /\ EnableFresh("R", 0, {})
  /\ Goto("R", "listen")
  /\ UNCHANGED <<sts, pollRxTs, kept, result, polls, since>> /\ Rest

(* The counter is reloaded and the receiver switched on.                   *)
Listen ==
  /\ Awake("R")
  /\ StsAt("R", 0)
  /\ EnableFresh("R", 0, {})
  /\ Goto("R", "listen")
  /\ UNCHANGED <<pollRxTs, kept, result, polls, since>> /\ Rest

Hearing == pc["R"] \in {"listen", "waitFinal"}

GotPoll  == /\ Hearing /\ GoodFrame("R")
            /\ proto # "nd" => rxBuf["R"].kind = "poll"
GotFinal == Hearing /\ GoodFrame("R") /\ proto = "ds" /\ rxBuf["R"].kind = "final"

ResponseTime == DelayedTxTime(rxTs["R"], POLL_RX_TO_RESP_TX_DLY)
ReportTime   == DelayedTxTime(pollRxTs, 2 * POLL_RX_TO_RESP_TX_DLY)

(* The times the initiator is told: of the poll's arrival and, predicted,  *)
(* of the response.                                                        *)
ResponderTimes(ts) ==
  <<MsgTs(ts), MsgTs(DelayedTxTs(ts, POLL_RX_TO_RESP_TX_DLY))>>

ResponseData == IF proto = "ss" THEN ResponderTimes(rxTs["R"]) ELSE <<>>
PollCleared  == {"TXFRS"} \cup IF proto = "nd" THEN {} ELSE {"RXFCG"}

RecvPoll ==
  /\ GotPoll /\ ~TooLate("R", ResponseTime)
  /\ pollRxTs' = rxTs["R"]
  /\ StsAt("R", sts["R"] + 2)
  /\ StartTxAt("R", Frame("resp", <<sts["R"] + 1>> \o ResponseData),
               ResponseTime, proto = "ds", PollCleared)
  /\ Goto("R", "waitPoll")
  /\ UNCHANGED <<kept, result, polls, since>> /\ Rest

RecvPollLate ==
  /\ GotPoll /\ TooLate("R", ResponseTime)
  /\ pollRxTs' = rxTs["R"]
  /\ FailTx("R", PollCleared)
  /\ since' = -1
  /\ Sleep("R", 0)
  /\ UNCHANGED <<sts, kept, result, polls>> /\ Rest

(* The response has left: in "ds" the final message is awaited, with the   *)
(* counter where it is ...                                                 *)
ResponseSentDs ==
  /\ pc["R"] = "waitPoll" /\ Noticed("R") /\ proto = "ds"
  /\ ClearFlags("R", {"TXFRS"})
  /\ Goto("R", "waitFinal")
  /\ UNCHANGED <<sts, pollRxTs, kept, result, polls, since>> /\ Rest

ResponseSentSs ==
  /\ pc["R"] = "waitPoll" /\ Noticed("R") /\ proto = "ss"
  /\ ClearFlags("R", {"TXFRS"})
  /\ Sleep("R", 0)
  /\ UNCHANGED <<sts, pollRxTs, kept, result, polls, since>> /\ Rest

(* ... in "nd" the report follows, or is too late.                         *)
ResponseSentNd ==
  /\ pc["R"] = "waitPoll" /\ Noticed("R") /\ proto = "nd"
  /\ ~TooLate("R", ReportTime)
  /\ StartTxAt("R", Frame("report", ResponderTimes(pollRxTs)), ReportTime,
               FALSE, {"TXFRS"})
  /\ Goto("R", "waitRepTx")
  /\ UNCHANGED <<sts, pollRxTs, kept, result, polls, since>> /\ Rest

ReportLate ==
  /\ pc["R"] = "waitPoll" /\ Noticed("R") /\ proto = "nd"
  /\ TooLate("R", ReportTime)
  /\ FailTx("R", {"TXFRS"})
  /\ since' = -1
  /\ Sleep("R", 0)
  /\ UNCHANGED <<sts, pollRxTs, kept, result, polls>> /\ Rest

ReportSent ==
  /\ pc["R"] = "waitRepTx" /\ Noticed("R")
  /\ ClearFlags("R", {"TXFRS"})
  /\ Sleep("R", 0)
  /\ UNCHANGED <<sts, pollRxTs, kept, result, polls, since>> /\ Rest

RecvFinal ==
  /\ GotFinal
  /\ LET ts == Tail(rxBuf["R"].data)
     IN  result' = <<DsTof(ts[1], MsgTs(pollRxTs), MsgTs(txTs["R"]),
                           ts[2], ts[3], MsgTs(rxTs["R"]))>>
  /\ since' = 0
  /\ ClearFlags("R", {"RXFCG"})
  /\ Sleep("R", RNG_DELAY_RESP)
  /\ UNCHANGED <<sts, pollRxTs, kept, polls>> /\ Rest

(* Mutant of ResponderFailed: messageFlag stays set and the receiver off.  *)
ResponderFailedWaitsOn ==
  /\ Hearing /\ Noticed("R") /\ ~GotPoll /\ ~GotFinal
  /\ ClearFlags("R", {"RXERR"})
  /\ IF pc["R"] = "waitFinal" THEN Goto("R", "waitFinal") ELSE Sleep("R", 0)
  /\ UNCHANGED <<sts, pollRxTs, kept, result, polls, since>> /\ Rest

(* An error or a bad STS: the exchange is given up, RXFCG stays up.        *)
ResponderFailed ==
  /\ Hearing /\ Noticed("R") /\ ~GotPoll /\ ~GotFinal
  /\ ClearFlags("R", {"RXERR"})
  /\ Sleep("R", 0)
  /\ UNCHANGED <<sts, pollRxTs, kept, result, polls, since>> /\ Rest

Responder == \/ Listen \/ RecvPoll \/ RecvPollLate \/ ResponseSentDs
             \/ ResponseSentSs \/ ResponseSentNd \/ ReportLate \/ ReportSent
             \/ RecvFinal \/ ResponderFailed
-----------------------------------------------------------------------------
Tick == HostTick({n \in Node : HostDue(n)}) /\ UNCHANGED stsVars

Radio == /\ Hardware \/ Interference(Foreign)
         /\ UNCHANGED <<pollVars, proto, sts, pollRxTs, kept, result, polls>>
         /\ since' = IF faults' = faults THEN since ELSE -1

Next == Initiator \/ Responder \/ Radio \/ Tick
-----------------------------------------------------------------------------
(* Only true times of flight are reported. A frame of another exchange, of *)
(* another network or of no fitting length never gets as far as the        *)
(* result: its STS is not the one the counter is at.                       *)
DistanceIsTrue ==
  result \in {<<>>, <<IF proto = "ds" THEN FLIGHT ELSE 2 * FLIGHT>>}

(* The counters of both nodes come together again after any disturbance,   *)
(* and the windows fit: since the last disturbance no poll was lost before *)
(* the one in progress, in "ds" at most one, which only ends the           *)
(* responder's wait (it has no timeout) for a final message.               *)
LosesFew == since <= IF proto = "ds" THEN 2 ELSE 1
=============================================================================
