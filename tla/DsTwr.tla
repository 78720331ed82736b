------------------------------- MODULE DsTwr -------------------------------
(***************************************************************************)
(* Asymmetric double-sided two-way ranging: ds_twr_initiator.c (node "I")  *)
(* and ds_twr_responder.c (node "R"), or the same exchange with a super    *)
(* deterministic STS in every frame: ds_twr_sts_sdc_initiator.c and        *)
(* ds_twr_sts_sdc_responder.c.                                             *)
(*                                                                         *)
(*   I: poll ------> R         I keeps the times of poll TX, response RX   *)
(*   I <------- resp R         R keeps the times of poll RX, response TX   *)
(*   I: final -----> R         R has all six times and computes the time   *)
(*                             of flight                                   *)
(*                                                                         *)
(* frame_seq_nb is left out: the receivers zero the field before they look *)
(* at a frame, so it reaches no decision and no result.                    *)
(***************************************************************************)
EXTENDS PolledHost, Sequences

CONSTANTS
  POLL_TX_TO_RESP_RX_DLY,  \* I: receiver on this long after the poll
  RESP_RX_TIMEOUT,         \* I: receiver off after this long
  RESP_RX_TO_FINAL_TX_DLY, \* I: response RX to final TX
  POLL_RX_TO_RESP_TX_DLY,  \* R: poll RX to response TX
  RESP_TX_TO_FINAL_RX_DLY, \* R: receiver on this long after the response
  FINAL_RX_TIMEOUT,        \* R: receiver off after this long
  RNG_DELAY,               \* I: pause between exchanges
  RNG_DELAY_RESP,          \* R: pause after a result (RNG_DELAY_MS - 10)
  MaxPolls,                \* bound: polls sent
  Starts                   \* possible values of the clocks at the start

ASSUME DsAssumption ==
  /\ POLL_TX_TO_RESP_RX_DLY \in Nat  /\ RESP_RX_TIMEOUT \in Nat \ {0}
  /\ RESP_RX_TO_FINAL_TX_DLY \in Nat /\ POLL_RX_TO_RESP_TX_DLY \in Nat
  /\ RESP_TX_TO_FINAL_RX_DLY \in Nat /\ FINAL_RX_TIMEOUT \in Nat \ {0}
  /\ RNG_DELAY \in Nat /\ RNG_DELAY_RESP \in Nat
  /\ MaxPolls \in Nat /\ Starts \subseteq Timestamps

VARIABLES
  sdc,       \* TRUE: the examples with the super deterministic STS
  pollRxTs,  \* R: poll_rx_ts, which outlives the reception of the final
  tof,       \* R: <<>>, or <<the time of flight computed last>>
  polls,     \* polls sent so far
  unread     \* history: the nodes whose last poll (R) or response (I) was a
             \* frame too long to be read, for which an old one was taken

hostVars == <<pollVars, sdc, pollRxTs, tof, polls, unread>>
vars     == <<linkVars, hostVars>>

(* A host at the top of its loop goes on; MaxPolls ends the model.         *)
Awake(n)    == Rested(n) /\ (n = "I" => polls < MaxPolls)
HostDue(n)  == Noticed(n) \/ Awake(n)

Init ==
  /\ LinkInit(Starts)
  /\ rxDly = [n \in Node |-> IF n = "I" THEN POLL_TX_TO_RESP_RX_DLY ELSE 0]
  /\ rxTo  = [n \in Node |-> IF n = "I" THEN RESP_RX_TIMEOUT ELSE 0]
  /\ HostInit
  /\ sdc \in BOOLEAN
  /\ pollRxTs = 0
  /\ tof   = <<>>
  /\ polls = 0
  /\ unread = {}
-----------------------------------------------------------------------------
(* dwt_readstsquality and dwt_readstsstatus. The super deterministic STS   *)
(* is the same on every board: that of a frame of another network may be   *)
(* as good as that of the nodes', or there is none in it.                  *)
MayDistrust(n) == sdc /\ rxBuf[n].kind \notin {"poll", "resp", "final"}

(* Which flags are cleared before the poll, and after a failed response.   *)
ClearedBeforePoll   == IF sdc THEN Flags ELSE {}
ClearedAfterFailure == {"RXTO", "RXERR"} \cup IF sdc THEN {} ELSE {"TXFRS"}

(* The frame that n has just received is taken for the one it waits for:   *)
(* it is, unless it could not be read.                                     *)
Take(n) == unread' = IF rxBuf[n].kind = "long" THEN unread \cup {n} ELSE unread \ {n}

(* What the hosts' actions leave alone.                                    *)
Rest == UNCHANGED <<clock, air, faults, sdc>>
-----------------------------------------------------------------------------
(* The initiator.                                                          *)

(* Mutant of SendPoll: DWT_RESPONSE_EXPECTED forgotten.                    *)
SendPollNoResponse ==
  /\ Awake("I")
  /\ polls' = polls + 1
  /\ StartTxNow("I", Frame("poll", <<>>), FALSE, ClearedBeforePoll)
  /\ Goto("I", "waitResp")
  /\ UNCHANGED <<rxDly, rxTo, buf, pollRxTs, tof, unread>> /\ Rest

(* The loop starts: the poll leaves at once, a response is expected.       *)
SendPoll ==
  /\ Awake("I")
  /\ polls' = polls + 1
  /\ StartTxNow("I", Frame("poll", <<>>), TRUE, ClearedBeforePoll)
  /\ Goto("I", "waitResp")
  /\ UNCHANGED <<rxDly, rxTo, buf, pollRxTs, tof, unread>> /\ Rest

(* The final message with the initiator's three times, and its start time. *)
FinalTime  == DelayedTxTime(rxTs["I"], RESP_RX_TO_FINAL_TX_DLY)
FinalFrame ==
  Frame("final", <<MsgTs(txTs["I"]), MsgTs(rxTs["I"]),
                   MsgTs(DelayedTxTs(rxTs["I"], RESP_RX_TO_FINAL_TX_DLY))>>)

InitiatorGotFrame ==
  /\ pc["I"] = "waitResp" /\ "RXFCG" \in status["I"]
  /\ buf' = [buf EXCEPT !["I"] = ReadFrame("I")]
  /\ UNCHANGED <<rxDly, rxTo, pollRxTs, tof, polls>> /\ Rest

(* Mutant of RecvResponse: the TXFRS of the poll is not cleared.           *)
RecvResponseKeepTxfrs ==
  /\ InitiatorGotFrame
  /\ ReadFrame("I").kind = "resp"
  /\ Take("I")
  /\ ~TooLate("I", FinalTime)
  /\ StartTxAt("I", FinalFrame, FinalTime, FALSE, {"RXFCG"})
  /\ Goto("I", "waitTx")

(* A response: the final message is armed in time ...                      *)
RecvResponse ==
  /\ InitiatorGotFrame
  /\ ReadFrame("I").kind = "resp"
  /\ Take("I")
  /\ ~TooLate("I", FinalTime)
  /\ StartTxAt("I", FinalFrame, FinalTime, FALSE, {"RXFCG", "TXFRS"})
  /\ Goto("I", "waitTx")

(* ... or dwt_starttx reports that it is too late.                         *)
RecvResponseLate ==
  /\ InitiatorGotFrame
  /\ ReadFrame("I").kind = "resp"
  /\ Take("I")
  /\ TooLate("I", FinalTime)
  /\ FailTx("I", {"RXFCG", "TXFRS"})
  /\ Sleep("I", RNG_DELAY)

RecvNoResponse ==
  /\ InitiatorGotFrame
  /\ ReadFrame("I").kind # "resp"
  /\ UNCHANGED unread
  /\ ClearFlags("I", {"RXFCG", "TXFRS"})
  /\ Sleep("I", RNG_DELAY)

(* A frame with a bad STS is not read; the exchange is over.               *)
ResponseDistrusted ==
  /\ pc["I"] = "waitResp" /\ "RXFCG" \in status["I"] /\ MayDistrust("I")
  /\ ClearFlags("I", {"RXFCG", "TXFRS"})
  /\ Sleep("I", RNG_DELAY)
  /\ UNCHANGED <<rxDly, rxTo, buf, pollRxTs, tof, polls, unread>> /\ Rest

ResponseFailed ==
  /\ pc["I"] = "waitResp" /\ "RXFCG" \notin status["I"] /\ Noticed("I")
  /\ ClearFlags("I", ClearedAfterFailure)
  /\ Sleep("I", RNG_DELAY)
  /\ UNCHANGED <<rxDly, rxTo, buf, pollRxTs, tof, polls, unread>> /\ Rest

FinalSent ==
  /\ pc["I"] = "waitTx" /\ Noticed("I")
  /\ ClearFlags("I", {"TXFRS"})
  /\ Sleep("I", RNG_DELAY)
  /\ UNCHANGED <<rxDly, rxTo, buf, pollRxTs, tof, polls, unread>> /\ Rest

Initiator == \/ SendPoll \/ RecvResponse \/ RecvResponseLate
             \/ RecvNoResponse \/ ResponseDistrusted \/ ResponseFailed
             \/ FinalSent
-----------------------------------------------------------------------------
(* The responder.                                                          *)

(* Mutant of Listen: the timeout of the last exchange stays on.            *)
ListenKeepTimeout ==
  /\ Awake("R")
  /\ EnableRx("R", rxTo["R"])
  /\ Goto("R", "listen")
  /\ UNCHANGED <<rxDly, rxTo, buf, pollRxTs, tof, polls, unread>> /\ Rest

(* The loop starts: timeouts off, receiver on.                             *)
Listen ==
  /\ Awake("R")
  /\ rxTo' = [rxTo EXCEPT !["R"] = 0]
  /\ EnableRx("R", 0)
  /\ Goto("R", "listen")
  /\ UNCHANGED <<rxDly, buf, pollRxTs, tof, polls, unread>> /\ Rest

ResponseTime == DelayedTxTime(rxTs["R"], POLL_RX_TO_RESP_TX_DLY)

ResponderGotFrame(at) ==
  /\ pc["R"] = at /\ "RXFCG" \in status["R"]
  /\ buf' = [buf EXCEPT !["R"] = ReadFrame("R")]
  /\ UNCHANGED polls /\ Rest

(* Mutant of ResponderGotPoll: the receiver turn-on delay is not set.      *)
ResponderGotPollNoDelay ==
  /\ ResponderGotFrame("listen")
  /\ ReadFrame("R").kind = "poll"
  /\ Take("R")
  /\ pollRxTs' = rxTs["R"]
  /\ rxTo'  = [rxTo EXCEPT !["R"] = FINAL_RX_TIMEOUT]
  /\ UNCHANGED <<rxDly, tof>>

(* What the responder does with a poll before it starts the response.      *)
ResponderGotPoll ==
  /\ ResponderGotFrame("listen")
  /\ ReadFrame("R").kind = "poll"
  /\ Take("R")
  /\ pollRxTs' = rxTs["R"]
  /\ rxDly' = [rxDly EXCEPT !["R"] = RESP_TX_TO_FINAL_RX_DLY]
  /\ rxTo'  = [rxTo EXCEPT !["R"] = FINAL_RX_TIMEOUT]
  /\ UNCHANGED tof

RecvPoll ==
  /\ ResponderGotPoll
  /\ ~TooLate("R", ResponseTime)
  /\ StartTxAt("R", Frame("resp", <<>>), ResponseTime, TRUE, {"RXFCG"})
  /\ Goto("R", "waitFinal")

(* Mutant of RecvPollLate: the error of dwt_starttx is not handled.        *)
RecvPollLateUnhandled ==
  /\ ResponderGotPoll
  /\ TooLate("R", ResponseTime)
  /\ FailTx("R", {"RXFCG"})
  /\ Goto("R", "waitFinal")

RecvPollLate ==
  /\ ResponderGotPoll
  /\ TooLate("R", ResponseTime)
  /\ FailTx("R", {"RXFCG"})
  /\ Sleep("R", 0)

RecvNoPoll ==
  /\ ResponderGotFrame("listen")
  /\ ReadFrame("R").kind # "poll"
  /\ ClearFlags("R", {"RXFCG"})
  /\ Sleep("R", 0)
  /\ UNCHANGED <<rxDly, rxTo, pollRxTs, tof, unread>>

(* The final message: all six times are there.                             *)
RecvFinal ==
  /\ ResponderGotFrame("waitFinal")
  /\ ReadFrame("R").kind = "final"
  /\ ClearFlags("R", {"RXFCG", "TXFRS"})
  /\ LET ts == ReadFrame("R").data
     IN  tof' = <<DsTof(ts[1], MsgTs(pollRxTs), MsgTs(txTs["R"]),
                        ts[2], ts[3], MsgTs(rxTs["R"]))>>
  /\ Sleep("R", RNG_DELAY_RESP)
  /\ UNCHANGED <<rxDly, rxTo, pollRxTs, unread>>

RecvNoFinal ==
  /\ ResponderGotFrame("waitFinal")
  /\ ReadFrame("R").kind # "final"
  /\ ClearFlags("R", {"RXFCG", "TXFRS"})
  /\ Sleep("R", 0)
  /\ UNCHANGED <<rxDly, rxTo, pollRxTs, tof, unread>>

(* Where a poll or a final was expected, a frame with a bad STS.           *)
FrameDistrusted ==
  /\ pc["R"] \in {"listen", "waitFinal"}
  /\ "RXFCG" \in status["R"] /\ MayDistrust("R")
  /\ ClearFlags("R", {"RXFCG"} \cup IF pc["R"] = "listen" THEN {} ELSE {"TXFRS"})
  /\ Sleep("R", 0)
  /\ UNCHANGED <<rxDly, rxTo, buf, pollRxTs, tof, polls, unread>> /\ Rest

(* No poll, or no final.                                                   *)
ResponderFailed ==
  /\ pc["R"] \in {"listen", "waitFinal"}
  /\ "RXFCG" \notin status["R"] /\ Noticed("R")
  /\ ClearFlags("R", {"RXTO", "RXERR"})
  /\ Sleep("R", 0)
  /\ UNCHANGED <<rxDly, rxTo, buf, pollRxTs, tof, polls, unread>> /\ Rest

Responder == \/ Listen \/ RecvPoll \/ RecvPollLate \/ RecvNoPoll
             \/ RecvFinal \/ RecvNoFinal \/ FrameDistrusted \/ ResponderFailed
-----------------------------------------------------------------------------
Tick == /\ HostTick({n \in Node : HostDue(n)})
        /\ UNCHANGED <<sdc, pollRxTs, tof, polls, unread>>

Radio == (Hardware \/ Interference(Foreign)) /\ UNCHANGED hostVars

Next == Initiator \/ Responder \/ Radio \/ Tick

Spec == Init /\ [][Next]_vars

(* The hosts' loops never stop, the hardware acts when its moment comes    *)
(* and time passes. Interference may happen or not.                        *)
FairSpec == /\ Spec
            /\ WF_vars(Initiator) /\ WF_vars(Responder)
            /\ WF_vars(Hardware /\ UNCHANGED hostVars) /\ WF_vars(Tick)
-----------------------------------------------------------------------------
Frames == [kind : {"none", "poll", "resp", "final", "short", "long"},
           data : Seq(0 .. LOMOD - 1)]

(* Types of the variables.                                                 *)
TypeOK ==
  /\ LinkTypeOK(Frames)
  /\ HostTypeOK(Frames)
  /\ pc["I"] \in {"sleep", "waitResp", "waitTx"}
  /\ pc["R"] \in {"sleep", "listen", "waitFinal"}
  /\ sdc \in BOOLEAN
  /\ pollRxTs \in Timestamps
  /\ Len(tof) \in {0, 1}
  /\ polls \in 0 .. MaxPolls
  /\ unread \subseteq Node

(* The responder reports the true time of flight whenever both hosts have  *)
(* read the frames they took for this exchange, whatever was lost, late or *)
(* disturbed in this and earlier ones: the six timestamps it combines are  *)
(* those of one exchange, in spite of wrapping clocks, 32-bit copies and   *)
(* rounded transmission times.                                             *)
DistanceIsTrue == [][RecvFinal /\ unread = {} => tof' = <<FLIGHT>>]_vars

(* What the files say the responder works out, without that condition:     *)
(* every value is the true time of flight.                                 *)
EveryDistanceIsTrue == tof \in {<<>>, <<FLIGHT>>}

(* The delays and timeouts fit together: as long as the channel is clean   *)
(* no receiver times out any more once one exchange has succeeded, so the  *)
(* responder is back in time for the next poll and every window contains   *)
(* its frame.                                                              *)
NoTimeoutOnceRanging ==
  tof # <<>> /\ faults = 0 => \A n \in Node : "RXTO" \notin status[n]

(* Every exchange ends on both sides, whatever is lost: a responder that   *)
(* answered a poll gets back to listening whatever becomes of the          *)
(* initiator and the final message, the initiator to the top of its loop.  *)
ResponderRecovers == pc["R"] = "waitFinal" ~> pc["R"] = "listen"
InitiatorRecovers == pc["I"] # "sleep" ~> (pc["I"] = "sleep" /\ nap["I"] = 0)
ExchangeEnds      == ResponderRecovers /\ InitiatorRecovers

(* Every poll that finds the responder listening is ranged, unless the     *)
(* channel disturbs it: the responder comes to sleep after a result.       *)
PollIsRanged ==
  (pc["I"] = "waitResp" /\ pc["R"] = "listen" /\ mode["I"] = "tx" /\ faults = 0)
    ~> \/ pc["R"] = "sleep" /\ nap["R"] = RNG_DELAY_RESP /\ tof # <<>>
       \/ faults > 0
=============================================================================
