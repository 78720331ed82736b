------------------------------- MODULE AesTwr -------------------------------
(***************************************************************************)
(* Single-sided ranging with encrypted frames: ss_aes_twr_initiator.c      *)
(* ("I"), ss_aes_twr_responder.c ("R") and the frame checks of             *)
(* mac_802_15_4.c.                                                         *)
(*                                                                         *)
(* Each host has one frame header. The frames it sends are built in it and *)
(* the headers of the frames it receives are read into it, also those it   *)
(* ignores. So the frame counter, which makes the nonce of the next frame, *)
(* and the bit that says the frame is secured are taken over from others.  *)
(* The cipher itself is done by the chip.                                  *)
(***************************************************************************)
EXTENDS PolledHost, Sequences

CONSTANTS
  POLL_TX_TO_RESP_RX_DLY,  \* I: receiver on this long after the poll
  RESP_RX_TIMEOUT,         \* I: receiver off after this long
  POLL_RX_TO_RESP_TX_DLY,  \* R: poll RX to response TX
  RNG_DELAY,               \* I: pause between exchanges
  MaxPolls,                \* bound: polls sent
  Starts                   \* possible values of the clocks at the start

VARIABLES
  hdr,       \* hdr[n]: the frame counter in n's mac_frame
  unsecured, \* the nodes whose mac_frame has no security bit
  frameCnt,  \* I: frame_cnt
  used,      \* history: <<n, counter>> of the frames n encrypted
  nonces,    \* history: "fresh", "repeated" when a node encrypted two frames
             \* with one counter, or "excused" when the initiator's counter
             \* was replaced by that of a frame of another network
  result,    \* <<>>, or <<twice the time of flight computed last>>
  polls,     \* polls sent so far
  since      \* history: polls sent since a result, or since something excused
             \* a loss (a fault of the air, a host too late for a delayed
             \* start); the first one after an excuse is not counted

ownVars == <<hdr, unsecured, frameCnt, used, nonces>>
aesVars == <<ownVars, result, polls, since>>

AesAssumption ==
  /\ {POLL_TX_TO_RESP_RX_DLY, POLL_RX_TO_RESP_TX_DLY, RNG_DELAY, MaxPolls} \subseteq Nat
  /\ RESP_RX_TIMEOUT \in Nat \ {0}
  /\ Starts \subseteq Timestamps

Awake(n)   == Rested(n) /\ (n = "I" => polls < MaxPolls)
HostDue(n) == Noticed(n) \/ Awake(n)

Idle == /\ hdr = [n \in Node |-> 0] /\ unsecured = {} /\ frameCnt = 0
        /\ used = {} /\ nonces = "fresh"

Init ==
  /\ LinkInit(Starts)
  /\ rxDly = [n \in Node |-> IF n = "I" THEN POLL_TX_TO_RESP_RX_DLY ELSE 0]
  /\ rxTo  = [n \in Node |-> IF n = "I" THEN RESP_RX_TIMEOUT ELSE 0]
  /\ HostInit
  /\ Idle
  /\ result = <<>> /\ polls = 0 /\ since = -1

Rest == UNCHANGED <<clock, rxDly, rxTo, air, faults, buf>>

(* dwt_do_aes encrypts a frame with counter c: mac_frame_get_nonce.        *)
Encrypt(n, c) ==
  /\ used' = used \cup {<<n, c>>}
  /\ nonces' = IF <<n, c>> \in used /\ nonces = "fresh" THEN "repeated" ELSE nonces

(* A poll is encrypted whatever its header says; "plain" is one whose      *)
(* header says it is not.                                                  *)
PollFrame == Frame(IF "I" \in unsecured THEN "plain" ELSE "poll", <<hdr["I"]>>)

SendPoll ==
  /\ Awake("I")
  /\ polls' = polls + 1 /\ since' = since + 1
  /\ Encrypt("I", hdr["I"])
  /\ StartTxNow("I", PollFrame, TRUE, {})
  /\ Goto("I", "waitResp")
  /\ UNCHANGED <<hdr, unsecured, frameCnt, result>> /\ Rest

(* Mutant of Count: the counter stays in the header until a response comes. *)
CountOnly == frameCnt' = frameCnt + 1 /\ hdr' = hdr

(* After every wait the next counter goes to the header ...                *)
Count == frameCnt' = frameCnt + 1 /\ hdr' = [hdr EXCEPT !["I"] = frameCnt + 1]

(* ... and is overwritten by the header of the frame that is read.         *)
CountAndRead(c) == frameCnt' = frameCnt + 1 /\ hdr' = [hdr EXCEPT !["I"] = c]

InitiatorGotFrame == pc["I"] = "waitResp" /\ "RXFCG" \in status["I"]

RecvResponse ==
  /\ InitiatorGotFrame /\ rxBuf["I"].kind = "resp"
  /\ LET data == rxBuf["I"].data
     IN  /\ CountAndRead(data[1])
         /\ unsecured' = unsecured \ {"I"}
         /\ result' = <<SsTwiceTof(MsgTs(txTs["I"]), data[2], data[3], MsgTs(rxTs["I"]))>>
  /\ since' = 0
  /\ ClearFlags("I", {"RXFCG"})
  /\ Sleep("I", RNG_DELAY)
  /\ UNCHANGED <<used, nonces, polls>> /\ Rest

(* The header of n's mac_frame becomes that of another network's frame:    *)
(* secured or not.                                                         *)
ForeignHeader(n) == unsecured' \in {unsecured \cup {n}, unsecured \ {n}}

(* Not secured, or other addresses: the loop starts over without a pause,  *)
(* with the header that was read. Nothing but the key index, the           *)
(* addresses, the sequence number and the counter is ever set again.       *)
IgnoreFrame ==
  /\ InitiatorGotFrame /\ rxBuf["I"].kind # "resp"
  /\ \E c \in 0 .. frameCnt : CountAndRead(c)
  /\ ForeignHeader("I")
  /\ nonces' = "excused"
  /\ ClearFlags("I", {"RXFCG"})
  /\ Sleep("I", 0)
  /\ UNCHANGED <<used, result, polls, since>> /\ Rest

(* A frame that is no frame of the standard: rx_aes_802_15_4 reports an    *)
(* error and the host goes no further.                                     *)
StopOnFrame(n) ==
  /\ pc[n] \in {"waitResp", "waitData"} /\ "RXFCG" \in status[n]
  /\ rxBuf[n].kind \in Foreign
  /\ ClearFlags(n, {"RXFCG"})
  /\ Goto(n, "stopped")
  /\ IF n = "I" THEN Count ELSE UNCHANGED <<hdr, frameCnt>>
  /\ UNCHANGED <<unsecured, used, nonces, result, polls, since>> /\ Rest

ResponseFailed ==
  /\ pc["I"] = "waitResp" /\ "RXFCG" \notin status["I"] /\ Noticed("I")
  /\ Count
  /\ ClearFlags("I", {"RXTO", "RXERR"})
  /\ Sleep("I", RNG_DELAY)
  /\ UNCHANGED <<unsecured, used, nonces, result, polls, since>> /\ Rest

Initiator == \/ SendPoll \/ RecvResponse \/ IgnoreFrame \/ StopOnFrame("I")
             \/ ResponseFailed
-----------------------------------------------------------------------------
Listen ==
  /\ Awake("R")
  /\ EnableRx("R", 0)
  /\ Goto("R", "waitData")
  /\ UNCHANGED aesVars /\ Rest

ResponderGotFrame == pc["R"] = "waitData" /\ "RXFCG" \in status["R"]

ResponseTime  == DelayedTxTime(rxTs["R"], POLL_RX_TO_RESP_TX_DLY)
ResponseFrame ==
  Frame("resp", <<rxBuf["R"].data[1] + 1, MsgTs(rxTs["R"]),
                  MsgTs(DelayedTxTs(rxTs["R"], POLL_RX_TO_RESP_TX_DLY))>>)

(* A poll is answered with its counter plus one. The frame is encrypted    *)
(* before the transmission is started, and so also if that comes too late. *)
GotPoll ==
  /\ ResponderGotFrame /\ rxBuf["R"].kind = "poll"
  /\ hdr' = [hdr EXCEPT !["R"] = rxBuf["R"].data[1] + 1]
  /\ unsecured' = unsecured \ {"R"}
  /\ Encrypt("R", rxBuf["R"].data[1] + 1)
  /\ UNCHANGED <<frameCnt, result, polls>> /\ Rest

RecvPoll ==
  /\ GotPoll /\ ~TooLate("R", ResponseTime)
  /\ StartTxAt("R", ResponseFrame, ResponseTime, FALSE, {"RXFCG"})
  /\ Goto("R", "waitTx")
  /\ UNCHANGED since

RecvPollLate ==
  /\ GotPoll /\ TooLate("R", ResponseTime)
  /\ FailTx("R", {"RXFCG"})
  /\ Sleep("R", 0)
  /\ since' = -1

ResponseSent ==
  /\ pc["R"] = "waitTx" /\ Noticed("R")
  /\ ClearFlags("R", {"TXFRS"})
  /\ Sleep("R", 0)
  /\ UNCHANGED aesVars /\ Rest

(* A poll that is not secured is ignored like a foreign frame. Its header  *)
(* is read, too.                                                           *)
IgnoreNoPoll ==
  /\ ResponderGotFrame /\ rxBuf["R"].kind # "poll"
  /\ IF rxBuf["R"].kind = "plain"
     THEN hdr' = [hdr EXCEPT !["R"] = rxBuf["R"].data[1]] /\ unsecured' = unsecured \cup {"R"}
     ELSE (\E c \in 0 .. frameCnt : hdr' = [hdr EXCEPT !["R"] = c]) /\ ForeignHeader("R")
  /\ ClearFlags("R", {"RXFCG"})
  /\ Sleep("R", 0)
  /\ UNCHANGED <<frameCnt, used, nonces, result, polls, since>> /\ Rest

PollFailed ==
  /\ pc["R"] = "waitData" /\ "RXFCG" \notin status["R"] /\ Noticed("R")
  /\ ClearFlags("R", {"RXERR"})
  /\ Sleep("R", 0)
  /\ UNCHANGED aesVars /\ Rest

Responder == \/ Listen \/ RecvPoll \/ RecvPollLate \/ ResponseSent
             \/ IgnoreNoPoll \/ StopOnFrame("R") \/ PollFailed
-----------------------------------------------------------------------------
Tick == HostTick({n \in Node : HostDue(n)}) /\ UNCHANGED aesVars

Radio == /\ Hardware \/ Interference(Foreign)
         /\ UNCHANGED <<pollVars, ownVars, result, polls>>
         /\ since' = IF faults' = faults THEN since ELSE -1

Next == Initiator \/ Responder \/ Radio \/ Tick
-----------------------------------------------------------------------------
(* Only true times of flight are reported (twice, as in SsTwr).            *)
DistanceIsTrue == result \in {<<>>, <<2 * FLIGHT>>}

(* No node encrypts two frames with one counter, though the header is      *)
(* shared by both directions and polls and responses are lost, as long as  *)
(* the initiator has not read the header of another network's frame: then  *)
(* the next poll goes out with that frame's counter.                       *)
CounterFresh == nonces # "repeated"

(* Since the last disturbance no poll was lost before the one in progress, *)
(* as long as both hosts go on.                                            *)
RangingGoesOn == since <= 1 \/ \E n \in Node : pc[n] = "stopped"

(* The same, unless the initiator has the header of a frame that is not    *)
(* secured: then no later poll is answered.                                *)
LosesFew == RangingGoesOn \/ "I" \in unsecured
=============================================================================
