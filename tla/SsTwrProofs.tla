---------------------------- MODULE SsTwrProofs ----------------------------
(***************************************************************************)
(* What holds of SsTwr for every value of its constants: every wait of the *)
(* two loops ends, never because of a stale flag, every variable keeps its *)
(* type, and a distance that is reported is the true one. The argument     *)
(* about waits is that of DsTwrProofs.                                     *)
(***************************************************************************)
EXTENDS SsTwr, PolledHostProofs

(* The points of each loop. The responder sets no timeout, and it starts   *)
(* its transmissions without a TXFRS of an earlier one.                    *)
Loops == /\ pc["I"] \in {"sleep", "waitResp"}
         /\ pc["R"] \in {"sleep", "waitData", "waitTx"}
         /\ pc["R"] # "waitTx" => "TXFRS" \notin status["R"]
         /\ rxTo["R"] = 0
         /\ "RXTO" \notin status["R"]

HostsChips == HostChip /\ Loops
-----------------------------------------------------------------------------
(* Every action of the two loops preserves the invariant.                  *)
LEMMA HostStep == HostsChips /\ (Initiator \/ Responder) => HostsChips'
  <1> SUFFICES ASSUME HostsChips, Initiator \/ Responder PROVE HostsChips'
    OBVIOUS
  <1> USE DEF HostsChips, Loops, HostChip, Shape, Phase, Asleep, RxWait,
              TxWait, NoRxFlag, OneRxFlag, Untimed, RxMask, Flags, Modes,
              Points, PlainPoints, TxPoints, DataPoints, RespPoints, Node, Rest
  <1>1. CASE SendPoll
    BY <1>1 DEF SendPoll, Awake, Rested, StartTxNow, StartTx, Goto
  <1>2. CASE RecvResponse \/ RecvNoResponse
    BY <1>2 DEF RecvResponse, RecvNoResponse, InitiatorGotFrame, ClearFlags,
                Sleep
  <1>3. CASE ResponseFailed
    BY <1>3 DEF ResponseFailed, Noticed, Awaited, ClearFlags, Sleep
  <1>4. CASE Listen
    BY <1>4 DEF Listen, Awake, Rested, EnableRx, Goto
  <1>5. CASE RecvPoll
    BY <1>5 DEF RecvPoll, ResponderGotFrame, StartTxAt, StartTx, Goto
  <1>6. CASE RecvPollLate
    BY <1>6 DEF RecvPollLate, ResponderGotFrame, FailTx, Sleep
  <1>7. CASE RecvNoPoll
    BY <1>7 DEF RecvNoPoll, ResponderGotFrame, ClearFlags, Sleep
  <1>8. CASE ResponseSent
    BY <1>8 DEF ResponseSent, Noticed, Awaited, ClearFlags, Sleep
  <1>9. CASE PollFailed
    BY <1>9 DEF PollFailed, Noticed, Awaited, ClearFlags, Sleep
  <1>10. QED
    BY <1>1, <1>2, <1>3, <1>4, <1>5, <1>6, <1>7, <1>8, <1>9
       DEF Initiator, Responder

(* A chip whose receiver has no timeout reports none, and one that does    *)
(* not transmit reports no transmission.                                   *)
LEMMA LoopsRadio ==
  ASSUME NEW K, HostsChips, Hardware \/ Interference(K), UNCHANGED pc
  PROVE  Loops'
  BY LinkAssumption
     DEF HostsChips, HostChip, Shape, Phase, Asleep, Loops, Hardware,
         Interference, Transmit, OpenRx, RxTimeout, Receive, Miss, Corrupt,
         Interfere, EndRx, chipVars, Node

(* The invariant holds in every reachable state.                           *)
THEOREM HostsChipsInvariant == Spec => []HostsChips
  <1>1. Init => HostsChips
    BY HostChipStart DEF Init, HostInit, LinkInit, HostsChips, Loops, Node
  <1>2. HostsChips /\ Radio => HostsChips'
    BY HostChipRadio, LoopsRadio DEF HostsChips, Radio, hostVars, pollVars
  <1>3. HostsChips /\ Tick => HostsChips'
    BY HostChipTick DEF HostsChips, Loops, Tick, HostTick, LinkTick
  <1>4. HostsChips /\ UNCHANGED vars => HostsChips'
    BY HostChipStutter
       DEF HostsChips, Loops, vars, linkVars, chipVars, hostVars, pollVars
  <1>5. HostsChips /\ [Next]_vars => HostsChips'
    BY HostStep, <1>2, <1>3, <1>4 DEF Next
  <1>6. QED
    BY <1>1, <1>5, PTL DEF Spec
-----------------------------------------------------------------------------
(* Every busy-wait of the two loops ends: while a host waits its chip is   *)
(* at work or an awaited flag is up. The responder's wait for a poll does  *)
(* not ask for timeouts, and its chip never reports one.                   *)
THEOREM WaitsEnd == Spec => []WaitWillEnd
  <1>1. HostsChips => WaitWillEnd
    BY HostChipWaits DEF HostsChips
  <1>2. QED
    BY HostsChipsInvariant, <1>1, PTL

(* No busy-wait is ended by a flag that an earlier operation left up.      *)
THEOREM NoStaleEvents == Spec => []NoStaleEvent
  <1>1. HostsChips => NoStaleEvent
    BY HostChipWaits DEF HostsChips
  <1>2. QED
    BY HostsChipsInvariant, <1>1, PTL
-----------------------------------------------------------------------------
(* The frames that the nodes and the air produce: the response carries two *)
(* 32-bit timestamps.                                                      *)
LEMMA FrameTypes ==
  /\ Carries(Frames) /\ NoFrame \in Frames
  /\ Frame("poll", <<>>) \in Frames
  /\ \A a, b \in 0 .. LOMOD - 1 : Frame("resp", <<a, b>>) \in Frames
  BY DEF Carries, NoFrame, Frame, Frames

(* Every action of the two loops keeps the types.                          *)
LEMMA TypeHosts == TypeOK /\ (Initiator \/ Responder) => TypeOK'
  <1> SUFFICES ASSUME TypeOK, Initiator \/ Responder PROVE TypeOK'
    OBVIOUS
  <1>t. rxTs["R"] \in Timestamps /\ rxTs["R"] \in Int
    BY DEF TypeOK, LinkTypeOK, Timestamps, Node
  <1>0. ResponseTime \in Int
        /\ DelayedTxTs(rxTs["R"], POLL_RX_TO_RESP_TX_DLY) \in Int
    BY <1>t, DelayedTypes, SsAssumption DEF ResponseTime
  <1>d. TicksTo("R", ResponseTime) + TX_ANT_DLY \in Nat
    BY <1>0, TicksType DEF Node, TypeOK
  <1>f. ResponseFrame \in Frames
    BY <1>t, <1>0, TimeTypes, FrameTypes DEF ResponseFrame
  <1>n. 0 \in Nat /\ 0 \in 0 .. MaxLag
    BY LinkAssumption
  <1> USE <1>n, SsAssumption, FrameTypes
      DEF TypeOK, HostTypeOK, Points, TxPoints, DataPoints,
          RespPoints, LinkTypeOK, Node, Flags, RxMask, Modes,
          Rest
  <1>1. CASE SendPoll
    BY <1>1 DEF SendPoll, Awake, StartTxNow, StartTx, Goto
  <1>2. CASE RecvResponse
    <2>1. \E t : twiceTof' = <<t>>
      BY <1>2 DEF RecvResponse
    <2>2. QED
      BY <1>2, <2>1 DEF RecvResponse, InitiatorGotFrame, ClearFlags, Sleep
  <1>3. CASE RecvNoResponse
    BY <1>3 DEF RecvNoResponse, InitiatorGotFrame, ClearFlags, Sleep
  <1>4. CASE ResponseFailed
    BY <1>4 DEF ResponseFailed, ClearFlags, Sleep
  <1>5. CASE Listen
    BY <1>5 DEF Listen, Awake, EnableRx, Goto
  <1>6. CASE RecvPoll
    BY <1>6, <1>d, <1>f DEF RecvPoll, ResponderGotFrame, StartTxAt, StartTx, Goto
  <1>7. CASE RecvPollLate
    BY <1>7 DEF RecvPollLate, ResponderGotFrame, FailTx, Sleep
  <1>8. CASE RecvNoPoll
    BY <1>8 DEF RecvNoPoll, ResponderGotFrame, ClearFlags, Sleep
  <1>9. CASE ResponseSent
    BY <1>9 DEF ResponseSent, ClearFlags, Sleep
  <1>10. CASE PollFailed
    BY <1>10 DEF PollFailed, ClearFlags, Sleep
  <1>11. QED
    BY <1>1, <1>2, <1>3, <1>4, <1>5, <1>6, <1>7, <1>8, <1>9, <1>10
       DEF Initiator, Responder

(* Every variable keeps its type: clocks and timestamps within 40 bits,    *)
(* the copies in frames within 32, countdowns never negative.              *)
THEOREM TypeCorrect == Spec => []TypeOK
  <1>1. Init => TypeOK
    <2> SUFFICES ASSUME Init PROVE TypeOK
      OBVIOUS
    <2>1. LinkTypeOK(Frames) /\ HostTypeOK(Frames)
      BY TypesStart, FrameTypes, SsAssumption DEF Init
    <2>2. 0 \in 0 .. MaxPolls /\ Len(twiceTof) = 0
      BY SsAssumption DEF Init
    <2>3. QED
      BY <2>1, <2>2 DEF Init, HostInit, TypeOK, Node
  <1>2. TypeOK /\ UNCHANGED vars => TypeOK'
    BY DEF TypeOK, HostTypeOK, LinkTypeOK, vars, linkVars, chipVars, hostVars,
           pollVars
  <1>3. TypeOK /\ Radio => TypeOK'
    BY LinkTypesRadio, FrameTypes, LinkAssumption
       DEF TypeOK, HostTypeOK, Radio, hostVars, pollVars
  <1>4. TypeOK /\ Tick => TypeOK'
    <2> SUFFICES ASSUME TypeOK, Tick PROVE TypeOK'
      OBVIOUS
    <2> DEFINE due == {n \in Node : HostDue(n)}
    <2>1. LinkTypeOK(Frames)'
      BY LinkTypesTick DEF TypeOK, Tick, HostTick
    <2>2. HostTypeOK(Frames)'
      <3>1. HostTick(due) /\ HostTypeOK(Frames)
        BY DEF TypeOK, Tick
      <3> HIDE DEF due
      <3>2. QED
        BY <3>1, HostTypesTick
    <2>3. QED
      BY <2>1, <2>2 DEF TypeOK, Tick, HostTick
  <1>5. TypeOK /\ [Next]_vars => TypeOK'
    BY <1>2, <1>3, <1>4, TypeHosts DEF Next
  <1>6. QED
    BY <1>1, <1>5, PTL DEF Spec
-----------------------------------------------------------------------------
(* The distance. The answer to a poll has come or been missed before the   *)
(* next poll leaves; the round trip fits half the range of the 32-bit      *)
(* copies; and a host that is too late for its delayed transmission finds  *)
(* the time behind its clock.                                              *)
ReplyIsSwift ==
  /\ 2 * FLIGHT + POLL_RX_TO_RESP_TX_DLY + TX_ANT_DLY
       < POLL_TX_TO_RESP_RX_DLY + RNG_DELAY
  /\ 2 * FLIGHT + POLL_RX_TO_RESP_TX_DLY + TX_ANT_DLY < LOMOD \div 2
  /\ MaxLag + QUANTUM <= TSMOD \div 2

(* The ticks from now before which no further poll leaves.                 *)
NextPoll == IF pc["I"] = "sleep" THEN nap["I"]
            ELSE IF mode["I"] = "tx" THEN 0
            ELSE IF mode["I"] = "gap" THEN left["I"] + RNG_DELAY ELSE RNG_DELAY

(* By the clock of the initiator, "due" is "t" ticks after its last poll,  *)
(* as far as the 32-bit copies tell.                                       *)
SincePoll(due, t) == SameLo(due - txTs["I"], t)

(* What a response says that the initiator gets when its clock shows       *)
(* "due": the turnaround of the responder, which together with two flights *)
(* is the time since the last poll.                                        *)
Answers(data, due) ==
  \E rx, tx \in 0 .. LOMOD - 1, reply \in 0 .. POLL_RX_TO_RESP_TX_DLY + TX_ANT_DLY :
    data = <<rx, tx>> /\ SameLo(tx - rx, reply) /\ SincePoll(due, 2 * FLIGHT + reply)

(* What the responder may still do after "t" ticks is over before the next *)
(* poll.                                                                   *)
OverBefore(t) == t + POLL_RX_TO_RESP_TX_DLY + TX_ANT_DLY + FLIGHT < NextPoll

(* A poll on its way is the last one.                                      *)
PollOnAir == \A m \in air : m.frame.kind = "poll" =>
               SincePoll(clock["I"] + m.left, FLIGHT) /\ OverBefore(m.left)

(* So is a poll the responder has, until it is too late to be answered.    *)
HasPoll   == pc["R"] = "waitData" /\ "RXFCG" \in status["R"] /\ rxBuf["R"].kind = "poll"
PollTaken == HasPoll =>
  /\ clock["R"] = (rxTs["R"] + lag["R"]) % TSMOD
  /\ lag["R"] <= POLL_RX_TO_RESP_TX_DLY =>
       SincePoll(clock["I"] + (0 - lag["R"]), FLIGHT) /\ OverBefore(0 - lag["R"])

(* A response that waits for its time answers the last poll ...            *)
ResponseArmed == mode["R"] = "tx" =>
  /\ txBuf["R"].kind = "resp" /\ left["R"] + FLIGHT < NextPoll
  /\ Answers(txBuf["R"].data, clock["I"] + (left["R"] + FLIGHT))

(* ... as does one on its way ...                                          *)
ResponseOnAir == \A m \in air : m.frame.kind = "resp" =>
  m.left < NextPoll /\ Answers(m.frame.data, clock["I"] + m.left)

(* ... and one that the initiator has.                                     *)
ResponseTaken ==
  pc["I"] = "waitResp" /\ "RXFCG" \in status["I"] /\ rxBuf["I"].kind = "resp"
    => Answers(rxBuf["I"].data, rxTs["I"])

(* Who sends what; a responder that listens is not late.                   *)
Roles == /\ txBuf["I"].kind \in {"none", "poll"}
         /\ rxDly["I"] = POLL_TX_TO_RESP_RX_DLY
         /\ pc["R"] = "waitData" /\ mode["R"] = "rx" => lag["R"] = 0

Exchange == Roles /\ PollOnAir /\ PollTaken /\ ResponseArmed /\ ResponseOnAir /\ ResponseTaken
IInv     == TypeOK /\ HostsChips /\ Exchange /\ DistanceIsTrue

LEMMA Numbers ==
  /\ FLIGHT \in Nat /\ FLIGHT > 0 /\ POLL_TX_TO_RESP_RX_DLY \in Nat /\ RNG_DELAY \in Nat
  /\ POLL_RX_TO_RESP_TX_DLY \in Nat /\ TX_ANT_DLY \in Nat /\ MaxLag \in Nat
  /\ LOMOD \in Nat \ {0} /\ TSMOD \in Nat \ {0} /\ QUANTUM \in Nat \ {0}
  BY SsAssumption, LinkAssumption, TimeAssumption

LEMMA Types ==
  ASSUME TypeOK
  PROVE  /\ \A n \in Node : /\ clock[n] \in Int /\ left[n] \in Nat /\ txTs[n] \in Int
                            /\ rxTs[n] \in Int /\ lag[n] \in Nat /\ nap[n] \in Nat
                            /\ clock[n] \in Timestamps /\ rxTs[n] \in Timestamps
         /\ \A m \in air : m.left \in Nat /\ m.to \in Node
         /\ NextPoll \in Nat
  <1>1. LinkTypeOK(Frames) /\ HostTypeOK(Frames)
    BY DEF TypeOK
  <1>2. NextPoll \in Nat
    <2>1. "I" \in Node
      BY DEF Node
    <2> QED BY <1>1, <2>1, LinkNumbers, Numbers DEF NextPoll
  <1> QED BY <1>1, <1>2, LinkNumbers

(* The formula finds the flight in what such a response says.              *)
LEMMA RangingIsExact ==
  ASSUME ReplyIsSwift, NEW p \in Int, NEW r \in Int,
         NEW rx \in 0 .. LOMOD - 1, NEW tx \in 0 .. LOMOD - 1,
         NEW reply \in 0 .. POLL_RX_TO_RESP_TX_DLY + TX_ANT_DLY,
         SameLo(tx - rx, reply), SameLo(r - p, 2 * FLIGHT + reply)
  PROVE  SsTwiceTof(MsgTs(p), rx, tx, MsgTs(r)) = 2 * FLIGHT
  <1> USE Numbers
  <1>1. /\ reply \in Int /\ reply \in 0 .. LOMOD - 1 /\ reply < LOMOD \div 2
        /\ 2 * FLIGHT + reply \in 0 .. LOMOD - 1 /\ 2 * FLIGHT + reply < LOMOD \div 2
    <2>1. LOMOD \div 2 <= LOMOD /\ LOMOD \div 2 \in Nat
      OBVIOUS
    <2> QED BY <2>1 DEF ReplyIsSwift
  <1>2. Sub32(tx, rx) = reply
    <2>1. tx - rx \in Int
      OBVIOUS
    <2> QED BY <1>1, <2>1, SameLoExact DEF Sub32
  <1>3. Sub32(MsgTs(r), MsgTs(p)) = 2 * FLIGHT + reply
    BY <1>1, CopiesSubtract
  <1>4. Signed32(reply) = reply /\ Signed32(2 * FLIGHT + reply) = 2 * FLIGHT + reply
    BY <1>1 DEF Signed32
  <1> QED BY <1>1, <1>2, <1>3, <1>4 DEF SsTwiceTof
-----------------------------------------------------------------------------
(* What does not touch the last poll or the clock leaves the frames on     *)
(* their way as they are.                                                  *)
LEMMA Undisturbed ==
  ASSUME UNCHANGED <<clock, txTs, air>>, NextPoll' = NextPoll
  PROVE  (PollOnAir => PollOnAir') /\ (ResponseOnAir => ResponseOnAir')
  BY DEF PollOnAir, ResponseOnAir, SincePoll, Answers, OverBefore

(* The initiator's steps: no poll leaves during one, and the distance it   *)
(* computes is the true one.                                               *)
LEMMA ExchangeInitiator ==
  ASSUME ReplyIsSwift, IInv, Initiator
  PROVE  Exchange' /\ DistanceIsTrue'
<1>t. TypeOK /\ Phase("I") /\ Exchange /\ DistanceIsTrue /\ "I" \in Node /\ "R" \in Node
  BY DEF IInv, HostsChips, HostChip, Node
<1>n. /\ nap["I"] \in Nat /\ RNG_DELAY \in Nat /\ pc["I"] \in {"sleep", "waitResp"}
      /\ pc \in [Node -> Points] /\ mode \in [Node -> Modes] /\ nap \in [Node -> Nat]
      /\ status \in [Node -> SUBSET Flags] /\ txBuf \in [Node -> Frames]
      /\ lag \in [Node -> 0 .. MaxLag] /\ left \in [Node -> Nat]
  BY <1>t, Numbers, Types DEF TypeOK, LinkTypeOK, HostTypeOK
<1>1. /\ UNCHANGED <<clock, txTs, rxTs, rxBuf, air, rxDly>>
      /\ pc["R"]' = pc["R"] /\ mode["R"]' = mode["R"] /\ status["R"]' = status["R"]
      /\ lag["R"]' = lag["R"] /\ left["R"]' = left["R"] /\ txBuf["R"]' = txBuf["R"]
      /\ txBuf["I"]'.kind \in {"none", "poll"}
  <2>1. CASE SendPoll
    BY <1>t, <1>n, <2>1
       DEF SendPoll, StartTxNow, StartTx, Goto, Rest, Frame, Node, Exchange, Roles
  <2>2. CASE RecvResponse \/ RecvNoResponse \/ ResponseFailed
    BY <1>t, <1>n, <2>2
       DEF RecvResponse, RecvNoResponse, InitiatorGotFrame, ResponseFailed, ClearFlags, Sleep,
           Rest, Node, Exchange, Roles
  <2> QED BY <2>1, <2>2 DEF Initiator
<1>2. NextPoll' = NextPoll /\ ResponseTaken'
  <2>1. CASE SendPoll
    <3>1. NextPoll = 0 /\ "RXFCG" \notin status["I"]
      BY <1>t, <2>1 DEF SendPoll, Awake, Rested, NextPoll, Phase, Asleep, NoRxFlag, RxMask
    <3>2. pc["I"]' = "waitResp" /\ mode["I"]' = "tx" /\ status["I"]' \subseteq status["I"]
      BY <1>t, <1>n, <2>1 DEF SendPoll, StartTxNow, StartTx, Goto
    <3> QED BY <3>1, <3>2 DEF NextPoll, ResponseTaken
  <2>2. CASE RecvResponse \/ RecvNoResponse \/ ResponseFailed
    <3>1. pc["I"] = "waitResp" /\ mode["I"] = "idle"
      BY <1>t, <2>2
         DEF RecvResponse, RecvNoResponse, InitiatorGotFrame, ResponseFailed, Noticed, Awaited,
             TxPoints, DataPoints, RespPoints, Phase, RxWait, NoRxFlag, RxMask
    <3>2. pc["I"]' = "sleep" /\ nap["I"]' = RNG_DELAY
      BY <1>t, <1>n, <2>2
         DEF RecvResponse, RecvNoResponse, InitiatorGotFrame, ResponseFailed, Sleep
    <3> QED BY <3>1, <3>2 DEF NextPoll, ResponseTaken
  <2> QED BY <2>1, <2>2 DEF Initiator
<1>3. PollOnAir' /\ ResponseOnAir'
  BY <1>t, <1>1, <1>2, Undisturbed DEF Exchange
<1>4. PollTaken' /\ ResponseArmed'
  BY <1>t, <1>1, <1>2
     DEF Exchange, PollTaken, ResponseArmed, SincePoll, Answers, OverBefore, HasPoll
<1>5. Roles'
  BY <1>t, <1>1 DEF Exchange, Roles
<1>6. DistanceIsTrue'
  <2>1. CASE RecvResponse
    <3>1. Answers(rxBuf["I"].data, rxTs["I"])
      BY <1>t, <2>1 DEF RecvResponse, InitiatorGotFrame, Exchange, ResponseTaken
    <3>2. PICK rx \in 0 .. LOMOD - 1, tx \in 0 .. LOMOD - 1,
               reply \in 0 .. POLL_RX_TO_RESP_TX_DLY + TX_ANT_DLY :
                 /\ rxBuf["I"].data = <<rx, tx>> /\ SameLo(tx - rx, reply)
                 /\ SameLo(rxTs["I"] - txTs["I"], 2 * FLIGHT + reply)
      BY <3>1 DEF Answers, SincePoll
    <3>3. SsTwiceTof(MsgTs(txTs["I"]), rx, tx, MsgTs(rxTs["I"])) = 2 * FLIGHT
      <4>1. txTs["I"] \in Int /\ rxTs["I"] \in Int
        BY <1>t, Types
      <4> QED BY <3>2, <4>1, RangingIsExact
    <3>4. twiceTof' = <<2 * FLIGHT>>
      BY <2>1, <3>2, <3>3 DEF RecvResponse
    <3> QED BY <3>4 DEF DistanceIsTrue
  <2>2. CASE SendPoll \/ RecvNoResponse \/ ResponseFailed
    BY <1>t, <2>2 DEF SendPoll, RecvNoResponse, ResponseFailed, DistanceIsTrue
  <2> QED BY <2>1, <2>2 DEF Initiator
<1> QED BY <1>2, <1>3, <1>4, <1>5, <1>6 DEF Exchange

(* The responder's steps: a response is prepared for the time that the     *)
(* poll's reception determines, however late the host looks at it.         *)
LEMMA ExchangeResponder ==
  ASSUME ReplyIsSwift, IInv, Responder
  PROVE  Exchange' /\ DistanceIsTrue'
<1>t. TypeOK /\ Phase("R") /\ Exchange /\ DistanceIsTrue /\ "I" \in Node /\ "R" \in Node
  BY DEF IInv, HostsChips, HostChip, Node
<1>n. /\ pc["R"] \in {"sleep", "waitData", "waitTx"} /\ pc["R"] = "waitTx" => TxWait("R")
      /\ pc \in [Node -> Points] /\ mode \in [Node -> Modes] /\ nap \in [Node -> Nat]
      /\ status \in [Node -> SUBSET Flags] /\ txBuf \in [Node -> Frames]
      /\ lag \in [Node -> 0 .. MaxLag] /\ left \in [Node -> Nat]
  BY <1>t DEF TypeOK, LinkTypeOK, HostTypeOK, Phase
<1>1. /\ UNCHANGED <<clock, txTs, rxTs, air, rxDly, twiceTof>>
      /\ pc["I"]' = pc["I"] /\ mode["I"]' = mode["I"] /\ status["I"]' = status["I"]
      /\ left["I"]' = left["I"] /\ nap["I"]' = nap["I"] /\ txBuf["I"]' = txBuf["I"]
      /\ rxBuf["I"]' = rxBuf["I"]
  <2>1. CASE Listen
    BY <1>t, <1>n, <2>1 DEF Listen, EnableRx, Goto, Rest, TypeOK, LinkTypeOK, Node
  <2>2. CASE RecvPoll
    BY <1>t, <1>n, <2>2 DEF RecvPoll, ResponderGotFrame, StartTxAt, StartTx, Goto, Rest, Node
  <2>3. CASE RecvPollLate \/ RecvNoPoll \/ ResponseSent \/ PollFailed
    BY <1>t, <1>n, <2>3
       DEF RecvPollLate, RecvNoPoll, ResponderGotFrame, ResponseSent, PollFailed, FailTx,
           ClearFlags, Sleep, Rest, Node
  <2> QED BY <2>1, <2>2, <2>3 DEF Responder
<1>2. NextPoll' = NextPoll
  BY <1>1 DEF NextPoll
<1>3. PollOnAir' /\ ResponseOnAir'
  BY <1>t, <1>1, <1>2, Undisturbed DEF Exchange
<1>4. ResponseTaken'
  BY <1>t, <1>1 DEF Exchange, ResponseTaken, Answers, SincePoll
<1>5. CASE Listen
  <2>1. /\ "RXFCG" \notin status["R"] /\ status'["R"] = status["R"]
        /\ mode'["R"] = "rx" /\ lag'["R"] = 0
    BY <1>t, <1>n, <1>5
       DEF Listen, Awake, Rested, EnableRx, Goto, Phase, Asleep, NoRxFlag, RxMask
  <2>2. PollTaken' /\ ResponseArmed' /\ Roles'
    BY <1>t, <1>1, <2>1 DEF PollTaken, HasPoll, ResponseArmed, Roles, Exchange
  <2> QED BY <1>1, <1>t, <1>3, <1>4, <2>2 DEF Exchange, DistanceIsTrue
<1>6. CASE RecvPollLate \/ RecvNoPoll \/ ResponseSent \/ PollFailed
  <2>1. pc'["R"] = "sleep" /\ mode'["R"] # "tx"
    BY <1>t, <1>n, <1>6
       DEF RecvPollLate, RecvNoPoll, ResponderGotFrame, ResponseSent, PollFailed, FailTx,
           ClearFlags, Sleep, Noticed, Awaited, TxPoints, DataPoints, Phase, RxWait, TxWait,
           NoRxFlag, RxMask
  <2>2. PollTaken' /\ ResponseArmed' /\ Roles'
    BY <1>t, <1>1, <2>1 DEF PollTaken, HasPoll, ResponseArmed, Roles, Exchange
  <2> QED BY <1>1, <1>t, <1>3, <1>4, <2>2 DEF Exchange, DistanceIsTrue
<1>7. CASE RecvPoll
  <2>1. /\ HasPoll /\ ~TooLate("R", ResponseTime) /\ pc'["R"] = "waitTx" /\ mode'["R"] = "tx"
        /\ left'["R"] = TicksTo("R", ResponseTime) + TX_ANT_DLY /\ txBuf'["R"] = ResponseFrame
    BY <1>t, <1>n, <1>7
       DEF RecvPoll, ResponderGotFrame, HasPoll, StartTxAt, StartTx, Goto
  <2> DEFINE D == POLL_RX_TO_RESP_TX_DLY
             l == lag["R"]
             c == clock["I"]
             p == txTs["I"]
             ts == rxTs["R"]
  <2>2. /\ c \in Int /\ p \in Int /\ ts \in Timestamps /\ ts \in Int
        /\ l \in 0 .. MaxLag /\ l \in Int /\ D \in Nat /\ TX_ANT_DLY \in Nat /\ FLIGHT \in Nat
    BY <1>t, <1>n, Types, Numbers
  <2>3. D < LOMOD /\ MaxLag + QUANTUM <= TSMOD \div 2
    <3>1. LOMOD \div 2 <= LOMOD /\ LOMOD \div 2 \in Int
      BY Numbers
    <3> QED BY <3>1, Numbers DEF ReplyIsSwift
  <2>4. clock["R"] = (ts + l) % TSMOD
    BY <1>t, <2>1 DEF Exchange, PollTaken
  <2>5. PICK reply \in 0 .. D + TX_ANT_DLY :
          /\ l <= D /\ TicksTo("R", DelayedTxTime(ts, D)) + TX_ANT_DLY = reply - l
          /\ SameLo(MsgTs(DelayedTxTs(ts, D)) - MsgTs(ts), reply)
    BY <1>t, <2>1, <2>2, <2>3, <2>4, DelayedReply DEF ResponseTime
  <2>6. SincePoll(c + (0 - l), FLIGHT) /\ OverBefore(0 - l)
    BY <1>t, <2>1, <2>5 DEF Exchange, PollTaken
  <2>7. left'["R"] = reply - l /\ reply \in Int
    BY <2>1, <2>2, <2>5 DEF ResponseTime
  <2>8. left'["R"] + FLIGHT < NextPoll'
    <3>1. NextPoll \in Int
      BY <1>t, Types
    <3> QED BY <1>2, <2>2, <2>5, <2>6, <2>7, <3>1 DEF OverBefore
  <2>9. MsgTs(DelayedTxTs(ts, D)) \in 0 .. LOMOD - 1 /\ MsgTs(ts) \in 0 .. LOMOD - 1
    BY <2>2, DelayedTypes, TimeTypes
  <2>10. SincePoll(c + (left'["R"] + FLIGHT), 2 * FLIGHT + reply)
    <3> DEFINE u == 0 - l
               e == reply + FLIGHT
    <3>1. u \in Int /\ e \in Int /\ SameLo((c + u) - p, FLIGHT)
      BY <2>2, <2>6, <2>7 DEF SincePoll
    <3> HIDE DEF u, e, c, p
    <3>2. SameLo((c + (u + e)) - p, FLIGHT + e)
      BY <2>2, <3>1, SameLoLater
    <3> USE DEF u, e
    <3>3. u + e = left'["R"] + FLIGHT /\ FLIGHT + e = 2 * FLIGHT + reply
      BY <2>2, <2>7
    <3> QED BY <3>2, <3>3 DEF SincePoll, c, p
  <2>11. ResponseFrame.kind = "resp"
         /\ ResponseFrame.data = <<MsgTs(ts), MsgTs(DelayedTxTs(ts, D))>>
    BY DEF ResponseFrame, Frame
  <2>12. Answers(txBuf["R"].data, clock["I"] + (left["R"] + FLIGHT))'
    <3>1. Answers(ResponseFrame.data, c + (left'["R"] + FLIGHT))
      BY <2>5, <2>9, <2>10, <2>11 DEF Answers
    <3> QED BY <1>1, <2>1, <3>1 DEF Answers, SincePoll
  <2>13. ResponseArmed' /\ PollTaken' /\ Roles'
    BY <1>t, <1>1, <2>1, <2>8, <2>11, <2>12
       DEF ResponseArmed, PollTaken, HasPoll, Roles, Exchange
  <2> QED BY <1>1, <1>t, <1>3, <1>4, <2>13 DEF Exchange, DistanceIsTrue
<1> QED BY <1>5, <1>6, <1>7 DEF Responder
(* What the chips and the air do: a poll leaves when nothing of an earlier *)
(* exchange is left, and what arrives is what was on its way.              *)
LEMMA ExchangeTransmits ==
  ASSUME ReplyIsSwift, IInv, NEW n \in Node, Transmit(n), UNCHANGED hostVars
  PROVE  Exchange'
<1>t. /\ TypeOK /\ \A i \in Node : Phase(i)
      /\ Roles /\ PollOnAir /\ PollTaken /\ ResponseArmed /\ ResponseOnAir /\ ResponseTaken
      /\ "I" \in Node /\ "R" \in Node
  BY DEF IInv, HostsChips, HostChip, Exchange, Node
<1>n. /\ pc["I"] \in {"sleep", "waitResp"} /\ pc["R"] \in {"sleep", "waitData", "waitTx"}
      /\ mode \in [Node -> Modes] /\ status \in [Node -> SUBSET Flags]
      /\ left \in [Node -> Nat] /\ w4r \in [Node -> BOOLEAN]
      /\ txTs \in [Node -> Timestamps] /\ txBuf \in [Node -> Frames]
      /\ UNCHANGED <<pc, nap, lag, rxTs, rxBuf, rxDly, clock>>
  BY <1>t DEF TypeOK, LinkTypeOK, Transmit, hostVars, pollVars
<1> DEFINE new == [to |-> Peer(n), left |-> FLIGHT, frame |-> txBuf[n]]
<1>a. /\ mode[n] = "tx" /\ left[n] = 0 /\ air' = air \cup {new}
      /\ mode'[n] = (IF w4r[n] THEN "gap" ELSE "idle") /\ left'[n] = (IF w4r[n] THEN rxDly[n] ELSE 0)
      /\ status'[n] = status[n] \cup {"TXFRS"} /\ txBuf'[n].kind = "none" /\ txTs'[n] = clock[n]
      /\ \A i \in Node \ {n} : /\ mode'[i] = mode[i] /\ left'[i] = left[i] /\ status'[i] = status[i]
                               /\ txBuf'[i] = txBuf[i] /\ txTs'[i] = txTs[i]
  BY <1>n DEF Transmit, NoFrame, Frame
<1>1. CASE n = "I"
  <2>1. pc["I"] = "waitResp" /\ NextPoll = 0 /\ w4r["I"] /\ "RXFCG" \notin status["I"]
    BY <1>t, <1>n, <1>a, <1>1
       DEF NextPoll, Phase, Asleep, RxWait, NoRxFlag, RxMask
  <2>2. \A m \in air : m.frame.kind \notin {"poll", "resp"}
    BY <1>t, <2>1, Types, Numbers DEF PollOnAir, ResponseOnAir, OverBefore
  <2>3. mode["R"] # "tx"
    BY <1>t, <2>1, Types, Numbers DEF ResponseArmed
  <2>4. HasPoll => ~(lag["R"] <= POLL_RX_TO_RESP_TX_DLY)
    <3>1. lag["R"] \in Nat
      BY <1>t, Types
    <3> QED BY <1>t, <2>1, <3>1, Numbers DEF PollTaken, OverBefore
  <2>5. NextPoll' = POLL_TX_TO_RESP_RX_DLY + RNG_DELAY
    BY <1>t, <1>n, <1>a, <1>1, <2>1 DEF NextPoll, Roles
  <2>6. SincePoll(clock["I"] + FLIGHT, FLIGHT)' /\ OverBefore(FLIGHT)'
    <3>1. /\ clock["I"] \in Int /\ txTs'["I"] = clock["I"]
          /\ clock'["I"] = clock["I"]
      BY <1>t, <1>n, <1>a, <1>1, Types
    <3>2. (clock["I"] + FLIGHT) - clock["I"] = FLIGHT
      BY <3>1, Numbers
    <3>3. SameLo(FLIGHT, FLIGHT)
      BY Numbers, SameLoEquivalence
    <3> QED BY <2>5, <3>1, <3>2, <3>3, Numbers DEF SincePoll, OverBefore, ReplyIsSwift
  <2>7. PollOnAir' /\ ResponseOnAir'
    <3>1. new.frame.kind \in {"none", "poll"} /\ new.left = FLIGHT
      BY <1>t, <1>1 DEF Roles
    <3>3. ASSUME NEW m \in air'
          PROVE  /\ m.frame.kind = "poll" => SincePoll(clock["I"] + m.left, FLIGHT)' /\ OverBefore(m.left)'
                 /\ m.frame.kind # "resp"
      <4> HIDE DEF new
      <4>1. m \in air \/ m = new
        BY <1>a
      <4>2. CASE m = new
        BY <2>6, <3>1, <4>2 DEF SincePoll, OverBefore
      <4> QED BY <2>2, <4>1, <4>2
    <3> QED BY <3>3 DEF PollOnAir, ResponseOnAir
  <2>8. PollTaken'
    BY <1>t, <1>n, <1>a, <1>1, <2>4 DEF PollTaken, HasPoll
  <2>9. ResponseArmed' /\ ResponseTaken' /\ Roles'
    BY <1>t, <1>n, <1>a, <1>1, <2>1, <2>3 DEF ResponseArmed, ResponseTaken, Roles
  <2> QED BY <2>7, <2>8, <2>9 DEF Exchange
<1>2. CASE n = "R"
  <2>1. /\ txBuf["R"].kind = "resp" /\ left["R"] + FLIGHT < NextPoll
        /\ Answers(txBuf["R"].data, clock["I"] + (left["R"] + FLIGHT))
    BY <1>t, <1>a, <1>2 DEF ResponseArmed
  <2>2. pc["R"] = "waitTx" /\ ~w4r["R"]
    BY <1>t, <1>n, <1>a, <1>2 DEF Phase, Asleep, RxWait, TxWait
  <2>3. /\ NextPoll' = NextPoll /\ txTs'["I"] = txTs["I"] /\ mode'["R"] = "idle"
        /\ mode'["I"] = mode["I"] /\ status'["I"] = status["I"] /\ txBuf'["I"] = txBuf["I"]
    BY <1>n, <1>a, <1>2, <2>2 DEF NextPoll, Node
  <2>4. new.frame.kind = "resp" /\ new.left = FLIGHT
        /\ new.left < NextPoll /\ Answers(new.frame.data, clock["I"] + new.left)
    <3>1. left["R"] = 0 /\ left["R"] + FLIGHT = FLIGHT
      BY <1>a, <1>2, Numbers
    <3> QED BY <1>2, <2>1, <3>1
  <2>5. PollOnAir' /\ ResponseOnAir'
    <3> HIDE DEF new
    <3>1. ASSUME NEW m \in air'
          PROVE  /\ m.frame.kind = "poll" => SincePoll(clock["I"] + m.left, FLIGHT)' /\ OverBefore(m.left)'
                 /\ m.frame.kind = "resp" => m.left < NextPoll' /\ Answers(m.frame.data, clock["I"] + m.left)'
      <4>1. m \in air \/ m = new
        BY <1>a
      <4>2. CASE m = new
        BY <1>n, <2>3, <2>4, <4>2 DEF Answers, SincePoll
      <4>3. CASE m \in air
        BY <1>t, <1>n, <2>3, <4>3
           DEF PollOnAir, ResponseOnAir, SincePoll, OverBefore, Answers
      <4> QED BY <4>1, <4>2, <4>3
    <3> QED BY <3>1 DEF PollOnAir, ResponseOnAir
  <2>6. PollTaken' /\ ResponseArmed' /\ Roles'
    BY <1>t, <1>n, <2>2, <2>3 DEF PollTaken, HasPoll, ResponseArmed, Roles
  <2>7. ResponseTaken'
    BY <1>t, <1>n, <2>3 DEF ResponseTaken, Answers, SincePoll
  <2> QED BY <2>5, <2>6, <2>7 DEF Exchange
<1> QED BY <1>1, <1>2 DEF Node

LEMMA ExchangeRadio ==
  ASSUME ReplyIsSwift, IInv, Radio
  PROVE  Exchange' /\ DistanceIsTrue'
<1>t. /\ TypeOK /\ \A i \in Node : Phase(i)
      /\ Roles /\ PollOnAir /\ PollTaken /\ ResponseArmed /\ ResponseOnAir /\ ResponseTaken
      /\ rxTo["R"] = 0 /\ "I" \in Node /\ "R" \in Node
  BY DEF IInv, HostsChips, HostChip, Exchange, Loops, Node
<1>n. /\ pc["I"] \in {"sleep", "waitResp"} /\ pc["R"] \in {"sleep", "waitData", "waitTx"}
      /\ mode \in [Node -> Modes] /\ status \in [Node -> SUBSET Flags]
      /\ left \in [Node -> Nat] /\ rxTs \in [Node -> Timestamps] /\ rxBuf \in [Node -> Frames]
      /\ UNCHANGED <<pc, nap, lag>> /\ Foreign \subseteq ForeignKinds
  BY <1>t, LinkAssumption DEF TypeOK, LinkTypeOK, Radio, hostVars, pollVars
<1>d. DistanceIsTrue'
  BY DEF IInv, DistanceIsTrue, Radio, hostVars
<1>r. UNCHANGED hostVars
  BY DEF Radio
(* A reception that ends leaves all that is on the air where it was.       *)
<1>e. ASSUME NEW n \in Node, NEW flag, EndRx(n, flag), mode[n] = "rx", air' \subseteq air,
             \A i \in Node \ {n} : rxTs'[i] = rxTs[i] /\ rxBuf'[i] = rxBuf[i],
             n = "I" /\ flag = "RXFCG" /\ rxBuf'["I"].kind = "resp"
               => Answers(rxBuf'["I"].data, rxTs'["I"]),
             n = "R" /\ flag = "RXFCG" /\ rxBuf'["R"].kind = "poll"
               => /\ rxTs'["R"] = clock["R"]
                  /\ SincePoll(clock["I"] + 0, FLIGHT) /\ OverBefore(0)
      PROVE  Exchange'
  <2>1. /\ UNCHANGED <<clock, rxDly, txTs, txBuf>>
        /\ mode'[n] = "idle" /\ left'[n] = 0 /\ status'[n] = status[n] \cup {flag}
        /\ \A i \in Node \ {n} : mode'[i] = mode[i] /\ left'[i] = left[i] /\ status'[i] = status[i]
    BY <1>n, <1>e DEF EndRx
  <2>2. "RXFCG" \notin status[n]
    BY <1>t, <1>n, <1>e DEF Phase, Asleep, RxWait, TxWait, NoRxFlag, RxMask
  <2>3. NextPoll' = NextPoll
    BY <1>t, <1>n, <1>e, <2>1 DEF NextPoll, Phase, Asleep, Node
  <2>4. PollOnAir' /\ ResponseOnAir'
    BY <1>t, <1>e, <2>1, <2>3 DEF PollOnAir, ResponseOnAir, SincePoll, OverBefore, Answers
  <2>5. ResponseArmed'
    BY <1>t, <1>n, <2>1, <2>3 DEF ResponseArmed, SincePoll, Answers, Node
  <2>6. ResponseTaken'
    <3>1. CASE n = "I"
      BY <1>e, <2>1, <2>2, <3>1 DEF ResponseTaken, Answers, SincePoll
    <3>2. CASE n = "R"
      BY <1>t, <1>n, <1>e, <2>1, <3>2 DEF ResponseTaken, Answers, SincePoll
    <3> QED BY <3>1, <3>2 DEF Node
  <2>7. PollTaken'
    <3>1. CASE n = "I"
      BY <1>t, <1>n, <1>e, <2>1, <2>3, <3>1 DEF PollTaken, HasPoll, SincePoll, OverBefore
    <3>2. CASE n = "R"
      <4>1. SUFFICES ASSUME HasPoll' PROVE PollTaken'
        BY DEF PollTaken
      <4>2. lag["R"] = 0 /\ flag = "RXFCG" /\ rxBuf'["R"].kind = "poll" /\ lag'["R"] = 0
        BY <1>t, <1>n, <1>e, <2>1, <2>2, <3>2, <4>1 DEF HasPoll, Roles
      <4>3. clock["R"] \in Timestamps /\ clock["R"] = (clock["R"] + 0) % TSMOD
        BY <1>t, Types, Numbers DEF Timestamps
      <4>4. 0 - lag'["R"] = 0
        BY <4>2
      <4>5. rxTs'["R"] = clock["R"] /\ SincePoll(clock["I"] + 0, FLIGHT) /\ OverBefore(0)
        BY <1>e, <3>2, <4>2
      <4>6. SincePoll(clock["I"] + 0, FLIGHT)' /\ OverBefore(0)'
        BY <2>1, <2>3, <4>5 DEF SincePoll, OverBefore
      <4> QED BY <2>1, <4>2, <4>3, <4>4, <4>5, <4>6 DEF PollTaken
    <3> QED BY <3>1, <3>2 DEF Node
  <2>8. Roles'
    BY <1>t, <1>n, <1>e, <2>1 DEF Roles, Node
  <2> QED BY <2>4, <2>5, <2>6, <2>7, <2>8 DEF Exchange
<1>1. ASSUME NEW n \in Node, Transmit(n) PROVE Exchange'
  BY <1>1, <1>r, ExchangeTransmits
<1>2. ASSUME NEW n \in Node, OpenRx(n) PROVE Exchange'
  <2>1. n = "I" /\ mode["I"] = "gap" /\ left["I"] = 0 /\ pc["I"] = "waitResp"
        /\ "RXFCG" \notin status["I"]
    BY <1>t, <1>n, <1>2 DEF OpenRx, Phase, Asleep, RxWait, TxWait, NoRxFlag, RxMask, Node
  <2>2. /\ UNCHANGED <<clock, rxDly, txTs, rxTs, txBuf, status, air>> /\ mode'["I"] = "rx"
        /\ mode'["R"] = mode["R"] /\ left'["R"] = left["R"] /\ rxBuf'["R"] = rxBuf["R"]
    BY <1>n, <1>2, <2>1 DEF OpenRx, Node
  <2>3. NextPoll' = NextPoll
    BY <1>n, <2>1, <2>2, Numbers DEF NextPoll
  <2>4. PollOnAir' /\ ResponseOnAir'
    BY <1>t, <2>2, <2>3, Undisturbed
  <2>5. PollTaken' /\ ResponseArmed'
    BY <1>t, <1>n, <2>2, <2>3
       DEF PollTaken, HasPoll, ResponseArmed, SincePoll, OverBefore, Answers
  <2>6. ResponseTaken' /\ Roles'
    BY <1>t, <1>n, <2>1, <2>2 DEF ResponseTaken, Roles
  <2> QED BY <2>4, <2>5, <2>6 DEF Exchange
<1>3. ASSUME NEW n \in Node, RxTimeout(n) PROVE Exchange'
  BY <1>e, <1>3 DEF RxTimeout
<1>4. ASSUME NEW m \in air, Receive(m) PROVE Exchange'
  <2>1. /\ m.to \in Node /\ m.left = 0 /\ mode[m.to] = "rx" /\ EndRx(m.to, "RXFCG")
        /\ air' \subseteq air /\ rxTs'[m.to] = clock[m.to] /\ rxBuf'[m.to] = m.frame
        /\ \A i \in Node \ {m.to} : rxTs'[i] = rxTs[i] /\ rxBuf'[i] = rxBuf[i]
    BY <1>t, <1>n, <1>4, Types DEF Receive
  <2>2. clock["I"] + m.left = clock["I"]
    BY <1>t, <2>1, Types
  <2>3. m.to = "I" /\ m.frame.kind = "resp" => Answers(rxBuf'["I"].data, rxTs'["I"])
    BY <1>t, <2>1, <2>2 DEF ResponseOnAir
  <2>4. m.to = "R" /\ m.frame.kind = "poll"
          => rxTs'["R"] = clock["R"] /\ SincePoll(clock["I"] + 0, FLIGHT) /\ OverBefore(0)
    BY <1>t, <2>1 DEF PollOnAir
  <2> QED BY <1>e, <2>1, <2>3, <2>4
<1>5. ASSUME NEW m \in air, Miss(m) PROVE Exchange'
  <2>1. UNCHANGED <<clock, chipVars, rxDly>> /\ air' \subseteq air
    BY <1>5 DEF Miss
  <2> QED
    BY <1>t, <1>n, <2>1
       DEF chipVars, Exchange, Roles, PollOnAir, PollTaken, ResponseArmed, ResponseOnAir,
           ResponseTaken, HasPoll, SincePoll, OverBefore, Answers, NextPoll
<1>6. ASSUME NEW m \in air, Corrupt(m) PROVE Exchange'
  <2>1. /\ m.to \in Node /\ mode[m.to] = "rx" /\ EndRx(m.to, "RXERR")
        /\ air' \subseteq air /\ UNCHANGED <<rxTs, rxBuf>>
    BY <1>t, <1>6, Types DEF Corrupt
  <2> QED BY <1>e, <2>1
<1>7. ASSUME NEW n \in Node, NEW k \in Foreign, Interfere(n, k) PROVE Exchange'
  <2>1. CASE k = "bad"
    BY <1>e, <1>7, <2>1 DEF Interfere
  <2>2. CASE k # "bad"
    <3>1. /\ mode[n] = "rx" /\ EndRx(n, "RXFCG") /\ air' \subseteq air
          /\ rxBuf'[n].kind \notin {"poll", "resp"}
          /\ \A i \in Node \ {n} : rxTs'[i] = rxTs[i] /\ rxBuf'[i] = rxBuf[i]
      BY <1>n, <1>7, <2>2 DEF Interfere, Frame, ForeignKinds
    <3> QED BY <1>e, <3>1
  <2> QED BY <2>1, <2>2
<1> QED
  BY <1>d, <1>1, <1>2, <1>3, <1>4, <1>5, <1>6, <1>7 DEF Radio, Hardware, Interference

(* A tick brings everything nearer, the next poll at most as much as what  *)
(* is left of the last.                                                    *)
LEMMA ExchangeTick ==
  ASSUME ReplyIsSwift, IInv, Tick
  PROVE  Exchange' /\ DistanceIsTrue'
<1>t. /\ TypeOK /\ \A i \in Node : Phase(i)
      /\ Roles /\ PollOnAir /\ PollTaken /\ ResponseArmed /\ ResponseOnAir /\ ResponseTaken
      /\ "I" \in Node /\ "R" \in Node
  BY DEF IInv, HostsChips, HostChip, Exchange, Node
<1>n. /\ UNCHANGED <<pc, mode, status, txTs, rxTs, txBuf, rxBuf, rxDly, twiceTof>>
      /\ \A n \in Node : /\ clock'[n] = (clock[n] + 1) % TSMOD
                         /\ mode[n] \in {"tx", "gap"} => left[n] > 0 /\ left'[n] = left[n] - 1
                         /\ nap'[n] = (IF nap[n] > 0 THEN nap[n] - 1 ELSE 0)
                         /\ lag'[n] = (IF HostDue(n) THEN lag[n] + 1 ELSE 0)
      /\ air' = {Nearer(m) : m \in air} /\ \A m \in air : m.left > 0
  BY DEF Tick, HostTick, LinkTick, CountsDown
<1>k. NextPoll' >= NextPoll - 1 /\ NextPoll \in Int /\ NextPoll' \in Int
  <2>1. /\ nap["I"] \in Nat /\ left["I"] \in Nat /\ RNG_DELAY \in Nat /\ NextPoll \in Int
    BY <1>t, Types, Numbers
  <2> QED BY <1>t, <1>n, <2>1 DEF NextPoll
<1>i. clock["I"] \in Int /\ txTs["I"] \in Int /\ clock'["I"] = (clock["I"] + 1) % TSMOD
  BY <1>t, <1>n, Types
<1>s. ASSUME NEW u \in Int, NEW v \in Int, SincePoll(clock["I"] + u, v)
      PROVE  SincePoll(clock["I"] + (u - 1), v)'
  <2>1. SameLo((((clock["I"] + 1) % TSMOD) + (u - 1)) - txTs["I"], v)
    BY <1>i, <1>s, SameLoTick DEF SincePoll
  <2> QED BY <1>i, <1>n, <2>1 DEF SincePoll
<1>a. ASSUME NEW u \in Int, NEW data, Answers(data, clock["I"] + u)
      PROVE  Answers(data, clock["I"] + (u - 1))'
  <2>1. PICK rx \in 0 .. LOMOD - 1, tx \in 0 .. LOMOD - 1,
             reply \in 0 .. POLL_RX_TO_RESP_TX_DLY + TX_ANT_DLY :
          /\ data = <<rx, tx>> /\ SameLo(tx - rx, reply)
          /\ SincePoll(clock["I"] + u, 2 * FLIGHT + reply)
    BY <1>a DEF Answers
  <2>2. 2 * FLIGHT + reply \in Int
    BY Numbers
  <2>3. SincePoll(clock["I"] + (u - 1), 2 * FLIGHT + reply)'
    BY <1>s, <2>1, <2>2
  <2> QED BY <2>1, <2>3 DEF Answers
<1>1. PollOnAir' /\ ResponseOnAir'
  <2>1. ASSUME NEW m \in air'
        PROVE  /\ m.frame.kind = "poll"
                    => SincePoll(clock["I"] + m.left, FLIGHT)' /\ OverBefore(m.left)'
               /\ m.frame.kind = "resp"
                    => m.left < NextPoll' /\ Answers(m.frame.data, clock["I"] + m.left)'
    <3>1. PICK o \in air : m = Nearer(o)
      BY <1>n
    <3>2. o.left \in Int /\ m.left = o.left - 1 /\ m.frame = o.frame
      BY <1>t, <3>1, Types DEF Nearer
    <3>3. CASE m.frame.kind = "poll"
      <4>1. SincePoll(clock["I"] + o.left, FLIGHT) /\ OverBefore(o.left)
        BY <1>t, <3>2, <3>3 DEF PollOnAir
      <4>2. SincePoll(clock["I"] + (o.left - 1), FLIGHT)'
        BY <1>s, <3>2, <4>1, Numbers
      <4>3. OverBefore(m.left)'
        BY <1>k, <3>2, <4>1, Numbers DEF OverBefore
      <4> QED BY <3>2, <3>3, <4>2, <4>3
    <3>4. CASE m.frame.kind = "resp"
      <4>1. o.left < NextPoll /\ Answers(o.frame.data, clock["I"] + o.left)
        BY <1>t, <3>2, <3>4 DEF ResponseOnAir
      <4>2. Answers(o.frame.data, clock["I"] + (o.left - 1))'
        BY <1>a, <3>2, <4>1
      <4> QED BY <1>k, <3>2, <3>4, <4>1, <4>2
    <3> QED BY <3>3, <3>4
  <2> QED BY <2>1 DEF PollOnAir, ResponseOnAir
<1>2. PollTaken'
  <2> SUFFICES ASSUME HasPoll' PROVE PollTaken'
    BY DEF PollTaken
  <2>1. HasPoll /\ HostDue("R") /\ lag'["R"] = lag["R"] + 1
    BY <1>t, <1>n
       DEF HasPoll, HostDue, Noticed, Awaited, TxPoints, DataPoints, RxMask
  <2>2. /\ lag["R"] \in Nat /\ clock["R"] \in Int /\ rxTs["R"] \in Int
    BY <1>t, Types
  <2>3. clock'["R"] = (rxTs["R"] + lag'["R"]) % TSMOD
    BY <1>t, <1>n, <2>1, <2>2, CountedOn DEF PollTaken
  <2>4. ASSUME lag'["R"] <= POLL_RX_TO_RESP_TX_DLY
        PROVE  SincePoll(clock["I"] + (0 - lag["R"]), FLIGHT)' /\ OverBefore(0 - lag["R"])'
    <3>1. SincePoll(clock["I"] + (0 - lag["R"]), FLIGHT) /\ OverBefore(0 - lag["R"])
      BY <1>t, <2>1, <2>2, <2>4, Numbers DEF PollTaken
    <3>2. 0 - lag["R"] \in Int /\ 0 - lag'["R"] = (0 - lag["R"]) - 1
      BY <2>1, <2>2
    <3>3. SincePoll(clock["I"] + (0 - lag["R"]), FLIGHT)'
      <4> DEFINE u == 0 - lag["R"]
      <4>1. u \in Int /\ SincePoll(clock["I"] + u, FLIGHT) /\ FLIGHT \in Int
        BY <3>1, <3>2, Numbers
      <4> HIDE DEF u
      <4>2. SameLo((((clock["I"] + 1) % TSMOD) + (u - 1)) - txTs["I"], FLIGHT)
        BY <1>i, <4>1, SameLoTick DEF SincePoll
      <4>3. u - 1 = 0 - lag'["R"]
        BY <3>2 DEF u
      <4> QED BY <1>i, <1>n, <4>2, <4>3 DEF SincePoll
    <3>4. OverBefore(0 - lag["R"])'
      BY <1>k, <2>2, <3>1, <3>2, Numbers DEF OverBefore
    <3> QED BY <3>3, <3>4
  <2> QED BY <1>n, <2>3, <2>4 DEF PollTaken
<1>3. ResponseArmed'
  <2> SUFFICES ASSUME mode'["R"] = "tx" PROVE ResponseArmed'
    BY DEF ResponseArmed
  <2> DEFINE u == left["R"] + FLIGHT
  <2>1. /\ mode["R"] = "tx" /\ left["R"] \in Int /\ left'["R"] = left["R"] - 1
        /\ u \in Int /\ left'["R"] + FLIGHT = u - 1
    BY <1>t, <1>n, Types, Numbers
  <2>2. txBuf["R"].kind = "resp" /\ u < NextPoll /\ Answers(txBuf["R"].data, clock["I"] + u)
    BY <1>t, <2>1 DEF ResponseArmed
  <2> HIDE DEF u
  <2>3. PICK rx \in 0 .. LOMOD - 1, tx \in 0 .. LOMOD - 1,
             reply \in 0 .. POLL_RX_TO_RESP_TX_DLY + TX_ANT_DLY :
          /\ txBuf["R"].data = <<rx, tx>> /\ SameLo(tx - rx, reply)
          /\ SincePoll(clock["I"] + u, 2 * FLIGHT + reply)
    BY <2>2 DEF Answers
  <2>4. 2 * FLIGHT + reply \in Int
    BY Numbers
  <2>5. SameLo((((clock["I"] + 1) % TSMOD) + (u - 1)) - txTs["I"], 2 * FLIGHT + reply)
    BY <1>i, <2>1, <2>3, <2>4, SameLoTick DEF SincePoll
  <2>6. SincePoll(clock["I"] + (left["R"] + FLIGHT), 2 * FLIGHT + reply)'
    BY <1>i, <1>n, <2>1, <2>5 DEF SincePoll
  <2>7. Answers(txBuf["R"].data, clock["I"] + (left["R"] + FLIGHT))'
    BY <1>n, <2>3, <2>6 DEF Answers
  <2> QED BY <1>k, <1>n, <2>1, <2>2, <2>7 DEF ResponseArmed
<1>4. ResponseTaken'
  BY <1>t, <1>n DEF ResponseTaken, Answers, SincePoll
<1>5. Roles'
  <2>1. pc["R"] = "waitData" /\ mode["R"] = "rx" => ~HostDue("R")
    BY <1>t
       DEF HostDue, Noticed, Awaited, Awake, Rested, TxPoints, DataPoints, Phase, RxWait,
           NoRxFlag, RxMask
  <2> QED BY <1>t, <1>n, <2>1 DEF Roles
<1>6. DistanceIsTrue'
  BY <1>n DEF IInv, DistanceIsTrue
<1> QED BY <1>1, <1>2, <1>3, <1>4, <1>5, <1>6 DEF Exchange
-----------------------------------------------------------------------------
(* The initiator only ever reports the true time of flight: whatever is    *)
(* lost, disturbed or late, for all values of clocks and delays for which  *)
(* an exchange is over before the next one starts.                         *)
THEOREM DistanceAlwaysTrue ==
  ASSUME ReplyIsSwift
  PROVE  Spec => []DistanceIsTrue
<1>1. Init => Exchange /\ DistanceIsTrue
  BY DEF Init, LinkInit, HostInit, NoFrame, Frame, Exchange, Roles, PollOnAir, PollTaken,
         HasPoll, ResponseArmed, ResponseOnAir, ResponseTaken, DistanceIsTrue, Node
<1>2. TypeOK /\ HostsChips /\ Exchange /\ DistanceIsTrue /\ [Next]_vars
        => (Exchange /\ DistanceIsTrue)'
  <2> SUFFICES ASSUME IInv, [Next]_vars PROVE Exchange' /\ DistanceIsTrue'
    BY DEF IInv
  <2>1. CASE UNCHANGED vars
    BY <2>1
       DEF IInv, vars, linkVars, chipVars, hostVars, pollVars, Exchange, Roles, PollOnAir,
           PollTaken, HasPoll, ResponseArmed, ResponseOnAir, ResponseTaken, Answers,
           SincePoll, OverBefore, NextPoll, DistanceIsTrue
  <2> QED
    BY <2>1, ExchangeInitiator, ExchangeResponder, ExchangeRadio, ExchangeTick DEF Next
<1> QED BY <1>1, <1>2, TypeCorrect, HostsChipsInvariant, PTL DEF Spec
=============================================================================
