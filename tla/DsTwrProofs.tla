---------------------------- MODULE DsTwrProofs ----------------------------
(***************************************************************************)
(* What holds of DsTwr for every value of its constants: every wait of the *)
(* two ranging loops ends (WaitWillEnd), never because of a stale flag     *)
(* (NoStaleEvent), every variable keeps its type, the distance of an       *)
(* exchange whose frames were read is the true one (DistanceIsTrue), and   *)
(* on a clean channel every window contains its frame                      *)
(* (NoTimeoutOnceRanging).                                                 *)
(*                                                                         *)
(* The first two follow from HostChip of PolledHostProofs, which also the  *)
(* actions of the two hosts preserve. For the distance an invariant says   *)
(* of every frame on its way, and of every one that waits or was taken,    *)
(* what it has to do with the last poll and the last response. For the     *)
(* windows another one says that an undisturbed exchange is always in one  *)
(* of nine situations, and how far it is from the next.                    *)
(***************************************************************************)
EXTENDS DsTwr, PolledHostProofs

(* The points of each loop.                                                *)
Loops == /\ pc["I"] \in {"sleep", "waitResp", "waitTx"}
         /\ pc["R"] \in {"sleep", "listen", "waitFinal"}

HostsChips == HostChip /\ Loops
-----------------------------------------------------------------------------
(* Every action of the initiator's loop preserves the invariant.           *)
LEMMA InitiatorStep == HostsChips /\ Initiator => HostsChips'
  <1> SUFFICES ASSUME HostsChips, Initiator PROVE HostsChips'
    OBVIOUS
  <1> USE DEF HostsChips, Loops, HostChip, Shape, Phase, Asleep, RxWait,
              TxWait, NoRxFlag, OneRxFlag, Untimed, RxMask, Flags, Modes,
              Points, PlainPoints, TxPoints, DataPoints, RespPoints, Node,
              Rest
  <1>1. CASE SendPoll
    BY <1>1 DEF SendPoll, Awake, Rested, StartTxNow, StartTx, Goto,
                ClearedBeforePoll
  <1>2. CASE RecvResponse
    BY <1>2 DEF RecvResponse, InitiatorGotFrame, StartTxAt, StartTx, Goto
  <1>3. CASE RecvResponseLate
    BY <1>3 DEF RecvResponseLate, InitiatorGotFrame, FailTx, Sleep
  <1>4. CASE RecvNoResponse
    BY <1>4 DEF RecvNoResponse, InitiatorGotFrame, ClearFlags, Sleep
  <1>5. CASE ResponseFailed
    BY <1>5 DEF ResponseFailed, Noticed, Awaited, ClearFlags, Sleep,
                ClearedAfterFailure
  <1>6. CASE FinalSent
    BY <1>6 DEF FinalSent, Noticed, Awaited, ClearFlags, Sleep
  <1>7. CASE ResponseDistrusted
    BY <1>7 DEF ResponseDistrusted, ClearFlags, Sleep
  <1>8. QED
    BY <1>1, <1>2, <1>3, <1>4, <1>5, <1>6, <1>7 DEF Initiator

(* Every action of the responder's loop preserves the invariant.           *)
LEMMA ResponderStep == HostsChips /\ Responder => HostsChips'
  <1> SUFFICES ASSUME HostsChips, Responder PROVE HostsChips'
    OBVIOUS
  <1> USE DEF HostsChips, Loops, HostChip, Shape, Phase, Asleep, RxWait,
              TxWait, NoRxFlag, OneRxFlag, Untimed, RxMask, Flags, Modes,
              Points, PlainPoints, TxPoints, DataPoints, RespPoints, Node,
              Rest
  <1>1. CASE Listen
    BY <1>1 DEF Listen, Awake, Rested, EnableRx, Goto
  <1>2. CASE RecvPoll
    BY <1>2 DEF RecvPoll, ResponderGotPoll, ResponderGotFrame, StartTxAt,
                StartTx, Goto
  <1>3. CASE RecvPollLate
    BY <1>3 DEF RecvPollLate, ResponderGotPoll, ResponderGotFrame, FailTx,
                Sleep
  <1>4. CASE RecvNoPoll
    BY <1>4 DEF RecvNoPoll, ResponderGotFrame, ClearFlags, Sleep
  <1>5. CASE RecvFinal
    BY <1>5 DEF RecvFinal, ResponderGotFrame, ClearFlags, Sleep
  <1>6. CASE RecvNoFinal
    BY <1>6 DEF RecvNoFinal, ResponderGotFrame, ClearFlags, Sleep
  <1>7. CASE ResponderFailed
    BY <1>7 DEF ResponderFailed, Noticed, Awaited, ClearFlags, Sleep
  <1>8. CASE FrameDistrusted
    BY <1>8 DEF FrameDistrusted, ClearFlags, Sleep
  <1>9. QED
    BY <1>1, <1>2, <1>3, <1>4, <1>5, <1>6, <1>7, <1>8 DEF Responder

(* The invariant holds in every reachable state.                           *)
THEOREM HostsChipsInvariant == Spec => []HostsChips
  <1>1. Init => HostsChips
    BY HostChipStart DEF Init, HostInit, HostsChips, Loops, Node
  <1>2. HostsChips /\ Radio => HostsChips'
    BY HostChipRadio DEF HostsChips, Loops, Radio, hostVars, pollVars
  <1>3. HostsChips /\ Tick => HostsChips'
    BY HostChipTick DEF HostsChips, Loops, Tick, HostTick
  <1>4. HostsChips /\ UNCHANGED vars => HostsChips'
    BY HostChipStutter DEF HostsChips, Loops, vars, hostVars, pollVars
  <1>5. HostsChips /\ [Next]_vars => HostsChips'
    BY InitiatorStep, ResponderStep, <1>2, <1>3, <1>4 DEF Next
  <1>6. QED
    BY <1>1, <1>5, PTL DEF Spec
-----------------------------------------------------------------------------
(* Every busy-wait of the two loops ends: while a host waits its chip is   *)
(* at work or an awaited flag is up.                                       *)
THEOREM WaitsEnd == Spec => []WaitWillEnd
  <1>1. HostsChips => WaitWillEnd
    BY HostChipWaits DEF HostsChips
  <1>2. QED
    BY HostsChipsInvariant, <1>1, PTL

(* No busy-wait is ended by a flag that an earlier operation left up.      *)
THEOREM NoStaleEvents == Spec => []NoStaleEvent
  <1>1. HostsChips => NoStaleEvent
    BY HostChipWaits DEF HostsChips
  <1>2. QED
    BY HostsChipsInvariant, <1>1, PTL
-----------------------------------------------------------------------------
(* The frames without numbers that the nodes and the air produce.          *)
LEMMA FrameTypes ==
  /\ Carries(Frames)
  /\ \A k \in {"poll", "resp"} : Frame(k, <<>>) \in Frames
  BY DEF Carries, NoFrame, Frame, Frames

(* The final message carries three 32-bit timestamps.                      *)
LEMMA FinalFrameType == TypeOK => FinalFrame \in Frames
  <1> SUFFICES ASSUME TypeOK PROVE FinalFrame \in Frames
    OBVIOUS
  <1>1. txTs["I"] \in Int /\ rxTs["I"] \in Timestamps /\ rxTs["I"] \in Int
    BY DEF TypeOK, LinkTypeOK, Timestamps, Node
  <1>2. DelayedTxTs(rxTs["I"], RESP_RX_TO_FINAL_TX_DLY) \in Int
    BY <1>1, DelayedTypes, DsAssumption
  <1> DEFINE a == MsgTs(txTs["I"])
             b == MsgTs(rxTs["I"])
             c == MsgTs(DelayedTxTs(rxTs["I"], RESP_RX_TO_FINAL_TX_DLY))
  <1>3. a \in 0 .. LOMOD - 1 /\ b \in 0 .. LOMOD - 1 /\ c \in 0 .. LOMOD - 1
    BY <1>1, <1>2, TimeTypes
  <1>4. <<a, b, c>> \in Seq(0 .. LOMOD - 1)
    <2> HIDE DEF a, b, c
    <2> QED BY <1>3
  <1>5. QED
    BY <1>4 DEF FinalFrame, Frame, Frames

(* The initial states have the right types.                                *)
LEMMA TypeInit == Init => TypeOK
  <1> SUFFICES ASSUME Init PROVE TypeOK
    OBVIOUS
  <1>1. LinkTypeOK(Frames) /\ HostTypeOK(Frames)
    BY TypesStart, FrameTypes, DsAssumption DEF Init
  <1>2. 0 \in Timestamps /\ 0 \in 0 .. MaxPolls /\ Len(tof) = 0
    BY TimeAssumption, DsAssumption DEF Timestamps, Init
  <1>3. QED
    BY <1>1, <1>2 DEF Init, HostInit, TypeOK, Node

(* The initiator's loop keeps the types.                                   *)
LEMMA TypeInitiator == TypeOK /\ Initiator => TypeOK'
  <1> SUFFICES ASSUME TypeOK, Initiator PROVE TypeOK'
    OBVIOUS
  <1>0. FinalTime \in Int
    BY DelayedTypes, DsAssumption DEF FinalTime, TypeOK, LinkTypeOK, Node
  <1> DEFINE d == TicksTo("I", FinalTime) + TX_ANT_DLY
  <1>d. d \in Nat
    BY <1>0, TicksType DEF Node, TypeOK
  <1>f. ReadFrame("I") \in Frames
    BY DEF ReadFrame, TypeOK, HostTypeOK, LinkTypeOK, Node
  <1> USE LinkAssumption, DsAssumption, FrameTypes
      DEF TypeOK, HostTypeOK, Points, TxPoints, DataPoints,
          RespPoints, LinkTypeOK, Node, Flags, RxMask, Modes, Rest
  <1>1. CASE SendPoll
    BY <1>1 DEF SendPoll, Awake, StartTxNow, StartTx, Goto, ClearedBeforePoll
  <1>2. CASE RecvResponse
    <2> HIDE DEF d
    <2>1. d = TicksTo("I", FinalTime) + TX_ANT_DLY
      BY DEF d
    <2> QED
      BY <1>2, <1>d, <1>f, <2>1, FinalFrameType
         DEF RecvResponse, InitiatorGotFrame, StartTxAt, StartTx, Goto, Take
  <1>3. CASE RecvResponseLate
    BY <1>3, <1>f DEF RecvResponseLate, InitiatorGotFrame, FailTx, Sleep, Take
  <1>4. CASE RecvNoResponse
    BY <1>4, <1>f DEF RecvNoResponse, InitiatorGotFrame, ClearFlags, Sleep
  <1>5. CASE ResponseFailed
    BY <1>5 DEF ResponseFailed, ClearFlags, Sleep
  <1>6. CASE FinalSent
    BY <1>6 DEF FinalSent, ClearFlags, Sleep
  <1>7. CASE ResponseDistrusted
    BY <1>7 DEF ResponseDistrusted, ClearFlags, Sleep
  <1>8. QED
    BY <1>1, <1>2, <1>3, <1>4, <1>5, <1>6, <1>7 DEF Initiator

(* The responder's loop keeps the types.                                   *)
LEMMA TypeResponder == TypeOK /\ Responder => TypeOK'
  <1> SUFFICES ASSUME TypeOK, Responder PROVE TypeOK'
    OBVIOUS
  <1>0. ResponseTime \in Int
    BY DelayedTypes, DsAssumption DEF ResponseTime, TypeOK, LinkTypeOK, Node
  <1>d. TicksTo("R", ResponseTime) + TX_ANT_DLY \in Nat
    BY <1>0, TicksType DEF Node, TypeOK
  <1>f. ReadFrame("R") \in Frames
    BY DEF ReadFrame, TypeOK, HostTypeOK, LinkTypeOK, Node
  <1>n. 0 \in Nat /\ 0 \in 0 .. MaxLag
    BY LinkAssumption
  <1>c. NoFrame \in Frames
    BY FrameTypes DEF Carries
  <1> USE <1>n, <1>c, DsAssumption, FrameTypes
      DEF TypeOK, HostTypeOK, Points, TxPoints, DataPoints,
          RespPoints, LinkTypeOK, Node, Flags, RxMask, Modes, Rest
  <1>1. CASE Listen
    BY <1>1 DEF Listen, Awake, EnableRx, Goto
  <1>2. CASE RecvPoll
    BY <1>2, <1>d, <1>f
       DEF RecvPoll, ResponderGotPoll, ResponderGotFrame, StartTxAt, StartTx,
           Goto, Take
  <1>3. CASE RecvPollLate
    BY <1>3, <1>f DEF RecvPollLate, ResponderGotPoll, ResponderGotFrame, FailTx,
                      Sleep, Take
  <1>4. CASE RecvNoPoll
    BY <1>4, <1>f DEF RecvNoPoll, ResponderGotFrame, ClearFlags, Sleep
  <1>5. CASE RecvFinal
    <2>1. Len(tof') = 1
      BY <1>5 DEF RecvFinal
    <2>2. QED
      BY <1>5, <1>f, <2>1 DEF RecvFinal, ResponderGotFrame, ClearFlags, Sleep
  <1>6. CASE RecvNoFinal
    BY <1>6, <1>f DEF RecvNoFinal, ResponderGotFrame, ClearFlags, Sleep
  <1>7. CASE ResponderFailed
    BY <1>7 DEF ResponderFailed, ClearFlags, Sleep
  <1>8. CASE FrameDistrusted
    BY <1>8 DEF FrameDistrusted, ClearFlags, Sleep
  <1>9. QED
    BY <1>1, <1>2, <1>3, <1>4, <1>5, <1>6, <1>7, <1>8 DEF Responder

(* Every variable keeps its type: clocks and timestamps within 40 bits,    *)
(* the copies in frames within 32, countdowns never negative.              *)
THEOREM TypeCorrect == Spec => []TypeOK
  <1>1. TypeOK /\ UNCHANGED vars => TypeOK'
    BY DEF TypeOK, HostTypeOK, LinkTypeOK, vars, linkVars, chipVars, hostVars,
           pollVars
  <1>2. TypeOK /\ Radio => TypeOK'
    BY LinkTypesRadio, FrameTypes, LinkAssumption
       DEF TypeOK, HostTypeOK, Radio, hostVars, pollVars
  <1>3. TypeOK /\ Tick => TypeOK'
    <2> SUFFICES ASSUME TypeOK, Tick PROVE TypeOK'
      OBVIOUS
    <2> DEFINE due == {n \in Node : HostDue(n)}
    <2>1. LinkTypeOK(Frames)'
      BY LinkTypesTick DEF TypeOK, Tick, HostTick
    <2>2. HostTypeOK(Frames)'
      <3>1. HostTick(due) /\ HostTypeOK(Frames)
        BY DEF TypeOK, Tick
      <3> HIDE DEF due
      <3>2. QED
        BY <3>1, HostTypesTick
    <2>3. QED
      BY <2>1, <2>2 DEF TypeOK, Tick, HostTick
  <1>4. TypeOK /\ [Next]_vars => TypeOK'
    BY <1>1, <1>2, <1>3, TypeInitiator, TypeResponder DEF Next
  <1>5. QED
    BY TypeInit, <1>4, PTL DEF Spec
(* The distance. An answer to a poll has come or been missed before the    *)
(* next poll leaves, and so has the final message; a frame is received or  *)
(* missed before its sender's receiver turns on; both round trips fit the  *)
(* 32-bit copies; and a host that is too late for its delayed transmission *)
(* finds the time behind its clock.                                        *)
ExchangeIsSwift ==
  /\ 2 * FLIGHT + POLL_RX_TO_RESP_TX_DLY + TX_ANT_DLY
       < POLL_TX_TO_RESP_RX_DLY + RNG_DELAY
  /\ FLIGHT < RNG_DELAY
  /\ FLIGHT < POLL_TX_TO_RESP_RX_DLY /\ FLIGHT < RESP_TX_TO_FINAL_RX_DLY
  /\ 2 * FLIGHT + POLL_RX_TO_RESP_TX_DLY + TX_ANT_DLY < LOMOD
  /\ 2 * FLIGHT + RESP_RX_TO_FINAL_TX_DLY + TX_ANT_DLY < LOMOD
  /\ MaxLag + QUANTUM <= TSMOD \div 2

(* The responder has read the poll, the initiator the response it took     *)
(* last. After an unread one a response leaves without a poll, or a final  *)
(* without a response, at any time and with any timestamps.                *)
PollRead     == "R" \notin unread
ResponseRead == "I" \notin unread

(* The ticks from now before which no further poll leaves.                 *)
NextPoll == IF pc["I"] = "sleep" THEN nap["I"]
            ELSE IF pc["I"] = "waitResp" /\ mode["I"] = "tx" THEN 0
            ELSE IF mode["I"] \in {"tx", "gap"} THEN left["I"] + RNG_DELAY ELSE RNG_DELAY

(* How far an exchange has come. The poll, the response and the final are  *)
(* on the air, and between them ...                                        *)
OnItsWay(k) == \E m \in air : m.frame.kind = k
HasPoll     == pc["R"] = "listen" /\ "RXFCG" \in status["R"] /\ rxBuf["R"].kind = "poll"
InTime      == lag["R"] <= POLL_RX_TO_RESP_TX_DLY
Responding  == PollRead /\ (mode["R"] = "tx" \/ OnItsWay("resp"))
HasResponse == pc["I"] = "waitResp" /\ "RXFCG" \in status["I"] /\ rxBuf["I"].kind = "resp"
FinalArmed  == pc["I"] = "waitTx" /\ mode["I"] = "tx"
HasFinal    == pc["R"] = "waitFinal" /\ "RXFCG" \in status["R"] /\ rxBuf["R"].kind = "final"

(* ... but of the frames that rest on a read one never two of these at     *)
(* once, except that the responder may sleep over a poll until the next is *)
(* on its way.                                                             *)
OneAtATime ==
  /\ \A m, o \in air : m.frame.kind = o.frame.kind => m = o
  /\ HasResponse => ~HasPoll /\ ~HasFinal
  /\ HasPoll /\ InTime => ~OnItsWay("poll")
  /\ Responding => ~HasResponse /\ ~OnItsWay("poll")
  /\ ResponseRead /\ (HasPoll \/ Responding) => ~FinalArmed /\ ~OnItsWay("final")

(* Where the sender of a frame on the air is: its receiver is not yet on,  *)
(* or it expects nothing and no poll follows.                              *)
Placed == \A m \in air :
  /\ m.frame.kind \in {"poll", "resp", "final"}
  /\ m.frame.kind = "poll"  => pc["I"] = "waitResp" /\ mode["I"] = "gap" /\ m.left < left["I"]
  /\ m.frame.kind = "resp"  => pc["R"] = "waitFinal" /\ mode["R"] = "gap" /\ m.left < left["R"]
  /\ m.frame.kind = "final" => pc["I"] \in {"sleep", "waitTx"} /\ mode["I"] = "idle"
                               /\ m.left < NextPoll

(* By the clock of the initiator, if that waits for a response, "due" is   *)
(* "t" ticks after its last poll, and by that of the responder after its   *)
(* last response, as far as the 32-bit copies tell.                        *)
SincePoll(due, t)     == pc["I"] = "waitResp" => SameLo(due - txTs["I"], t)
SinceResponse(due, t) == SameLo(due - txTs["R"], t)

(* A response that leaves when the responder's clock shows "resp" and      *)
(* comes when the initiator's shows "due" answers the last poll.           *)
Answers(resp, due) ==
  \E reply \in 0 .. POLL_RX_TO_RESP_TX_DLY + TX_ANT_DLY :
    SameLo(resp - pollRxTs, reply) /\ SincePoll(due, 2 * FLIGHT + reply)

(* A final that comes when the responder's clock shows "due" ends the      *)
(* exchange of the responder's last response.                              *)
Ends(data, due) ==
  \E pollTx, respRx, finalTx \in 0 .. LOMOD - 1,
     reply \in 0 .. POLL_RX_TO_RESP_TX_DLY + TX_ANT_DLY,
     last \in 0 .. RESP_RX_TO_FINAL_TX_DLY + TX_ANT_DLY :
    /\ data = <<pollTx, respRx, finalTx>>
    /\ SameLo(txTs["R"] - pollRxTs, reply) /\ SameLo(respRx - pollTx, 2 * FLIGHT + reply)
    /\ SameLo(finalTx - respRx, last) /\ SinceResponse(due, 2 * FLIGHT + last)

(* What the responder may still do after "t" ticks is over before the next *)
(* poll.                                                                   *)
OverBefore(t) == t + POLL_RX_TO_RESP_TX_DLY + TX_ANT_DLY + FLIGHT < NextPoll

(* Each frame on the air and each that waits belongs to the last exchange, *)
(* if it rests on read ones.                                               *)
OnAir == \A m \in air :
  /\ m.frame.kind = "poll" => SincePoll(clock["I"] + m.left, FLIGHT) /\ OverBefore(m.left)
  /\ m.frame.kind = "resp" /\ PollRead =>
       /\ m.left < NextPoll /\ Answers(txTs["R"], clock["I"] + m.left)
       /\ SinceResponse(clock["R"] + m.left, FLIGHT)
  /\ m.frame.kind = "final" /\ unread = {} => Ends(m.frame.data, clock["R"] + m.left)

PollTaken == HasPoll =>
  /\ clock["R"] = (rxTs["R"] + lag["R"]) % TSMOD
  /\ InTime => SincePoll(clock["I"] + (0 - lag["R"]), FLIGHT) /\ OverBefore(0 - lag["R"])

ResponseArmed == mode["R"] = "tx" =>
  /\ txBuf["R"].kind = "resp"
  /\ PollRead => /\ left["R"] + FLIGHT < NextPoll
                 /\ Answers(clock["R"] + left["R"], clock["I"] + (left["R"] + FLIGHT))

ResponseTaken == HasResponse =>
  /\ clock["I"] = (rxTs["I"] + lag["I"]) % TSMOD
  /\ PollRead => /\ Answers(txTs["R"], rxTs["I"])
                 /\ SinceResponse(clock["R"] + (0 - lag["I"]), FLIGHT)

FinalComing == FinalArmed =>
  /\ txBuf["I"].kind = "final"
  /\ unread = {} => Ends(txBuf["I"].data, clock["R"] + (left["I"] + FLIGHT))

FinalTaken == HasFinal /\ unread = {} => Ends(rxBuf["R"].data, rxTs["R"])

(* Who sends what and hears what; a host whose chip works is not late; the *)
(* responder that waits for a final has a poll in its buffer.              *)
Roles == /\ pc["I"] = "waitResp" /\ mode["I"] = "tx" => txBuf["I"].kind = "poll"
         /\ rxDly["I"] = POLL_TX_TO_RESP_RX_DLY
         /\ pc["R"] = "listen" /\ mode["R"] # "idle" => lag["R"] = 0
         /\ pc["I"] = "waitResp" /\ mode["I"] # "idle" => lag["I"] = 0
         /\ pc["R"] = "waitFinal" => rxDly["R"] = RESP_TX_TO_FINAL_RX_DLY
                                     /\ buf["R"].kind = "poll"

Exchange == /\ Roles /\ OneAtATime /\ Placed /\ OnAir /\ PollTaken /\ ResponseArmed
            /\ ResponseTaken /\ FinalComing /\ FinalTaken
IInv     == TypeOK /\ HostsChips /\ Exchange

LEMMA Numbers ==
  /\ FLIGHT \in Nat /\ FLIGHT > 0 /\ POLL_TX_TO_RESP_RX_DLY \in Nat /\ RNG_DELAY \in Nat
  /\ RESP_TX_TO_FINAL_RX_DLY \in Nat
  /\ POLL_RX_TO_RESP_TX_DLY \in Nat /\ RESP_RX_TO_FINAL_TX_DLY \in Nat
  /\ TX_ANT_DLY \in Nat /\ MaxLag \in Nat
  /\ LOMOD \in Nat \ {0} /\ TSMOD \in Nat \ {0} /\ QUANTUM \in Nat \ {0}
  BY DsAssumption, LinkAssumption, TimeAssumption

LEMMA Types ==
  ASSUME TypeOK
  PROVE  /\ \A n \in Node : /\ clock[n] \in Int /\ left[n] \in Nat /\ txTs[n] \in Int
                            /\ rxTs[n] \in Int /\ lag[n] \in Nat /\ nap[n] \in Nat
                            /\ clock[n] \in Timestamps /\ rxTs[n] \in Timestamps
         /\ \A m \in air : m.left \in Nat /\ m.to \in Node
         /\ NextPoll \in Nat /\ pollRxTs \in Int
  <1>1. LinkTypeOK(Frames) /\ HostTypeOK(Frames) /\ pollRxTs \in Timestamps
    BY DEF TypeOK
  <1>2. NextPoll \in Nat
    <2>1. "I" \in Node
      BY DEF Node
    <2> QED BY <1>1, <2>1, LinkNumbers, Numbers DEF NextPoll
  <1>3. pollRxTs \in Int
    BY <1>1 DEF Timestamps
  <1> QED BY <1>1, <1>2, <1>3, LinkNumbers

(* The formula finds the flight in what such a final message says.         *)
LEMMA RangingIsExact ==
  ASSUME ExchangeIsSwift, TypeOK, NEW data, Ends(data, rxTs["R"])
  PROVE  DsTof(data[1], MsgTs(pollRxTs), MsgTs(txTs["R"]), data[2], data[3],
               MsgTs(rxTs["R"])) = FLIGHT
  <1> DEFINE D == POLL_RX_TO_RESP_TX_DLY + TX_ANT_DLY
             E == RESP_RX_TO_FINAL_TX_DLY + TX_ANT_DLY
  <1>1. PICK pollTx \in 0 .. LOMOD - 1, respRx \in 0 .. LOMOD - 1, finalTx \in 0 .. LOMOD - 1,
             reply \in 0 .. D, last \in 0 .. E :
          /\ data = <<pollTx, respRx, finalTx>>
          /\ SameLo(txTs["R"] - pollRxTs, reply) /\ SameLo(respRx - pollTx, 2 * FLIGHT + reply)
          /\ SameLo(finalTx - respRx, last)
          /\ SameLo(rxTs["R"] - txTs["R"], 2 * FLIGHT + last)
    BY DEF Ends, SinceResponse
  <1>2. /\ reply \in Nat /\ last \in Nat /\ reply \in 0 .. LOMOD - 1 /\ last \in 0 .. LOMOD - 1
        /\ 2 * FLIGHT + reply \in 0 .. LOMOD - 1 /\ 2 * FLIGHT + last \in 0 .. LOMOD - 1
    BY <1>1, Numbers DEF ExchangeIsSwift
  <1>3. txTs["R"] \in Int /\ rxTs["R"] \in Int /\ pollRxTs \in Int
    BY Types DEF Node
  <1>4. Sub32(respRx, pollTx) = 2 * FLIGHT + reply
    <2>1. respRx - pollTx \in Int
      BY Numbers
    <2> QED BY <1>1, <1>2, <2>1, SameLoExact DEF Sub32
  <1>5. Sub32(MsgTs(rxTs["R"]), MsgTs(txTs["R"])) = 2 * FLIGHT + last
    BY <1>1, <1>2, <1>3, CopiesSubtract
  <1>6. Sub32(finalTx, respRx) = last
    <2>1. finalTx - respRx \in Int
      BY Numbers
    <2> QED BY <1>1, <1>2, <2>1, SameLoExact DEF Sub32
  <1>7. Sub32(MsgTs(txTs["R"]), MsgTs(pollRxTs)) = reply
    BY <1>1, <1>2, <1>3, CopiesSubtract
  <1>8. TruncDiv((2 * FLIGHT + reply) * (2 * FLIGHT + last) - last * reply,
                 (2 * FLIGHT + reply) + (2 * FLIGHT + last) + last + reply) = FLIGHT
    BY <1>2, Numbers, AsymmetricRounds
  <1> QED BY <1>1, <1>4, <1>5, <1>6, <1>7, <1>8 DEF DsTof
-----------------------------------------------------------------------------
(* What leaves the clocks, the last poll and the last response alone       *)
(* leaves the frames on their way as they are, and brings no poll nearer.  *)
LEMMA Undisturbed ==
  ASSUME UNCHANGED <<clock, txTs>>, air' \subseteq air, OnAir, TypeOK,
         NextPoll' \in Int, NextPoll' >= NextPoll,
         pc'["I"] = "waitResp" => pc["I"] = "waitResp",
         OnItsWay("resp") /\ PollRead' => PollRead /\ UNCHANGED pollRxTs,
         OnItsWay("final") /\ unread' = {} => unread = {} /\ UNCHANGED pollRxTs
  PROVE  OnAir'
<1> SUFFICES ASSUME NEW m \in air'
             PROVE  /\ m.frame.kind = "poll"
                         => SincePoll(clock["I"] + m.left, FLIGHT)' /\ OverBefore(m.left)'
                    /\ m.frame.kind = "resp" /\ PollRead' =>
                         /\ m.left < NextPoll' /\ Answers(txTs["R"], clock["I"] + m.left)'
                         /\ SinceResponse(clock["R"] + m.left, FLIGHT)'
                    /\ m.frame.kind = "final" /\ unread' = {}
                         => Ends(m.frame.data, clock["R"] + m.left)'
  BY DEF OnAir
<1>1. m \in air /\ m.left \in Nat /\ NextPoll \in Nat
  BY Types
<1>2. ASSUME m.frame.kind = "poll"
      PROVE  SincePoll(clock["I"] + m.left, FLIGHT)' /\ OverBefore(m.left)'
  <2>1. SincePoll(clock["I"] + m.left, FLIGHT) /\ OverBefore(m.left)
    BY <1>1, <1>2 DEF OnAir
  <2> QED BY <1>1, <2>1, Numbers DEF SincePoll, OverBefore
<1>3. ASSUME m.frame.kind = "resp", PollRead'
      PROVE  /\ m.left < NextPoll' /\ Answers(txTs["R"], clock["I"] + m.left)'
             /\ SinceResponse(clock["R"] + m.left, FLIGHT)'
  <2>1. OnItsWay("resp")
    BY <1>1, <1>3 DEF OnItsWay
  <2>2. /\ m.left < NextPoll /\ Answers(txTs["R"], clock["I"] + m.left)
        /\ SinceResponse(clock["R"] + m.left, FLIGHT)
    BY <1>1, <1>3, <2>1 DEF OnAir
  <2>3. Answers(txTs["R"], clock["I"] + m.left)' /\ SinceResponse(clock["R"] + m.left, FLIGHT)'
    BY <1>3, <2>1, <2>2 DEF Answers, SincePoll, SinceResponse
  <2> QED BY <1>1, <2>2, <2>3
<1>4. ASSUME m.frame.kind = "final", unread' = {}
      PROVE  Ends(m.frame.data, clock["R"] + m.left)'
  <2>1. OnItsWay("final")
    BY <1>1, <1>4 DEF OnItsWay
  <2> QED BY <1>1, <1>4, <2>1 DEF OnAir, Ends, SinceResponse
<1> QED BY <1>2, <1>3, <1>4

(* The same of the poll that was received and the response that waits.     *)
LEMMA StillTaken ==
  ASSUME UNCHANGED clock, txTs'["I"] = txTs["I"], TypeOK, PollTaken, ResponseArmed,
         NextPoll' \in Int, NextPoll' >= NextPoll,
         pc'["I"] = "waitResp" => pc["I"] = "waitResp",
         UNCHANGED pollRxTs, PollRead' = PollRead, HasPoll' = HasPoll, lag'["R"] = lag["R"],
         rxTs'["R"] = rxTs["R"], mode'["R"] = mode["R"], left'["R"] = left["R"],
         txBuf'["R"] = txBuf["R"]
  PROVE  PollTaken' /\ ResponseArmed'
<1>1. NextPoll \in Nat /\ lag["R"] \in Nat /\ left["R"] \in Nat
  BY Types DEF Node
<1>2. PollTaken'
  BY <1>1, Numbers DEF PollTaken, InTime, SincePoll, OverBefore
<1>3. ResponseArmed'
  BY <1>1, Numbers DEF ResponseArmed, Answers, SincePoll
<1> QED BY <1>2, <1>3

(* The initiator's steps: no frame leaves during one, and the final        *)
(* message it prepares ends the exchange of the response, however late the *)
(* host looks at that.                                                     *)
LEMMA ExchangeInitiator ==
  ASSUME ExchangeIsSwift, IInv, Initiator
  PROVE  Exchange'
<1>t. /\ TypeOK /\ Phase("I") /\ "I" \in Node /\ "R" \in Node
      /\ Roles /\ OneAtATime /\ Placed /\ OnAir /\ PollTaken /\ ResponseArmed /\ ResponseTaken
      /\ FinalComing /\ FinalTaken
  BY DEF IInv, HostsChips, HostChip, Exchange, Node
<1>n. /\ nap["I"] \in Nat /\ RNG_DELAY \in Nat /\ pc["I"] \in {"sleep", "waitResp", "waitTx"}
      /\ pc \in [Node -> Points] /\ mode \in [Node -> Modes] /\ nap \in [Node -> Nat]
      /\ status \in [Node -> SUBSET Flags] /\ txBuf \in [Node -> Frames]
      /\ lag \in [Node -> 0 .. MaxLag] /\ left \in [Node -> Nat] /\ buf \in [Node -> Frames]
      /\ NextPoll \in Nat /\ \A m \in air : m.left \in Nat
  BY <1>t, Numbers, Types DEF TypeOK, LinkTypeOK, HostTypeOK
<1>1. /\ UNCHANGED <<clock, txTs, rxTs, rxBuf, air, rxDly, pollRxTs, tof, sdc>>
      /\ pc'["R"] = pc["R"] /\ mode'["R"] = mode["R"] /\ status'["R"] = status["R"]
      /\ lag'["R"] = lag["R"] /\ left'["R"] = left["R"] /\ txBuf'["R"] = txBuf["R"]
      /\ buf'["R"] = buf["R"] /\ PollRead' = PollRead
  <2>1. CASE SendPoll
    BY <1>t, <1>n, <2>1 DEF SendPoll, StartTxNow, StartTx, Goto, Rest, Node, PollRead
  <2>2. CASE RecvResponse
    BY <1>t, <1>n, <2>2
       DEF RecvResponse, InitiatorGotFrame, StartTxAt, StartTx, Goto, Take, Rest, Node, PollRead
  <2>3. CASE RecvResponseLate \/ RecvNoResponse \/ ResponseDistrusted \/ ResponseFailed \/ FinalSent
    BY <1>t, <1>n, <2>3
       DEF RecvResponseLate, RecvNoResponse, InitiatorGotFrame, ResponseDistrusted, ResponseFailed,
           FinalSent, FailTx, ClearFlags, Sleep, Take, Rest, Node, PollRead
  <2> QED BY <2>1, <2>2, <2>3 DEF Initiator
<1>2. /\ HasPoll' = HasPoll /\ InTime' = InTime /\ HasFinal' = HasFinal
      /\ Responding' = Responding /\ \A k : OnItsWay(k)' = OnItsWay(k)
  BY <1>1 DEF HasPoll, InTime, HasFinal, Responding, OnItsWay
(* Where the initiator waits for a response, only that may be on its way.  *)
<1>w. ASSUME pc["I"] = "waitResp", mode["I"] = "idle"
      PROVE  ~OnItsWay("poll") /\ ~OnItsWay("final")
  BY <1>t, <1>w DEF Placed, OnItsWay
(* A step that neither finds a response nor arms the final.                *)
<1>3. ASSUME NextPoll' = NextPoll, ~HasResponse', ~FinalArmed', Roles', Placed', OnAir',
             \/ unread' = unread
             \/ "I" \in unread' /\ ~OnItsWay("final")
             \/ ~OnItsWay("final") /\ ~HasFinal,
             PollTaken' /\ ResponseArmed'
      PROVE  Exchange'
  <2>1. OneAtATime'
    BY <1>t, <1>1, <1>2, <1>3 DEF OneAtATime, ResponseRead
  <2>2. FinalTaken'
    BY <1>t, <1>1, <1>2, <1>3 DEF FinalTaken, Ends, SinceResponse
  <2> QED BY <1>3, <2>1, <2>2 DEF Exchange, ResponseTaken, FinalComing
<1>4. CASE SendPoll
  <2>1. NextPoll = 0 /\ "RXFCG" \notin status["I"] /\ pc["I"] = "sleep"
    BY <1>t, <1>4 DEF SendPoll, Awake, Rested, NextPoll, Phase, Asleep, NoRxFlag, RxMask
  <2>2. /\ pc'["I"] = "waitResp" /\ mode'["I"] = "tx" /\ status'["I"] \subseteq status["I"]
        /\ lag'["I"] = 0 /\ txBuf'["I"].kind = "poll" /\ unread' = unread
    BY <1>t, <1>n, <1>4 DEF SendPoll, StartTxNow, StartTx, Goto, Frame
  <2>3. Roles'
    BY <1>t, <1>1, <2>2 DEF Roles
  <2>4. NextPoll' = NextPoll /\ ~HasResponse' /\ ~FinalArmed'
    BY <2>1, <2>2 DEF NextPoll, HasResponse, FinalArmed
  <2>5. ~OnItsWay("poll") /\ ~OnItsWay("final") /\ ~(PollRead /\ OnItsWay("resp"))
    BY <1>t, <1>n, <2>1 DEF Placed, OnAir, OnItsWay
  <2>6. Placed'
    BY <1>t, <1>1, <2>5 DEF Placed, OnItsWay
  <2>7. OnAir'
    BY <1>1, <2>5 DEF OnAir, OnItsWay
  <2>8. HasPoll => ~InTime
    <3>1. lag["R"] \in Nat
      BY <1>t, Types
    <3> QED BY <1>t, <2>1, <3>1, Numbers DEF PollTaken, OverBefore, InTime
  <2>9. PollRead => mode["R"] # "tx"
    <3>1. left["R"] \in Nat
      BY <1>t, Types
    <3> QED BY <1>t, <2>1, <3>1, Numbers DEF ResponseArmed
  <2>10. PollTaken' /\ ResponseArmed'
    BY <1>t, <1>1, <1>2, <2>8, <2>9 DEF PollTaken, ResponseArmed
  <2> QED BY <1>3, <2>2, <2>3, <2>4, <2>6, <2>7, <2>10
<1>5. CASE RecvResponseLate \/ RecvNoResponse \/ ResponseDistrusted \/ ResponseFailed \/ FinalSent
  <2>1. pc["I"] \in {"waitResp", "waitTx"} /\ mode["I"] = "idle"
    BY <1>t, <1>5
       DEF RecvResponseLate, RecvNoResponse, InitiatorGotFrame, ResponseDistrusted, ResponseFailed,
           FinalSent, Noticed, Awaited, TxPoints, DataPoints, RespPoints, Phase, RxWait, TxWait,
           NoRxFlag, RxMask
  <2>2. pc'["I"] = "sleep" /\ nap'["I"] = RNG_DELAY /\ mode'["I"] = "idle"
    BY <1>t, <1>n, <1>5, <2>1
       DEF RecvResponseLate, RecvNoResponse, InitiatorGotFrame, ResponseDistrusted, ResponseFailed,
           FinalSent, Sleep, FailTx, ClearFlags
  <2>3. Roles'
    BY <1>t, <1>1, <2>2 DEF Roles
  <2>4. NextPoll' = NextPoll /\ ~HasResponse' /\ ~FinalArmed'
    BY <2>1, <2>2 DEF NextPoll, HasResponse, FinalArmed
  <2>5. \/ unread' = unread
        \/ "I" \in unread' /\ ~OnItsWay("final")
        \/ unread' = unread \ {"I"} /\ ~OnItsWay("final") /\ ~HasFinal
    <3>1. CASE RecvResponseLate
      <4>1. /\ pc["I"] = "waitResp" /\ "RXFCG" \in status["I"] /\ Take("I")
            /\ ReadFrame("I").kind = "resp"
        BY <3>1 DEF RecvResponseLate, InitiatorGotFrame
      <4>2. rxBuf["I"].kind # "long" => HasResponse
        BY <4>1 DEF HasResponse, ReadFrame
      <4>3. ~OnItsWay("final")
        BY <1>w, <2>1, <4>1
      <4> QED BY <1>t, <4>1, <4>2, <4>3 DEF Take, OneAtATime
    <3>2. CASE ~RecvResponseLate
      BY <1>5, <3>2 DEF RecvNoResponse, ResponseDistrusted, ResponseFailed, FinalSent
    <3> QED BY <3>1, <3>2
  <2>6. Placed'
    BY <1>t, <1>1, <2>1, <2>2, <2>4 DEF Placed
  <2>7. OnAir'
    BY <1>t, <1>n, <1>1, <2>2, <2>4, <2>5, Undisturbed
  <2>8. PollTaken' /\ ResponseArmed'
    BY <1>t, <1>n, <1>1, <1>2, <2>2, <2>4, StillTaken
  <2> QED BY <1>3, <2>3, <2>4, <2>5, <2>6, <2>7, <2>8
<1>6. CASE RecvResponse
  <2> DEFINE ts == rxTs["I"]
             p == txTs["I"]
             l == lag["I"]
             c == clock["R"]
             q == txTs["R"]
             D == RESP_RX_TO_FINAL_TX_DLY
  <2>1. /\ ~TooLate("I", FinalTime) /\ pc'["I"] = "waitTx" /\ mode'["I"] = "tx"
        /\ left'["I"] = TicksTo("I", FinalTime) + TX_ANT_DLY /\ txBuf'["I"] = FinalFrame
        /\ pc["I"] = "waitResp" /\ mode["I"] = "idle" /\ "I" \in Node /\ Take("I")
        /\ rxBuf["I"].kind # "long" => HasResponse
    <3>1. ReadFrame("I").kind = "resp" /\ pc["I"] = "waitResp" /\ "RXFCG" \in status["I"]
      BY <1>6 DEF RecvResponse, InitiatorGotFrame
    <3>2. mode["I"] = "idle"
      BY <1>t, <3>1 DEF Phase, RxWait, NoRxFlag, RxMask
    <3>3. rxBuf["I"].kind # "long" => HasResponse
      BY <3>1 DEF HasResponse, ReadFrame
    <3> QED
      BY <1>t, <1>n, <1>6, <3>1, <3>2, <3>3
         DEF RecvResponse, InitiatorGotFrame, StartTxAt, StartTx, Goto
  <2>2. /\ c \in Int /\ p \in Int /\ q \in Int /\ ts \in Timestamps /\ ts \in Int
        /\ l \in 0 .. MaxLag /\ l \in Int /\ D \in Nat /\ TX_ANT_DLY \in Nat /\ FLIGHT \in Nat
    BY <1>t, <1>n, Types, Numbers
  <2>3. D < LOMOD /\ MaxLag + QUANTUM <= TSMOD \div 2
    BY Numbers DEF ExchangeIsSwift
  <2>4. ~OnItsWay("poll") /\ ~OnItsWay("final")
    BY <1>w, <2>1
  (* What is known of a final that answers a response that was read.       *)
  <2>5. ASSUME HasResponse, PollRead
        PROVE  Ends(FinalFrame.data, c + (left'["I"] + FLIGHT))
    <3>1. clock["I"] = (ts + l) % TSMOD /\ Answers(q, ts) /\ SinceResponse(c + (0 - l), FLIGHT)
      BY <1>t, <2>5 DEF ResponseTaken
    <3>2. PICK last \in 0 .. D + TX_ANT_DLY :
            /\ l <= D /\ TicksTo("I", DelayedTxTime(ts, D)) + TX_ANT_DLY = last - l
            /\ SameLo(MsgTs(DelayedTxTs(ts, D)) - MsgTs(ts), last)
      <4>1. ~TooLate("I", DelayedTxTime(ts, D)) /\ "I" \in Node
        BY <2>1 DEF FinalTime
      <4> QED BY <2>2, <2>3, <3>1, <4>1, DelayedReply
    <3>3. PICK reply \in 0 .. POLL_RX_TO_RESP_TX_DLY + TX_ANT_DLY :
            SameLo(q - pollRxTs, reply) /\ SameLo(ts - p, 2 * FLIGHT + reply)
      BY <2>1, <3>1 DEF Answers, SincePoll
    <3>4. SameLo(MsgTs(ts) - MsgTs(p), 2 * FLIGHT + reply)
      <4>1. 2 * FLIGHT + reply \in Int
        BY <2>2, Numbers
      <4> QED BY <2>2, <3>3, <4>1, CopiesDiffer
    <3>5. left'["I"] = last - l /\ last \in Int
      BY <2>1, <2>2, <3>2 DEF FinalTime
    <3>6. SinceResponse(c + (left'["I"] + FLIGHT), 2 * FLIGHT + last)
      <4> DEFINE u == 0 - l
                 e == last + FLIGHT
      <4>1. u \in Int /\ e \in Int /\ SameLo((c + u) - q, FLIGHT)
        BY <2>2, <3>1, <3>5 DEF SinceResponse
      <4> HIDE DEF u, e, c, q
      <4>2. SameLo((c + (u + e)) - q, FLIGHT + e)
        BY <2>2, <4>1, SameLoLater
      <4> USE DEF u, e
      <4>3. u + e = left'["I"] + FLIGHT /\ FLIGHT + e = 2 * FLIGHT + last
        BY <2>2, <3>5
      <4> QED BY <4>2, <4>3 DEF SinceResponse, c, q
    <3> DEFINE x == MsgTs(p)
               y == MsgTs(ts)
               z == MsgTs(DelayedTxTs(ts, D))
    <3>7. FinalFrame.data = <<x, y, z>>
      BY DEF FinalFrame, Frame
    <3>8. x \in 0 .. LOMOD - 1 /\ y \in 0 .. LOMOD - 1 /\ z \in 0 .. LOMOD - 1
      BY <2>2, DelayedTypes, TimeTypes
    <3>9. SameLo(y - x, 2 * FLIGHT + reply) /\ SameLo(z - y, last)
      BY <3>2, <3>4
    <3> HIDE DEF x, y, z
    <3> QED BY <3>3, <3>6, <3>7, <3>8, <3>9 DEF Ends
  <2>6. left'["I"] \in Nat /\ NextPoll' \in Int /\ NextPoll' >= NextPoll
    <3>1. FinalTime \in Int
      BY <2>2, DelayedTypes DEF FinalTime
    <3>2. left'["I"] \in Nat
      BY <1>t, <2>1, <3>1, TicksType DEF TypeOK
    <3>3. NextPoll = RNG_DELAY /\ NextPoll' = left'["I"] + RNG_DELAY
      BY <2>1 DEF NextPoll
    <3> QED BY <1>n, <3>2, <3>3
  <2>7. Placed'
    BY <1>t, <1>1, <2>4 DEF Placed, OnItsWay
  <2>8. OnAir'
    BY <1>t, <1>1, <2>1, <2>4, <2>6, Undisturbed
  <2>9. PollTaken' /\ ResponseArmed'
    BY <1>t, <1>1, <1>2, <2>1, <2>6, StillTaken
  <2>10. ~HasResponse' /\ (ResponseRead' => HasResponse) /\ (unread' = {} => HasResponse /\ PollRead)
    BY <2>1, <1>1 DEF HasResponse, ResponseRead, PollRead, Take
  <2>11. OneAtATime'
    BY <1>t, <1>1, <1>2, <2>10 DEF OneAtATime
  <2>12. FinalComing'
    <3>1. FinalFrame.kind = "final"
      BY DEF FinalFrame, Frame
    <3> QED BY <1>1, <2>1, <2>5, <2>10, <3>1 DEF FinalComing, Ends, SinceResponse
  <2>13. FinalTaken'
    BY <1>t, <1>2, <2>10 DEF FinalTaken, OneAtATime
  <2>14. ResponseTaken' /\ Roles'
    BY <1>t, <1>1, <2>1, <2>10 DEF ResponseTaken, Roles
  <2> QED BY <2>7, <2>8, <2>9, <2>11, <2>12, <2>13, <2>14 DEF Exchange
<1> QED BY <1>4, <1>5, <1>6 DEF Initiator

(* The responder's steps: a response is prepared for the time that the     *)
(* poll's reception determines, however late the host looks at it.         *)
LEMMA ExchangeResponder ==
  ASSUME ExchangeIsSwift, IInv, Responder
  PROVE  Exchange'
<1>t. /\ TypeOK /\ Phase("R") /\ "I" \in Node /\ "R" \in Node
      /\ Roles /\ OneAtATime /\ Placed /\ OnAir /\ PollTaken /\ ResponseArmed /\ ResponseTaken
      /\ FinalComing /\ FinalTaken
  BY DEF IInv, HostsChips, HostChip, Exchange, Node
<1>n. /\ pc["R"] \in {"sleep", "listen", "waitFinal"}
      /\ pc \in [Node -> Points] /\ mode \in [Node -> Modes] /\ nap \in [Node -> Nat]
      /\ status \in [Node -> SUBSET Flags] /\ txBuf \in [Node -> Frames]
      /\ rxBuf \in [Node -> Frames] /\ rxDly \in [Node -> Nat] /\ buf \in [Node -> Frames]
      /\ lag \in [Node -> 0 .. MaxLag] /\ left \in [Node -> Nat]
      /\ NextPoll \in Nat /\ \A m \in air : m.left \in Nat
  BY <1>t, Types DEF TypeOK, LinkTypeOK, HostTypeOK
<1>1. /\ UNCHANGED <<clock, txTs, rxTs, air, sdc>>
      /\ pc'["I"] = pc["I"] /\ mode'["I"] = mode["I"] /\ status'["I"] = status["I"]
      /\ left'["I"] = left["I"] /\ nap'["I"] = nap["I"] /\ lag'["I"] = lag["I"]
      /\ txBuf'["I"] = txBuf["I"] /\ rxBuf'["I"] = rxBuf["I"] /\ rxDly'["I"] = rxDly["I"]
      /\ rxBuf'["R"] = rxBuf["R"] \/ rxBuf'["R"].kind = "none"
      /\ ResponseRead' = ResponseRead
  <2>1. CASE Listen
    BY <1>t, <1>n, <2>1 DEF Listen, EnableRx, Goto, Rest, NoFrame, Frame, Node, ResponseRead
  <2>2. CASE RecvPoll
    BY <1>t, <1>n, <2>2
       DEF RecvPoll, ResponderGotPoll, ResponderGotFrame, StartTxAt, StartTx, Goto, Take, Rest, Node,
           ResponseRead
  <2>3. CASE RecvPollLate \/ RecvNoPoll \/ RecvFinal \/ RecvNoFinal \/ FrameDistrusted \/ ResponderFailed
    BY <1>t, <1>n, <2>3
       DEF RecvPollLate, RecvNoPoll, RecvFinal, RecvNoFinal, ResponderGotPoll, ResponderGotFrame,
           FrameDistrusted, ResponderFailed, FailTx, ClearFlags, Sleep, Take, Rest, Node, ResponseRead
  <2> QED BY <2>1, <2>2, <2>3 DEF Responder
<1>2. /\ NextPoll' = NextPoll /\ HasResponse' = HasResponse /\ FinalArmed' = FinalArmed
      /\ \A k : OnItsWay(k)' = OnItsWay(k)
  BY <1>1 DEF NextPoll, HasResponse, FinalArmed, OnItsWay
(* Not in the gap after a response, the responder has none on its way.     *)
<1>w. mode["R"] # "gap" => ~OnItsWay("resp")
  BY <1>t DEF Placed, OnItsWay
(* A step after which the responder neither has a frame nor sends one.     *)
<1>3. ASSUME mode["R"] # "gap",
             UNCHANGED <<pollRxTs, unread>> \/ "R" \in unread' \/ HasPoll,
             "RXFCG" \notin status'["R"] \/ pc'["R"] = "sleep", pc'["R"] # "waitFinal",
             mode'["R"] # "tx", lag'["R"] = 0
      PROVE  Exchange'
  <2>1. HasPoll => /\ ~HasResponse
                   /\ ResponseRead => ~FinalArmed /\ ~OnItsWay("final")
    BY <1>t DEF OneAtATime
  <2>2. \/ UNCHANGED <<pollRxTs, unread>>
        \/ "R" \in unread'
        \/ ~HasResponse /\ (unread' = {} => ~FinalArmed /\ ~OnItsWay("final"))
    BY <1>1, <1>3, <2>1 DEF ResponseRead
  <2>3. OnAir'
    BY <1>t, <1>n, <1>1, <1>2, <1>3, <1>w, <2>2, Undisturbed DEF PollRead
  <2>4. ResponseTaken' /\ FinalComing'
    BY <1>t, <1>1, <1>2, <1>3, <2>2
       DEF ResponseTaken, FinalComing, Answers, Ends, SincePoll, SinceResponse, PollRead
  <2>5. ~HasPoll' /\ ~HasFinal' /\ ~Responding'
    BY <1>2, <1>3, <1>w DEF HasPoll, HasFinal, Responding
  <2>6. OneAtATime'
    BY <1>t, <1>1, <1>2, <1>3, <2>5 DEF OneAtATime
  <2>7. Placed'
    BY <1>t, <1>1, <1>2, <1>3, <1>w DEF Placed, OnItsWay
  <2>8. Roles'
    BY <1>t, <1>1, <1>3 DEF Roles, Node
  <2> QED
    BY <1>3, <2>3, <2>4, <2>5, <2>6, <2>7, <2>8
       DEF Exchange, PollTaken, ResponseArmed, FinalTaken
<1>4. CASE Listen
  <2>1. /\ "RXFCG" \notin status["R"] /\ status'["R"] = status["R"] /\ mode["R"] # "gap"
        /\ mode'["R"] = "rx" /\ lag'["R"] = 0 /\ pc'["R"] = "listen" /\ UNCHANGED <<pollRxTs, unread>>
    BY <1>t, <1>n, <1>4
       DEF Listen, Awake, Rested, EnableRx, Goto, Phase, Asleep, NoRxFlag, RxMask
  <2> QED BY <1>t, <1>3, <2>1
<1>5. CASE RecvPollLate \/ RecvNoPoll \/ RecvFinal \/ RecvNoFinal \/ FrameDistrusted \/ ResponderFailed
  <2>1. pc'["R"] = "sleep" /\ mode["R"] = "idle" /\ mode'["R"] # "tx" /\ lag'["R"] = 0
    BY <1>t, <1>n, <1>5
       DEF RecvPollLate, RecvNoPoll, RecvFinal, RecvNoFinal, ResponderGotPoll, ResponderGotFrame,
           FrameDistrusted, ResponderFailed, FailTx, ClearFlags, Sleep, Noticed, Awaited,
           TxPoints, DataPoints, RespPoints, Phase, RxWait, NoRxFlag, RxMask
  <2>2. UNCHANGED <<pollRxTs, unread>> \/ "R" \in unread' \/ HasPoll
    <3>1. CASE RecvPollLate
      BY <3>1 DEF RecvPollLate, ResponderGotPoll, ResponderGotFrame, ReadFrame, Take, HasPoll
    <3>2. CASE ~RecvPollLate
      BY <1>5, <3>2 DEF RecvNoPoll, RecvFinal, RecvNoFinal, FrameDistrusted, ResponderFailed
    <3> QED BY <3>1, <3>2
  <2> QED BY <1>3, <2>1, <2>2
<1>6. CASE RecvPoll
  <2> DEFINE D == POLL_RX_TO_RESP_TX_DLY
             l == lag["R"]
             c == clock["I"]
             p == txTs["I"]
             ts == rxTs["R"]
  <2>1. /\ pc["R"] = "listen" /\ mode["R"] = "idle" /\ ~TooLate("R", ResponseTime)
        /\ pc'["R"] = "waitFinal" /\ mode'["R"] = "tx" /\ lag'["R"] = 0
        /\ left'["R"] = TicksTo("R", ResponseTime) + TX_ANT_DLY /\ txBuf'["R"].kind = "resp"
        /\ pollRxTs' = ts /\ "RXFCG" \notin status'["R"]
        /\ rxDly'["R"] = RESP_TX_TO_FINAL_RX_DLY /\ buf'["R"].kind = "poll"
        /\ PollRead' => HasPoll
    <3>1. pc["R"] = "listen" /\ "RXFCG" \in status["R"] /\ ReadFrame("R").kind = "poll" /\ Take("R")
      BY <1>6 DEF RecvPoll, ResponderGotPoll, ResponderGotFrame
    <3>2. mode["R"] = "idle"
      BY <1>t, <3>1 DEF Phase, RxWait, NoRxFlag, RxMask
    <3>3. PollRead' => HasPoll
      BY <3>1 DEF ReadFrame, Take, PollRead, HasPoll
    <3> QED
      BY <1>t, <1>n, <1>6, <3>1, <3>2, <3>3
         DEF RecvPoll, ResponderGotPoll, ResponderGotFrame, StartTxAt, StartTx, Goto, Frame
  <2>2. /\ c \in Int /\ p \in Int /\ ts \in Timestamps /\ ts \in Int /\ clock["R"] \in Int
        /\ l \in 0 .. MaxLag /\ l \in Int /\ D \in Nat /\ TX_ANT_DLY \in Nat /\ FLIGHT \in Nat
    BY <1>t, <1>n, Types, Numbers
  <2>3. D < LOMOD /\ MaxLag + QUANTUM <= TSMOD \div 2
    BY Numbers DEF ExchangeIsSwift
  (* What is known of a response to a poll that was read.                  *)
  <2>4. ASSUME PollRead'
        PROVE  /\ InTime /\ left'["R"] + FLIGHT < NextPoll'
               /\ Answers(clock["R"] + left["R"], clock["I"] + (left["R"] + FLIGHT))'
    <3>1. clock["R"] = (ts + l) % TSMOD
      BY <1>t, <2>1, <2>4 DEF PollTaken
    <3>2. PICK reply \in 0 .. D + TX_ANT_DLY :
            /\ l <= D /\ TicksTo("R", DelayedTxTime(ts, D)) + TX_ANT_DLY = reply - l
            /\ SameLo((clock["R"] + (reply - l)) - ts, reply)
      <4>1. ~TooLate("R", DelayedTxTime(ts, D)) /\ "R" \in Node
        BY <1>t, <2>1 DEF ResponseTime
      <4> QED BY <2>2, <2>3, <3>1, <4>1, DelayedReply
    <3>3. SincePoll(c + (0 - l), FLIGHT) /\ OverBefore(0 - l) /\ InTime
      BY <1>t, <2>1, <2>4, <3>2 DEF PollTaken, InTime
    <3>4. left'["R"] = reply - l /\ reply \in Int
      BY <2>1, <2>2, <3>2 DEF ResponseTime
    <3>5. left'["R"] + FLIGHT < NextPoll'
      BY <1>n, <1>2, <2>2, <3>2, <3>3, <3>4 DEF OverBefore
    <3>6. SincePoll(c + (left'["R"] + FLIGHT), 2 * FLIGHT + reply)
      <4> SUFFICES ASSUME pc["I"] = "waitResp"
                   PROVE  SameLo((c + (left'["R"] + FLIGHT)) - p, 2 * FLIGHT + reply)
        BY DEF SincePoll
      <4> DEFINE u == 0 - l
                 e == reply + FLIGHT
      <4>1. u \in Int /\ e \in Int /\ SameLo((c + u) - p, FLIGHT) /\ c \in Int /\ p \in Int
            /\ FLIGHT \in Int
        BY <2>2, <3>3, <3>4 DEF SincePoll
      <4> HIDE DEF u, e, c, p
      <4>2. SameLo((c + (u + e)) - p, FLIGHT + e)
        BY <4>1, SameLoLater
      <4> USE DEF u, e
      <4>3. u + e = left'["R"] + FLIGHT /\ FLIGHT + e = 2 * FLIGHT + reply
        BY <2>2, <3>4
      <4> QED BY <4>2, <4>3 DEF c, p
    <3>7. Answers(clock["R"] + left["R"], clock["I"] + (left["R"] + FLIGHT))'
      BY <1>1, <2>1, <3>2, <3>4, <3>6 DEF Answers, SincePoll
    <3> QED BY <3>3, <3>5, <3>7
  <2>5. ResponseArmed'
    BY <2>1, <2>4 DEF ResponseArmed
  <2>6. /\ ~OnItsWay("resp")
        /\ PollRead' => ~HasResponse /\ ~OnItsWay("poll")
                        /\ (ResponseRead => ~FinalArmed /\ ~OnItsWay("final"))
    BY <1>t, <1>w, <2>1, <2>4 DEF OneAtATime
  <2>7. unread' = {} => PollRead' /\ ResponseRead
    BY <1>1 DEF PollRead, ResponseRead
  <2>8. Placed'
    BY <1>t, <1>1, <1>2, <2>6 DEF Placed, OnItsWay
  <2>9. OnAir'
    BY <1>t, <1>n, <1>1, <1>2, <2>6, <2>7, Undisturbed
  <2>10. ~HasPoll' /\ ~HasFinal' /\ (Responding' => PollRead')
    BY <1>2, <2>1 DEF HasPoll, HasFinal, Responding
  <2>11. OneAtATime'
    BY <1>t, <1>1, <1>2, <2>6, <2>10 DEF OneAtATime
  <2>12. PollTaken' /\ ResponseTaken' /\ FinalComing' /\ FinalTaken'
    BY <1>t, <1>1, <1>2, <2>6, <2>7, <2>10
       DEF PollTaken, ResponseTaken, FinalComing, FinalTaken
  <2>13. Roles'
    BY <1>t, <1>1, <2>1 DEF Roles, Node
  <2> QED BY <2>5, <2>8, <2>9, <2>11, <2>12, <2>13 DEF Exchange
<1> QED BY <1>4, <1>5, <1>6 DEF Responder

(* The distance it computes is the true one if both have read their frame. *)
LEMMA FinalIsRanged ==
  ASSUME ExchangeIsSwift, IInv, RecvFinal, unread = {}
  PROVE  tof' = <<FLIGHT>>
<1>1. TypeOK /\ Roles /\ FinalTaken
  BY DEF IInv, Exchange
<1>2. ReadFrame("R") = rxBuf["R"] /\ HasFinal
  BY <1>1 DEF RecvFinal, ResponderGotFrame, ReadFrame, Roles, HasFinal
<1> DEFINE ts == rxBuf["R"].data
<1>3. DsTof(ts[1], MsgTs(pollRxTs), MsgTs(txTs["R"]), ts[2], ts[3], MsgTs(rxTs["R"])) = FLIGHT
  BY <1>1, <1>2, RangingIsExact DEF FinalTaken
<1> QED BY <1>2, <1>3 DEF RecvFinal

(* What the chips and the air do: a poll leaves when nothing of an earlier *)
(* exchange is left, and what arrives is what was on its way.              *)
LEMMA ExchangeTransmits ==
  ASSUME ExchangeIsSwift, IInv, NEW n \in Node, Transmit(n), UNCHANGED hostVars
  PROVE  Exchange'
<1>t. /\ TypeOK /\ \A i \in Node : Phase(i)
      /\ Roles /\ OneAtATime /\ Placed /\ OnAir /\ PollTaken /\ ResponseArmed /\ ResponseTaken
      /\ FinalComing /\ FinalTaken /\ "I" \in Node /\ "R" \in Node
  BY DEF IInv, HostsChips, HostChip, Exchange, Node
<1>n. /\ pc["I"] \in {"sleep", "waitResp", "waitTx"} /\ pc["R"] \in {"sleep", "listen", "waitFinal"}
      /\ mode \in [Node -> Modes] /\ status \in [Node -> SUBSET Flags]
      /\ left \in [Node -> Nat] /\ w4r \in [Node -> BOOLEAN]
      /\ txTs \in [Node -> Timestamps] /\ txBuf \in [Node -> Frames]
      /\ UNCHANGED <<pc, nap, lag, rxTs, rxBuf, buf, rxDly, clock, sdc, pollRxTs, unread>>
  BY <1>t DEF TypeOK, LinkTypeOK, Transmit, hostVars, pollVars
<1> DEFINE new == [to |-> Peer(n), left |-> FLIGHT, frame |-> txBuf[n]]
<1>a. /\ mode[n] = "tx" /\ left[n] = 0 /\ air' = air \cup {new}
      /\ mode'[n] = (IF w4r[n] THEN "gap" ELSE "idle") /\ left'[n] = (IF w4r[n] THEN rxDly[n] ELSE 0)
      /\ status'[n] = status[n] \cup {"TXFRS"} /\ txTs'[n] = clock[n]
      /\ \A i \in Node \ {n} : /\ mode'[i] = mode[i] /\ left'[i] = left[i] /\ status'[i] = status[i]
                               /\ txBuf'[i] = txBuf[i] /\ txTs'[i] = txTs[i]
  BY <1>n DEF Transmit
<1>b. new.left = FLIGHT /\ new.frame = txBuf[n] /\ \A m \in air' : m \in air \/ m = new
  BY <1>a
<1>c. /\ clock["I"] \in Int /\ clock["R"] \in Int /\ NextPoll \in Nat /\ lag["R"] \in Nat
      /\ left["R"] \in Nat /\ \A m \in air : m.left \in Nat
  BY <1>t, Types
<1> HIDE DEF new
<1>r. Roles' /\ PollRead' = PollRead /\ ResponseRead' = ResponseRead
  BY <1>t, <1>n, <1>a DEF Roles, PollRead, ResponseRead, Node
<1>o. ASSUME NEW k, OnItsWay(k)'
      PROVE  OnItsWay(k) \/ txBuf[n].kind = k
  <2>1. PICK m \in air' : m.frame.kind = k
    BY <1>o DEF OnItsWay
  <2> QED BY <1>b, <2>1 DEF OnItsWay
<1>1. CASE n = "I" /\ pc["I"] = "waitResp"
  <2>1. /\ NextPoll = 0 /\ w4r["I"] /\ "RXFCG" \notin status["I"] /\ txBuf["I"].kind = "poll"
    BY <1>t, <1>n, <1>a, <1>1 DEF NextPoll, Phase, RxWait, NoRxFlag, RxMask, Roles
  <2>2. ~OnItsWay("poll") /\ ~OnItsWay("final") /\ ~Responding /\ (HasPoll => ~InTime)
    <3>1. ~OnItsWay("poll") /\ ~OnItsWay("final")
      BY <1>t, <1>a, <1>1 DEF Placed, OnItsWay
    <3>2. ~Responding
      BY <1>t, <1>c, <2>1, Numbers DEF Responding, OnItsWay, OnAir, ResponseArmed
    <3>3. HasPoll => ~InTime
      BY <1>t, <1>c, <2>1, Numbers DEF PollTaken, OverBefore, InTime
    <3> QED BY <3>1, <3>2, <3>3
  <2>3. /\ mode'["R"] = mode["R"] /\ mode'["I"] = "gap" /\ status'["R"] = status["R"]
        /\ left'["I"] = POLL_TX_TO_RESP_RX_DLY /\ left'["R"] = left["R"]
        /\ "RXFCG" \notin status'["I"] /\ txTs'["R"] = txTs["R"] /\ txBuf'["R"] = txBuf["R"]
    BY <1>t, <1>n, <1>a, <1>1, <2>1 DEF Node, Roles
  <2>4. NextPoll' = POLL_TX_TO_RESP_RX_DLY + RNG_DELAY
    BY <1>n, <1>1, <2>3 DEF NextPoll
  <2>5. SincePoll(clock["I"] + FLIGHT, FLIGHT)' /\ OverBefore(FLIGHT)'
    <3>1. txTs'["I"] = clock["I"] /\ clock'["I"] = clock["I"]
      BY <1>n, <1>a, <1>1
    <3>2. (clock["I"] + FLIGHT) - clock["I"] = FLIGHT /\ SameLo(FLIGHT, FLIGHT)
      BY <1>c, Numbers, SameLoEquivalence
    <3> QED BY <2>4, <3>1, <3>2, Numbers DEF SincePoll, OverBefore, ExchangeIsSwift
  <2>6. ASSUME NEW m \in air'
        PROVE  m = new \/ (m \in air /\ m.frame.kind = "resp" /\ ~PollRead)
    <3>1. CASE m \in air
      <4>1. m.frame.kind \in {"poll", "resp", "final"}
        BY <1>t, <3>1 DEF Placed
      <4>2. m.frame.kind # "poll" /\ m.frame.kind # "final"
        BY <2>2, <3>1 DEF OnItsWay
      <4>3. m.frame.kind = "resp"
        BY <4>1, <4>2
      <4>4. OnItsWay("resp")
        BY <3>1, <4>3 DEF OnItsWay
      <4> QED BY <2>2, <3>1, <4>3, <4>4 DEF Responding
    <3> QED BY <1>b, <3>1
  <2>7. Placed'
    <3>1. new.frame.kind = "poll" /\ FLIGHT < left'["I"]
      BY <1>1, <1>b, <2>1, <2>3 DEF ExchangeIsSwift
    <3> QED BY <1>t, <1>n, <1>1, <1>b, <2>3, <2>6, <3>1 DEF Placed
  <2>8. OnAir'
    BY <1>1, <1>b, <1>r, <2>1, <2>5, <2>6 DEF OnAir, PollRead
  <2>9. /\ HasPoll' = HasPoll /\ InTime' = InTime /\ HasFinal' = HasFinal /\ ~HasResponse'
        /\ ~FinalArmed' /\ ~Responding' /\ ~OnItsWay("final")'
    BY <1>n, <1>1, <1>o, <1>r, <2>1, <2>2, <2>3
       DEF HasPoll, InTime, HasFinal, HasResponse, FinalArmed, Responding
  <2>10. OneAtATime'
    <3>1. \A m, o \in air' : m.frame.kind = o.frame.kind => m = o
      BY <1>t, <1>1, <1>b, <2>1, <2>6 DEF OneAtATime
    <3> QED BY <2>2, <2>9, <3>1 DEF OneAtATime
  <2>11. PollTaken' /\ ResponseArmed'
    BY <1>t, <1>n, <1>r, <2>2, <2>3, <2>9 DEF PollTaken, ResponseArmed, Responding
  <2>12. ResponseTaken' /\ FinalComing'
    BY <2>9 DEF ResponseTaken, FinalComing
  <2>13. FinalTaken'
    BY <1>t, <1>n, <2>3, <2>9 DEF FinalTaken, Ends, SinceResponse
  <2> QED BY <1>r, <2>7, <2>8, <2>10, <2>11, <2>12, <2>13 DEF Exchange
<1>2. CASE n = "I" /\ pc["I"] = "waitTx"
  <2>1. /\ FinalArmed /\ ~w4r["I"] /\ ~(ResponseRead /\ (HasPoll \/ Responding))
        /\ ~OnItsWay("poll") /\ ~OnItsWay("final")
    <3>1. FinalArmed /\ ~w4r["I"]
      BY <1>t, <1>n, <1>a, <1>2 DEF FinalArmed, Phase, TxWait
    <3>2. ~OnItsWay("poll") /\ ~OnItsWay("final")
      BY <1>t, <1>a, <1>2 DEF Placed, OnItsWay
    <3> QED BY <1>t, <3>1, <3>2 DEF OneAtATime
  <2>2. /\ txBuf["I"].kind = "final"
        /\ unread = {} => Ends(txBuf["I"].data, clock["R"] + FLIGHT)
    <3>1. left["I"] + FLIGHT = FLIGHT
      BY <1>a, <1>2, Numbers
    <3> QED BY <1>t, <2>1, <3>1 DEF FinalComing
  <2>3. /\ mode'["R"] = mode["R"] /\ mode'["I"] = "idle" /\ status'["R"] = status["R"]
        /\ txTs'["R"] = txTs["R"] /\ left'["R"] = left["R"] /\ txBuf'["R"] = txBuf["R"]
    BY <1>n, <1>a, <1>2, <2>1 DEF Node
  <2>4. NextPoll' = NextPoll /\ NextPoll' = RNG_DELAY
    BY <1>n, <1>a, <1>2, <2>3, Numbers DEF NextPoll
  <2>5. new.frame.kind = "final" /\ new.left = FLIGHT /\ new.frame = txBuf["I"]
    BY <1>b, <1>2, <2>2
  <2>6. Placed'
    <3>1. \A m \in air : m.frame.kind = "resp"
      BY <1>t, <2>1 DEF Placed, OnItsWay
    <3>2. FLIGHT < NextPoll'
      BY <2>4 DEF ExchangeIsSwift
    <3> QED BY <1>t, <1>n, <1>2, <1>b, <2>3, <2>5, <3>1, <3>2 DEF Placed
  <2>7. OnAir'
    <3>1. ASSUME NEW m \in air'
          PROVE  /\ m.frame.kind # "poll"
                 /\ m.frame.kind = "resp" /\ PollRead' =>
                      /\ m.left < NextPoll' /\ Answers(txTs["R"], clock["I"] + m.left)'
                      /\ SinceResponse(clock["R"] + m.left, FLIGHT)'
                 /\ m.frame.kind = "final" /\ unread' = {}
                      => Ends(m.frame.data, clock["R"] + m.left)'
      <4>1. CASE m = new
        BY <1>n, <2>2, <2>3, <2>5, <4>1 DEF Ends, SinceResponse
      <4>2. CASE m \in air
        <5>1. m.frame.kind # "poll" /\ m.frame.kind # "final"
          BY <2>1, <4>2 DEF OnItsWay
        <5>2. m.frame.kind = "resp" /\ PollRead =>
                /\ m.left < NextPoll /\ Answers(txTs["R"], clock["I"] + m.left)
                /\ SinceResponse(clock["R"] + m.left, FLIGHT)
          BY <1>t, <4>2 DEF OnAir
        <5> QED
          BY <1>n, <1>2, <1>r, <2>3, <2>4, <5>1, <5>2 DEF Answers, SincePoll, SinceResponse
      <4> QED BY <1>b, <4>1, <4>2
    <3> QED BY <3>1 DEF OnAir
  <2>8. /\ HasPoll' = HasPoll /\ InTime' = InTime /\ HasFinal' = HasFinal /\ ~HasResponse'
        /\ ~FinalArmed' /\ (Responding' => Responding) /\ ~OnItsWay("poll")'
    BY <1>n, <1>2, <1>o, <1>r, <2>1, <2>2, <2>3
       DEF HasPoll, InTime, HasFinal, HasResponse, FinalArmed, Responding
  <2>9. OneAtATime'
    <3>1. \A m, o \in air' : m.frame.kind = o.frame.kind => m = o
      BY <1>t, <1>b, <2>1, <2>5 DEF OneAtATime, OnItsWay
    <3> QED BY <1>r, <2>1, <2>8, <3>1 DEF OneAtATime
  <2>10. PollTaken' /\ ResponseArmed'
    BY <1>t, <1>n, <1>2, <1>r, <2>3, <2>4, <2>8
       DEF PollTaken, ResponseArmed, SincePoll, OverBefore, Answers
  <2>11. ResponseTaken' /\ FinalComing'
    BY <2>8 DEF ResponseTaken, FinalComing
  <2>12. FinalTaken'
    BY <1>t, <1>n, <2>3, <2>8 DEF FinalTaken, Ends, SinceResponse
  <2> QED BY <1>r, <2>6, <2>7, <2>9, <2>10, <2>11, <2>12 DEF Exchange
<1>3. CASE n = "R"
  <2>1. pc["R"] = "waitFinal" /\ "RXFCG" \notin status["R"] /\ w4r["R"]
    BY <1>t, <1>n, <1>a, <1>3 DEF Phase, Asleep, RxWait, NoRxFlag, RxMask
  <2>2. /\ txBuf["R"].kind = "resp"
        /\ PollRead => FLIGHT < NextPoll /\ Answers(clock["R"], clock["I"] + FLIGHT)
    <3>1. left["R"] + FLIGHT = FLIGHT /\ clock["R"] + left["R"] = clock["R"]
      BY <1>a, <1>c, <1>3, Numbers
    <3> QED BY <1>t, <1>a, <1>3, <3>1 DEF ResponseArmed
  <2>3. /\ mode'["R"] = "gap" /\ mode'["I"] = mode["I"] /\ status'["I"] = status["I"]
        /\ txTs'["I"] = txTs["I"] /\ left'["I"] = left["I"] /\ txTs'["R"] = clock["R"]
        /\ "RXFCG" \notin status'["R"] /\ left'["R"] = RESP_TX_TO_FINAL_RX_DLY
        /\ txBuf'["I"] = txBuf["I"]
    BY <1>t, <1>n, <1>a, <1>3, <2>1 DEF Node, Roles
  <2>4. NextPoll' = NextPoll
    BY <1>n, <2>3 DEF NextPoll
  <2>5. new.frame.kind = "resp" /\ new.left = FLIGHT /\ new.frame = txBuf["R"]
    BY <1>b, <1>3, <2>2
  <2>6. ~OnItsWay("resp") /\ (Responding' => Responding) /\ (PollRead => Responding)
    <3>1. ~OnItsWay("resp")
      BY <1>t, <1>a, <1>3 DEF Placed, OnItsWay
    <3> QED BY <1>a, <1>3, <1>r, <3>1 DEF Responding
  <2>7. Placed'
    <3>1. \A m \in air : m.frame.kind # "resp"
      BY <2>6 DEF OnItsWay
    <3>2. FLIGHT < left'["R"]
      BY <2>3 DEF ExchangeIsSwift
    <3> QED BY <1>t, <1>n, <1>b, <2>1, <2>3, <2>4, <2>5, <3>1, <3>2 DEF Placed
  <2>8. SameLo((clock["R"] + FLIGHT) - clock["R"], FLIGHT)
    <3>1. (clock["R"] + FLIGHT) - clock["R"] = FLIGHT /\ SameLo(FLIGHT, FLIGHT)
      BY <1>c, Numbers, SameLoEquivalence
    <3> QED BY <3>1
  <2>9. OnAir'
    <3>1. ASSUME NEW m \in air'
          PROVE  /\ m.frame.kind = "poll"
                      => SincePoll(clock["I"] + m.left, FLIGHT)' /\ OverBefore(m.left)'
                 /\ m.frame.kind = "resp" /\ PollRead' =>
                      /\ m.left < NextPoll' /\ Answers(txTs["R"], clock["I"] + m.left)'
                      /\ SinceResponse(clock["R"] + m.left, FLIGHT)'
                 /\ m.frame.kind = "final" /\ unread' = {}
                      => Ends(m.frame.data, clock["R"] + m.left)'
      <4>1. CASE m = new
        <5>1. PollRead => /\ Answers(txTs["R"], clock["I"] + FLIGHT)'
                          /\ SinceResponse(clock["R"] + FLIGHT, FLIGHT)'
          BY <1>n, <2>2, <2>3, <2>8 DEF Answers, SincePoll, SinceResponse
        <5> QED BY <1>r, <2>2, <2>4, <2>5, <4>1, <5>1
      <4>2. CASE m \in air
        <5>1. m.frame.kind # "resp" /\ (unread = {} => m.frame.kind # "final")
          BY <1>t, <2>6, <4>2 DEF OneAtATime, OnItsWay, PollRead, ResponseRead
        <5>2. m.frame.kind = "poll"
                => SincePoll(clock["I"] + m.left, FLIGHT) /\ OverBefore(m.left)
          BY <1>t, <4>2 DEF OnAir
        <5> QED BY <1>n, <2>3, <2>4, <5>1, <5>2 DEF SincePoll, OverBefore
      <4> QED BY <1>b, <4>1, <4>2
    <3> QED BY <3>1 DEF OnAir
  <2>10. /\ ~HasPoll' /\ ~HasFinal' /\ HasResponse' = HasResponse /\ FinalArmed' = FinalArmed
         /\ (OnItsWay("poll")' => OnItsWay("poll")) /\ (OnItsWay("final")' => OnItsWay("final"))
    BY <1>n, <1>3, <1>o, <2>1, <2>2, <2>3 DEF HasPoll, HasFinal, HasResponse, FinalArmed
  <2>11. OneAtATime'
    <3>1. \A m, o \in air' : m.frame.kind = o.frame.kind => m = o
      BY <1>t, <1>b, <2>5, <2>6 DEF OneAtATime, OnItsWay
    <3> QED BY <1>t, <1>r, <2>6, <2>10, <3>1 DEF OneAtATime
  <2>12. PollTaken' /\ ResponseArmed' /\ FinalTaken'
    BY <2>3, <2>10 DEF PollTaken, ResponseArmed, FinalTaken
  <2>13. ResponseTaken' /\ FinalComing'
    <3>1. PollRead => ~HasResponse /\ (ResponseRead => ~FinalArmed)
      BY <1>t, <2>6 DEF OneAtATime
    <3>2. unread = {} => ~FinalArmed
      BY <3>1 DEF PollRead, ResponseRead
    <3> QED BY <1>t, <1>n, <1>r, <2>3, <2>10, <3>1, <3>2 DEF ResponseTaken, FinalComing
  <2> QED BY <1>r, <2>7, <2>9, <2>11, <2>12, <2>13 DEF Exchange
<1>4. pc["I"] = "sleep" => n # "I"
  BY <1>t, <1>a DEF Phase, Asleep
<1> QED BY <1>n, <1>1, <1>2, <1>3, <1>4 DEF Node


LEMMA ExchangeRadio ==
  ASSUME ExchangeIsSwift, IInv, Radio
  PROVE  Exchange'
<1>t. /\ TypeOK /\ \A i \in Node : Phase(i)
      /\ Roles /\ OneAtATime /\ Placed /\ OnAir /\ PollTaken /\ ResponseArmed /\ ResponseTaken
      /\ FinalComing /\ FinalTaken /\ "I" \in Node /\ "R" \in Node
  BY DEF IInv, HostsChips, HostChip, Exchange, Node
<1>n. /\ pc["I"] \in {"sleep", "waitResp", "waitTx"} /\ pc["R"] \in {"sleep", "listen", "waitFinal"}
      /\ mode \in [Node -> Modes] /\ status \in [Node -> SUBSET Flags]
      /\ left \in [Node -> Nat] /\ rxTs \in [Node -> Timestamps] /\ rxBuf \in [Node -> Frames]
      /\ UNCHANGED <<pc, nap, lag, buf, sdc, pollRxTs, unread>>
  BY <1>t DEF TypeOK, LinkTypeOK, Radio, hostVars, pollVars
<1>r. UNCHANGED hostVars
  BY DEF Radio
(* What stays on the air stays where it was.                               *)
<1>o. ASSUME air' \subseteq air, UNCHANGED <<clock, rxDly, txTs>>, NextPoll' = NextPoll
      PROVE  /\ OnAir' /\ PollRead' = PollRead /\ ResponseRead' = ResponseRead
             /\ \A m, p \in air' : m.frame.kind = p.frame.kind => m = p
             /\ OnItsWay("poll")' => OnItsWay("poll")
             /\ OnItsWay("resp")' => OnItsWay("resp")
             /\ OnItsWay("final")' => OnItsWay("final")
  <2>1. ASSUME NEW m \in air' PROVE m \in air
    BY <1>o
  <2>2. OnAir'
    BY <1>t, <1>n, <1>o, <2>1
       DEF OnAir, PollRead, SincePoll, SinceResponse, OverBefore, Answers, Ends
  <2>3. \A m, p \in air' : m.frame.kind = p.frame.kind => m = p
    BY <1>t, <2>1 DEF OneAtATime
  <2> QED BY <1>n, <2>1, <2>2, <2>3 DEF PollRead, ResponseRead, OnItsWay
(* A reception that ends leaves all that is on the air where it was.       *)
<1>e. ASSUME NEW n \in Node, NEW flag, EndRx(n, flag), mode[n] = "rx", air' \subseteq air,
             \A i \in Node \ {n} : rxTs'[i] = rxTs[i] /\ rxBuf'[i] = rxBuf[i],
             n = "I" /\ flag = "RXFCG" /\ rxBuf'["I"].kind = "resp"
               => /\ rxTs'["I"] = clock["I"]
                  /\ PollRead => /\ Answers(txTs["R"], clock["I"])
                                 /\ SinceResponse(clock["R"] + 0, FLIGHT)
                  /\ ~OnItsWay("resp")' /\ ~HasPoll /\ ~HasFinal /\ mode["R"] # "tx",
             n = "R" /\ flag = "RXFCG" /\ rxBuf'["R"].kind = "poll"
               => /\ rxTs'["R"] = clock["R"]
                  /\ SincePoll(clock["I"] + 0, FLIGHT) /\ OverBefore(0)
                  /\ ~OnItsWay("poll")' /\ ~OnItsWay("final") /\ ~HasResponse /\ ~FinalArmed,
             n = "R" /\ flag = "RXFCG" /\ rxBuf'["R"].kind = "final"
               => (unread = {} => Ends(rxBuf'["R"].data, rxTs'["R"])) /\ ~HasResponse
      PROVE  Exchange'
  <2>1. /\ UNCHANGED <<clock, rxDly, txTs, txBuf>>
        /\ mode'[n] = "idle" /\ left'[n] = 0 /\ status'[n] = status[n] \cup {flag}
        /\ \A i \in Node \ {n} : mode'[i] = mode[i] /\ left'[i] = left[i] /\ status'[i] = status[i]
    BY <1>n, <1>e DEF EndRx
  <2>2. "RXFCG" \notin status[n] /\ pc[n] \in {"waitResp", "listen", "waitFinal"} /\ lag[n] \in Nat
    BY <1>t, <1>n, <1>e, Types DEF Phase, Asleep, RxWait, TxWait, NoRxFlag, RxMask, Node
  <2>3. NextPoll' = NextPoll
    BY <1>t, <1>n, <1>e, <2>1, <2>2 DEF NextPoll, Node
  <2>4. /\ OnAir' /\ PollRead' = PollRead /\ ResponseRead' = ResponseRead
        /\ \A m, p \in air' : m.frame.kind = p.frame.kind => m = p
        /\ OnItsWay("poll")' => OnItsWay("poll")
        /\ OnItsWay("resp")' => OnItsWay("resp")
        /\ OnItsWay("final")' => OnItsWay("final")
    BY <1>e, <1>o, <2>1, <2>3
  <2>5. Roles'
    BY <1>t, <1>n, <1>e, <2>1 DEF Roles, Node
  <2>p. Placed'
    <3>1. ASSUME NEW m \in air'
          PROVE  /\ m.frame.kind \in {"poll", "resp", "final"}
                 /\ m.frame.kind = "poll" => n # "I"
                 /\ m.frame.kind = "resp" => n # "R"
                 /\ m.frame.kind = "final" => n # "I"
      BY <1>t, <1>e DEF Placed
    <3>2. ASSUME NEW m \in air' PROVE m \in air
      BY <1>e
    <3> QED BY <1>t, <1>n, <2>1, <2>3, <3>1, <3>2 DEF Placed, Node
  <2>6. CASE n = "I"
    <3>1. /\ HasPoll' = HasPoll /\ InTime' = InTime /\ HasFinal' = HasFinal
          /\ mode'["R"] = mode["R"] /\ left'["R"] = left["R"] /\ rxTs'["R"] = rxTs["R"]
          /\ rxBuf'["R"] = rxBuf["R"] /\ ~FinalArmed' /\ ~HasResponse /\ pc["I"] = "waitResp"
      BY <1>n, <1>e, <2>1, <2>2, <2>6
         DEF HasPoll, InTime, HasFinal, HasResponse, FinalArmed, Node
    <3>2. PollTaken' /\ ResponseArmed' /\ FinalTaken' /\ FinalComing'
      BY <1>t, <1>n, <2>1, <2>3, <2>4, <3>1
         DEF PollTaken, ResponseArmed, FinalTaken, FinalComing, SincePoll, SinceResponse,
             OverBefore, Answers, Ends
    <3>3. HasResponse' => flag = "RXFCG" /\ rxBuf'["I"].kind = "resp"
      BY <2>1, <2>2, <2>6 DEF HasResponse
    <3>4. OneAtATime'
      <4>1. HasResponse' => ~HasPoll /\ ~HasFinal /\ ~OnItsWay("resp")' /\ mode["R"] # "tx"
        BY <1>e, <2>6, <3>3
      <4>2. Responding' => Responding
        BY <2>4, <3>1 DEF Responding
      <4>3. Responding' => ~HasResponse'
        BY <3>1, <4>1 DEF Responding
      <4> QED BY <1>t, <2>4, <3>1, <4>1, <4>2, <4>3 DEF OneAtATime
    <3>5. ResponseTaken'
      <4>1. SUFFICES ASSUME HasResponse' PROVE ResponseTaken'
        BY DEF ResponseTaken
      <4>2. lag["I"] = 0 /\ lag'["I"] = 0
        BY <1>t, <1>n, <1>e, <2>6, <3>1 DEF Roles
      <4>3. clock["I"] \in Timestamps /\ clock["I"] = (clock["I"] + 0) % TSMOD
        BY <1>t, Types, Numbers DEF Timestamps
      <4>4. 0 - lag'["I"] = 0
        BY <4>2
      <4>5. /\ rxTs'["I"] = clock["I"]
            /\ PollRead => /\ Answers(txTs["R"], clock["I"])
                           /\ SinceResponse(clock["R"] + 0, FLIGHT)
        BY <1>e, <2>6, <3>3, <4>1
      <4>6. PollRead' => Answers(txTs["R"], rxTs["I"])' /\ SinceResponse(clock["R"] + 0, FLIGHT)'
        BY <1>n, <2>1, <2>4, <4>5 DEF Answers, SincePoll, SinceResponse
      <4> QED BY <2>1, <4>2, <4>3, <4>4, <4>5, <4>6 DEF ResponseTaken
    <3> QED BY <2>4, <2>5, <2>p, <3>2, <3>4, <3>5 DEF Exchange
  <2>7. CASE n = "R"
    <3>1. /\ HasResponse' = HasResponse /\ FinalArmed' = FinalArmed /\ mode'["R"] = "idle"
          /\ rxTs'["I"] = rxTs["I"] /\ rxBuf'["I"] = rxBuf["I"] /\ left'["I"] = left["I"]
          /\ ~HasPoll /\ ~HasFinal
      BY <1>n, <1>e, <2>1, <2>2, <2>7 DEF HasPoll, HasFinal, HasResponse, FinalArmed, Node
    <3>2. ResponseArmed' /\ ResponseTaken' /\ FinalComing'
      BY <1>t, <1>n, <2>1, <2>4, <3>1
         DEF ResponseArmed, ResponseTaken, FinalComing, SincePoll, SinceResponse, Answers, Ends
    <3>3. /\ HasPoll' => flag = "RXFCG" /\ rxBuf'["R"].kind = "poll" /\ pc["R"] = "listen"
          /\ HasFinal' => flag = "RXFCG" /\ rxBuf'["R"].kind = "final"
      BY <1>n, <2>1, <2>2, <2>7 DEF HasPoll, HasFinal
    <3>4. OneAtATime'
      <4>1. HasPoll' => ~OnItsWay("poll")' /\ ~OnItsWay("final") /\ ~HasResponse /\ ~FinalArmed
        BY <1>e, <2>7, <3>3
      <4>2. HasFinal' => ~HasResponse
        BY <1>e, <2>7, <3>3
      <4>3. Responding' => Responding
        BY <2>4, <3>1 DEF Responding
      <4> QED BY <1>t, <2>4, <3>1, <4>1, <4>2, <4>3 DEF OneAtATime
    <3>5. PollTaken'
      <4>1. SUFFICES ASSUME HasPoll' PROVE PollTaken'
        BY DEF PollTaken
      <4>2. lag["R"] = 0 /\ lag'["R"] = 0
        BY <1>t, <1>n, <1>e, <2>7, <3>3, <4>1 DEF Roles
      <4>3. clock["R"] \in Timestamps /\ clock["R"] = (clock["R"] + 0) % TSMOD
        BY <1>t, Types, Numbers DEF Timestamps
      <4>4. 0 - lag'["R"] = 0
        BY <4>2
      <4>5. rxTs'["R"] = clock["R"] /\ SincePoll(clock["I"] + 0, FLIGHT) /\ OverBefore(0)
        BY <1>e, <2>7, <3>3, <4>1
      <4>6. SincePoll(clock["I"] + 0, FLIGHT)' /\ OverBefore(0)'
        BY <1>n, <2>1, <2>3, <4>5 DEF SincePoll, OverBefore
      <4> QED BY <2>1, <4>2, <4>3, <4>4, <4>5, <4>6 DEF PollTaken
    <3>6. FinalTaken'
      <4>1. HasFinal' /\ unread = {} => Ends(rxBuf'["R"].data, rxTs'["R"])
        BY <1>e, <2>7, <3>3
      <4> QED BY <1>n, <2>1, <4>1 DEF FinalTaken, Ends, SinceResponse
    <3> QED BY <2>4, <2>5, <2>p, <3>2, <3>4, <3>5, <3>6 DEF Exchange
  <2> QED BY <2>6, <2>7 DEF Node
<1>1. ASSUME NEW n \in Node, Transmit(n) PROVE Exchange'
  BY <1>1, <1>r, ExchangeTransmits
<1>2. ASSUME NEW n \in Node, OpenRx(n) PROVE Exchange'
  <2>1. /\ mode[n] = "gap" /\ left[n] = 0 /\ pc[n] \in {"waitResp", "waitFinal"}
        /\ "RXFCG" \notin status[n]
    BY <1>t, <1>n, <1>2 DEF OpenRx, Phase, Asleep, RxWait, TxWait, NoRxFlag, RxMask, Node
  <2>2. /\ UNCHANGED <<clock, rxDly, txTs, rxTs, txBuf, status, air>> /\ mode'[n] = "rx"
        /\ rxBuf'[n].kind = "none"
        /\ \A i \in Node \ {n} : mode'[i] = mode[i] /\ left'[i] = left[i] /\ rxBuf'[i] = rxBuf[i]
    BY <1>n, <1>2 DEF OpenRx, NoFrame, Frame
  <2>3. Roles'
    BY <1>t, <1>n, <2>1, <2>2 DEF Roles, Node
  <2>4. NextPoll' = NextPoll
    BY <1>n, <2>1, <2>2, Numbers DEF NextPoll, Node
  <2>5. /\ OnAir' /\ PollRead' = PollRead /\ ResponseRead' = ResponseRead
        /\ \A m, p \in air' : m.frame.kind = p.frame.kind => m = p
        /\ OnItsWay("poll")' => OnItsWay("poll")
        /\ OnItsWay("resp")' => OnItsWay("resp")
        /\ OnItsWay("final")' => OnItsWay("final")
    BY <1>o, <2>2, <2>4
  <2>6. /\ HasPoll' = HasPoll /\ InTime' = InTime /\ HasResponse' = HasResponse
        /\ HasFinal' = HasFinal /\ FinalArmed' = FinalArmed
        /\ (HasResponse => n # "I") /\ (HasFinal => n # "R") /\ (HasPoll => n # "R")
        /\ (FinalArmed => n # "I")
        /\ mode'["R"] = "tx" => mode["R"] = "tx" /\ n # "R"
    BY <1>n, <2>1, <2>2 DEF HasPoll, InTime, HasResponse, HasFinal, FinalArmed, Node
  <2>7. OneAtATime'
    <3>1. Responding' => Responding
      BY <2>5, <2>6 DEF Responding
    <3> QED BY <1>t, <2>5, <2>6, <3>1 DEF OneAtATime
  <2>8. Placed'
    <3>1. ASSUME NEW m \in air
          PROVE  /\ m.frame.kind = "poll" => n # "I"
                 /\ m.frame.kind = "resp" => n # "R"
                 /\ m.frame.kind = "final" => n # "I"
      BY <1>t, <2>1, Types DEF Placed
    <3> QED BY <1>t, <1>n, <2>2, <2>4, <3>1 DEF Placed, Node
  <2>9. PollTaken' /\ ResponseArmed' /\ ResponseTaken' /\ FinalComing' /\ FinalTaken'
    BY <1>t, <1>n, <2>2, <2>4, <2>5, <2>6
       DEF PollTaken, ResponseArmed, ResponseTaken, FinalComing, FinalTaken, SincePoll,
           SinceResponse, OverBefore, Answers, Ends, Node
  <2> QED BY <2>3, <2>5, <2>7, <2>8, <2>9 DEF Exchange
<1>3. ASSUME NEW n \in Node, RxTimeout(n) PROVE Exchange'
  BY <1>t, <1>e, <1>3 DEF RxTimeout
<1>4. ASSUME NEW m \in air, Receive(m) PROVE Exchange'
  <2>1. /\ m.to \in Node /\ m.left = 0 /\ mode[m.to] = "rx" /\ EndRx(m.to, "RXFCG")
        /\ air' = air \ {m} /\ rxTs'[m.to] = clock[m.to] /\ rxBuf'[m.to] = m.frame
        /\ \A i \in Node \ {m.to} : rxTs'[i] = rxTs[i] /\ rxBuf'[i] = rxBuf[i]
    BY <1>t, <1>n, <1>4, Types DEF Receive
  <2>2. /\ clock["I"] + m.left = clock["I"] /\ clock["R"] + m.left = clock["R"]
        /\ clock["R"] + 0 = clock["R"] /\ clock["I"] + 0 = clock["I"]
    BY <1>t, <2>1, Types
  <2>3. ~OnItsWay(m.frame.kind)'
    BY <1>t, <2>1 DEF OneAtATime, OnItsWay
  <2>4. m.frame.kind = "resp" =>
          /\ PollRead => Answers(txTs["R"], clock["I"]) /\ SinceResponse(clock["R"] + 0, FLIGHT)
          /\ ~HasPoll /\ ~HasFinal /\ mode["R"] # "tx"
    <3>1. m.frame.kind = "resp" => pc["R"] = "waitFinal" /\ mode["R"] = "gap"
      BY <1>t DEF Placed
    <3>2. m.frame.kind = "resp" => "RXFCG" \notin status["R"]
      BY <1>t, <3>1 DEF Phase, RxWait, NoRxFlag, RxMask
    <3>3. m.frame.kind = "resp" /\ PollRead
            => Answers(txTs["R"], clock["I"]) /\ SinceResponse(clock["R"] + 0, FLIGHT)
      BY <1>t, <2>2 DEF OnAir
    <3> QED BY <3>1, <3>2, <3>3 DEF HasPoll, HasFinal
  <2>5. m.frame.kind = "poll" =>
          /\ SincePoll(clock["I"] + 0, FLIGHT) /\ OverBefore(0)
          /\ ~OnItsWay("final") /\ ~HasResponse /\ ~FinalArmed
    <3>1. m.frame.kind = "poll" => pc["I"] = "waitResp" /\ mode["I"] = "gap"
      BY <1>t DEF Placed
    <3>2. m.frame.kind = "poll" => "RXFCG" \notin status["I"]
      BY <1>t, <3>1 DEF Phase, RxWait, NoRxFlag, RxMask
    <3>3. m.frame.kind = "poll" => ~OnItsWay("final")
      BY <1>t, <3>1 DEF Placed, OnItsWay
    <3>4. m.frame.kind = "poll" => SincePoll(clock["I"] + 0, FLIGHT) /\ OverBefore(0)
      BY <1>t, <2>1, <2>2 DEF OnAir
    <3> QED BY <3>1, <3>2, <3>3, <3>4 DEF HasResponse, FinalArmed
  <2>6. m.frame.kind = "final" =>
          (unread = {} => Ends(m.frame.data, clock["R"])) /\ ~HasResponse
    BY <1>t, <2>2 DEF OnAir, Placed, HasResponse
  <2>7. air' \subseteq air
    BY <2>1
  <2> QED BY <1>e, <2>1, <2>3, <2>4, <2>5, <2>6, <2>7
<1>5. ASSUME NEW m \in air, Miss(m) PROVE Exchange'
  <2>1. UNCHANGED <<clock, chipVars, rxDly>> /\ air' \subseteq air
    BY <1>5 DEF Miss
  <2>2. /\ NextPoll' = NextPoll /\ HasPoll' = HasPoll /\ InTime' = InTime
        /\ HasResponse' = HasResponse /\ HasFinal' = HasFinal /\ FinalArmed' = FinalArmed
    BY <1>n, <2>1 DEF chipVars, NextPoll, HasPoll, InTime, HasResponse, HasFinal, FinalArmed
  <2>3. /\ OnAir' /\ PollRead' = PollRead /\ ResponseRead' = ResponseRead
        /\ \A p, o \in air' : p.frame.kind = o.frame.kind => p = o
        /\ OnItsWay("poll")' => OnItsWay("poll")
        /\ OnItsWay("resp")' => OnItsWay("resp")
        /\ OnItsWay("final")' => OnItsWay("final")
    BY <1>o, <2>1, <2>2 DEF chipVars
  <2>4. OneAtATime'
    <3>1. Responding' => Responding
      BY <2>1, <2>3 DEF Responding, chipVars
    <3> QED BY <1>t, <2>2, <2>3, <3>1 DEF OneAtATime
  <2>5. Placed'
    BY <1>t, <1>n, <2>1, <2>2 DEF Placed, chipVars
  <2>6. Roles'
    BY <1>t, <1>n, <2>1 DEF Roles, chipVars
  <2>7. PollTaken' /\ ResponseArmed' /\ ResponseTaken' /\ FinalComing' /\ FinalTaken'
    BY <1>t, <1>n, <2>1, <2>2, <2>3
       DEF chipVars, PollTaken, ResponseArmed, ResponseTaken, FinalComing, FinalTaken, SincePoll,
           SinceResponse, OverBefore, Answers, Ends
  <2> QED BY <2>3, <2>4, <2>5, <2>6, <2>7 DEF Exchange
<1>6. ASSUME NEW m \in air, Corrupt(m) PROVE Exchange'
  <2>1. /\ m.to \in Node /\ mode[m.to] = "rx" /\ EndRx(m.to, "RXERR")
        /\ air' \subseteq air /\ UNCHANGED <<rxTs, rxBuf>>
    BY <1>t, <1>6, Types DEF Corrupt
  <2> QED BY <1>t, <1>e, <2>1
<1>7. ASSUME NEW n \in Node, NEW k \in Foreign, Interfere(n, k) PROVE Exchange'
  <2>1. CASE k = "bad"
    <3>1. /\ mode[n] = "rx" /\ EndRx(n, "RXERR") /\ air' \subseteq air /\ UNCHANGED <<rxTs, rxBuf>>
      BY <1>7, <2>1 DEF Interfere
    <3> QED BY <1>t, <1>e, <3>1
  <2>2. CASE k # "bad"
    <3>1. k \in {"short", "long"}
      BY <2>2, LinkAssumption DEF ForeignKinds
    <3>2. /\ mode[n] = "rx" /\ EndRx(n, "RXFCG") /\ air' \subseteq air
          /\ rxBuf'[n].kind \notin {"poll", "resp", "final"}
          /\ \A i \in Node \ {n} : rxTs'[i] = rxTs[i] /\ rxBuf'[i] = rxBuf[i]
      BY <1>n, <1>7, <2>2, <3>1 DEF Interfere, Frame
    <3> QED BY <1>e, <3>2
  <2> QED BY <2>1, <2>2
<1> QED
  BY <1>1, <1>2, <1>3, <1>4, <1>5, <1>6, <1>7 DEF Radio, Hardware, Interference

(* A tick brings everything nearer, the next poll at most as much as what  *)
(* is left of the last exchange.                                           *)
LEMMA ExchangeTick ==
  ASSUME ExchangeIsSwift, IInv, Tick
  PROVE  Exchange'
<1>t. /\ TypeOK /\ \A i \in Node : Phase(i)
      /\ Roles /\ OneAtATime /\ Placed /\ OnAir /\ PollTaken /\ ResponseArmed /\ ResponseTaken
      /\ FinalComing /\ FinalTaken /\ "I" \in Node /\ "R" \in Node
  BY DEF IInv, HostsChips, HostChip, Exchange, Node
<1>n. /\ UNCHANGED <<pc, mode, status, txTs, rxTs, txBuf, rxBuf, buf, rxDly, pollRxTs, unread>>
      /\ \A n \in Node : /\ clock'[n] = (clock[n] + 1) % TSMOD
                         /\ mode[n] \in {"tx", "gap"} => left[n] > 0 /\ left'[n] = left[n] - 1
                         /\ nap'[n] = (IF nap[n] > 0 THEN nap[n] - 1 ELSE 0)
                         /\ lag'[n] = (IF HostDue(n) THEN lag[n] + 1 ELSE 0)
      /\ air' = {Nearer(m) : m \in air} /\ \A m \in air : m.left > 0
  BY DEF Tick, HostTick, LinkTick, CountsDown
<1>k. NextPoll' >= NextPoll - 1 /\ NextPoll \in Int /\ NextPoll' \in Int
  <2>1. /\ nap["I"] \in Nat /\ left["I"] \in Nat /\ RNG_DELAY \in Nat /\ NextPoll \in Int
    BY <1>t, Types, Numbers
  <2> QED BY <1>t, <1>n, <2>1 DEF NextPoll
<1>i. \A n \in Node : clock[n] \in Int /\ txTs[n] \in Int /\ rxTs[n] \in Int /\ lag[n] \in Nat
  BY <1>t, Types
<1>p. pollRxTs \in Int
  BY <1>t, Types
(* What lies ahead of a clock still does.                                  *)
<1>s. ASSUME NEW u \in Int, NEW v \in Int
      PROVE  /\ SincePoll(clock["I"] + u, v) => SincePoll(clock["I"] + (u - 1), v)'
             /\ SinceResponse(clock["R"] + u, v) => SinceResponse(clock["R"] + (u - 1), v)'
  <2>1. /\ SameLo((clock["I"] + u) - txTs["I"], v)
             => SameLo((((clock["I"] + 1) % TSMOD) + (u - 1)) - txTs["I"], v)
        /\ SameLo((clock["R"] + u) - txTs["R"], v)
             => SameLo((((clock["R"] + 1) % TSMOD) + (u - 1)) - txTs["R"], v)
    BY <1>t, <1>i, SameLoTick
  <2> QED BY <1>t, <1>n, <2>1 DEF SincePoll, SinceResponse
<1>a. ASSUME NEW u \in Int, Answers(txTs["R"], clock["I"] + u)
      PROVE  Answers(txTs["R"], clock["I"] + (u - 1))'
  <2>1. PICK reply \in 0 .. POLL_RX_TO_RESP_TX_DLY + TX_ANT_DLY :
          SameLo(txTs["R"] - pollRxTs, reply) /\ SincePoll(clock["I"] + u, 2 * FLIGHT + reply)
    BY <1>a DEF Answers
  <2>2. 2 * FLIGHT + reply \in Int
    BY Numbers
  <2>3. SincePoll(clock["I"] + (u - 1), 2 * FLIGHT + reply)'
    BY <1>s, <2>1, <2>2
  <2> QED BY <1>n, <2>1, <2>3 DEF Answers
<1>e. ASSUME NEW u \in Int, NEW data, Ends(data, clock["R"] + u)
      PROVE  Ends(data, clock["R"] + (u - 1))'
  <2>1. PICK pollTx \in 0 .. LOMOD - 1, respRx \in 0 .. LOMOD - 1, finalTx \in 0 .. LOMOD - 1,
             reply \in 0 .. POLL_RX_TO_RESP_TX_DLY + TX_ANT_DLY,
             last \in 0 .. RESP_RX_TO_FINAL_TX_DLY + TX_ANT_DLY :
          /\ data = <<pollTx, respRx, finalTx>>
          /\ SameLo(txTs["R"] - pollRxTs, reply) /\ SameLo(respRx - pollTx, 2 * FLIGHT + reply)
          /\ SameLo(finalTx - respRx, last) /\ SinceResponse(clock["R"] + u, 2 * FLIGHT + last)
    BY <1>e DEF Ends
  <2>2. 2 * FLIGHT + last \in Int
    BY Numbers
  <2>3. SinceResponse(clock["R"] + (u - 1), 2 * FLIGHT + last)'
    BY <1>s, <2>1, <2>2
  <2> QED BY <1>n, <2>1, <2>3 DEF Ends
<1>h. /\ HasPoll' = HasPoll /\ HasResponse' = HasResponse /\ HasFinal' = HasFinal
      /\ FinalArmed' = FinalArmed
      /\ HasPoll => lag'["R"] = lag["R"] + 1
      /\ HasResponse => lag'["I"] = lag["I"] + 1
      /\ HasPoll /\ InTime' => InTime
  <2>1. /\ HasPoll' = HasPoll /\ HasResponse' = HasResponse /\ HasFinal' = HasFinal
        /\ FinalArmed' = FinalArmed
    BY <1>n DEF HasPoll, HasResponse, HasFinal, FinalArmed
  <2>2. (HasPoll => HostDue("R")) /\ (HasResponse => HostDue("I"))
    BY DEF HasPoll, HasResponse, HostDue, Noticed, Awaited, TxPoints, DataPoints, RespPoints, RxMask
  <2>3. /\ HasPoll => lag'["R"] = lag["R"] + 1
        /\ HasResponse => lag'["I"] = lag["I"] + 1
    BY <1>t, <1>n, <2>2
  <2> QED BY <1>t, <1>i, <2>1, <2>3, Numbers DEF InTime
<1>b. PollRead' = PollRead /\ ResponseRead' = ResponseRead
  BY <1>n DEF PollRead, ResponseRead
<1>c. \A m \in air' : \E o \in air : /\ m = Nearer(o) /\ m.frame = o.frame /\ m.left = o.left - 1
                                     /\ o.left \in Nat /\ o.left > 0
  BY <1>t, <1>n, Types DEF Nearer
<1>1. OneAtATime'
  <2>1. \A m, o \in air' : m.frame.kind = o.frame.kind => m = o
    BY <1>t, <1>c DEF OneAtATime
  <2>2. /\ OnItsWay("poll")' => OnItsWay("poll")
        /\ OnItsWay("resp")' => OnItsWay("resp")
        /\ OnItsWay("final")' => OnItsWay("final")
    BY <1>c DEF OnItsWay
  <2>3. Responding' => Responding
    BY <1>n, <1>b, <2>2 DEF Responding
  <2> QED BY <1>t, <1>n, <1>b, <1>h, <2>1, <2>2, <2>3 DEF OneAtATime
<1>l. Placed'
  <2> SUFFICES ASSUME NEW m \in air'
               PROVE  /\ m.frame.kind \in {"poll", "resp", "final"}
                      /\ m.frame.kind = "poll"
                           => pc'["I"] = "waitResp" /\ mode'["I"] = "gap" /\ m.left < left'["I"]
                      /\ m.frame.kind = "resp"
                           => pc'["R"] = "waitFinal" /\ mode'["R"] = "gap" /\ m.left < left'["R"]
                      /\ m.frame.kind = "final"
                           => pc'["I"] \in {"sleep", "waitTx"} /\ mode'["I"] = "idle" /\ m.left < NextPoll'
    BY DEF Placed
  <2>1. PICK o \in air : m.frame = o.frame /\ m.left = o.left - 1 /\ o.left \in Nat
    BY <1>c
  <2>2. left["I"] \in Nat /\ left["R"] \in Nat
    BY <1>t, Types
  <2>3. /\ m.frame.kind \in {"poll", "resp", "final"}
        /\ m.frame.kind = "poll"  => pc["I"] = "waitResp" /\ mode["I"] = "gap" /\ o.left < left["I"]
        /\ m.frame.kind = "resp"  => pc["R"] = "waitFinal" /\ mode["R"] = "gap" /\ o.left < left["R"]
        /\ m.frame.kind = "final" => /\ pc["I"] \in {"sleep", "waitTx"} /\ mode["I"] = "idle"
                                     /\ o.left < NextPoll
    BY <1>t, <2>1 DEF Placed
  <2>4. /\ mode["I"] = "gap" => left'["I"] = left["I"] - 1
        /\ mode["R"] = "gap" => left'["R"] = left["R"] - 1
    BY <1>t, <1>n
  <2> QED BY <1>n, <1>k, <2>1, <2>2, <2>3, <2>4
<1>2. OnAir'
  <2>1. ASSUME NEW m \in air'
        PROVE  /\ m.frame.kind = "poll"
                    => SincePoll(clock["I"] + m.left, FLIGHT)' /\ OverBefore(m.left)'
               /\ m.frame.kind = "resp" /\ PollRead' =>
                    /\ m.left < NextPoll' /\ Answers(txTs["R"], clock["I"] + m.left)'
                    /\ SinceResponse(clock["R"] + m.left, FLIGHT)'
               /\ m.frame.kind = "final" /\ unread' = {}
                    => Ends(m.frame.data, clock["R"] + m.left)'
    <3>1. PICK o \in air : o.left \in Int /\ m.left = o.left - 1 /\ m.frame = o.frame
      BY <1>c
    <3>2. CASE m.frame.kind = "poll"
      <4>1. SincePoll(clock["I"] + o.left, FLIGHT) /\ OverBefore(o.left)
        BY <1>t, <3>1, <3>2 DEF OnAir
      <4>2. SincePoll(clock["I"] + (o.left - 1), FLIGHT)'
        BY <1>s, <3>1, <4>1, Numbers
      <4>3. OverBefore(m.left)'
        BY <1>k, <3>1, <4>1, Numbers DEF OverBefore
      <4> QED BY <3>1, <3>2, <4>2, <4>3
    <3>3. CASE m.frame.kind = "resp" /\ PollRead'
      <4>1. /\ Answers(txTs["R"], clock["I"] + o.left) /\ o.left < NextPoll
            /\ SinceResponse(clock["R"] + o.left, FLIGHT)
        BY <1>t, <1>b, <3>1, <3>3 DEF OnAir
      <4>2. /\ Answers(txTs["R"], clock["I"] + (o.left - 1))'
            /\ SinceResponse(clock["R"] + (o.left - 1), FLIGHT)'
        BY <1>a, <1>s, <3>1, <4>1, Numbers
      <4>3. m.left < NextPoll'
        BY <1>k, <3>1, <4>1
      <4> QED BY <3>1, <3>3, <4>2, <4>3
    <3>4. CASE m.frame.kind = "final" /\ unread' = {}
      <4>1. Ends(o.frame.data, clock["R"] + o.left)
        BY <1>t, <1>n, <3>1, <3>4 DEF OnAir
      <4>2. Ends(o.frame.data, clock["R"] + (o.left - 1))'
        BY <1>e, <3>1, <4>1
      <4> QED BY <3>1, <3>4, <4>2
    <3> QED BY <3>2, <3>3, <3>4
  <2> QED BY <2>1 DEF OnAir
<1>3. PollTaken'
  <2> SUFFICES ASSUME HasPoll' PROVE PollTaken'
    BY DEF PollTaken
  <2>1. HasPoll /\ lag'["R"] = lag["R"] + 1 /\ clock["R"] = (rxTs["R"] + lag["R"]) % TSMOD
        /\ lag["R"] \in Int /\ rxTs["R"] \in Int
    BY <1>t, <1>h, <1>i DEF PollTaken
  <2>2. clock'["R"] = (rxTs["R"] + lag'["R"]) % TSMOD
    BY <1>t, <1>n, <2>1, CountedOn
  <2>3. ASSUME InTime' PROVE SincePoll(clock["I"] + (0 - lag["R"]), FLIGHT)' /\ OverBefore(0 - lag["R"])'
    <3> DEFINE u == 0 - lag["R"]
    <3>1. u \in Int /\ SincePoll(clock["I"] + u, FLIGHT) /\ OverBefore(u) /\ FLIGHT \in Int
      BY <1>t, <1>h, <2>1, <2>3, Numbers DEF PollTaken
    <3>2. u - 1 = 0 - lag'["R"]
      BY <2>1
    <3> HIDE DEF u
    <3>3. pc["I"] = "waitResp"
            => SameLo((((clock["I"] + 1) % TSMOD) + (u - 1)) - txTs["I"], FLIGHT)
      BY <1>t, <1>i, <3>1, SameLoTick DEF SincePoll
    <3>4. SincePoll(clock["I"] + (0 - lag["R"]), FLIGHT)'
      BY <1>t, <1>n, <3>2, <3>3 DEF SincePoll
    <3>5. OverBefore(0 - lag["R"])'
      BY <1>k, <3>1, <3>2, Numbers DEF OverBefore
    <3> QED BY <3>4, <3>5
  <2> QED BY <1>n, <2>2, <2>3 DEF PollTaken
<1>4. ResponseArmed'
  <2>0. mode'["R"] = "tx" => txBuf'["R"].kind = "resp"
    BY <1>t, <1>n DEF ResponseArmed
  <2> SUFFICES ASSUME mode'["R"] = "tx", PollRead'
               PROVE  /\ left'["R"] + FLIGHT < NextPoll'
                      /\ Answers(clock["R"] + left["R"], clock["I"] + (left["R"] + FLIGHT))'
    BY <2>0 DEF ResponseArmed
  <2> DEFINE w == left["R"]
             u == left["R"] + FLIGHT
  <2>1. /\ mode["R"] = "tx" /\ w \in Int /\ left'["R"] = w - 1
        /\ u \in Int /\ left'["R"] + FLIGHT = u - 1
    BY <1>t, <1>n, Types, Numbers
  <2>2. u < NextPoll /\ Answers(clock["R"] + w, clock["I"] + u)
    BY <1>t, <1>b, <2>1 DEF ResponseArmed
  <2> HIDE DEF u, w
  <2>3. PICK reply \in 0 .. POLL_RX_TO_RESP_TX_DLY + TX_ANT_DLY :
          SameLo((clock["R"] + w) - pollRxTs, reply) /\ SincePoll(clock["I"] + u, 2 * FLIGHT + reply)
    BY <2>2 DEF Answers
  <2>4. 2 * FLIGHT + reply \in Int /\ reply \in Int
    BY Numbers
  <2>5. pc["I"] = "waitResp"
          => SameLo((((clock["I"] + 1) % TSMOD) + (u - 1)) - txTs["I"], 2 * FLIGHT + reply)
    BY <1>t, <1>i, <2>1, <2>3, <2>4, SameLoTick DEF SincePoll
  <2>6. SameLo((((clock["R"] + 1) % TSMOD) + (w - 1)) - pollRxTs, reply)
    BY <1>t, <1>i, <1>p, <2>1, <2>3, <2>4, SameLoTick
  <2>7. /\ SincePoll(clock["I"] + (left["R"] + FLIGHT), 2 * FLIGHT + reply)'
        /\ SameLo((clock["R"] + left["R"]) - pollRxTs, reply)'
    BY <1>t, <1>n, <2>1, <2>5, <2>6 DEF SincePoll
  <2>8. Answers(clock["R"] + left["R"], clock["I"] + (left["R"] + FLIGHT))'
    BY <2>3, <2>7 DEF Answers
  <2> QED BY <1>k, <2>1, <2>2, <2>8
<1>5. ResponseTaken'
  <2> SUFFICES ASSUME HasResponse' PROVE ResponseTaken'
    BY DEF ResponseTaken
  <2>1. /\ HasResponse /\ lag'["I"] = lag["I"] + 1 /\ clock["I"] = (rxTs["I"] + lag["I"]) % TSMOD
        /\ lag["I"] \in Int /\ rxTs["I"] \in Int
        /\ PollRead' => /\ Answers(txTs["R"], rxTs["I"])
                        /\ SinceResponse(clock["R"] + (0 - lag["I"]), FLIGHT)
    BY <1>t, <1>b, <1>h, <1>i DEF ResponseTaken
  <2>2. clock'["I"] = (rxTs["I"] + lag'["I"]) % TSMOD
    BY <1>t, <1>n, <2>1, CountedOn
  <2>3. PollRead' => Answers(txTs["R"], rxTs["I"])'
    BY <1>n, <2>1 DEF Answers, SincePoll
  <2>4. ASSUME PollRead' PROVE SinceResponse(clock["R"] + (0 - lag["I"]), FLIGHT)'
    <3> DEFINE u == 0 - lag["I"]
    <3>1. u \in Int /\ SinceResponse(clock["R"] + u, FLIGHT) /\ FLIGHT \in Int
      BY <2>1, <2>4, Numbers
    <3>2. u - 1 = 0 - lag'["I"]
      BY <2>1
    <3> HIDE DEF u
    <3>3. SameLo((((clock["R"] + 1) % TSMOD) + (u - 1)) - txTs["R"], FLIGHT)
      BY <1>t, <1>i, <3>1, SameLoTick DEF SinceResponse
    <3> QED BY <1>t, <1>n, <3>2, <3>3 DEF SinceResponse
  <2> QED BY <1>n, <2>2, <2>3, <2>4 DEF ResponseTaken
<1>6. FinalComing'
  <2>0. FinalArmed' => txBuf'["I"].kind = "final"
    BY <1>t, <1>n, <1>h DEF FinalComing
  <2> SUFFICES ASSUME FinalArmed', unread' = {}
               PROVE  Ends(txBuf["I"].data, clock["R"] + (left["I"] + FLIGHT))'
    BY <2>0 DEF FinalComing
  <2> DEFINE u == left["I"] + FLIGHT
  <2>1. FinalArmed /\ u \in Int /\ left'["I"] + FLIGHT = u - 1
    <3>1. FinalArmed /\ mode["I"] = "tx"
      BY <1>h DEF FinalArmed
    <3>2. left["I"] \in Nat
      BY <1>t, Types
    <3> QED BY <1>t, <1>n, <3>1, <3>2, Numbers
  <2>2. Ends(txBuf["I"].data, clock["R"] + u)
    BY <1>t, <1>n, <2>1 DEF FinalComing
  <2> HIDE DEF u
  <2>3. PICK pollTx \in 0 .. LOMOD - 1, respRx \in 0 .. LOMOD - 1, finalTx \in 0 .. LOMOD - 1,
             reply \in 0 .. POLL_RX_TO_RESP_TX_DLY + TX_ANT_DLY,
             last \in 0 .. RESP_RX_TO_FINAL_TX_DLY + TX_ANT_DLY :
          /\ txBuf["I"].data = <<pollTx, respRx, finalTx>>
          /\ SameLo(txTs["R"] - pollRxTs, reply) /\ SameLo(respRx - pollTx, 2 * FLIGHT + reply)
          /\ SameLo(finalTx - respRx, last) /\ SinceResponse(clock["R"] + u, 2 * FLIGHT + last)
    BY <2>2 DEF Ends
  <2>4. 2 * FLIGHT + last \in Int
    BY Numbers
  <2>5. SameLo((((clock["R"] + 1) % TSMOD) + (u - 1)) - txTs["R"], 2 * FLIGHT + last)
    BY <1>t, <1>i, <2>1, <2>3, <2>4, SameLoTick DEF SinceResponse
  <2>6. SinceResponse(clock["R"] + (left["I"] + FLIGHT), 2 * FLIGHT + last)'
    BY <1>t, <1>n, <2>1, <2>5 DEF SinceResponse
  <2> QED BY <1>n, <2>3, <2>6 DEF Ends
<1>7. FinalTaken'
  BY <1>t, <1>n, <1>h DEF FinalTaken, Ends, SinceResponse
<1>8. Roles'
  <2>1. /\ pc["R"] = "listen" /\ mode["R"] # "idle" => ~HostDue("R")
        /\ pc["I"] = "waitResp" /\ mode["I"] # "idle" => ~HostDue("I")
    BY <1>t
       DEF HostDue, Noticed, Awaited, Awake, Rested, TxPoints, DataPoints, RespPoints, Phase,
           RxWait, NoRxFlag, RxMask
  <2> QED BY <1>t, <1>n, <2>1 DEF Roles
<1> QED BY <1>1, <1>l, <1>2, <1>3, <1>4, <1>5, <1>6, <1>7, <1>8 DEF Exchange
-----------------------------------------------------------------------------
(* No disturbance is forgotten.                                            *)
LEMMA FaultsAreCounted ==
  ASSUME TypeOK, [Next]_vars
  PROVE  faults' = faults \/ faults' = faults + 1
  <1>1. CASE Initiator \/ Responder \/ Tick \/ UNCHANGED vars
    BY <1>1
       DEF Initiator, SendPoll, RecvResponse, RecvResponseLate, RecvNoResponse, InitiatorGotFrame,
           ResponseDistrusted, ResponseFailed, FinalSent, Responder, Listen, RecvPoll,
           RecvPollLate, RecvNoPoll, RecvFinal, RecvNoFinal, ResponderGotPoll, ResponderGotFrame,
           FrameDistrusted, ResponderFailed, Rest, Tick, HostTick, LinkTick, vars, linkVars
  <1>2. CASE Radio
    BY <1>2
       DEF Radio, Hardware, Interference, Transmit, OpenRx, RxTimeout, Receive, Miss, Corrupt,
           Interfere, Fault
  <1> QED BY <1>1, <1>2 DEF Next

(* The exchange is as it should be in every reachable state.               *)
LEMMA ExchangeAlways ==
  ASSUME ExchangeIsSwift
  PROVE  Spec => []Exchange
<1>1. Init => Exchange
  <2> SUFFICES ASSUME Init PROVE Exchange
    OBVIOUS
  <2>1. Roles /\ Placed
    BY DEF Init, LinkInit, HostInit, NoFrame, Frame, Roles, Placed, Node
  <2>2. OneAtATime /\ OnAir /\ PollTaken /\ ResponseArmed /\ ResponseTaken /\ FinalComing /\ FinalTaken
    BY DEF Init, LinkInit, HostInit, OneAtATime, OnAir, PollTaken, ResponseArmed, ResponseTaken,
           FinalComing, FinalTaken, HasPoll, HasResponse, HasFinal, FinalArmed, Responding,
           OnItsWay, Node
  <2> QED BY <2>1, <2>2 DEF Exchange
<1>2. TypeOK /\ HostsChips /\ Exchange /\ [Next]_vars => Exchange'
  <2> SUFFICES ASSUME TypeOK, HostsChips, Exchange, [Next]_vars
               PROVE  Exchange'
    OBVIOUS
  <2>0. IInv
    BY DEF IInv
  <2>1. CASE UNCHANGED vars
    <3>1. /\ UNCHANGED <<clock, mode, left, status, txTs, rxTs, txBuf, rxBuf, rxDly, air>>
          /\ UNCHANGED <<pc, nap, lag, buf, pollRxTs, unread>>
      BY <2>1 DEF vars, linkVars, chipVars, hostVars, pollVars
    <3>2. /\ NextPoll' = NextPoll /\ HasPoll' = HasPoll /\ InTime' = InTime
          /\ HasResponse' = HasResponse /\ HasFinal' = HasFinal /\ FinalArmed' = FinalArmed
          /\ PollRead' = PollRead /\ ResponseRead' = ResponseRead
      BY <3>1
         DEF NextPoll, HasPoll, InTime, HasResponse, HasFinal, FinalArmed, PollRead, ResponseRead
    <3>3. OneAtATime' /\ Roles' /\ Placed'
      BY <3>1, <3>2 DEF Exchange, OneAtATime, Roles, Placed, Responding, OnItsWay
    <3>4. OnAir'
      BY <3>1, <3>2 DEF Exchange, OnAir, SincePoll, SinceResponse, OverBefore, Answers, Ends
    <3>5. PollTaken' /\ ResponseArmed' /\ ResponseTaken' /\ FinalComing' /\ FinalTaken'
      BY <3>1, <3>2
         DEF Exchange, PollTaken, ResponseArmed, ResponseTaken, FinalComing, FinalTaken,
             SincePoll, SinceResponse, OverBefore, Answers, Ends
    <3> QED BY <3>3, <3>4, <3>5 DEF Exchange
  <2> QED
    BY <2>0, <2>1, ExchangeInitiator, ExchangeResponder, ExchangeRadio, ExchangeTick DEF Next
<1> QED BY <1>1, <1>2, TypeCorrect, HostsChipsInvariant, PTL DEF Spec

(* Whatever is lost, disturbed, foreign or late, with and without an STS,  *)
(* the responder reports the true time of flight of every exchange whose   *)
(* poll and response were read, for all values of clocks and delays for    *)
(* which an exchange is over before the next one starts.                   *)
THEOREM DistanceAlwaysTrue ==
  ASSUME ExchangeIsSwift
  PROVE  Spec => DistanceIsTrue
  <1>1. TypeOK /\ HostsChips /\ Exchange /\ [Next]_vars
          => [RecvFinal /\ unread = {} => tof' = <<FLIGHT>>]_vars
    BY FinalIsRanged DEF IInv
  <1> QED BY <1>1, ExchangeAlways, TypeCorrect, HostsChipsInvariant, PTL DEF Spec, DistanceIsTrue
-----------------------------------------------------------------------------
(* The windows. A host is never too late for its delayed transmission, the *)
(* receiver that waits for the answer is on when that comes and has not    *)
(* timed out, and the responder listens again before the next poll comes.  *)
Reply == POLL_RX_TO_RESP_TX_DLY + TX_ANT_DLY
Last  == RESP_RX_TO_FINAL_TX_DLY + TX_ANT_DLY

WindowsFit ==
  /\ MaxLag + QUANTUM <= POLL_RX_TO_RESP_TX_DLY + 1 /\ POLL_RX_TO_RESP_TX_DLY < TSMOD \div 2
  /\ MaxLag + QUANTUM <= RESP_RX_TO_FINAL_TX_DLY + 1 /\ RESP_RX_TO_FINAL_TX_DLY < TSMOD \div 2
  /\ POLL_TX_TO_RESP_RX_DLY + QUANTUM <= 2 * FLIGHT + Reply
  /\ 2 * FLIGHT + Reply < POLL_TX_TO_RESP_RX_DLY + RESP_RX_TIMEOUT
  /\ RESP_TX_TO_FINAL_RX_DLY + QUANTUM <= 2 * FLIGHT + Last
  /\ 2 * FLIGHT + Last < RESP_TX_TO_FINAL_RX_DLY + FINAL_RX_TIMEOUT
  /\ RNG_DELAY_RESP + 2 * MaxLag < RNG_DELAY /\ FLIGHT + MaxLag < RNG_DELAY

(* The initiator's exchange is over, but for a final message on its way.   *)
Over == pc["I"] \in {"sleep", "waitTx"} /\ mode["I"] = "idle"

(* Every frame is on its way to the node it is meant for, and the receiver *)
(* is set up as the point of the loop asks.                                *)
Addressed ==
  /\ \A m \in air : m.to = IF m.frame.kind = "resp" THEN "I" ELSE "R"
  /\ rxTo["I"] = RESP_RX_TIMEOUT
  /\ pc["R"] = "listen" => rxTo["R"] = 0
  /\ pc["R"] = "waitFinal" => rxTo["R"] = FINAL_RX_TIMEOUT /\ rxDly["R"] = RESP_TX_TO_FINAL_RX_DLY
  /\ pc["I"] = "waitResp" /\ mode["I"] = "tx" => left["I"] = 0

(* A final message is the last of its exchange: it finds nothing else on   *)
(* the air, and a pause ahead.                                             *)
FinalsLast ==
  /\ \A m \in air : m.frame.kind = "final" => Over /\ (RNG_DELAY - FLIGHT) + m.left <= NextPoll
  /\ HasFinal => air = {} /\ Over /\ (RNG_DELAY - FLIGHT) - lag["R"] <= NextPoll

(* The receiver of "n" opens, or has opened, "o" ticks from now.           *)
Opens(n, o) == \/ mode[n] = "gap" /\ left[n] = o
               \/ mode[n] = "rx" /\ left[n] = o + rxTo[n]

(* The responder listens, or will in less than "t" ticks.                  *)
Ready(t) == \/ /\ pc["R"] = "sleep" /\ (nap["R"] = 0 \/ lag["R"] = 0)
               /\ (nap["R"] + MaxLag) - lag["R"] < t
            \/ pc["R"] = "listen" /\ mode["R"] = "rx"

(* The nine situations of an undisturbed exchange.                         *)
Quiet == /\ air = {} /\ Ready(NextPoll + FLIGHT)
         /\ Over \/ (pc["I"] = "waitResp" /\ mode["I"] = "tx")

Polled == /\ pc["I"] = "waitResp"
          /\ \E m \in air : /\ air = {m} /\ m.frame.kind = "poll" /\ Ready(m.left)
                            /\ Opens("I", (m.left - FLIGHT) + POLL_TX_TO_RESP_RX_DLY)

Heard == /\ pc["I"] = "waitResp" /\ HasPoll /\ air = {}
         /\ Opens("I", (0 - lag["R"] - FLIGHT) + POLL_TX_TO_RESP_RX_DLY)

Answering ==
  /\ pc["I"] = "waitResp" /\ pc["R"] = "waitFinal" /\ mode["R"] = "tx" /\ air = {}
  /\ \E r \in 0 .. QUANTUM - 1 :
       Opens("I", left["R"] + ((POLL_TX_TO_RESP_RX_DLY - FLIGHT - Reply) + r))

Answered ==
  /\ pc["I"] = "waitResp" /\ pc["R"] = "waitFinal"
  /\ \E m \in air : /\ air = {m} /\ m.frame.kind = "resp"
                    /\ Opens("R", (m.left - FLIGHT) + RESP_TX_TO_FINAL_RX_DLY)
                    /\ \E r \in 0 .. QUANTUM - 1 :
                         Opens("I", m.left + ((POLL_TX_TO_RESP_RX_DLY - 2 * FLIGHT - Reply) + r))

Got == /\ HasResponse /\ pc["R"] = "waitFinal" /\ air = {}
       /\ Opens("R", (0 - lag["I"] - FLIGHT) + RESP_TX_TO_FINAL_RX_DLY)

Ending ==
  /\ FinalArmed /\ pc["R"] = "waitFinal" /\ air = {}
  /\ \E r \in 0 .. QUANTUM - 1 :
       Opens("R", left["I"] + ((RESP_TX_TO_FINAL_RX_DLY - FLIGHT - Last) + r))

Ended ==
  /\ pc["R"] = "waitFinal"
  /\ \E m \in air : /\ air = {m} /\ m.frame.kind = "final"
                    /\ \E r \in 0 .. QUANTUM - 1 :
                         Opens("R", m.left + ((RESP_TX_TO_FINAL_RX_DLY - 2 * FLIGHT - Last) + r))

Regular == \/ Quiet \/ Polled \/ Heard \/ Answering \/ Answered \/ Got \/ Ending \/ Ended
           \/ HasFinal

InStep == Addressed /\ FinalsLast /\ (tof # <<>> => Regular)

(* On an undisturbed channel every frame has been read.                    *)
AllRead == unread = {} /\ \A n \in Node : rxBuf[n].kind # "long"

LEMMA AllReadStep ==
  ASSUME IInv, AllRead, [Next]_vars, faults' = faults
  PROVE  AllRead'
<1>t. /\ TypeOK /\ Placed /\ "I" \in Node /\ "R" \in Node /\ faults \in Nat
      /\ rxBuf \in [Node -> Frames]
  BY DEF IInv, Exchange, TypeOK, LinkTypeOK, Node
<1>1. CASE Initiator
  <2>1. UNCHANGED rxBuf
    BY <1>1
       DEF Initiator, SendPoll, RecvResponse, RecvResponseLate, RecvNoResponse, ResponseDistrusted,
           ResponseFailed, FinalSent, StartTxNow, StartTxAt, StartTx, FailTx, ClearFlags
  <2>2. unread' = unread \/ Take("I")
    BY <1>1
       DEF Initiator, SendPoll, RecvResponse, RecvResponseLate, RecvNoResponse, ResponseDistrusted,
           ResponseFailed, FinalSent
  <2> QED BY <1>t, <2>1, <2>2 DEF AllRead, Take
<1>2. CASE Responder
  <2>1. rxBuf' = rxBuf \/ rxBuf' = [rxBuf EXCEPT !["R"] = NoFrame]
    BY <1>2
       DEF Responder, Listen, EnableRx, RecvPoll, RecvPollLate, RecvNoPoll, RecvFinal, RecvNoFinal,
           FrameDistrusted, ResponderFailed, StartTxAt, StartTx, FailTx, ClearFlags
  <2>2. unread' = unread \/ Take("R")
    BY <1>2
       DEF Responder, Listen, RecvPoll, RecvPollLate, RecvNoPoll, ResponderGotPoll, RecvFinal,
           RecvNoFinal, FrameDistrusted, ResponderFailed
  <2> QED BY <1>t, <2>1, <2>2 DEF AllRead, Take, NoFrame, Frame
<1>3. CASE Radio
  <2>1. UNCHANGED unread
    BY <1>3 DEF Radio, hostVars
  <2>2. ASSUME NEW n \in Node, Transmit(n) \/ OpenRx(n) \/ RxTimeout(n) PROVE AllRead'
    BY <1>t, <2>1, <2>2 DEF AllRead, Transmit, OpenRx, RxTimeout, NoFrame, Frame
  <2>3. ASSUME NEW m \in air, Receive(m) \/ Miss(m) PROVE AllRead'
    <3>1. m.frame.kind # "long"
      BY <1>t DEF Placed
    <3> QED BY <1>t, <2>1, <2>3, <3>1 DEF AllRead, Receive, Miss, chipVars
  <2>4. ~(\E m \in air : Corrupt(m)) /\ ~Interference(Foreign)
    BY <1>t DEF Corrupt, Interference, Interfere, Fault
  <2> QED BY <1>3, <2>2, <2>3, <2>4 DEF Radio, Hardware
<1>4. CASE Tick
  BY <1>4 DEF AllRead, Tick, HostTick, LinkTick
<1>5. CASE UNCHANGED vars
  BY <1>5 DEF AllRead, vars, linkVars, chipVars, hostVars
<1> QED BY <1>1, <1>2, <1>3, <1>4, <1>5 DEF Next

LEMMA FramesFit ==
  ASSUME AllRead, NEW n \in Node
  PROVE  ReadFrame(n) = rxBuf[n]
  BY DEF AllRead, ReadFrame

(* There is then one frame on the air at most, and none while one waits.   *)
LEMMA ByTurns ==
  ASSUME IInv, AllRead
  PROVE  /\ \A m \in air : air = {m} /\ m.frame.kind \in {"poll", "resp", "final"}
         /\ FinalArmed \/ mode["R"] = "tx" => air = {}
<1>1. PollRead /\ ResponseRead /\ Placed /\ OneAtATime
  BY DEF IInv, Exchange, AllRead, PollRead, ResponseRead
<1>2. \A m \in air : m.frame.kind \in {"poll", "resp", "final"}
  BY <1>1 DEF Placed
<1>3. \A m \in air : m.frame.kind = "resp" => ~FinalArmed /\ mode["R"] # "tx"
  BY <1>1 DEF Placed, OneAtATime, Responding, OnItsWay
<1>4. \A m \in air : m.frame.kind = "poll" => ~FinalArmed /\ mode["R"] # "tx"
  BY <1>1 DEF Placed, OneAtATime, Responding, OnItsWay, FinalArmed
<1>5. \A m \in air : m.frame.kind = "final" => ~FinalArmed /\ mode["R"] # "tx"
  BY <1>1 DEF Placed, OneAtATime, Responding, OnItsWay, FinalArmed
<1>6. \A m, o \in air : m.frame.kind = "poll" => o.frame.kind = "poll"
  BY <1>1, <1>2 DEF Placed, OneAtATime, Responding, OnItsWay
<1>7. \A m, o \in air : m.frame.kind = "final" => o.frame.kind = "final"
  BY <1>1, <1>2 DEF Placed, OneAtATime, Responding, OnItsWay
<1>8. \A m, o \in air : m.frame.kind = o.frame.kind => m = o
  BY <1>1 DEF OneAtATime
<1>9. ASSUME NEW m \in air PROVE air = {m}
  BY <1>2, <1>6, <1>7, <1>8
<1> QED BY <1>2, <1>3, <1>4, <1>5, <1>9

(* A host that asks early enough is not too late.                          *)
LEMMA NotLate ==
  ASSUME NEW n \in Node, NEW ts \in Timestamps, NEW d \in Nat, NEW l \in Nat,
         l + QUANTUM <= d + 1, d < TSMOD \div 2, clock[n] = (ts + l) % TSMOD
  PROVE  ~TooLate(n, DelayedTxTime(ts, d))
  <1> DEFINE m == (ts + d) % TSMOD
             r == m % QUANTUM
             k == (ts + d) \div TSMOD
             j == (ts + l) \div TSMOD
  <1>0. TSMOD \in Nat \ {0} /\ QUANTUM \in Nat \ {0} /\ ts \in Nat
    BY TimeAssumption DEF Timestamps
  <1>a. ts + d \in Int /\ ts + l \in Int
    BY <1>0
  <1>1. k \in Int /\ ts + d = m + k * TSMOD /\ m \in Int
    BY <1>0, <1>a, Division
  <1>2. j \in Int /\ ts + l = clock[n] + j * TSMOD /\ clock[n] \in Int
    BY <1>0, <1>a, Division
  <1>3. r \in Int /\ 0 <= r /\ r < QUANTUM
    BY <1>0, <1>1, Division
  <1>4. DelayedTxTime(ts, d) = m - r
    BY DEF DelayedTxTime
  <1> HIDE DEF m, r, k, j
  <1>5. (m - r) - clock[n] = (j - k) * TSMOD + (d - r - l)
    <2>1. (j - k) * TSMOD = j * TSMOD - k * TSMOD
      BY <1>0, <1>1, <1>2
    <2> DEFINE x == k * TSMOD
               y == j * TSMOD
    <2>2. x \in Int /\ y \in Int /\ ts + d = m + x /\ ts + l = clock[n] + y
      BY <1>0, <1>1, <1>2
    <2>3. (j - k) * TSMOD = y - x
      BY <2>1
    <2> HIDE DEF x, y
    <2>4. (m - r) - clock[n] = (y - x) + (d - r - l)
      BY <1>0, <1>1, <1>2, <1>3, <2>2
    <2> QED BY <2>3, <2>4
  <1>6. d - r - l \in 0 .. TSMOD - 1 /\ j - k \in Int /\ d - r - l < TSMOD \div 2
    <2> DEFINE h == TSMOD \div 2
    <2>1. h \in Int /\ h <= TSMOD /\ d < h
      BY <1>0
    <2> HIDE DEF h
    <2>2. j - k \in Int
      BY <1>1, <1>2
    <2>3. d - r - l \in Int /\ 0 <= d - r - l /\ d - r - l <= d
      BY <1>0, <1>3
    <2>4. d - r - l \in 0 .. TSMOD - 1 /\ d - r - l < h
      BY <1>0, <2>1, <2>3
    <2> QED BY <2>2, <2>4 DEF h
  <1>7. ((j - k) * TSMOD + (d - r - l)) % TSMOD = d - r - l
    BY <1>0, <1>6, Remainder
  <1>8. TicksTo(n, DelayedTxTime(ts, d)) = d - r - l
    BY <1>4, <1>5, <1>7 DEF TicksTo
  <1> QED BY <1>0, <1>6, <1>8 DEF TooLate

(* What the points of the loops say of the chips.                          *)
LEMMA ChipsAt ==
  ASSUME HostsChips
  PROVE  /\ "I" \in Node /\ "R" \in Node
         /\ pc["I"] \in {"sleep", "waitResp", "waitTx"}
         /\ pc["R"] \in {"sleep", "listen", "waitFinal"}
         /\ \A n \in Node : /\ mode[n] \in {"idle", "tx", "gap", "rx"}
                            /\ "RXFCG" \in status[n] => mode[n] = "idle"
                            /\ pc[n] = "sleep" => mode[n] = "idle"
         /\ pc["I"] = "waitTx" => mode["I"] \in {"tx", "idle"}
         /\ pc["I"] = "waitTx" /\ mode["I"] = "tx" => ~w4r["I"]
         /\ pc["I"] = "waitResp" /\ mode["I"] = "tx" => w4r["I"]
         /\ pc["R"] = "listen" => mode["R"] \in {"rx", "idle"}
         /\ pc["R"] = "waitFinal" /\ mode["R"] = "tx" => w4r["R"]
  BY DEF HostsChips, HostChip, Shape, Loops, Phase, Asleep, RxWait, TxWait, NoRxFlag, RxMask,
         Modes, Node

(* While the initiator still has something to do no final message is on    *)
(* its way.                                                                *)
LEMMA NoFinalYet ==
  ASSUME FinalsLast, ~Over
  PROVE  ~HasFinal /\ (\A m \in air : m.frame.kind # "final") /\ ~Ended
  BY DEF FinalsLast, Ended

(* A wait that has ended was for the frame that comes next.                *)
LEMMA WaitedForResponse ==
  ASSUME HostsChips, FinalsLast, Regular, pc["I"] = "waitResp", mode["I"] = "idle"
  PROVE  Got
  <1>1. ~HasFinal /\ ~Ended
    BY NoFinalYet DEF Over
  <1>2. ~Quiet /\ ~Polled /\ ~Heard /\ ~Answering /\ ~Answered /\ ~Ending
    BY DEF Over, Quiet, Polled, Heard, Answering, Answered, Ending, FinalArmed, Opens
  <1> QED BY <1>1, <1>2 DEF Regular

LEMMA WaitedForPoll ==
  ASSUME HostsChips, FinalsLast, Regular, pc["R"] = "listen", mode["R"] = "idle"
  PROVE  Heard
  BY DEF Regular, Quiet, Polled, Ready, Answering, Answered, Got, Ending, Ended, HasFinal

LEMMA WaitedForFinal ==
  ASSUME HostsChips, FinalsLast, Regular, pc["R"] = "waitFinal", mode["R"] = "idle"
  PROVE  HasFinal
  BY DEF Regular, Quiet, Polled, Ready, Heard, HasPoll, Answering, Answered, Got, Ending, Ended,
         Opens

(* No wait has ended with a timeout.                                       *)
LEMMA NoTimeoutNow ==
  ASSUME HostsChips, FinalsLast, Regular
  PROVE  \A n \in Node : "RXTO" \notin status[n]
  <1> SUFFICES ASSUME NEW n \in Node, "RXTO" \in status[n] PROVE FALSE
    OBVIOUS
  <1>1. /\ Phase(n) /\ pc[n] \in {"waitResp", "listen", "waitFinal"} /\ mode[n] = "idle"
        /\ "RXFCG" \notin status[n]
    BY ChipsAt
       DEF HostsChips, HostChip, Phase, Asleep, RxWait, TxWait, NoRxFlag, OneRxFlag, RxMask, Node
  <1>2. CASE n = "I"
    BY <1>1, <1>2, ChipsAt, WaitedForResponse DEF Got, HasResponse
  <1>3. CASE n = "R"
    BY <1>1, <1>3, ChipsAt, WaitedForPoll, WaitedForFinal DEF Heard, HasPoll, HasFinal
  <1> QED BY <1>2, <1>3 DEF Node

LEMMA Windows ==
  ASSUME WindowsFit
  PROVE  /\ MaxLag \in Nat /\ QUANTUM \in Nat \ {0} /\ FLIGHT \in Nat /\ TX_ANT_DLY \in Nat
         /\ RNG_DELAY \in Nat /\ RNG_DELAY_RESP \in Nat
         /\ POLL_TX_TO_RESP_RX_DLY \in Nat /\ RESP_TX_TO_FINAL_RX_DLY \in Nat
         /\ RESP_RX_TIMEOUT \in Nat \ {0} /\ FINAL_RX_TIMEOUT \in Nat \ {0}
         /\ POLL_RX_TO_RESP_TX_DLY \in Nat /\ RESP_RX_TO_FINAL_TX_DLY \in Nat
         /\ Reply \in Nat /\ Last \in Nat /\ MaxLag <= Reply /\ MaxLag <= Last
         /\ POLL_TX_TO_RESP_RX_DLY + QUANTUM <= 2 * FLIGHT + Reply
         /\ 2 * FLIGHT + Reply < POLL_TX_TO_RESP_RX_DLY + RESP_RX_TIMEOUT
         /\ RESP_TX_TO_FINAL_RX_DLY + QUANTUM <= 2 * FLIGHT + Last
         /\ 2 * FLIGHT + Last < RESP_TX_TO_FINAL_RX_DLY + FINAL_RX_TIMEOUT
         /\ RNG_DELAY_RESP + 2 * MaxLag < RNG_DELAY /\ FLIGHT + MaxLag < RNG_DELAY
  BY Numbers, DsAssumption DEF WindowsFit, Reply, Last
-----------------------------------------------------------------------------
(* The initiator's steps lead from one situation to the next.              *)
LEMMA InStepInitiator ==
  ASSUME ExchangeIsSwift, WindowsFit, IInv, AllRead, InStep, Initiator
  PROVE  InStep'
<1>t. /\ TypeOK /\ HostsChips /\ Roles /\ ResponseTaken /\ Addressed /\ FinalsLast
      /\ "I" \in Node /\ "R" \in Node
  BY DEF IInv, Exchange, InStep, Node
<1>n. /\ pc \in [Node -> Points] /\ mode \in [Node -> Modes] /\ nap \in [Node -> Nat]
      /\ status \in [Node -> SUBSET Flags] /\ txBuf \in [Node -> Frames]
      /\ lag \in [Node -> 0 .. MaxLag] /\ left \in [Node -> Nat]
  BY <1>t DEF TypeOK, LinkTypeOK, HostTypeOK
<1>w. /\ nap["R"] \in Nat /\ lag["R"] \in 0 .. MaxLag /\ MaxLag \in Nat
      /\ lag["I"] \in 0 .. MaxLag /\ \A m \in air : m.left \in Nat
  BY <1>t, <1>n, Types, Windows
<1>1. /\ UNCHANGED <<air, rxTo, rxDly, tof>>
      /\ pc'["R"] = pc["R"] /\ mode'["R"] = mode["R"] /\ status'["R"] = status["R"]
      /\ lag'["R"] = lag["R"] /\ left'["R"] = left["R"] /\ nap'["R"] = nap["R"]
      /\ rxBuf'["R"] = rxBuf["R"]
  <2>1. CASE SendPoll
    BY <1>t, <1>n, <2>1 DEF SendPoll, StartTxNow, StartTx, Goto, Rest, Node
  <2>2. CASE RecvResponse
    BY <1>t, <1>n, <2>2
       DEF RecvResponse, InitiatorGotFrame, StartTxAt, StartTx, Goto, Rest, Node
  <2>3. CASE RecvResponseLate \/ RecvNoResponse \/ ResponseDistrusted \/ ResponseFailed \/ FinalSent
    BY <1>t, <1>n, <2>3
       DEF RecvResponseLate, RecvNoResponse, InitiatorGotFrame, ResponseDistrusted, ResponseFailed,
           FinalSent, FailTx, ClearFlags, Sleep, Rest, Node
  <2> QED BY <2>1, <2>2, <2>3 DEF Initiator
<1>2. /\ HasFinal' = HasFinal
      /\ \A t, u : t = u => Ready(t)' = Ready(u) /\ Opens("R", t)' = Opens("R", u)
  BY <1>1 DEF HasFinal, Ready, Opens
<1>3. ASSUME ~(pc'["I"] = "waitResp" /\ mode'["I"] = "tx") \/ left'["I"] = 0
      PROVE  Addressed'
  BY <1>t, <1>1, <1>3 DEF Addressed
<1>4. ASSUME ~HasFinal, \A m \in air : m.frame.kind # "final"
      PROVE  FinalsLast'
  BY <1>1, <1>2, <1>4 DEF FinalsLast
<1>5. CASE SendPoll
  <2>1. /\ pc["I"] = "sleep" /\ nap["I"] = 0 /\ pc'["I"] = "waitResp" /\ mode'["I"] = "tx"
        /\ left'["I"] = 0
    BY <1>t, <1>n, <1>5 DEF SendPoll, Awake, Rested, StartTxNow, StartTx, Goto
  <2>2. NextPoll = 0 /\ NextPoll' = 0
    BY <2>1 DEF NextPoll
  <2>3. ~HasFinal /\ \A m \in air : m.frame.kind # "final"
    BY <1>t, <1>w, <2>2, Windows DEF FinalsLast
  <2>4. Regular => Quiet
    BY <2>1, <2>3
       DEF Regular, Polled, Heard, Answering, Answered, Got, HasResponse, Ending, FinalArmed, Ended
  <2>5. Quiet => Quiet'
    BY <1>1, <1>2, <2>1, <2>2 DEF Quiet
  <2> QED BY <1>1, <1>3, <1>4, <2>1, <2>3, <2>4, <2>5 DEF InStep, Regular
<1>6. CASE FinalSent
  <2>1. /\ pc["I"] = "waitTx" /\ mode["I"] = "idle" /\ mode'["I"] = "idle"
        /\ pc'["I"] = "sleep" /\ nap'["I"] = RNG_DELAY
    BY <1>t, <1>n, <1>6
       DEF FinalSent, Noticed, Awaited, TxPoints, HostsChips, HostChip, Phase, TxWait, ClearFlags,
           Sleep
  <2>2. NextPoll = RNG_DELAY /\ NextPoll' = RNG_DELAY /\ Over /\ Over'
    BY <2>1 DEF NextPoll, Over
  <2>3. FinalsLast'
    BY <1>t, <1>1, <1>2, <2>2 DEF FinalsLast
  <2>4. Regular => Regular'
    <3>1. Quiet => Quiet'
      BY <1>1, <1>2, <2>2 DEF Quiet
    <3>2. Ended => Ended'
      BY <1>1, <1>2 DEF Ended
    <3>3. Regular => Quiet \/ Ended \/ HasFinal
      BY <2>1 DEF Regular, Polled, Heard, Answering, Answered, Got, HasResponse, Ending, FinalArmed
    <3> QED BY <1>2, <3>1, <3>2, <3>3 DEF Regular
  <2> QED BY <1>1, <1>3, <2>1, <2>3, <2>4 DEF InStep
<1>7. CASE RecvResponse \/ RecvResponseLate \/ RecvNoResponse \/ ResponseDistrusted \/ ResponseFailed
  <2>1. pc["I"] = "waitResp" /\ mode["I"] = "idle"
    BY <1>t, <1>7
       DEF RecvResponse, RecvResponseLate, RecvNoResponse, InitiatorGotFrame, ResponseDistrusted,
           ResponseFailed, Noticed, Awaited, TxPoints, DataPoints, RespPoints, HostsChips, HostChip,
           Phase, RxWait, NoRxFlag, RxMask
  <2>2. ~HasFinal /\ \A m \in air : m.frame.kind # "final"
    BY <1>t, <2>1, NoFinalYet DEF Over
  <2>3. pc'["I"] \in {"sleep", "waitTx"}
    BY <1>t, <1>n, <1>7
       DEF RecvResponse, RecvResponseLate, RecvNoResponse, InitiatorGotFrame, ResponseDistrusted,
           ResponseFailed, Goto, Sleep
  <2>4. ASSUME tof # <<>> PROVE Regular'
    <3> DEFINE ts == rxTs["I"]
               l == lag["I"]
               D == RESP_RX_TO_FINAL_TX_DLY
    <3>1. Got
      BY <1>t, <2>1, <2>4, WaitedForResponse DEF InStep
    <3>2. HasResponse /\ clock["I"] = (ts + l) % TSMOD /\ ReadFrame("I") = rxBuf["I"]
      <4>1. HasResponse
        BY <3>1 DEF Got
      <4> QED BY <1>t, <4>1, FramesFit DEF ResponseTaken
    <3>3. /\ ts \in Timestamps /\ D \in Nat /\ l \in Nat /\ l + QUANTUM <= D + 1 /\ D < TSMOD \div 2
          /\ D < TSMOD /\ l + QUANTUM <= TSMOD \div 2
      <4>1. ts \in Timestamps /\ l \in 0 .. MaxLag /\ MaxLag \in Nat /\ D \in Nat /\ QUANTUM \in Nat
        BY <1>t, <1>w, Types, Windows
      <4>2. /\ MaxLag + QUANTUM <= D + 1 /\ D < TSMOD \div 2 /\ MaxLag + QUANTUM <= TSMOD \div 2
            /\ TSMOD \in Nat \ {0}
        BY Numbers DEF WindowsFit, ExchangeIsSwift
      <4> HIDE DEF l, D
      <4> DEFINE h == TSMOD \div 2
      <4>3. h \in Int /\ h <= TSMOD
        BY <4>2
      <4> HIDE DEF h
      <4>4. l \in Nat /\ l + QUANTUM <= D + 1 /\ D < TSMOD /\ l + QUANTUM <= h
        BY <4>1, <4>2, <4>3 DEF h
      <4> QED BY <4>1, <4>2, <4>4 DEF h
    <3>4. ~TooLate("I", FinalTime)
      BY <1>t, <3>2, <3>3, NotLate DEF FinalTime
    <3>5. RecvResponse
      BY <1>7, <3>2, <3>4, ChipsAt
         DEF RecvResponseLate, RecvNoResponse, ResponseDistrusted, ResponseFailed, HasResponse,
             MayDistrust
    <3>6. PICK r \in 0 .. QUANTUM - 1 : TicksTo("I", FinalTime) = D - r - l
      BY <1>t, <3>2, <3>3, <3>4, DelayedSend DEF FinalTime
    <3>7. FinalArmed' /\ left'["I"] = TicksTo("I", FinalTime) + TX_ANT_DLY
      BY <1>t, <1>n, <3>5 DEF RecvResponse, StartTxAt, StartTx, Goto, FinalArmed
    <3>8. left'["I"] + ((RESP_TX_TO_FINAL_RX_DLY - FLIGHT - Last) + r)
            = (0 - lag["I"] - FLIGHT) + RESP_TX_TO_FINAL_RX_DLY
      BY <3>3, <3>6, <3>7, Windows DEF Last
    <3>9. Ending'
      <4>1. /\ Opens("R", left["I"] + ((RESP_TX_TO_FINAL_RX_DLY - FLIGHT - Last) + r))'
            /\ pc'["R"] = "waitFinal" /\ air' = {}
        BY <1>1, <1>2, <3>1, <3>8 DEF Got
      <4> QED BY <3>7, <4>1 DEF Ending
    <3> QED BY <3>9 DEF Regular
  <2> QED BY <1>1, <1>3, <1>4, <2>2, <2>3, <2>4 DEF InStep
<1> QED BY <1>5, <1>6, <1>7 DEF Initiator

(* So do the responder's.                                                  *)
LEMMA InStepResponder ==
  ASSUME ExchangeIsSwift, WindowsFit, IInv, AllRead, InStep, Responder
  PROVE  InStep'
<1>t. /\ TypeOK /\ HostsChips /\ Roles /\ PollTaken /\ Addressed /\ FinalsLast
      /\ "I" \in Node /\ "R" \in Node
  BY DEF IInv, Exchange, InStep, Node
<1>n. /\ pc \in [Node -> Points] /\ mode \in [Node -> Modes] /\ nap \in [Node -> Nat]
      /\ status \in [Node -> SUBSET Flags] /\ txBuf \in [Node -> Frames]
      /\ rxTo \in [Node -> Nat] /\ rxDly \in [Node -> Nat] /\ rxBuf \in [Node -> Frames]
      /\ lag \in [Node -> 0 .. MaxLag] /\ left \in [Node -> Nat]
  BY <1>t DEF TypeOK, LinkTypeOK, HostTypeOK
<1>1. /\ UNCHANGED air
      /\ pc'["I"] = pc["I"] /\ mode'["I"] = mode["I"] /\ status'["I"] = status["I"]
      /\ left'["I"] = left["I"] /\ nap'["I"] = nap["I"] /\ lag'["I"] = lag["I"]
      /\ rxBuf'["I"] = rxBuf["I"] /\ rxTo'["I"] = rxTo["I"] /\ lag'["R"] = 0
  <2>1. CASE Listen
    BY <1>t, <1>n, <2>1 DEF Listen, EnableRx, Goto, Rest, Node
  <2>2. CASE RecvPoll
    BY <1>t, <1>n, <2>2
       DEF RecvPoll, ResponderGotPoll, ResponderGotFrame, StartTxAt, StartTx, Goto, Rest, Node
  <2>3. CASE RecvPollLate \/ RecvNoPoll \/ RecvFinal \/ RecvNoFinal \/ FrameDistrusted \/ ResponderFailed
    BY <1>t, <1>n, <2>3
       DEF RecvPollLate, RecvNoPoll, RecvFinal, RecvNoFinal, ResponderGotPoll, ResponderGotFrame,
           FrameDistrusted, ResponderFailed, FailTx, ClearFlags, Sleep, Rest, Node
  <2> QED BY <2>1, <2>2, <2>3 DEF Responder
<1>2. /\ NextPoll' = NextPoll /\ Over' = Over /\ HasResponse' = HasResponse
      /\ FinalArmed' = FinalArmed
      /\ \A t, u : t = u => Opens("I", t)' = Opens("I", u)
  BY <1>1 DEF NextPoll, Over, HasResponse, FinalArmed, Opens
<1>3. ASSUME ~HasFinal' PROVE FinalsLast'
  BY <1>t, <1>1, <1>2, <1>3 DEF FinalsLast
<1>4. ASSUME pc'["R"] = "sleep" PROVE Addressed'
  BY <1>t, <1>1, <1>4 DEF Addressed
<1>5. CASE Listen
  <2>1. /\ pc["R"] = "sleep" /\ pc'["R"] = "listen" /\ mode'["R"] = "rx" /\ rxTo'["R"] = 0
        /\ UNCHANGED tof
    BY <1>t, <1>n, <1>5 DEF Listen, Awake, Rested, EnableRx, Goto
  <2>2. Addressed' /\ ~HasFinal'
    BY <1>t, <1>1, <2>1 DEF Addressed, HasFinal
  <2>3. \A t : Ready(t)'
    BY <2>1 DEF Ready
  <2>4. Quiet => Quiet'
    BY <1>1, <1>2, <2>3 DEF Quiet
  <2>5. Polled => Polled'
    BY <1>1, <1>2, <2>3 DEF Polled
  <2>6. Regular => Quiet \/ Polled
    BY <2>1
       DEF Regular, Heard, HasPoll, Answering, Answered, Got, Ending, Ended, HasFinal
  <2> QED BY <1>3, <2>1, <2>2, <2>4, <2>5, <2>6 DEF InStep, Regular
<1>6. CASE pc["R"] = "listen" /\ ~Listen
  <2>1. RecvPoll \/ RecvPollLate \/ RecvNoPoll \/ FrameDistrusted \/ ResponderFailed
    BY <1>6 DEF Responder, RecvFinal, RecvNoFinal, ResponderGotFrame
  <2>2. mode["R"] = "idle" /\ UNCHANGED tof
    BY <1>t, <1>6, <2>1
       DEF RecvPoll, RecvPollLate, RecvNoPoll, ResponderGotPoll, ResponderGotFrame, FrameDistrusted,
           ResponderFailed, Noticed, Awaited, TxPoints, DataPoints, RespPoints, HostsChips, HostChip,
           Phase, RxWait, NoRxFlag, RxMask
  <2>3. Addressed' /\ ~HasFinal'
    <3>1. CASE RecvPoll
      <4>1. /\ pc'["R"] = "waitFinal" /\ rxTo'["R"] = FINAL_RX_TIMEOUT
            /\ rxDly'["R"] = RESP_TX_TO_FINAL_RX_DLY /\ "RXFCG" \notin status'["R"]
        BY <1>t, <1>n, <3>1
           DEF RecvPoll, ResponderGotPoll, ResponderGotFrame, StartTxAt, StartTx, Goto
      <4> QED BY <1>t, <1>1, <4>1 DEF Addressed, HasFinal
    <3>2. CASE ~RecvPoll
      <4>1. pc'["R"] = "sleep"
        BY <1>t, <1>n, <2>1, <3>2
           DEF RecvPollLate, RecvNoPoll, ResponderGotPoll, ResponderGotFrame, FrameDistrusted,
               ResponderFailed, Sleep
      <4> QED BY <1>4, <4>1 DEF HasFinal
    <3> QED BY <3>1, <3>2
  <2>4. ASSUME tof # <<>> PROVE Regular'
    <3> DEFINE ts == rxTs["R"]
               l == lag["R"]
               D == POLL_RX_TO_RESP_TX_DLY
    <3>1. Heard
      BY <1>t, <1>6, <2>2, <2>4, WaitedForPoll DEF InStep
    <3>2. HasPoll /\ clock["R"] = (ts + l) % TSMOD /\ ReadFrame("R") = rxBuf["R"]
      <4>1. HasPoll
        BY <3>1 DEF Heard
      <4> QED BY <1>t, <4>1, FramesFit DEF PollTaken
    <3>3. /\ ts \in Timestamps /\ D \in Nat /\ l \in Nat /\ l + QUANTUM <= D + 1 /\ D < TSMOD \div 2
          /\ D < TSMOD /\ l + QUANTUM <= TSMOD \div 2
      <4>1. ts \in Timestamps /\ l \in 0 .. MaxLag /\ MaxLag \in Nat /\ D \in Nat /\ QUANTUM \in Nat
        BY <1>t, <1>n, Types, Windows
      <4>2. /\ MaxLag + QUANTUM <= D + 1 /\ D < TSMOD \div 2 /\ MaxLag + QUANTUM <= TSMOD \div 2
            /\ TSMOD \in Nat \ {0}
        BY Numbers DEF WindowsFit, ExchangeIsSwift
      <4> HIDE DEF l, D
      <4> DEFINE h == TSMOD \div 2
      <4>3. h \in Int /\ h <= TSMOD
        BY <4>2
      <4> HIDE DEF h
      <4>4. l \in Nat /\ l + QUANTUM <= D + 1 /\ D < TSMOD /\ l + QUANTUM <= h
        BY <4>1, <4>2, <4>3 DEF h
      <4> QED BY <4>1, <4>2, <4>4 DEF h
    <3>4. ~TooLate("R", ResponseTime)
      BY <1>t, <3>2, <3>3, NotLate DEF ResponseTime
    <3>5. RecvPoll
      BY <2>1, <3>2, <3>4
         DEF RecvPollLate, RecvNoPoll, ResponderGotPoll, ResponderGotFrame, FrameDistrusted,
             ResponderFailed, HasPoll, MayDistrust
    <3>6. PICK r \in 0 .. QUANTUM - 1 : TicksTo("R", ResponseTime) = D - r - l
      BY <1>t, <3>2, <3>3, <3>4, DelayedSend DEF ResponseTime
    <3>7. /\ pc'["R"] = "waitFinal" /\ mode'["R"] = "tx"
          /\ left'["R"] = TicksTo("R", ResponseTime) + TX_ANT_DLY
      BY <1>t, <1>n, <3>5 DEF RecvPoll, StartTxAt, StartTx, Goto
    <3>8. left'["R"] + ((POLL_TX_TO_RESP_RX_DLY - FLIGHT - Reply) + r)
            = (0 - lag["R"] - FLIGHT) + POLL_TX_TO_RESP_RX_DLY
      BY <3>3, <3>6, <3>7, Windows DEF Reply
    <3>9. Answering'
      <4>1. /\ Opens("I", left["R"] + ((POLL_TX_TO_RESP_RX_DLY - FLIGHT - Reply) + r))'
            /\ pc'["I"] = "waitResp" /\ air' = {}
        BY <1>1, <1>2, <3>1, <3>8 DEF Heard
      <4> QED BY <3>7, <4>1 DEF Answering
    <3> QED BY <3>9 DEF Regular
  <2> QED BY <1>3, <2>2, <2>3, <2>4 DEF InStep
<1>7. CASE pc["R"] = "waitFinal" /\ ~Listen
  <2>1. RecvFinal \/ RecvNoFinal \/ FrameDistrusted \/ ResponderFailed
    BY <1>7 DEF Responder, RecvPoll, RecvPollLate, RecvNoPoll, ResponderGotPoll, ResponderGotFrame
  <2>2. mode["R"] = "idle" /\ mode'["R"] = "idle" /\ pc'["R"] = "sleep"
    BY <1>t, <1>n, <1>7, <2>1
       DEF RecvFinal, RecvNoFinal, ResponderGotFrame, FrameDistrusted, ResponderFailed, Noticed,
           Awaited, TxPoints, DataPoints, RespPoints, HostsChips, HostChip, Phase, RxWait, NoRxFlag,
           RxMask, ClearFlags, Sleep
  <2>3. Addressed' /\ FinalsLast'
    BY <1>3, <1>4, <2>2 DEF HasFinal
  <2>4. CASE RecvFinal
    <3>1. HasFinal
      <4>1. ReadFrame("R") = rxBuf["R"]
        BY <1>t, <2>4, FramesFit DEF RecvFinal, ResponderGotFrame
      <4> QED BY <2>4, <4>1 DEF RecvFinal, ResponderGotFrame, HasFinal
    <3>2. air = {} /\ Over /\ (RNG_DELAY - FLIGHT) - lag["R"] <= NextPoll
      BY <1>t, <3>1 DEF FinalsLast
    <3>3. nap'["R"] = RNG_DELAY_RESP
      BY <1>t, <1>n, <2>4 DEF RecvFinal, Sleep
    <3>4. Ready(NextPoll + FLIGHT)'
      <4>1. NextPoll \in Nat /\ lag["R"] \in 0 .. MaxLag
        BY <1>t, <1>n, Types
      <4>2. (nap'["R"] + MaxLag) - lag'["R"] < NextPoll' + FLIGHT
        BY <1>1, <1>2, <3>2, <3>3, <4>1, Windows
      <4> QED BY <1>1, <2>2, <4>2 DEF Ready
    <3> QED BY <1>1, <1>2, <2>3, <3>2, <3>4 DEF InStep, Regular, Quiet
  <2>5. CASE ~RecvFinal
    <3>1. ~HasFinal
      BY <2>1, <2>5, FramesFit, <1>t
         DEF RecvNoFinal, ResponderGotFrame, FrameDistrusted, ResponderFailed, HasFinal, MayDistrust
    <3>2. UNCHANGED tof
      BY <2>1, <2>5 DEF RecvNoFinal, FrameDistrusted, ResponderFailed
    <3>3. tof = <<>>
      BY <1>t, <1>7, <2>2, <3>1, WaitedForFinal DEF InStep
    <3> QED BY <2>3, <3>2, <3>3 DEF InStep
  <2> QED BY <2>4, <2>5
<1>8. pc["R"] \in {"listen", "waitFinal"} \/ Listen
  BY DEF Responder, RecvPoll, RecvPollLate, RecvNoPoll, ResponderGotPoll, RecvFinal, RecvNoFinal,
         ResponderGotFrame, FrameDistrusted, ResponderFailed
<1> QED BY <1>5, <1>6, <1>7, <1>8

(* On an undisturbed channel every frame finds its receiver on.            *)
LEMMA InStepRadio ==
  ASSUME WindowsFit, IInv, AllRead, InStep, Radio, faults' = faults
  PROVE  InStep'
<1>t. /\ TypeOK /\ HostsChips /\ Roles /\ ResponseArmed /\ FinalComing
      /\ Addressed /\ FinalsLast /\ "I" \in Node /\ "R" \in Node
  BY DEF IInv, Exchange, InStep, Node
<1>b. /\ \A m \in air : air = {m} /\ m.frame.kind \in {"poll", "resp", "final"}
      /\ FinalArmed \/ mode["R"] = "tx" => air = {}
  BY ByTurns
<1>n. /\ mode \in [Node -> Modes] /\ status \in [Node -> SUBSET Flags] /\ left \in [Node -> Nat]
      /\ rxTo \in [Node -> Nat] /\ rxBuf \in [Node -> Frames]
      /\ UNCHANGED <<pc, nap, lag, tof>> /\ Node = {"I", "R"} /\ faults \in Nat
  BY <1>t DEF TypeOK, LinkTypeOK, Radio, hostVars, pollVars, Node
<1>w. /\ nap["R"] \in Nat /\ lag["R"] \in 0 .. MaxLag /\ lag["I"] \in 0 .. MaxLag
      /\ left["I"] \in Nat /\ left["R"] \in Nat
      /\ \A m \in air : m.left \in Nat /\ m.to \in Node
  BY <1>t, Types DEF TypeOK, HostTypeOK
(* A frame leaves.                                                         *)
<1>1. CASE Transmit("I") /\ pc["I"] = "waitResp"
  <2>m. PICK m : m = [to |-> "R", left |-> FLIGHT, frame |-> txBuf["I"]]
    OBVIOUS
  <2>1. /\ mode["I"] = "tx" /\ left["I"] = 0 /\ mode'["I"] = "gap" /\ status'["R"] = status["R"]
        /\ left'["I"] = POLL_TX_TO_RESP_RX_DLY /\ air' = air \cup {m} /\ mode'["R"] = mode["R"]
        /\ UNCHANGED <<rxTo, rxDly, rxBuf>> /\ m.frame.kind = "poll" /\ m.to = "R"
        /\ m.left = FLIGHT
    BY <1>t, <1>n, <1>1, <2>m, ChipsAt DEF Transmit, Peer, Roles
  <2>2. ~HasFinal /\ (\A o \in air : o.frame.kind # "final") /\ ~Ended
    BY <1>t, <2>1, NoFinalYet DEF Over
  <2>3. Addressed' /\ FinalsLast'
    BY <1>t, <1>n, <2>1, <2>2 DEF Addressed, FinalsLast, HasFinal
  <2>4. Regular => Quiet
    BY <1>t, <1>1, <2>1, <2>2, ChipsAt
       DEF Regular, Polled, Heard, Answering, Answered, Got, HasResponse, Ending, FinalArmed, Opens
  <2>5. ASSUME Quiet PROVE Polled'
    <3>1. NextPoll + FLIGHT = m.left
      BY <1>1, <2>1, Windows DEF NextPoll
    <3>2. air' = {m} /\ Ready(m.left)
      BY <2>1, <2>5, <3>1 DEF Quiet
    <3>3. Ready(m.left)'
      BY <1>n, <2>1, <3>2 DEF Ready
    <3>4. Opens("I", (m.left - FLIGHT) + POLL_TX_TO_RESP_RX_DLY)'
      <4>1. (m.left - FLIGHT) + POLL_TX_TO_RESP_RX_DLY = POLL_TX_TO_RESP_RX_DLY
        BY <2>1, Windows
      <4> QED BY <2>1, <4>1 DEF Opens
    <3> QED BY <1>1, <1>n, <2>1, <3>2, <3>3, <3>4 DEF Polled
  <2> QED BY <1>n, <2>3, <2>4, <2>5 DEF InStep, Regular
<1>2. CASE Transmit("I") /\ pc["I"] # "waitResp"
  <2>m. PICK m : m = [to |-> "R", left |-> FLIGHT, frame |-> txBuf["I"]]
    OBVIOUS
  <2>1. /\ pc["I"] = "waitTx" /\ mode["I"] = "tx" /\ left["I"] = 0 /\ mode'["I"] = "idle"
        /\ air' = air \cup {m} /\ mode'["R"] = mode["R"] /\ status'["R"] = status["R"]
        /\ left'["R"] = left["R"]
        /\ UNCHANGED <<rxTo, rxDly, rxBuf>> /\ FinalArmed
    BY <1>t, <1>n, <1>2, <2>m, ChipsAt DEF Transmit, Peer, FinalArmed
  <2>2. air = {} /\ m.frame.kind = "final" /\ m.to = "R" /\ m.left = FLIGHT
    BY <1>t, <1>b, <2>m, <2>1 DEF FinalComing
  <2>3. ~HasFinal /\ ~Ended
    BY <1>t, <2>1, NoFinalYet DEF Over
  <2>4. Addressed' /\ FinalsLast'
    <3>1. Over' /\ (RNG_DELAY - FLIGHT) + m.left <= NextPoll'
      BY <1>n, <2>1, <2>2, Windows DEF Over, NextPoll
    <3>2. ~HasFinal'
      BY <1>n, <2>1, <2>3 DEF HasFinal
    <3>3. Addressed'
      BY <1>t, <1>n, <2>1, <2>2 DEF Addressed
    <3>4. \A o \in air' : o.frame.kind = "final" => Over' /\ (RNG_DELAY - FLIGHT) + o.left <= NextPoll'
      BY <2>1, <2>2, <3>1
    <3> QED BY <3>2, <3>3, <3>4 DEF FinalsLast
  <2>5. Regular => Ending
    BY <2>1, <2>3
       DEF Regular, Quiet, Over, Polled, Heard, Answering, Answered, Got, HasResponse
  <2>6. ASSUME Ending PROVE Ended'
    <3>1. PICK r \in 0 .. QUANTUM - 1 :
            Opens("R", left["I"] + ((RESP_TX_TO_FINAL_RX_DLY - FLIGHT - Last) + r))
      BY <2>6 DEF Ending
    <3>2. left["I"] + ((RESP_TX_TO_FINAL_RX_DLY - FLIGHT - Last) + r)
            = m.left + ((RESP_TX_TO_FINAL_RX_DLY - 2 * FLIGHT - Last) + r)
      BY <2>1, <2>2, Windows
    <3>3. Opens("R", m.left + ((RESP_TX_TO_FINAL_RX_DLY - 2 * FLIGHT - Last) + r))'
      BY <2>1, <3>1, <3>2 DEF Opens
    <3>4. m \in air' /\ air' = {m} /\ m.frame.kind = "final"
      BY <2>1, <2>2
    <3>5. pc'["R"] = "waitFinal"
      BY <1>n, <2>6 DEF Ending
    <3> QED BY <2>1, <3>3, <3>4, <3>5 DEF Ended
  <2> QED BY <1>n, <2>4, <2>5, <2>6 DEF InStep, Regular
<1>3. CASE Transmit("R")
  <2>m. PICK m : m = [to |-> "I", left |-> FLIGHT, frame |-> txBuf["R"]]
    OBVIOUS
  <2>1. /\ pc["R"] = "waitFinal" /\ mode["R"] = "tx" /\ left["R"] = 0 /\ mode'["R"] = "gap"
        /\ left'["R"] = RESP_TX_TO_FINAL_RX_DLY /\ air' = air \cup {m} /\ mode'["I"] = mode["I"]
        /\ left'["I"] = left["I"]
        /\ UNCHANGED <<rxTo, rxDly, rxBuf>> /\ m.frame.kind = "resp" /\ m.to = "I"
        /\ m.left = FLIGHT /\ air = {} /\ "RXFCG" \notin status'["R"]
    BY <1>t, <1>b, <1>n, <1>3, <2>m, ChipsAt DEF Transmit, Peer, Addressed, ResponseArmed
  <2>2. Addressed' /\ FinalsLast'
    BY <1>t, <1>n, <2>1 DEF Addressed, FinalsLast, HasFinal
  <2>3. Regular => Answering
    BY <1>t, <2>1, ChipsAt
       DEF Regular, Quiet, Polled, Ready, Heard, HasPoll, Answered, Got, Ending, Ended, HasFinal,
           Opens
  <2>4. ASSUME Answering PROVE Answered'
    <3>1. PICK r \in 0 .. QUANTUM - 1 :
            Opens("I", left["R"] + ((POLL_TX_TO_RESP_RX_DLY - FLIGHT - Reply) + r))
      BY <2>4 DEF Answering
    <3>2. left["R"] + ((POLL_TX_TO_RESP_RX_DLY - FLIGHT - Reply) + r)
            = m.left + ((POLL_TX_TO_RESP_RX_DLY - 2 * FLIGHT - Reply) + r)
      BY <2>1, Windows
    <3>3. Opens("I", m.left + ((POLL_TX_TO_RESP_RX_DLY - 2 * FLIGHT - Reply) + r))'
      BY <2>1, <3>1, <3>2 DEF Opens
    <3>4. Opens("R", (m.left - FLIGHT) + RESP_TX_TO_FINAL_RX_DLY)'
      <4>1. (m.left - FLIGHT) + RESP_TX_TO_FINAL_RX_DLY = RESP_TX_TO_FINAL_RX_DLY
        BY <2>1, Windows
      <4> QED BY <2>1, <4>1 DEF Opens
    <3>5. m \in air' /\ air' = {m} /\ m.frame.kind = "resp"
      BY <2>1
    <3>6. pc'["I"] = "waitResp" /\ pc'["R"] = "waitFinal"
      BY <1>n, <2>4 DEF Answering
    <3> QED BY <3>3, <3>4, <3>5, <3>6 DEF Answered
  <2> QED BY <1>n, <2>2, <2>3, <2>4 DEF InStep, Regular
(* A receiver turns on.                                                    *)
<1>4. ASSUME NEW n \in Node, OpenRx(n) PROVE InStep'
  <2>1. /\ mode[n] = "gap" /\ left[n] = 0 /\ mode'[n] = "rx" /\ left'[n] = rxTo[n]
        /\ rxBuf'[n] = NoFrame
        /\ \A i \in Node \ {n} : mode'[i] = mode[i] /\ left'[i] = left[i] /\ rxBuf'[i] = rxBuf[i]
        /\ UNCHANGED <<air, rxTo, rxDly, status>>
    BY <1>n, <1>4 DEF OpenRx
  <2>2. \A i \in Node : \A o : Opens(i, o) => Opens(i, o)'
    <3> SUFFICES ASSUME NEW i \in Node, NEW o, Opens(i, o) PROVE Opens(i, o)'
      OBVIOUS
    <3>1. CASE i = n
      <4>1. rxTo[i] \in Nat /\ o = 0
        BY <1>n, <2>1, <3>1 DEF Opens
      <4> QED BY <2>1, <3>1, <4>1 DEF Opens
    <3>2. CASE i # n
      BY <2>1, <3>2 DEF Opens
    <3> QED BY <3>1, <3>2
  <2>3. \A t : Ready(t) => Ready(t)'
    BY <1>n, <2>1 DEF Ready
  <2>4. "RXFCG" \notin status[n]
    BY <1>t, <2>1, ChipsAt
  <2>5. /\ HasFinal => n = "I" /\ HasFinal'
        /\ HasFinal' => HasFinal
        /\ HasPoll => HasPoll'
        /\ HasResponse => HasResponse'
        /\ FinalArmed => FinalArmed'
    BY <1>n, <2>1, <2>4 DEF HasFinal, HasPoll, HasResponse, FinalArmed
  <2>6. CASE n = "I"
    <3>1. ~HasFinal /\ (\A o \in air : o.frame.kind # "final") /\ ~Ended /\ ~Quiet
      BY <1>t, <2>1, <2>6, NoFinalYet DEF Over, Quiet
    <3>2. Addressed' /\ FinalsLast'
      BY <1>t, <1>n, <2>1, <2>5, <2>6, <3>1 DEF Addressed, FinalsLast
    <3>3. Polled => Polled'
      BY <1>n, <2>1, <2>2, <2>3 DEF Polled
    <3>a. mode'["R"] = mode["R"] /\ left'["R"] = left["R"]
      BY <1>n, <2>1, <2>6
    <3>4. ASSUME Heard PROVE Heard'
      <4>1. Opens("I", (0 - lag["R"] - FLIGHT) + POLL_TX_TO_RESP_RX_DLY)
        BY <3>4 DEF Heard
      <4>2. Opens("I", (0 - lag["R"] - FLIGHT) + POLL_TX_TO_RESP_RX_DLY)'
        BY <1>n, <2>2, <4>1
      <4>3. HasPoll' /\ pc'["I"] = "waitResp" /\ air' = {}
        BY <1>n, <2>1, <2>5, <3>4 DEF Heard
      <4> QED BY <4>2, <4>3 DEF Heard
    <3>5. ASSUME Answering PROVE Answering'
      <4>1. PICK r \in 0 .. QUANTUM - 1 :
              Opens("I", left["R"] + ((POLL_TX_TO_RESP_RX_DLY - FLIGHT - Reply) + r))
        BY <3>5 DEF Answering
      <4>2. Opens("I", left["R"] + ((POLL_TX_TO_RESP_RX_DLY - FLIGHT - Reply) + r))'
        BY <1>n, <2>2, <3>a, <4>1
      <4> QED BY <1>n, <2>1, <3>5, <3>a, <4>2 DEF Answering
    <3>6. Answered => Answered'
      BY <1>n, <2>1, <2>2 DEF Answered
    <3>7. ~Got /\ ~Ending
      BY <2>1, <2>4, <2>6 DEF Got, HasResponse, Ending, FinalArmed
    <3> QED BY <1>n, <3>1, <3>2, <3>3, <3>4, <3>5, <3>6, <3>7 DEF InStep, Regular
  <2>7. CASE n = "R"
    <3>1. NextPoll' = NextPoll /\ Over' = Over /\ ~HasFinal /\ ~HasPoll
      BY <1>n, <2>1, <2>4, <2>7 DEF NextPoll, Over, HasFinal, HasPoll
    <3>2. Addressed' /\ FinalsLast'
      BY <1>t, <1>n, <2>1, <2>5, <2>7, <3>1 DEF Addressed, FinalsLast
    <3>3. (Quiet => Quiet') /\ (Polled => Polled')
      BY <1>n, <2>1, <2>2, <2>3, <2>7, <3>1 DEF Quiet, Polled
    <3>a. mode'["I"] = mode["I"] /\ left'["I"] = left["I"]
      BY <1>n, <2>1, <2>7
    <3>4. ~Answering /\ (Answered => Answered')
      BY <1>n, <2>1, <2>2, <2>7 DEF Answering, Answered
    <3>5. ASSUME Got PROVE Got'
      <4>1. Opens("R", (0 - lag["I"] - FLIGHT) + RESP_TX_TO_FINAL_RX_DLY)
        BY <3>5 DEF Got
      <4>2. Opens("R", (0 - lag["I"] - FLIGHT) + RESP_TX_TO_FINAL_RX_DLY)'
        BY <1>n, <2>2, <4>1
      <4>3. HasResponse' /\ pc'["R"] = "waitFinal" /\ air' = {}
        BY <1>n, <2>1, <2>5, <3>5 DEF Got
      <4> QED BY <4>2, <4>3 DEF Got
    <3>6. ASSUME Ending PROVE Ending'
      <4>1. PICK r \in 0 .. QUANTUM - 1 :
              Opens("R", left["I"] + ((RESP_TX_TO_FINAL_RX_DLY - FLIGHT - Last) + r))
        BY <3>6 DEF Ending
      <4>2. Opens("R", left["I"] + ((RESP_TX_TO_FINAL_RX_DLY - FLIGHT - Last) + r))'
        BY <1>n, <2>2, <3>a, <4>1
      <4> QED BY <1>n, <2>1, <2>5, <3>6, <4>2 DEF Ending
    <3>7. Ended => Ended'
      BY <1>n, <2>1, <2>2 DEF Ended
    <3> QED BY <1>n, <3>1, <3>2, <3>3, <3>4, <3>5, <3>6, <3>7 DEF InStep, Regular, Heard
  <2> QED BY <1>n, <2>6, <2>7
(* A receiver times out: not any more.                                     *)
<1>5. ASSUME NEW n \in Node, RxTimeout(n) PROVE InStep'
  <2>1. /\ mode[n] = "rx" /\ left[n] = 0 /\ rxTo[n] # 0 /\ mode'[n] = "idle"
        /\ status'[n] = status[n] \cup {"RXTO"}
        /\ \A i \in Node \ {n} : mode'[i] = mode[i] /\ left'[i] = left[i] /\ status'[i] = status[i]
        /\ UNCHANGED <<air, rxTo, rxDly, rxBuf>>
    BY <1>n, <1>5 DEF RxTimeout, EndRx
  <2>2. "RXFCG" \notin status[n]
    BY <1>t, <2>1, ChipsAt
  <2>3. HasFinal' => HasFinal
    BY <1>n, <2>1, <2>2 DEF HasFinal
  <2>4. Addressed' /\ FinalsLast'
    <3>1. CASE n = "I"
      <4>1. ~HasFinal /\ (\A o \in air : o.frame.kind # "final")
        BY <1>t, <2>1, <3>1, NoFinalYet DEF Over
      <4> QED BY <1>t, <1>n, <2>1, <2>3, <3>1, <4>1 DEF Addressed, FinalsLast
    <3>2. CASE n = "R"
      <4>1. NextPoll' = NextPoll /\ Over' = Over
        BY <1>n, <2>1, <3>2 DEF NextPoll, Over
      <4> QED BY <1>t, <1>n, <2>1, <2>3, <3>2, <4>1 DEF Addressed, FinalsLast
    <3> QED BY <1>n, <3>1, <3>2
  <2>5. ~Regular
    <3>1. CASE n = "I"
      <4>1. rxTo["I"] = RESP_RX_TIMEOUT /\ \A o : Opens("I", o) <=> (0 = o + RESP_RX_TIMEOUT)
        BY <1>t, <2>1, <3>1 DEF Addressed, Opens
      <4>2. ~HasFinal /\ ~Ended /\ ~Quiet /\ ~Got /\ ~Ending
        BY <1>t, <2>1, <2>2, <3>1, NoFinalYet DEF Over, Quiet, Got, HasResponse, Ending, FinalArmed
      <4>3. ~Polled
        BY <1>w, <4>1, Windows DEF Polled
      <4>4. ~Heard
        BY <1>w, <4>1, Windows DEF Heard
      <4>5. ~Answering
        BY <1>w, <4>1, Windows DEF Answering
      <4>6. ~Answered
        BY <1>w, <4>1, Windows DEF Answered
      <4> QED BY <4>2, <4>3, <4>4, <4>5, <4>6 DEF Regular
    <3>2. CASE n = "R"
      <4>0. pc["R"] = "waitFinal"
        BY <1>t, <2>1, <3>2, ChipsAt DEF Addressed
      <4>1. rxTo["R"] = FINAL_RX_TIMEOUT /\ \A o : Opens("R", o) <=> (0 = o + FINAL_RX_TIMEOUT)
        BY <1>t, <2>1, <3>2, <4>0 DEF Addressed, Opens
      <4>2. ~HasFinal /\ ~Quiet /\ ~Polled /\ ~Heard /\ ~Answering
        BY <1>t, <2>1, <2>2, <3>2, <4>0
           DEF HasFinal, Quiet, Polled, Ready, Heard, HasPoll, Answering
      <4>3. ~Answered
        BY <1>w, <4>1, Windows DEF Answered
      <4>4. ~Got
        BY <1>w, <4>1, Windows DEF Got
      <4>5. ~Ending
        BY <1>w, <4>1, Windows DEF Ending
      <4>6. ~Ended
        BY <1>w, <4>1, Windows DEF Ended
      <4> QED BY <4>2, <4>3, <4>4, <4>5, <4>6 DEF Regular
    <3> QED BY <1>n, <3>1, <3>2
  <2> QED BY <1>n, <2>4, <2>5 DEF InStep
(* A frame comes.                                                          *)
<1>6. ASSUME NEW m \in air, Receive(m) PROVE InStep'
  <2> DEFINE n == m.to
  <2>1. /\ m.left = 0 /\ mode[n] = "rx" /\ mode'[n] = "idle" /\ rxBuf'[n] = m.frame /\ n \in Node
        /\ status'[n] = status[n] \cup {"RXFCG"}
        /\ \A i \in Node \ {n} : /\ mode'[i] = mode[i] /\ left'[i] = left[i]
                                 /\ status'[i] = status[i] /\ rxBuf'[i] = rxBuf[i]
        /\ air' = {} /\ UNCHANGED <<rxTo, rxDly>>
        /\ n = (IF m.frame.kind = "resp" THEN "I" ELSE "R")
        /\ m.frame.kind \in {"poll", "resp", "final"}
    BY <1>t, <1>b, <1>n, <1>w, <1>6 DEF Receive, EndRx, Addressed
  <2>2. CASE m.frame.kind = "poll"
    <3>1. /\ mode'["R"] = "idle" /\ "RXFCG" \in status'["R"] /\ rxBuf'["R"].kind = "poll"
          /\ mode'["I"] = mode["I"] /\ left'["I"] = left["I"] /\ mode["R"] = "rx"
      BY <1>n, <2>1, <2>2
    <3>2. Addressed' /\ FinalsLast'
      BY <1>t, <1>n, <2>1, <3>1 DEF Addressed, FinalsLast, HasFinal
    <3>3. ASSUME Regular PROVE Heard'
      <4>1. Polled
        BY <1>t, <2>1, <2>2, <3>1, <3>3
           DEF Regular, Quiet, Heard, Answering, Answered, Got, Ending, Ended, FinalsLast
      <4>2. pc["R"] = "listen" /\ lag["R"] = 0
        BY <1>t, <3>1, <4>1, ChipsAt DEF Polled, Ready, Roles
      <4>3. Opens("I", (m.left - FLIGHT) + POLL_TX_TO_RESP_RX_DLY)
        BY <4>1 DEF Polled
      <4>4. (m.left - FLIGHT) + POLL_TX_TO_RESP_RX_DLY
              = (0 - lag'["R"] - FLIGHT) + POLL_TX_TO_RESP_RX_DLY
        BY <1>n, <2>1, <4>2, Windows
      <4>5. Opens("I", (0 - lag["R"] - FLIGHT) + POLL_TX_TO_RESP_RX_DLY)'
        BY <2>1, <3>1, <4>3, <4>4 DEF Opens
      <4> QED BY <1>n, <2>1, <3>1, <4>1, <4>2, <4>5 DEF Heard, HasPoll, Polled
    <3> QED BY <1>n, <3>2, <3>3 DEF InStep, Regular
  <2>3. CASE m.frame.kind = "resp"
    <3>1. /\ mode'["I"] = "idle" /\ "RXFCG" \in status'["I"] /\ rxBuf'["I"].kind = "resp"
          /\ mode'["R"] = mode["R"] /\ left'["R"] = left["R"] /\ mode["I"] = "rx"
          /\ status'["R"] = status["R"] /\ rxBuf'["R"] = rxBuf["R"]
      BY <1>n, <2>1, <2>3
    <3>2. ~HasFinal
      BY <1>t, <3>1, NoFinalYet DEF Over
    <3>3. Addressed' /\ FinalsLast'
      BY <1>t, <1>n, <2>1, <3>1, <3>2 DEF Addressed, FinalsLast, HasFinal
    <3>4. ASSUME Regular PROVE Got'
      <4>1. Answered
        BY <2>1, <2>3, <3>1, <3>2, <3>4
           DEF Regular, Quiet, Polled, Heard, Answering, Got, Ending, Ended
      <4>2. pc["I"] = "waitResp" /\ lag["I"] = 0
        BY <1>t, <3>1, <4>1 DEF Answered, Roles
      <4>3. Opens("R", (m.left - FLIGHT) + RESP_TX_TO_FINAL_RX_DLY)
        BY <4>1 DEF Answered
      <4>4. (m.left - FLIGHT) + RESP_TX_TO_FINAL_RX_DLY
              = (0 - lag'["I"] - FLIGHT) + RESP_TX_TO_FINAL_RX_DLY
        BY <1>n, <2>1, <4>2, Windows
      <4>5. Opens("R", (0 - lag["I"] - FLIGHT) + RESP_TX_TO_FINAL_RX_DLY)'
        BY <2>1, <3>1, <4>3, <4>4 DEF Opens
      <4> QED BY <1>n, <2>1, <3>1, <4>1, <4>2, <4>5 DEF Got, HasResponse, Answered
    <3> QED BY <1>n, <3>3, <3>4 DEF InStep, Regular
  <2>4. CASE m.frame.kind = "final"
    <3>1. /\ mode'["R"] = "idle" /\ "RXFCG" \in status'["R"] /\ rxBuf'["R"].kind = "final"
          /\ mode'["I"] = mode["I"] /\ left'["I"] = left["I"] /\ mode["R"] = "rx"
      BY <1>n, <2>1, <2>4
    <3>2. Over /\ (RNG_DELAY - FLIGHT) + m.left <= NextPoll
      BY <1>t, <2>4 DEF FinalsLast
    <3>3. (RNG_DELAY - FLIGHT) - lag["R"] <= NextPoll
      <4>1. NextPoll \in Nat
        BY <1>t, Types
      <4> QED BY <1>w, <2>1, <3>2, <4>1, Windows
    <3>4. Over' /\ NextPoll' = NextPoll
      BY <1>n, <3>1, <3>2 DEF Over, NextPoll
    <3>5. Addressed' /\ FinalsLast'
      BY <1>t, <1>n, <2>1, <3>1, <3>3, <3>4 DEF Addressed, FinalsLast
    <3>6. ASSUME Regular PROVE HasFinal'
      <4>1. Ended \/ HasFinal
        BY <2>1, <2>4, <3>6 DEF Regular, Quiet, Polled, Heard, Answering, Answered, Got, Ending
      <4> QED BY <1>n, <3>1, <4>1 DEF Ended, HasFinal
    <3> QED BY <1>n, <3>5, <3>6 DEF InStep, Regular
  <2> QED BY <2>1, <2>2, <2>3, <2>4
(* A frame is missed: not any more.                                        *)
<1>7. ASSUME NEW m \in air, Miss(m) PROVE InStep'
  <2>1. /\ m.left = 0 /\ mode[m.to] # "rx" /\ air' = {} /\ air # {}
        /\ UNCHANGED <<mode, left, status, rxTo, rxDly, rxBuf>>
    BY <1>t, <1>b, <1>n, <1>7 DEF Miss, Fault, chipVars
  <2>2. Addressed' /\ FinalsLast'
    BY <1>t, <1>n, <2>1 DEF Addressed, FinalsLast, HasFinal
  <2>3. ~Regular
    <3>1. m.to = IF m.frame.kind = "resp" THEN "I" ELSE "R"
      BY <1>t DEF Addressed
    <3>2. ~Quiet /\ ~Heard /\ ~Answering /\ ~Got /\ ~Ending /\ ~HasFinal
      BY <1>t, <2>1 DEF Quiet, Heard, Answering, Got, Ending, FinalsLast
    <3>3. ~Polled
      <4> SUFFICES ASSUME Polled PROVE FALSE
        OBVIOUS
      <4>1. Ready(0) /\ mode["R"] # "rx"
        BY <2>1, <3>1 DEF Polled
      <4> QED BY <1>w, <4>1, Windows DEF Ready
    <3>4. ~Answered
      <4> SUFFICES ASSUME Answered PROVE FALSE
        OBVIOUS
      <4>1. mode["I"] # "rx"
        BY <2>1, <3>1 DEF Answered
      <4>2. PICK r \in 0 .. QUANTUM - 1 :
              Opens("I", 0 + ((POLL_TX_TO_RESP_RX_DLY - 2 * FLIGHT - Reply) + r))
        BY <2>1 DEF Answered
      <4> QED BY <1>w, <4>1, <4>2, Windows DEF Opens
    <3>5. ~Ended
      <4> SUFFICES ASSUME Ended PROVE FALSE
        OBVIOUS
      <4>1. mode["R"] # "rx"
        BY <2>1, <3>1 DEF Ended
      <4>2. PICK r \in 0 .. QUANTUM - 1 :
              Opens("R", 0 + ((RESP_TX_TO_FINAL_RX_DLY - 2 * FLIGHT - Last) + r))
        BY <2>1 DEF Ended
      <4> QED BY <1>w, <4>1, <4>2, Windows DEF Opens
    <3> QED BY <3>2, <3>3, <3>4, <3>5 DEF Regular
  <2> QED BY <1>n, <2>2, <2>3 DEF InStep
<1>8. ~(\E m \in air : Corrupt(m)) /\ ~Interference(Foreign)
  BY <1>n DEF Corrupt, Interference, Interfere, Fault
<1> QED BY <1>n, <1>1, <1>2, <1>3, <1>4, <1>5, <1>6, <1>7, <1>8 DEF Radio, Hardware

(* Time brings all that is ahead nearer by as much.                        *)
LEMMA InStepTick ==
  ASSUME WindowsFit, IInv, InStep, Tick
  PROVE  InStep'
<1>t. /\ TypeOK /\ HostsChips /\ Addressed /\ FinalsLast /\ "I" \in Node /\ "R" \in Node
  BY DEF IInv, InStep, Node
<1>n. /\ UNCHANGED <<pc, mode, status, rxDly, rxTo, rxBuf, tof>>
      /\ \A n \in Node : /\ CountsDown(n) => left[n] > 0
                         /\ left'[n] = (IF CountsDown(n) THEN left[n] - 1 ELSE left[n])
                         /\ nap'[n] = (IF nap[n] > 0 THEN nap[n] - 1 ELSE 0)
                         /\ lag'[n] = (IF HostDue(n) THEN lag[n] + 1 ELSE 0)
      /\ air' = {Nearer(m) : m \in air} /\ \A m \in air : m.left > 0
  BY DEF Tick, HostTick, LinkTick
<1>w. /\ nap["R"] \in Nat /\ lag["R"] \in 0 .. MaxLag /\ lag["I"] \in 0 .. MaxLag
      /\ left["I"] \in Nat /\ left["R"] \in Nat /\ nap["I"] \in Nat
      /\ rxTo["I"] \in Nat /\ rxTo["R"] \in Nat
      /\ NextPoll \in Nat /\ \A m \in air : m.left \in Nat /\ m.to \in Node
  BY <1>t, Types DEF TypeOK, LinkTypeOK, HostTypeOK
<1>m. /\ air = {} => air' = {}
      /\ \A m \in air : air = {m} => air' = {Nearer(m)}
      /\ \A m \in air : /\ Nearer(m).left = m.left - 1 /\ Nearer(m).frame = m.frame
                        /\ Nearer(m).to = m.to /\ Nearer(m) \in air'
      /\ \A o \in air' : \E m \in air : o = Nearer(m)
  BY <1>n DEF Nearer
<1>k. NextPoll' >= NextPoll - 1 /\ NextPoll' \in Int /\ Over' = Over
  <2>1. NextPoll' >= NextPoll - 1 /\ NextPoll' \in Int
    <3>1. mode["I"] \in {"tx", "gap"} => left'["I"] = left["I"] - 1
      BY <1>t, <1>n DEF CountsDown
    <3> QED BY <1>t, <1>n, <1>w, <3>1, Windows DEF NextPoll
  <2> QED BY <1>n, <2>1 DEF Over
<1>h. /\ HasPoll' = HasPoll /\ HasResponse' = HasResponse /\ HasFinal' = HasFinal
      /\ FinalArmed' = FinalArmed
      /\ HasPoll \/ HasFinal => lag'["R"] = lag["R"] + 1
      /\ HasResponse => lag'["I"] = lag["I"] + 1
  <2>1. /\ HasPoll' = HasPoll /\ HasResponse' = HasResponse /\ HasFinal' = HasFinal
        /\ FinalArmed' = FinalArmed
    BY <1>n DEF HasPoll, HasResponse, HasFinal, FinalArmed
  <2>2. /\ HasPoll \/ HasFinal => HostDue("R")
        /\ HasResponse => HostDue("I")
    BY DEF HasPoll, HasFinal, HasResponse, HostDue, Noticed, Awaited, TxPoints, DataPoints,
           RespPoints, RxMask
  <2> QED BY <1>t, <1>n, <2>1, <2>2
<1>o. ASSUME NEW n \in Node, NEW o \in Int, NEW p, rxTo[n] # 0, Opens(n, o), p = o - 1
      PROVE  Opens(n, p)'
  <2>1. CountsDown(n) /\ left'[n] = left[n] - 1 /\ rxTo[n] \in Nat
    BY <1>n, <1>o, <1>w DEF Opens, CountsDown, Node
  <2> QED BY <1>n, <1>o, <2>1 DEF Opens
<1>r. ASSUME NEW t \in Int, NEW u \in Int, Ready(t), u >= t - 1 PROVE Ready(u)'
  <2>1. CASE pc["R"] = "listen" /\ mode["R"] = "rx"
    BY <1>n, <2>1 DEF Ready
  <2>2. CASE pc["R"] = "sleep" /\ nap["R"] = 0
    <3>1. lag'["R"] = lag["R"] + 1 /\ nap'["R"] = 0
      BY <1>t, <1>n, <2>2 DEF HostDue, Awake, Rested
    <3>2. (nap'["R"] + MaxLag) - lag'["R"] < u
      BY <1>r, <1>w, <2>2, <3>1, Windows DEF Ready
    <3> QED BY <1>n, <2>2, <3>1, <3>2 DEF Ready
  <2>3. CASE pc["R"] = "sleep" /\ nap["R"] # 0
    <3>1. lag'["R"] = 0 /\ nap'["R"] = nap["R"] - 1 /\ lag["R"] = 0
      BY <1>t, <1>n, <1>r, <1>w, <2>3
         DEF HostDue, Awake, Rested, Noticed, Awaited, TxPoints, DataPoints, RespPoints, Ready
    <3>2. (nap'["R"] + MaxLag) - lag'["R"] < u
      BY <1>r, <1>w, <2>3, <3>1, Windows DEF Ready
    <3> QED BY <1>n, <2>3, <3>1, <3>2 DEF Ready
  <2> QED BY <1>r, <2>1, <2>2, <2>3 DEF Ready
<1>x. /\ rxTo["I"] # 0 /\ (pc["R"] = "waitFinal" => rxTo["R"] # 0)
      /\ ~(pc["I"] = "waitResp" /\ mode["I"] = "tx")
  BY <1>t, <1>n, <1>w, Windows DEF Addressed, CountsDown
<1>1. Addressed'
  BY <1>t, <1>n, <1>m, <1>x DEF Addressed
<1>2. FinalsLast'
  <2>1. ASSUME NEW o \in air', o.frame.kind = "final"
        PROVE  Over' /\ (RNG_DELAY - FLIGHT) + o.left <= NextPoll'
    <3>1. PICK m \in air : o = Nearer(m)
      BY <1>m
    <3> QED BY <1>t, <1>k, <1>m, <1>w, <2>1, <3>1, Windows DEF FinalsLast
  <2>2. HasFinal' => air' = {} /\ Over' /\ (RNG_DELAY - FLIGHT) - lag'["R"] <= NextPoll'
    BY <1>t, <1>h, <1>k, <1>m, <1>w, Windows DEF FinalsLast
  <2> QED BY <2>1, <2>2 DEF FinalsLast
<1>3. ASSUME Regular PROVE Regular'
  <2>1. CASE Quiet
    <3>1. Ready(NextPoll + FLIGHT)'
      <4>1. NextPoll + FLIGHT \in Int /\ NextPoll' + FLIGHT \in Int
            /\ NextPoll' + FLIGHT >= (NextPoll + FLIGHT) - 1
        BY <1>k, <1>w, Windows
      <4> QED BY <1>r, <2>1, <4>1 DEF Quiet
    <3> QED BY <1>k, <1>m, <1>x, <2>1, <3>1 DEF Quiet, Regular
  <2>2. CASE Polled
    <3>1. PICK m \in air : /\ air = {m} /\ m.frame.kind = "poll" /\ Ready(m.left)
                           /\ Opens("I", (m.left - FLIGHT) + POLL_TX_TO_RESP_RX_DLY)
      BY <2>2 DEF Polled
    <3>2. PICK o : o = Nearer(m)
      OBVIOUS
    <3>3. air' = {o} /\ o \in air' /\ o.frame.kind = "poll" /\ o.left = m.left - 1 /\ m.left \in Nat
      BY <1>m, <1>w, <3>1, <3>2
    <3>4. Ready(o.left)'
      BY <1>r, <3>1, <3>3
    <3>5. Opens("I", (o.left - FLIGHT) + POLL_TX_TO_RESP_RX_DLY)'
      <4>1. /\ (m.left - FLIGHT) + POLL_TX_TO_RESP_RX_DLY \in Int
            /\ (o.left - FLIGHT) + POLL_TX_TO_RESP_RX_DLY
                 = ((m.left - FLIGHT) + POLL_TX_TO_RESP_RX_DLY) - 1
        BY <3>3, Windows
      <4> QED BY <1>o, <1>t, <1>x, <3>1, <4>1
    <3> QED BY <1>n, <2>2, <3>3, <3>4, <3>5 DEF Polled, Regular
  <2>3. CASE Heard
    <3>1. Opens("I", (0 - lag["R"] - FLIGHT) + POLL_TX_TO_RESP_RX_DLY)'
      <4>1. /\ (0 - lag["R"] - FLIGHT) + POLL_TX_TO_RESP_RX_DLY \in Int
            /\ (0 - lag'["R"] - FLIGHT) + POLL_TX_TO_RESP_RX_DLY
                 = ((0 - lag["R"] - FLIGHT) + POLL_TX_TO_RESP_RX_DLY) - 1
        BY <1>h, <1>w, <2>3, Windows DEF Heard
      <4> QED BY <1>o, <1>t, <1>x, <2>3, <4>1 DEF Heard
    <3> QED BY <1>h, <1>m, <1>n, <2>3, <3>1 DEF Heard, Regular
  <2>4. CASE Answering
    <3>1. PICK r \in 0 .. QUANTUM - 1 :
            Opens("I", left["R"] + ((POLL_TX_TO_RESP_RX_DLY - FLIGHT - Reply) + r))
      BY <2>4 DEF Answering
    <3>2. Opens("I", left["R"] + ((POLL_TX_TO_RESP_RX_DLY - FLIGHT - Reply) + r))'
      <4>1. left'["R"] = left["R"] - 1
        BY <1>t, <1>n, <2>4 DEF Answering, CountsDown
      <4>2. /\ left["R"] + ((POLL_TX_TO_RESP_RX_DLY - FLIGHT - Reply) + r) \in Int
            /\ left'["R"] + ((POLL_TX_TO_RESP_RX_DLY - FLIGHT - Reply) + r)
                 = (left["R"] + ((POLL_TX_TO_RESP_RX_DLY - FLIGHT - Reply) + r)) - 1
        BY <1>w, <4>1, Windows
      <4> QED BY <1>o, <1>t, <1>x, <3>1, <4>2
    <3> QED BY <1>m, <1>n, <2>4, <3>2 DEF Answering, Regular
  <2>5. CASE Answered
    <3>1. PICK m \in air : /\ air = {m} /\ m.frame.kind = "resp"
                           /\ Opens("R", (m.left - FLIGHT) + RESP_TX_TO_FINAL_RX_DLY)
                           /\ \E r \in 0 .. QUANTUM - 1 :
                                Opens("I", m.left + ((POLL_TX_TO_RESP_RX_DLY - 2 * FLIGHT - Reply) + r))
      BY <2>5 DEF Answered
    <3>2. PICK o : o = Nearer(m)
      OBVIOUS
    <3>3. air' = {o} /\ o \in air' /\ o.frame.kind = "resp" /\ o.left = m.left - 1 /\ m.left \in Nat
      BY <1>m, <1>w, <3>1, <3>2
    <3>4. Opens("R", (o.left - FLIGHT) + RESP_TX_TO_FINAL_RX_DLY)'
      <4>1. /\ (m.left - FLIGHT) + RESP_TX_TO_FINAL_RX_DLY \in Int
            /\ (o.left - FLIGHT) + RESP_TX_TO_FINAL_RX_DLY
                 = ((m.left - FLIGHT) + RESP_TX_TO_FINAL_RX_DLY) - 1
        BY <3>3, Windows
      <4> QED BY <1>o, <1>t, <1>x, <2>5, <3>1, <4>1 DEF Answered
    <3>5. PICK r \in 0 .. QUANTUM - 1 :
            Opens("I", m.left + ((POLL_TX_TO_RESP_RX_DLY - 2 * FLIGHT - Reply) + r))
      BY <3>1
    <3>6. Opens("I", o.left + ((POLL_TX_TO_RESP_RX_DLY - 2 * FLIGHT - Reply) + r))'
      <4>1. /\ m.left + ((POLL_TX_TO_RESP_RX_DLY - 2 * FLIGHT - Reply) + r) \in Int
            /\ o.left + ((POLL_TX_TO_RESP_RX_DLY - 2 * FLIGHT - Reply) + r)
                 = (m.left + ((POLL_TX_TO_RESP_RX_DLY - 2 * FLIGHT - Reply) + r)) - 1
        BY <3>3, Windows
      <4> QED BY <1>o, <1>t, <1>x, <3>5, <4>1
    <3> QED BY <1>n, <2>5, <3>3, <3>4, <3>6 DEF Answered, Regular
  <2>6. CASE Got
    <3>1. Opens("R", (0 - lag["I"] - FLIGHT) + RESP_TX_TO_FINAL_RX_DLY)'
      <4>1. /\ (0 - lag["I"] - FLIGHT) + RESP_TX_TO_FINAL_RX_DLY \in Int
            /\ (0 - lag'["I"] - FLIGHT) + RESP_TX_TO_FINAL_RX_DLY
                 = ((0 - lag["I"] - FLIGHT) + RESP_TX_TO_FINAL_RX_DLY) - 1
        BY <1>h, <1>w, <2>6, Windows DEF Got
      <4> QED BY <1>o, <1>t, <1>x, <2>6, <4>1 DEF Got
    <3> QED BY <1>h, <1>m, <1>n, <2>6, <3>1 DEF Got, Regular
  <2>7. CASE Ending
    <3>1. PICK r \in 0 .. QUANTUM - 1 :
            Opens("R", left["I"] + ((RESP_TX_TO_FINAL_RX_DLY - FLIGHT - Last) + r))
      BY <2>7 DEF Ending
    <3>2. Opens("R", left["I"] + ((RESP_TX_TO_FINAL_RX_DLY - FLIGHT - Last) + r))'
      <4>1. left'["I"] = left["I"] - 1
        BY <1>t, <1>n, <2>7 DEF Ending, FinalArmed, CountsDown
      <4>2. /\ left["I"] + ((RESP_TX_TO_FINAL_RX_DLY - FLIGHT - Last) + r) \in Int
            /\ left'["I"] + ((RESP_TX_TO_FINAL_RX_DLY - FLIGHT - Last) + r)
                 = (left["I"] + ((RESP_TX_TO_FINAL_RX_DLY - FLIGHT - Last) + r)) - 1
        BY <1>w, <4>1, Windows
      <4> QED BY <1>o, <1>t, <1>x, <2>7, <3>1, <4>2 DEF Ending
    <3> QED BY <1>h, <1>m, <1>n, <2>7, <3>2 DEF Ending, Regular
  <2>8. CASE Ended
    <3>1. PICK m \in air : /\ air = {m} /\ m.frame.kind = "final"
                           /\ \E r \in 0 .. QUANTUM - 1 :
                                Opens("R", m.left + ((RESP_TX_TO_FINAL_RX_DLY - 2 * FLIGHT - Last) + r))
      BY <2>8 DEF Ended
    <3>2. PICK o : o = Nearer(m)
      OBVIOUS
    <3>3. air' = {o} /\ o \in air' /\ o.frame.kind = "final" /\ o.left = m.left - 1 /\ m.left \in Nat
      BY <1>m, <1>w, <3>1, <3>2
    <3>4. PICK r \in 0 .. QUANTUM - 1 :
            Opens("R", m.left + ((RESP_TX_TO_FINAL_RX_DLY - 2 * FLIGHT - Last) + r))
      BY <3>1
    <3>5. Opens("R", o.left + ((RESP_TX_TO_FINAL_RX_DLY - 2 * FLIGHT - Last) + r))'
      <4>1. /\ m.left + ((RESP_TX_TO_FINAL_RX_DLY - 2 * FLIGHT - Last) + r) \in Int
            /\ o.left + ((RESP_TX_TO_FINAL_RX_DLY - 2 * FLIGHT - Last) + r)
                 = (m.left + ((RESP_TX_TO_FINAL_RX_DLY - 2 * FLIGHT - Last) + r)) - 1
        BY <3>3, Windows
      <4> QED BY <1>o, <1>t, <1>x, <2>8, <3>4, <4>1 DEF Ended
    <3> QED BY <1>n, <2>8, <3>3, <3>5 DEF Ended, Regular
  <2>9. CASE HasFinal
    BY <1>h, <2>9 DEF Regular
  <2> QED BY <1>3, <2>1, <2>2, <2>3, <2>4, <2>5, <2>6, <2>7, <2>8, <2>9 DEF Regular
<1> QED BY <1>n, <1>1, <1>2, <1>3 DEF InStep
-----------------------------------------------------------------------------
(* Once one exchange has succeeded no receiver times out any more, as long *)
(* as the channel is clean: for all values of clocks, delays and timeouts  *)
(* for which the windows fit the exchange.                                 *)
THEOREM WindowsAlwaysFit ==
  ASSUME ExchangeIsSwift, WindowsFit
  PROVE  Spec => []NoTimeoutOnceRanging
<1>1. Init => InStep /\ AllRead
  BY DEF Init, LinkInit, HostInit, InStep, Addressed, FinalsLast, HasFinal, AllRead, NoFrame, Frame,
         Node
<1>2. TypeOK /\ HostsChips /\ Exchange /\ (faults = 0 => InStep /\ AllRead) /\ [Next]_vars
        => (faults = 0 => InStep /\ AllRead)'
  <2> SUFFICES ASSUME TypeOK, HostsChips, Exchange, faults = 0 => InStep /\ AllRead,
                      [Next]_vars, faults' = 0
               PROVE  InStep' /\ AllRead'
    OBVIOUS
  <2>0. faults = 0 /\ faults' = faults /\ IInv /\ InStep /\ AllRead
    <3>1. faults \in Nat
      BY DEF TypeOK, LinkTypeOK
    <3>2. faults = 0
      BY <3>1, FaultsAreCounted
    <3> QED BY <3>2 DEF IInv
  <2>c. AllRead'
    BY <2>0, AllReadStep
  <2>1. CASE UNCHANGED vars
    <3>1. /\ UNCHANGED <<mode, left, status, rxBuf, rxDly, rxTo, air, pc, nap, lag, tof>>
      BY <2>1 DEF vars, linkVars, chipVars, hostVars, pollVars
    <3>2. /\ NextPoll' = NextPoll /\ Over' = Over /\ HasPoll' = HasPoll
          /\ HasResponse' = HasResponse /\ HasFinal' = HasFinal /\ FinalArmed' = FinalArmed
      BY <3>1 DEF NextPoll, Over, HasPoll, HasResponse, HasFinal, FinalArmed
    <3>3. Addressed' /\ FinalsLast'
      BY <2>0, <3>1, <3>2 DEF InStep, Addressed, FinalsLast
    <3>4. Regular => Regular'
      BY <3>1, <3>2
         DEF Regular, Quiet, Polled, Heard, Answering, Answered, Got, Ending, Ended, Ready, Opens
    <3> QED BY <2>0, <2>c, <3>1, <3>3, <3>4 DEF InStep
  <2> QED
    BY <2>0, <2>c, <2>1, InStepInitiator, InStepResponder, InStepRadio, InStepTick DEF Next
<1>3. HostsChips /\ (faults = 0 => InStep /\ AllRead) => NoTimeoutOnceRanging
  BY NoTimeoutNow DEF InStep, NoTimeoutOnceRanging
<1> QED
  BY <1>1, <1>2, <1>3, ExchangeAlways, TypeCorrect, HostsChipsInvariant, PTL DEF Spec
=============================================================================
