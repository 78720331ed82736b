--------------------------- MODULE AckDataProofs ---------------------------
(***************************************************************************)
(* The acknowledged transfer delivers every message, in order, and no      *)
(* confirmation is one of another message: AckData implements Delivery     *)
(* for any number of messages, retransmissions, losses and disturbances.   *)
(*                                                                         *)
(* An acknowledgment names no message but its number, so the argument is   *)
(* one about order: what is on the air belongs to the current message of   *)
(* the sender or to the one before, the latter is ahead of the former, and *)
(* when something of the current message has arrived nothing of the one    *)
(* before is left behind it.                                               *)
(***************************************************************************)
EXTENDS AckData, PolledHostProofs

(* An acknowledgment of another network that bears the number of the frame *)
(* the sender waits for cannot be told from the receiver's.                *)
NoneMistaken == 0 \notin ForeignAcks

Current == tx_frame_ack_nb

(* x is the sequence number of the message before the current one; it is   *)
(* the number of message k, which is one of the two.                       *)
Before(x)   == x \in 0 .. SNMOD - 1 /\ (x + 1) % SNMOD = sn
Names(x, k) == /\ k \in Nat
               /\ \/ k = Current /\ x = sn
                  \/ k + 1 = Current /\ Before(x)

ToR == {m \in air : m.to = "R"}
ToI == {m \in air : m.to = "I"}

OldData(m) == m.frame.data[2] + 1 = Current
OldAck(m)  == m.frame.data[1] # sn
-----------------------------------------------------------------------------
(* The chips and their hosts. The sender's chip ends each wait with one    *)
(* event; the receiver's goes on to acknowledge when it has one for data.  *)
SenderPhase ==
  /\ pc["I"] \in {"sleep", "waitAck"}
  /\ pc["I"] = "sleep" => Asleep("I")
  /\ pc["I"] = "waitAck" => RxWait("I") /\ tx_frame_nb < MaxSends
  /\ mode["I"] = "tx" => txBuf["I"] = Frame("data", <<sn, Current>>)
  /\ rxTo["I"] # 0

HasData == "RXFCG" \in status["R"] /\ rxBuf["R"].kind = "data"

ReceiverPhase ==
  /\ pc["R"] \in {"sleep", "waitData", "waitTx"}
  /\ mode["R"] \in {"idle", "rx", "tx"} /\ ~w4r["R"] /\ rxTo["R"] = 0
  /\ "RXTO" \notin status["R"] /\ rxBuf["R"].kind # "long"
  /\ pc["R"] = "sleep" => Asleep("R") /\ "TXFRS" \notin status["R"]
  /\ pc["R"] = "waitTx" => TxWait("R")
  /\ pc["R"] = "waitData" =>
       /\ mode["R"] = "rx" <=> NoRxFlag("R")
       /\ ~NoRxFlag("R") => OneRxFlag("R")
       /\ mode["R"] = "tx" => HasData /\ "TXFRS" \notin status["R"]
       /\ mode["R"] = "idle" => (HasData <=> "TXFRS" \in status["R"])
       /\ mode["R"] = "rx" => "TXFRS" \notin status["R"]

(* Only data frames with their two numbers go to the receiver.             *)
Channel ==
  /\ \A m \in ToR : /\ m.frame.kind = "data"
                    /\ m.frame.data[1] \in Nat /\ m.frame.data[2] \in Nat
  /\ HasData => rxBuf["R"].data[2] \in Nat

Works == TypeOK /\ SenderPhase /\ ReceiverPhase /\ Channel

(* What is on the air.                                                     *)
OnAir ==
  /\ \A m \in air : m.left <= FLIGHT
  /\ \A m \in ToR : Names(m.frame.data[1], m.frame.data[2])
  /\ \A m \in ToI : /\ m.frame.kind = "ack"
                    /\ OldAck(m) => Before(m.frame.data[1])
                    /\ ~OldAck(m) => arrived = Current + 1

(* The frames of the message before are ahead of those of the current one, *)
(* also of one that is about to leave.                                     *)
DataInOrder ==
  /\ \A m, l \in ToR : OldData(m) /\ ~OldData(l) => m.left < l.left
  /\ ~(pc["I"] = "sleep" /\ nap["I"] > 0) => \A m \in ToR : OldData(m) => m.left < FLIGHT
  /\ arrived = Current + 1 => \A m \in ToR : ~OldData(m)

AcksInOrder ==
  /\ \A m, l \in ToI : OldAck(m) /\ ~OldAck(l) => m.left < l.left
  /\ mode["R"] = "tx" /\ left["R"] = 0 /\ arrived = Current + 1
       => \A m \in ToI : OldAck(m) => m.left < FLIGHT

(* The acknowledgment that is armed is one of the message that arrived     *)
(* last.                                                                   *)
Armed ==
  mode["R"] = "tx" =>
    /\ txBuf["R"].kind = "ack"
    /\ arrived = Current + 1 => txBuf["R"].data[1] = sn
    /\ arrived = Current => Before(txBuf["R"].data[1])

(* An acknowledgment that the sender will accept: its message has arrived, *)
(* and no older one is still on its way.                                   *)
Accepted ==
  pc["I"] = "waitAck" /\ "RXFCG" \in status["I"] /\ AckMatches(rxBuf["I"]) =>
    arrived = Current + 1 /\ \A m \in ToI : ~OldAck(m)

(* What the receiver's host has not read yet is what arrived last.         *)
Unread == pc["R"] = "waitData" /\ HasData

Reading ==
  /\ arrived \in {Current, Current + 1}
  /\ Unread => rxBuf["R"].data[2] + 1 = arrived /\ got <= arrived /\ arrived <= got + 1
  /\ ~Unread => got = arrived

Order == OnAir /\ DataInOrder /\ AcksInOrder /\ Armed /\ Accepted /\ Reading

IInv == Works /\ Order
-----------------------------------------------------------------------------
(* The frames that the nodes and the air produce.                          *)
LEMMA FrameTypes ==
  /\ Carries(Frames) /\ NoFrame \in Frames
  /\ \A x, k \in Nat : Frame("data", <<x, k>>) \in Frames
  /\ \A x \in Nat : Frame("ack", <<x>>) \in Frames
BY DEF Carries, NoFrame, Frame, Frames

(* Every action of the sender keeps the types.                             *)
LEMMA TypeSender == Works /\ Sender => TypeOK'
<1> SUFFICES ASSUME Works, Sender PROVE TypeOK'
  OBVIOUS
<1>0. TypeOK /\ SenderPhase
  BY DEF Works
<1>1. 0 \in Nat /\ 0 \in 0 .. MaxLag /\ (sn + 1) % SNMOD \in 0 .. SNMOD - 1
  BY <1>0, LinkAssumption, AckAssumption DEF TypeOK
<1>2. Frame("data", <<sn, tx_frame_ack_nb>>) \in Frames
  BY <1>0, FrameTypes DEF TypeOK
<1> USE <1>0, <1>1, <1>2, AckAssumption
    DEF TypeOK, HostTypeOK, Points, TxPoints, DataPoints, RespPoints, LinkTypeOK, Node,
        Flags, RxMask, Modes, ackVars, SenderPhase
<1>3. CASE Send
  BY <1>3 DEF Send, Awake, StartTxNow, StartTx, Goto
<1>4. CASE RecvAck
  BY <1>4 DEF RecvAck, GotFrame, ClearFlags, Sleep
<1>5. CASE RecvNoAck
  BY <1>5 DEF RecvNoAck, GotFrame, ClearFlags, Sleep
<1>6. CASE AckFailed
  BY <1>6 DEF AckFailed, ClearFlags, Sleep
<1> QED BY <1>3, <1>4, <1>5, <1>6 DEF Sender

(* Every action of the receiver keeps the types.                           *)
LEMMA TypeReceiver == Works /\ Receiver => TypeOK'
<1> SUFFICES ASSUME Works, Receiver PROVE TypeOK'
  OBVIOUS
<1>0. TypeOK /\ ReceiverPhase /\ Channel
  BY DEF Works
<1>1. 0 \in Nat /\ 0 \in 0 .. MaxLag
  BY LinkAssumption
<1>2. ReadFrame("R") = rxBuf["R"]
  BY <1>0 DEF ReadFrame, ReceiverPhase
<1> USE <1>0, <1>1, <1>2, AckAssumption
    DEF TypeOK, HostTypeOK, Points, TxPoints, DataPoints, RespPoints, LinkTypeOK, Node,
        Flags, RxMask, Modes, ackVars
<1>3. CASE Listen
  BY <1>3, FrameTypes DEF Listen, EnableRx, Goto
<1>4. CASE RecvData
  <2>1. got' \in Nat
    BY <1>4 DEF RecvData, ReadData, Channel, HasData
  <2> QED BY <1>4, <2>1 DEF RecvData, ReadData, ClearFlags, Goto
<1>5. CASE RecvUnacked
  BY <1>5 DEF RecvUnacked, ReadData, ClearFlags, Sleep
<1>6. CASE AckSent
  BY <1>6 DEF AckSent, ClearFlags, Sleep
<1>7. CASE DataFailed
  BY <1>7 DEF DataFailed, ClearFlags, Sleep
<1> QED BY <1>3, <1>4, <1>5, <1>6, <1>7 DEF Receiver

(* The automatic acknowledgment keeps the types.                           *)
LEMMA TypeAutoAck ==
  ASSUME Works, NEW m \in air, AutoAck(m)
  PROVE  TypeOK'
<1>0. TypeOK /\ Channel
  BY DEF Works
<1>1. m \in ToR /\ m \in [to : Node, left : Nat, frame : Frames]
  BY <1>0 DEF AutoAck, ToR, TypeOK, LinkTypeOK
<1>2. m.frame.data[1] \in Nat /\ m.frame.data[2] \in Nat
  BY <1>0, <1>1, AckAssumption DEF Channel, TypeOK
<1>3. Frame("ack", <<m.frame.data[1]>>) \in Frames
  BY <1>2, FrameTypes
<1>4. ACK_DLY \in Nat /\ m.frame.data[2] + 1 \in Nat
  BY <1>2, AckAssumption
<1> QED
  BY <1>0, <1>1, <1>3, <1>4
     DEF AutoAck, TypeOK, LinkTypeOK, HostTypeOK, Node, Flags, RxMask, Modes, ackVars,
         pollVars

(* Interference keeps the types.                                           *)
LEMMA TypeInterference == TypeOK /\ AckInterference => TypeOK'
<1> SUFFICES ASSUME TypeOK, AckInterference PROVE TypeOK'
  OBVIOUS
<1>1. HostTypeOK(Frames)' /\ UNCHANGED <<ackVars, arrived, got>>
  BY DEF TypeOK, HostTypeOK, AckInterference, hostVars, pollVars
<1>2. CASE Interference(Foreign)
  <2>1. LinkTypeOK(Frames)'
    BY <1>2, LinkTypesRadio, FrameTypes, LinkAssumption DEF TypeOK
  <2> QED BY <1>1, <2>1 DEF TypeOK, ackVars
<1>3. CASE \E d \in ForeignAcks : ForeignAck(d)
  <2> PICK d \in ForeignAcks : ForeignAck(d)
    BY <1>3
  <2>1. (sn + d) % SNMOD \in Nat
    BY AckAssumption DEF TypeOK
  <2>2. Frame("ack", <<(sn + d) % SNMOD>>) \in Frames
    BY <2>1, FrameTypes
  <2>3. 0 \in Nat /\ faults' \in 0 .. MaxFaults
    BY LinkAssumption DEF ForeignAck, Fault, TypeOK, LinkTypeOK
  <2>4. LinkTypeOK(Frames)'
    BY <2>2, <2>3 DEF ForeignAck, EndRx, TypeOK, LinkTypeOK, Node, Flags, RxMask, Modes
  <2> QED BY <1>1, <2>4 DEF TypeOK, ackVars
<1> QED BY <1>2, <1>3 DEF AckInterference, Interference, Node

(* The passage of time keeps the types.                                    *)
LEMMA TypeTick == TypeOK /\ Tick => TypeOK'
<1> SUFFICES ASSUME TypeOK, Tick PROVE TypeOK'
  OBVIOUS
<1> DEFINE due == {n \in Node : HostDue(n)}
<1>1. LinkTypeOK(Frames)'
  BY LinkTypesTick DEF TypeOK, Tick, HostTick
<1>2. HostTypeOK(Frames)'
  <2>1. HostTick(due) /\ HostTypeOK(Frames)
    BY DEF TypeOK, Tick
  <2> HIDE DEF due
  <2> QED BY <2>1, HostTypesTick
<1> QED BY <1>1, <1>2 DEF TypeOK, Tick, HostTick, ackVars

(* Every step keeps the types.                                             *)
LEMMA TypeStep == Works /\ [Next]_vars => TypeOK'
<1> SUFFICES ASSUME Works, [Next]_vars PROVE TypeOK'
  OBVIOUS
<1>0. TypeOK
  BY DEF Works
<1>1. CASE Sender \/ Receiver
  BY <1>1, TypeSender, TypeReceiver
<1>2. CASE \E m \in air : AutoAck(m)
  BY <1>2, TypeAutoAck
<1>3. CASE Hardware /\ UNCHANGED hostVars
  <2>1. LinkTypeOK(Frames)'
    BY <1>0, <1>3, LinkTypesRadio, FrameTypes DEF TypeOK
  <2> QED BY <1>0, <1>3, <2>1 DEF TypeOK, HostTypeOK, hostVars, pollVars, ackVars
<1>4. CASE AckInterference \/ Tick
  BY <1>0, <1>4, TypeInterference, TypeTick
<1>5. CASE UNCHANGED vars
  BY <1>0, <1>5
     DEF TypeOK, HostTypeOK, LinkTypeOK, vars, linkVars, chipVars, hostVars, pollVars,
         ackVars
<1> QED
  BY <1>1, <1>2, <1>3, <1>4, <1>5 DEF Next, AckHardware, Hardware
-----------------------------------------------------------------------------
(* The sender and its chip.                                                *)
LEMMA SenderPhaseStep == Works /\ [Next]_vars => SenderPhase'
<1> SUFFICES ASSUME Works, [Next]_vars PROVE SenderPhase'
  OBVIOUS
<1>0. TypeOK /\ SenderPhase
  BY DEF Works
<1> USE <1>0 DEF TypeOK, LinkTypeOK, HostTypeOK, SenderPhase, Asleep, RxWait, NoRxFlag,
                 OneRxFlag, RxMask, Flags, Modes, Node, ackVars, Current
<1>1. CASE Send
  BY <1>1 DEF Send, Awake, Rested, StartTxNow, StartTx, Goto
<1>2. CASE RecvAck \/ RecvNoAck
  BY <1>2 DEF RecvAck, RecvNoAck, GotFrame, ClearFlags, Sleep
<1>3. CASE AckFailed
  BY <1>3
     DEF AckFailed, Noticed, Awaited, TxPoints, DataPoints, RespPoints, ClearFlags, Sleep
<1>4. CASE Receiver
  BY <1>4 DEF Receiver, Listen, RecvData, RecvUnacked, AckSent, DataFailed, ReadData,
              EnableRx, ClearFlags, Goto, Sleep
<1>5. CASE \E m \in air : AutoAck(m)
  BY <1>5 DEF AutoAck, pollVars
<1>6. ASSUME NEW n \in Node, Transmit(n) \/ OpenRx(n) \/ RxTimeout(n), UNCHANGED hostVars
      PROVE  SenderPhase'
  BY <1>6 DEF Transmit, OpenRx, RxTimeout, EndRx, hostVars, pollVars
<1>7. ASSUME NEW m \in air, (m.to = "I" /\ Receive(m)) \/ Miss(m) \/ Corrupt(m),
             UNCHANGED hostVars
      PROVE  SenderPhase'
  BY <1>7 DEF Receive, Miss, Corrupt, EndRx, chipVars, hostVars, pollVars
<1>8. CASE AckInterference
  <2>1. UNCHANGED <<pc, tx_frame_nb, sn, tx_frame_ack_nb>>
    BY <1>8 DEF AckInterference, hostVars, pollVars
  <2>2. ASSUME NEW n \in Node, NEW k, Interfere(n, k) PROVE SenderPhase'
    BY <2>1, <2>2 DEF Interfere, EndRx
  <2>3. ASSUME NEW d, ForeignAck(d) PROVE SenderPhase'
    BY <2>1, <2>3 DEF ForeignAck, EndRx
  <2> QED BY <1>8, <2>2, <2>3 DEF AckInterference
<1>9. CASE Tick
  BY <1>9 DEF Tick, HostTick, LinkTick
<1>10. CASE UNCHANGED vars
  BY <1>10 DEF vars, linkVars, chipVars, hostVars, pollVars
<1> QED
  BY <1>1, <1>2, <1>3, <1>4, <1>5, <1>6, <1>7, <1>8, <1>9, <1>10
     DEF Next, Sender, AckHardware

(* The receiver and its chip.                                              *)
LEMMA ReceiverPhaseStep == Works /\ [Next]_vars => ReceiverPhase'
<1> SUFFICES ASSUME Works, [Next]_vars PROVE ReceiverPhase'
  OBVIOUS
<1>0. TypeOK /\ ReceiverPhase
  BY DEF Works
<1> USE <1>0 DEF TypeOK, LinkTypeOK, HostTypeOK, ReceiverPhase, HasData, Asleep, TxWait,
                 NoRxFlag, OneRxFlag, RxMask, Flags, Modes, Node, ackVars
<1>1. CASE Sender
  BY <1>1 DEF Sender, Send, RecvAck, RecvNoAck, AckFailed, GotFrame, StartTxNow, StartTx,
              ClearFlags, Goto, Sleep
<1>2. CASE Listen
  BY <1>2 DEF Listen, Awake, Rested, EnableRx, Goto, NoFrame, Frame
<1>3. CASE RecvData \/ RecvUnacked
  BY <1>3 DEF RecvData, RecvUnacked, ReadData, ReadFrame, ClearFlags, Goto, Sleep
<1>4. CASE AckSent
  BY <1>4 DEF AckSent, Noticed, Awaited, TxPoints, ClearFlags, Sleep
<1>5. CASE DataFailed
  BY <1>5 DEF DataFailed, Noticed, Awaited, TxPoints, DataPoints, ClearFlags, Sleep
<1>6. ASSUME NEW m \in air, AutoAck(m)
      PROVE  ReceiverPhase'
  <2>1. m.frame.kind = "data"
    BY <1>6 DEF Works, Channel, AutoAck, ToR
  <2> QED BY <1>6, <2>1 DEF AutoAck, pollVars
<1>7. ASSUME NEW n \in Node, Transmit(n) \/ OpenRx(n) \/ RxTimeout(n), UNCHANGED hostVars
      PROVE  ReceiverPhase'
  BY <1>7 DEF Transmit, OpenRx, RxTimeout, EndRx, hostVars, pollVars
<1>8. ASSUME NEW m \in air, (m.to = "I" /\ Receive(m)) \/ Miss(m) \/ Corrupt(m),
             UNCHANGED hostVars
      PROVE  ReceiverPhase'
  BY <1>8 DEF Receive, Miss, Corrupt, EndRx, chipVars, hostVars, pollVars
<1>9. CASE AckInterference
  <2>1. UNCHANGED <<pc, arrived, got>>
    BY <1>9 DEF AckInterference, hostVars, pollVars
  <2>2. ASSUME NEW k, Interfere("I", k) PROVE ReceiverPhase'
    BY <2>1, <2>2 DEF Interfere, EndRx
  <2>3. ASSUME NEW k \in Foreign \ {"long"}, Interfere("R", k) PROVE ReceiverPhase'
    <3>1. k \in {"short", "bad"}
      BY LinkAssumption DEF ForeignKinds
    <3>2. mode["R"] = "rx" /\ pc["R"] = "waitData" /\ status["R"] \cap RxMask = {}
      BY <2>3 DEF Interfere
    <3>3. CASE k = "short"
      <4>1. rxBuf'["R"].kind = "short" /\ status'["R"] = status["R"] \cup {"RXFCG"}
        BY <2>3, <3>3 DEF Interfere, EndRx, Frame
      <4>2. mode'["R"] = "idle" /\ UNCHANGED <<w4r, rxTo>>
        BY <2>3, <3>2, <3>3 DEF Interfere, EndRx
      <4>3. NoRxFlag("R")' = FALSE /\ OneRxFlag("R")' /\ HasData' = FALSE
        BY <3>2, <4>1
      <4> QED BY <2>1, <3>2, <4>1, <4>2, <4>3
    <3>4. CASE k = "bad"
      BY <2>1, <2>3, <3>2, <3>4 DEF Interfere, EndRx
    <3> QED BY <3>1, <3>3, <3>4
  <2>4. ASSUME NEW d, ForeignAck(d) PROVE ReceiverPhase'
    BY <2>1, <2>4 DEF ForeignAck, EndRx
  <2> QED BY <1>9, <2>2, <2>3, <2>4 DEF AckInterference
<1>10. CASE Tick
  BY <1>10 DEF Tick, HostTick, LinkTick
<1>11. CASE UNCHANGED vars
  BY <1>11 DEF vars, linkVars, chipVars, hostVars, pollVars
<1> QED
  BY <1>1, <1>2, <1>3, <1>4, <1>5, <1>6, <1>7, <1>8, <1>9, <1>10, <1>11
     DEF Next, Receiver, AckHardware
(* The receiver is sent data only, and what it holds came from there.      *)
LEMMA ChannelStep == Works /\ [Next]_vars => Channel'
<1> SUFFICES ASSUME Works, [Next]_vars PROVE Channel'
  OBVIOUS
<1>0. TypeOK /\ Channel
  BY DEF Works
<1> USE <1>0 DEF Channel, ToR, HasData, TypeOK, LinkTypeOK, Node
<1>1. CASE Sender \/ Receiver
  <2>1. /\ air' = air /\ rxBuf'["R"] \in {rxBuf["R"], NoFrame}
        /\ "RXFCG" \in status'["R"] => "RXFCG" \in status["R"]
    BY <1>1
       DEF Sender, Send, RecvAck, RecvNoAck, AckFailed, GotFrame, StartTxNow, StartTx,
           Receiver, Listen, RecvData, RecvUnacked, AckSent, DataFailed, ReadData, EnableRx,
           ClearFlags, Goto, Sleep
  <2> QED BY <2>1 DEF NoFrame, Frame
<1>2. ASSUME NEW m \in air, AutoAck(m)
      PROVE  Channel'
  <2>1. m \in ToR /\ air' = air \ {m} /\ rxBuf'["R"] = m.frame
    BY <1>2 DEF AutoAck
  <2> QED BY <2>1
<1>3. ASSUME NEW n \in Node, Transmit(n)
      PROVE  Channel'
  <2> DEFINE new == [to |-> Peer(n), left |-> FLIGHT, frame |-> txBuf[n]]
  <2>1. /\ air' = air \cup {new} /\ rxBuf' = rxBuf
        /\ "RXFCG" \in status'["R"] => "RXFCG" \in status["R"]
    BY <1>3 DEF Transmit
  <2>2. new.to = "R" => new.frame = Frame("data", <<sn, Current>>)
    BY <1>3 DEF Transmit, Peer, Works, SenderPhase
  <2>3. sn \in Nat /\ Current \in Nat
    BY AckAssumption DEF Current
  <2>4. new.to = "R" => /\ new.frame.kind = "data"
                        /\ new.frame.data[1] \in Nat /\ new.frame.data[2] \in Nat
    BY <2>2, <2>3 DEF Frame
  <2> HIDE DEF new
  <2> QED BY <2>1, <2>4
<1>4. ASSUME NEW n \in Node, OpenRx(n) \/ RxTimeout(n)
      PROVE  Channel'
  <2>1. /\ air' = air /\ rxBuf'["R"] \in {rxBuf["R"], NoFrame}
        /\ "RXFCG" \in status'["R"] => "RXFCG" \in status["R"]
    BY <1>4 DEF OpenRx, RxTimeout, EndRx
  <2> QED BY <2>1 DEF NoFrame, Frame
<1>5. ASSUME NEW m \in air, (m.to = "I" /\ Receive(m)) \/ Miss(m) \/ Corrupt(m)
      PROVE  Channel'
  BY <1>5 DEF Receive, Miss, Corrupt, EndRx, chipVars
<1>6. CASE AckInterference
  <2>1. /\ air' = air
        /\ rxBuf'["R"] = rxBuf["R"] \/ rxBuf'["R"].kind # "data"
        /\ "RXFCG" \in status'["R"] => "RXFCG" \in status["R"] \/ rxBuf'["R"].kind # "data"
    BY <1>6, LinkAssumption
       DEF AckInterference, Interfere, ForeignAck, EndRx, Frame, ForeignKinds
  <2> QED BY <2>1
<1>7. CASE Tick
  <2>1. \A m \in air' : \E l \in air : m.to = l.to /\ m.frame = l.frame
    BY <1>7 DEF Tick, HostTick, LinkTick, Nearer
  <2> QED BY <1>7, <2>1 DEF Tick, HostTick, LinkTick
<1>8. CASE UNCHANGED vars
  BY <1>8 DEF vars, linkVars, chipVars
<1> QED
  BY <1>1, <1>2, <1>3, <1>4, <1>5, <1>6, <1>7, <1>8 DEF Next, AckHardware
-----------------------------------------------------------------------------
(* Two messages in a row bear different numbers.                           *)
LEMMA NumbersDiffer ==
  ASSUME TypeOK
  PROVE  /\ sn \in Nat /\ (sn + 1) % SNMOD # sn /\ (sn + 1) % SNMOD \in 0 .. SNMOD - 1
         /\ \A x : Before(x) => x # sn
<1>1. sn \in 0 .. SNMOD - 1 /\ SNMOD \in Nat /\ SNMOD > 1
  BY AckAssumption DEF TypeOK
<1>2. CASE sn < SNMOD - 1
  <2>1. (sn + 1) % SNMOD = sn + 1
    BY <1>1, <1>2
  <2> QED BY <1>1, <1>2, <2>1 DEF Before
<1>3. CASE sn = SNMOD - 1
  <2>1. (sn + 1) % SNMOD = 0
    BY <1>1, <1>3
  <2> QED BY <1>1, <1>3, <2>1 DEF Before
<1> QED BY <1>1, <1>2, <1>3

(* The types of what the argument is about.                                *)
LEMMA OrderTypes ==
  ASSUME IInv
  PROVE  /\ Current \in Nat /\ arrived \in Nat /\ got \in Nat
         /\ left["R"] \in Nat /\ nap["I"] \in Nat
         /\ \A m \in air : m.left \in Nat /\ m.to \in Node
         /\ \A m \in ToR : m.frame.data[2] \in Nat
         /\ FLIGHT \in Nat /\ FLIGHT > 0 /\ ACK_DLY > 0 /\ TX_DELAY > 0
<1>1. TypeOK /\ OnAir
  BY DEF IInv, Works, Order
<1>2. \A m \in air : m \in [to : Node, left : Nat, frame : Frames]
  BY <1>1 DEF TypeOK, LinkTypeOK
<1>3. \A m \in air : m.left \in Nat /\ m.to \in Node
  BY <1>2
<1>4. \A m \in ToR : m.frame.data[2] \in Nat
  BY <1>1 DEF OnAir, Names
<1> QED BY <1>1, <1>3, <1>4, AckAssumption, LinkAssumption
        DEF TypeOK, LinkTypeOK, HostTypeOK, Node, Current

(* The actions of the sender. On the expected acknowledgment the current   *)
(* message becomes the one before: of that nothing is left on the air.     *)
LEMMA SendOrder == IInv /\ Send => Order'
<1> SUFFICES ASSUME IInv, Send PROVE Order'
  OBVIOUS
<1>1. /\ UNCHANGED <<air, sn, tx_frame_ack_nb, arrived, got, nap>>
      /\ pc["I"] = "sleep" /\ nap["I"] = 0 /\ "RXFCG" \notin status'["I"]
      /\ pc'["I"] = "waitAck" /\ pc'["R"] = pc["R"] /\ mode'["R"] = mode["R"]
      /\ left'["R"] = left["R"] /\ txBuf'["R"] = txBuf["R"] /\ rxBuf'["R"] = rxBuf["R"]
      /\ status'["R"] = status["R"]
  BY DEF IInv, Works, TypeOK, LinkTypeOK, HostTypeOK, SenderPhase, Asleep, NoRxFlag, RxMask,
         Node, Send, Awake, Rested, StartTxNow, StartTx, Goto, ackVars
<1> QED
  BY <1>1
     DEF IInv, Order, OnAir, DataInOrder, AcksInOrder, Armed, Accepted, Reading, Unread,
         HasData, Names, Before, OldData, OldAck, ToR, ToI, Current

LEMMA RetryOrder == IInv /\ (RecvNoAck \/ AckFailed) => Order'
<1> SUFFICES ASSUME IInv, RecvNoAck \/ AckFailed PROVE Order'
  OBVIOUS
<1>1. /\ UNCHANGED <<air, sn, tx_frame_ack_nb, arrived, got>>
      /\ pc["I"] = "waitAck" /\ pc'["I"] = "sleep" /\ pc'["R"] = pc["R"]
      /\ mode'["R"] = mode["R"] /\ left'["R"] = left["R"] /\ txBuf'["R"] = txBuf["R"]
      /\ rxBuf'["R"] = rxBuf["R"] /\ status'["R"] = status["R"]
  BY DEF IInv, Works, TypeOK, LinkTypeOK, HostTypeOK, Node, RecvNoAck, AckFailed, GotFrame,
         ClearFlags, Sleep
<1> QED
  BY <1>1
     DEF IInv, Order, OnAir, DataInOrder, AcksInOrder, Armed, Accepted, Reading, Unread,
         HasData, Names, Before, OldData, OldAck, ToR, ToI, Current

LEMMA ConfirmOrder == IInv /\ RecvAck => Order'
<1> SUFFICES ASSUME IInv, RecvAck PROVE Order'
  OBVIOUS
<1>1. /\ UNCHANGED <<air, arrived, got>>
      /\ tx_frame_ack_nb' = tx_frame_ack_nb + 1 /\ sn' = (sn + 1) % SNMOD
      /\ pc["I"] = "waitAck" /\ "RXFCG" \in status["I"] /\ AckMatches(rxBuf["I"])
      /\ pc'["I"] = "sleep" /\ nap'["I"] > 0 /\ pc'["R"] = pc["R"]
      /\ mode'["R"] = mode["R"] /\ left'["R"] = left["R"] /\ txBuf'["R"] = txBuf["R"]
      /\ rxBuf'["R"] = rxBuf["R"] /\ status'["R"] = status["R"]
  BY OrderTypes
     DEF IInv, Works, TypeOK, LinkTypeOK, HostTypeOK, Node, RecvAck, GotFrame, ClearFlags,
         Sleep
<1>2. arrived = Current + 1 /\ \A m \in ToI : m.frame.data[1] = sn
  BY <1>1 DEF IInv, Order, Accepted, OldAck
<1>3. \A m \in ToR : m.frame.data[2] = Current /\ m.frame.data[1] = sn
  BY <1>2 DEF IInv, Order, OnAir, DataInOrder, OldData, Names
<1>4. mode["R"] = "tx" => txBuf["R"].kind = "ack" /\ txBuf["R"].data[1] = sn
  BY <1>2 DEF IInv, Order, Armed
<1>5. /\ TypeOK /\ sn # sn' /\ sn \in 0 .. SNMOD - 1 /\ (sn + 1) % SNMOD = sn'
      /\ Current \in Nat /\ Current' = Current + 1 /\ Current + 1 \in Nat
      /\ Current + 1 # Current /\ Current + 1 # Current + 2
  BY <1>1, NumbersDiffer, OrderTypes DEF IInv, Works, TypeOK, Current
<1>6. OnAir' /\ DataInOrder'
  BY <1>1, <1>2, <1>3, <1>5
     DEF IInv, Order, OnAir, DataInOrder, Names, Before, OldData, OldAck, ToR, ToI
<1>7. AcksInOrder' /\ Armed' /\ Accepted' /\ Reading'
  BY <1>1, <1>2, <1>4, <1>5
     DEF IInv, Order, AcksInOrder, Armed, Accepted, Reading, Unread, HasData, Before,
         OldAck, ToI
<1> QED BY <1>6, <1>7 DEF Order

(* The actions of the receiver. What it reads is what arrived last.        *)
LEMMA ReceiverOrder == IInv /\ Receiver => Order'
<1> SUFFICES ASSUME IInv, Receiver PROVE Order'
  OBVIOUS
<1>1. /\ UNCHANGED <<air, sn, tx_frame_ack_nb, arrived>>
      /\ pc'["I"] = pc["I"] /\ nap'["I"] = nap["I"] /\ status'["I"] = status["I"]
      /\ rxBuf'["I"] = rxBuf["I"] /\ txBuf' = txBuf
      /\ mode'["R"] = "tx" => mode["R"] = "tx" /\ left'["R"] = left["R"]
  BY DEF IInv, Works, TypeOK, LinkTypeOK, HostTypeOK, Node, Receiver, Listen, RecvData,
         RecvUnacked, AckSent, DataFailed, ReadData, EnableRx, ClearFlags, Goto, Sleep,
         ackVars
<1>2. OnAir' /\ DataInOrder' /\ AcksInOrder' /\ Armed' /\ Accepted'
  BY <1>1 DEF IInv, Order, OnAir, DataInOrder, AcksInOrder, Armed, Accepted, AckMatches,
              Names, Before, OldData, OldAck, ToR, ToI, Current
<1>3. Reading'
  <2>1. CASE Listen
    <3>1. ~Unread /\ ~Unread' /\ got' = got
      BY <2>1
         DEF IInv, Works, TypeOK, LinkTypeOK, HostTypeOK, Node, Listen, Awake, Rested,
             EnableRx, Goto, NoFrame, Frame, Unread, HasData
    <3> QED BY <1>1, <3>1 DEF IInv, Order, Reading, Current
  <2>2. CASE RecvData
    <3>1. ReadFrame("R") = rxBuf["R"]
      BY DEF ReadFrame, IInv, Works, ReceiverPhase
    <3>2. Unread /\ ~Unread' /\ got' = rxBuf["R"].data[2] + 1
      BY <2>2, <3>1
         DEF IInv, Works, TypeOK, LinkTypeOK, HostTypeOK, Node, RecvData, ReadData, Goto,
             Unread, HasData
    <3> QED BY <1>1, <3>2 DEF IInv, Order, Reading, Current
  <2>3. CASE RecvUnacked
    <3>1. ReadFrame("R") = rxBuf["R"]
      BY DEF ReadFrame, IInv, Works, ReceiverPhase
    <3>2. ~Unread /\ ~Unread' /\ got' = got
      BY <2>3, <3>1
         DEF IInv, Works, TypeOK, LinkTypeOK, HostTypeOK, Node, RecvUnacked, ReadData,
             Sleep, Unread, HasData
    <3> QED BY <1>1, <3>2 DEF IInv, Order, Reading, Current
  <2>4. CASE AckSent \/ DataFailed
    <3>1. ~Unread /\ ~Unread' /\ got' = got
      BY <2>4
         DEF IInv, Works, TypeOK, LinkTypeOK, HostTypeOK, Node, AckSent, DataFailed, Sleep,
             Unread, HasData
    <3> QED BY <1>1, <3>1 DEF IInv, Order, Reading, Current
  <2> QED BY <2>1, <2>2, <2>3, <2>4 DEF Receiver
<1> QED BY <1>2, <1>3 DEF Order

(* The chips. An automatic acknowledgment answers what the receiver has    *)
(* just got; if that is the current message, nothing of the one before is  *)
(* left, as it was ahead.                                                  *)
LEMMA AutoAckOrder ==
  ASSUME IInv, NEW m \in air, AutoAck(m)
  PROVE  Order'
<1>1. /\ UNCHANGED <<sn, tx_frame_ack_nb, got, pc, nap>>
      /\ air' = air \ {m} /\ m \in ToR /\ m.left = 0 /\ mode["R"] = "rx"
      /\ arrived' = m.frame.data[2] + 1 /\ rxBuf'["R"] = m.frame /\ status'["I"] = status["I"]
      /\ status'["R"] = status["R"] \cup {"RXFCG"} /\ left'["R"] = ACK_DLY
      /\ rxBuf'["I"] = rxBuf["I"] /\ mode'["R"] = "tx"
      /\ txBuf'["R"] = Frame("ack", <<m.frame.data[1]>>)
  BY DEF IInv, Works, TypeOK, LinkTypeOK, HostTypeOK, Node, AutoAck, ToR, pollVars, ackVars
<1>2. m.frame.kind = "data" /\ Names(m.frame.data[1], m.frame.data[2])
  BY <1>1 DEF IInv, Works, Channel, Order, OnAir
<1>3. pc["R"] = "waitData" /\ ~Unread /\ got = arrived
  BY <1>1
     DEF IInv, Works, ReceiverPhase, TxWait, Asleep, NoRxFlag, RxMask, Unread, HasData,
         Order, Reading
<1>4. OldData(m) => arrived = Current
  BY <1>1 DEF IInv, Order, DataInOrder, Reading
<1>5. ~OldData(m) => \A l \in ToR : ~OldData(l)
  BY <1>1, OrderTypes DEF IInv, Order, DataInOrder, ToR
<1>6. /\ OldData(m) => arrived' = arrived /\ Before(m.frame.data[1])
      /\ ~OldData(m) => arrived' = Current + 1 /\ m.frame.data[1] = sn
  BY <1>1, <1>2, <1>4, OrderTypes DEF Names, OldData
<1>7. OnAir' /\ DataInOrder'
  BY <1>1, <1>4, <1>5, <1>6
     DEF IInv, Order, OnAir, DataInOrder, Names, Before, OldData, OldAck, ToR, ToI, Current
<1>8. AcksInOrder' /\ Armed' /\ Accepted'
  <2>1. Armed'
    BY <1>1, <1>4, <1>6, OrderTypes DEF Armed, Frame, Before, Current
  <2>2. AcksInOrder'
    BY <1>1, OrderTypes DEF IInv, Order, AcksInOrder, OldAck, ToI, Current
  <2>3. Accepted'
    BY <1>1, <1>4, <1>6, OrderTypes
       DEF IInv, Order, Accepted, AckMatches, OldAck, ToI, Current
  <2> QED BY <2>1, <2>2, <2>3
<1>9. Reading'
  BY <1>1, <1>2, <1>3, <1>4, <1>6, OrderTypes
     DEF IInv, Order, Reading, Unread, HasData, Current
<1> QED BY <1>7, <1>8, <1>9 DEF Order

(* A data frame leaves: it is behind all that is left of the one before.   *)
LEMMA SenderTransmitOrder == IInv /\ Transmit("I") /\ UNCHANGED hostVars => Order'
<1> SUFFICES ASSUME IInv, Transmit("I"), UNCHANGED hostVars PROVE Order'
  OBVIOUS
<1> DEFINE new == [to |-> "R", left |-> FLIGHT, frame |-> txBuf["I"]]
<1>1. /\ UNCHANGED <<sn, tx_frame_ack_nb, arrived, got, pc, nap>>
      /\ mode["I"] = "tx" /\ air' = air \cup {new} /\ rxBuf' = rxBuf
      /\ status'["R"] = status["R"] /\ left'["R"] = left["R"] /\ mode'["R"] = mode["R"]
      /\ txBuf'["R"] = txBuf["R"] /\ status'["I"] = status["I"] \cup {"TXFRS"}
  BY DEF IInv, Works, TypeOK, LinkTypeOK, HostTypeOK, Node, Transmit, Peer, hostVars,
         pollVars, ackVars
<1>2. /\ new.to = "R" /\ new.left = FLIGHT /\ new.frame.kind = "data"
      /\ new.frame.data[1] = sn /\ new.frame.data[2] = Current
  BY <1>1 DEF IInv, Works, SenderPhase, Frame
<1>3. Current \in Nat /\ Current + 1 # Current /\ FLIGHT \in Nat
  BY OrderTypes
<1>4. \A m \in ToR : OldData(m) => m.left < FLIGHT
  BY <1>1 DEF IInv, Works, SenderPhase, Asleep, Order, DataInOrder
<1> HIDE DEF new
<1>5. OnAir'
  <2>1. ToR' = ToR \cup {new} /\ ToI' = ToI
    BY <1>1, <1>2 DEF ToR, ToI
  <2>2. \A m \in air' : m.left <= FLIGHT
    BY <1>1, <1>2, <1>3 DEF IInv, Order, OnAir
  <2>3. \A m \in ToR' : Names(m.frame.data[1], m.frame.data[2])
    <3>1. Names(new.frame.data[1], new.frame.data[2])
      BY <1>2, <1>3 DEF Names
    <3>2. \A m \in ToR : Names(m.frame.data[1], m.frame.data[2])
      BY DEF IInv, Order, OnAir
    <3> QED BY <1>2, <2>1, <3>1, <3>2
  <2>4. \A x, k : Names(x, k) => Names(x, k)'
    BY <1>1 DEF Names, Before, Current
  <2> QED
    BY <1>1, <2>1, <2>2, <2>3, <2>4 DEF IInv, Order, OnAir, Before, OldAck, Current
<1>6. DataInOrder'
  <2>1. ToR' = ToR \cup {new} /\ ~OldData(new)
    BY <1>1, <1>2, <1>3 DEF ToR, OldData
  <2>2. \A m : OldData(m)' <=> OldData(m)
    BY <1>1 DEF OldData, Current
  <2> QED BY <1>1, <1>2, <1>4, <2>1, <2>2 DEF IInv, Order, DataInOrder, Current
<1>7. AcksInOrder' /\ Armed' /\ Accepted' /\ Reading'
  BY <1>1, <1>2 DEF IInv, Order, AcksInOrder, Armed, Accepted, AckMatches, Reading, Unread,
                    HasData, Before, OldAck, ToI, Current
<1> QED BY <1>5, <1>6, <1>7 DEF Order

(* An acknowledgment leaves: likewise.                                     *)
LEMMA ReceiverTransmitOrder == IInv /\ Transmit("R") /\ UNCHANGED hostVars => Order'
<1> SUFFICES ASSUME IInv, Transmit("R"), UNCHANGED hostVars PROVE Order'
  OBVIOUS
<1> DEFINE new == [to |-> "I", left |-> FLIGHT, frame |-> txBuf["R"]]
<1>1. /\ UNCHANGED <<sn, tx_frame_ack_nb, arrived, got, pc, nap>>
      /\ mode["R"] = "tx" /\ left["R"] = 0 /\ air' = air \cup {new} /\ rxBuf' = rxBuf
      /\ status'["I"] = status["I"] /\ mode'["R"] = "idle"
      /\ status'["R"] = status["R"] \cup {"TXFRS"}
  BY DEF IInv, Works, TypeOK, LinkTypeOK, HostTypeOK, Node, ReceiverPhase, Transmit, Peer,
         hostVars, pollVars, ackVars
<1>2. new.to = "I" /\ new.left = FLIGHT /\ new.frame = txBuf["R"]
  OBVIOUS
<1>3. /\ txBuf["R"].kind = "ack"
      /\ arrived = Current + 1 => txBuf["R"].data[1] = sn
      /\ arrived = Current => Before(txBuf["R"].data[1])
      /\ arrived \in {Current, Current + 1}
  BY <1>1 DEF IInv, Order, Armed, Reading
<1>4. arrived = Current + 1 => \A m \in ToI : OldAck(m) => m.left < FLIGHT
  BY <1>1 DEF IInv, Order, AcksInOrder
<1>5. /\ Current \in Nat /\ Current + 1 # Current /\ FLIGHT \in Nat
      /\ \A x : Before(x) => x # sn
  BY OrderTypes, NumbersDiffer DEF IInv, Works
<1>6. \A m \in ToI : ~OldAck(m) => arrived = Current + 1
  BY DEF IInv, Order, OnAir
<1> HIDE DEF new
<1>7. OnAir'
  BY <1>1, <1>2, <1>3, <1>5
     DEF IInv, Order, OnAir, Names, Before, OldAck, ToR, ToI, Current
<1>8. DataInOrder' /\ Armed' /\ Reading'
  BY <1>1, <1>2
     DEF IInv, Order, DataInOrder, Armed, Reading, Unread, HasData, OldData, ToR, Current
<1>9. AcksInOrder'
  BY <1>1, <1>2, <1>3, <1>4, <1>5, <1>6
     DEF IInv, Order, AcksInOrder, OldAck, ToI, Current
<1>10. Accepted'
  BY <1>1, <1>2, <1>3 DEF IInv, Order, Accepted, AckMatches, OldAck, ToI, Current
<1> QED BY <1>7, <1>8, <1>9, <1>10 DEF Order

(* The sender's receiver goes on, or off after the timeout.                *)
LEMMA WindowOrder ==
  ASSUME IInv, NEW n \in Node, OpenRx(n) \/ RxTimeout(n), UNCHANGED hostVars
  PROVE  Order'
<1>1. /\ UNCHANGED <<air, sn, tx_frame_ack_nb, arrived, got, pc, nap, txBuf>>
      /\ n = "I" /\ mode'["R"] = mode["R"] /\ left'["R"] = left["R"]
      /\ rxBuf'["R"] = rxBuf["R"] /\ status'["R"] = status["R"]
      /\ "RXFCG" \in status'["I"] => "RXFCG" \in status["I"] /\ rxBuf'["I"] = rxBuf["I"]
  BY DEF IInv, Works, TypeOK, LinkTypeOK, HostTypeOK, Node, ReceiverPhase, SenderPhase,
         RxWait, Asleep, NoRxFlag, RxMask, OpenRx, RxTimeout, EndRx, hostVars, pollVars,
         ackVars
<1> QED
  BY <1>1
     DEF IInv, Order, OnAir, DataInOrder, AcksInOrder, Armed, Accepted, AckMatches, Reading,
         Unread, HasData, Names, Before, OldData, OldAck, ToR, ToI, Current

(* An acknowledgment arrives. If it bears the number of the current        *)
(* message, those of the one before were ahead of it.                      *)
LEMMA ReceiveOrder ==
  ASSUME IInv, NEW m \in air, m.to = "I", Receive(m), UNCHANGED hostVars
  PROVE  Order'
<1>1. /\ UNCHANGED <<sn, tx_frame_ack_nb, arrived, got, pc, nap, txBuf>>
      /\ air' = air \ {m} /\ m \in ToI /\ m.left = 0
      /\ mode'["R"] = mode["R"] /\ left'["R"] = left["R"]
      /\ rxBuf'["R"] = rxBuf["R"] /\ status'["R"] = status["R"] /\ rxBuf'["I"] = m.frame
  BY DEF IInv, Works, TypeOK, LinkTypeOK, HostTypeOK, Node, Receive, EndRx, ToI, hostVars,
         pollVars, ackVars
<1>2. OnAir' /\ DataInOrder' /\ AcksInOrder' /\ Armed' /\ Reading'
  BY <1>1 DEF IInv, Order, OnAir, DataInOrder, AcksInOrder, Armed, Reading, Unread, HasData,
              Names, Before, OldData, OldAck, ToR, ToI, Current
<1>3. ~OldAck(m) => arrived = Current + 1 /\ \A l \in ToI : ~OldAck(l)
  BY <1>1, OrderTypes DEF IInv, Order, OnAir, AcksInOrder, ToI
<1>4. Accepted'
  BY <1>1, <1>3 DEF Accepted, AckMatches, OldAck, ToI, Current
<1> QED BY <1>2, <1>4 DEF Order

(* A frame is missed or received with an error.                            *)
LEMMA LossOrder ==
  ASSUME IInv, NEW m \in air, Miss(m) \/ Corrupt(m), UNCHANGED hostVars
  PROVE  Order'
<1>1. /\ UNCHANGED <<sn, tx_frame_ack_nb, arrived, got, pc, nap, txBuf, rxBuf>>
      /\ air' = air \ {m}
      /\ mode'["R"] = "tx" => mode["R"] = "tx" /\ left'["R"] = left["R"]
      /\ HasData' <=> HasData
      /\ "RXFCG" \in status'["I"] <=> "RXFCG" \in status["I"]
  BY DEF IInv, Works, TypeOK, LinkTypeOK, HostTypeOK, Node, Miss, Corrupt, EndRx, HasData,
         chipVars, hostVars, pollVars, ackVars
<1> QED
  BY <1>1
     DEF IInv, Order, OnAir, DataInOrder, AcksInOrder, Armed, Accepted, AckMatches, Reading,
         Unread, Names, Before, OldData, OldAck, ToR, ToI, Current

(* Interference at the sender, at the receiver, and an acknowledgment of   *)
(* another network: the last is told from the receiver's by its number.    *)
LEMMA InterferenceOrder ==
  ASSUME IInv, NoneMistaken, AckInterference
  PROVE  Order'
<1>0. /\ UNCHANGED <<sn, tx_frame_ack_nb, arrived, got, pc, nap>>
      /\ TypeOK /\ Foreign \subseteq {"short", "long", "bad"}
  BY LinkAssumption DEF IInv, Works, AckInterference, hostVars, pollVars, ackVars, ForeignKinds
<1>1. ASSUME NEW k \in Foreign, Interfere("I", k)
      PROVE  Order'
  <2>1. /\ UNCHANGED <<air, txBuf>>
        /\ mode'["R"] = mode["R"] /\ left'["R"] = left["R"]
        /\ rxBuf'["R"] = rxBuf["R"] /\ status'["R"] = status["R"]
        /\ "RXFCG" \in status'["I"] =>
             \/ rxBuf'["I"].kind # "ack"
             \/ "RXFCG" \in status["I"] /\ rxBuf'["I"] = rxBuf["I"]
    BY <1>0, <1>1 DEF TypeOK, LinkTypeOK, Node, Interfere, EndRx, Frame
  <2> QED
    BY <1>0, <2>1
       DEF IInv, Order, OnAir, DataInOrder, AcksInOrder, Armed, Accepted, AckMatches,
           Reading, Unread, HasData, Names, Before, OldData, OldAck, ToR, ToI, Current
<1>2. ASSUME NEW k \in Foreign \ {"long"}, Interfere("R", k)
      PROVE  Order'
  <2>1. mode["R"] = "rx" /\ ~Unread
    BY <1>2
       DEF Interfere, IInv, Works, ReceiverPhase, TxWait, Asleep, NoRxFlag, RxMask, Unread,
           HasData
  <2>2. /\ UNCHANGED <<air, txBuf>>
        /\ mode'["R"] = "idle" /\ rxBuf'["I"] = rxBuf["I"] /\ status'["I"] = status["I"]
        /\ "RXFCG" \in status'["R"] => "RXFCG" \in status["R"] \/ rxBuf'["R"].kind # "data"
        /\ rxBuf'["R"].kind # "data" \/ rxBuf'["R"] = rxBuf["R"]
    BY <1>0, <1>2 DEF TypeOK, LinkTypeOK, Node, Interfere, EndRx, Frame
  <2>3. ~Unread'
    BY <1>0, <2>1, <2>2 DEF Unread, HasData
  <2> QED
    BY <1>0, <2>1, <2>2, <2>3
       DEF IInv, Order, OnAir, DataInOrder, AcksInOrder, Armed, Accepted, AckMatches,
           Reading, Names, Before, OldData, OldAck, ToR, ToI, Current
<1>3. ASSUME NEW d \in ForeignAcks, ForeignAck(d)
      PROVE  Order'
  <2>1. (sn + d) % SNMOD # sn
    <3>1. /\ d \in 1 .. SNMOD - 1 /\ SNMOD \in Nat /\ sn \in 0 .. SNMOD - 1
      BY <1>0, AckAssumption DEF NoneMistaken, TypeOK
    <3>2. CASE sn + d < SNMOD
      <4>1. (sn + d) % SNMOD = sn + d
        BY <3>1, <3>2
      <4> QED BY <3>1, <4>1
    <3>3. CASE sn + d >= SNMOD
      <4>1. (sn + d) % SNMOD = sn + d - SNMOD
        BY <3>1, <3>3
      <4> QED BY <3>1, <4>1
    <3> QED BY <3>1, <3>2, <3>3
  <2>2. /\ UNCHANGED <<air, txBuf>>
        /\ mode'["R"] = mode["R"] /\ left'["R"] = left["R"]
        /\ rxBuf'["R"] = rxBuf["R"] /\ status'["R"] = status["R"]
        /\ rxBuf'["I"].data[1] # sn
    BY <1>0, <1>3, <2>1 DEF TypeOK, LinkTypeOK, Node, ForeignAck, EndRx, Frame
  <2> QED
    BY <1>0, <2>2
       DEF IInv, Order, OnAir, DataInOrder, AcksInOrder, Armed, Accepted, AckMatches,
           Reading, Unread, HasData, Names, Before, OldData, OldAck, ToR, ToI, Current
<1> QED BY <1>1, <1>2, <1>3 DEF AckInterference

(* Time passes: everything on the air comes nearer by the same amount.     *)
LEMMA TickOrder == IInv /\ Tick => Order'
<1> SUFFICES ASSUME IInv, Tick PROVE Order'
  OBVIOUS
<1>1. /\ UNCHANGED <<sn, tx_frame_ack_nb, arrived, got, pc, mode, status, txBuf, rxBuf>>
      /\ air' = {Nearer(m) : m \in air} /\ \A m \in air : m.left > 0
      /\ mode["R"] = "tx" => left["R"] > 0
      /\ nap'["I"] = IF nap["I"] > 0 THEN nap["I"] - 1 ELSE 0
  BY DEF Tick, HostTick, LinkTick, CountsDown, Node, ackVars
<1>2. /\ \A m \in air : m.left \in Nat
      /\ FLIGHT \in Nat /\ nap["I"] \in Nat
  BY OrderTypes
<1>3. ASSUME NEW m \in air'
      PROVE  \E l \in air : m.to = l.to /\ m.left = l.left - 1 /\ m.frame = l.frame
  BY <1>1 DEF Nearer
<1>4. /\ \A m \in ToR' : \E l \in ToR : m.left = l.left - 1 /\ m.frame = l.frame
      /\ \A m \in ToI' : \E l \in ToI : m.left = l.left - 1 /\ m.frame = l.frame
  BY <1>3 DEF ToR, ToI
<1>5. \A m : (OldData(m)' <=> OldData(m)) /\ (OldAck(m)' <=> OldAck(m))
  BY <1>1 DEF OldData, OldAck, Current
<1>6. /\ \A m, l : m.frame = l.frame => (OldData(m) <=> OldData(l)) /\ (OldAck(m) <=> OldAck(l))
      /\ ToR \subseteq air /\ ToI \subseteq air
  BY DEF OldData, OldAck, ToR, ToI
<1>7. OnAir'
  BY <1>1, <1>2, <1>3, <1>4, <1>5, <1>6 DEF IInv, Order, OnAir, Names, Before, Current
<1>8. DataInOrder'
  <2>1. \A m \in ToR : m.left <= FLIGHT
    BY <1>6 DEF IInv, Order, OnAir
  <2>2. \A m \in ToR' : m.left < FLIGHT
    BY <1>2, <1>4, <1>6, <2>1
  <2>3. ASSUME NEW m \in ToR', NEW l \in ToR', OldData(m), ~OldData(l)
        PROVE  m.left < l.left
    <3>1. PICK p \in ToR : m.left = p.left - 1 /\ m.frame = p.frame
      BY <1>4
    <3>2. PICK q \in ToR : l.left = q.left - 1 /\ l.frame = q.frame
      BY <1>4
    <3>3. p.left < q.left
      BY <2>3, <1>6, <3>1, <3>2 DEF IInv, Order, DataInOrder
    <3> QED BY <1>2, <1>6, <3>1, <3>2, <3>3
  <2>4. arrived = Current + 1 => \A m \in ToR' : ~OldData(m)
    BY <1>4, <1>6 DEF IInv, Order, DataInOrder
  <2> QED BY <1>1, <1>5, <2>2, <2>3, <2>4 DEF DataInOrder, Current
<1>9. AcksInOrder'
  <2>1. \A m \in ToI : m.left <= FLIGHT
    BY <1>6 DEF IInv, Order, OnAir
  <2>2. \A m \in ToI' : m.left < FLIGHT
    BY <1>2, <1>4, <1>6, <2>1
  <2>3. ASSUME NEW m \in ToI', NEW l \in ToI', OldAck(m), ~OldAck(l)
        PROVE  m.left < l.left
    <3>1. PICK p \in ToI : m.left = p.left - 1 /\ m.frame = p.frame
      BY <1>4
    <3>2. PICK q \in ToI : l.left = q.left - 1 /\ l.frame = q.frame
      BY <1>4
    <3>3. p.left < q.left
      BY <2>3, <1>6, <3>1, <3>2 DEF IInv, Order, AcksInOrder
    <3> QED BY <1>2, <1>6, <3>1, <3>2, <3>3
  <2> QED BY <1>5, <2>2, <2>3 DEF AcksInOrder
<1>10. Armed' /\ Reading'
  BY <1>1 DEF IInv, Order, Armed, Reading, Unread, HasData, Before, Current
<1>11. Accepted'
  BY <1>1, <1>4, <1>5, <1>6 DEF IInv, Order, Accepted, AckMatches, Current
<1> QED BY <1>7, <1>8, <1>9, <1>10, <1>11 DEF Order

(* Every step keeps the order.                                             *)
LEMMA OrderStep == NoneMistaken /\ IInv /\ [Next]_vars => Order'
<1> SUFFICES ASSUME NoneMistaken, IInv, [Next]_vars PROVE Order'
  OBVIOUS
<1>1. CASE Sender \/ Receiver
  BY <1>1, SendOrder, RetryOrder, ConfirmOrder, ReceiverOrder DEF Sender
<1>2. CASE AckHardware
  <2>1. ASSUME NEW n \in Node, Transmit(n), UNCHANGED hostVars PROVE Order'
    BY <2>1, SenderTransmitOrder, ReceiverTransmitOrder DEF Node
  <2> QED BY <1>2, <2>1, AutoAckOrder, WindowOrder, ReceiveOrder, LossOrder DEF AckHardware
<1>3. CASE AckInterference
  BY <1>3, InterferenceOrder
<1>4. CASE Tick
  BY <1>4, TickOrder
<1>5. CASE UNCHANGED vars
  BY <1>5
     DEF vars, linkVars, chipVars, hostVars, pollVars, ackVars, IInv, Order, OnAir,
         DataInOrder, AcksInOrder, Armed, Accepted, AckMatches, Reading, Unread, HasData,
         Names, Before, OldData, OldAck, ToR, ToI, Current
<1> QED BY <1>1, <1>2, <1>3, <1>4, <1>5 DEF Next
-----------------------------------------------------------------------------
(* All that has been said holds from the start.                            *)
LEMMA InvInit == Init => IInv
<1> SUFFICES ASSUME Init PROVE IInv
  OBVIOUS
<1> USE AckAssumption, LinkAssumption, TimeAssumption
    DEF Init, LinkInit, HostInit, Node
<1>1. TypeOK
  <2>1. LinkTypeOK(Frames)
    <3>1. 0 \in Timestamps /\ 0 \in Nat /\ 0 \in 0 .. MaxFaults
      BY DEF Timestamps
    <3> QED BY <3>1, FrameTypes DEF LinkTypeOK, Modes
  <2>2. HostTypeOK(Frames)
    BY FrameTypes DEF HostTypeOK, Points
  <2> QED BY <2>1, <2>2 DEF TypeOK
<1>2. SenderPhase /\ ReceiverPhase
  BY DEF SenderPhase, ReceiverPhase, Asleep, NoRxFlag, RxMask, NoFrame, Frame
<1>3. Channel /\ Order
  BY DEF Channel, HasData, Order, OnAir, DataInOrder, AcksInOrder, Armed, Accepted, Reading,
         Unread, ToR, ToI, Current
<1> QED BY <1>1, <1>2, <1>3 DEF IInv, Works

(* The hosts and their chips work whatever is acknowledged by whom.        *)
LEMMA Working == Spec => []Works
<1>1. Works /\ [Next]_vars => Works'
  BY TypeStep, SenderPhaseStep, ReceiverPhaseStep, ChannelStep DEF Works
<1>2. Init => Works
  BY InvInit DEF IInv
<1> QED BY <1>1, <1>2, PTL DEF Spec

LEMMA Invariance == ASSUME NoneMistaken PROVE Spec => []IInv
<1>1. IInv /\ [Next]_vars => IInv'
  BY TypeStep, SenderPhaseStep, ReceiverPhaseStep, ChannelStep, OrderStep DEF IInv, Works
<1> QED BY InvInit, <1>1, PTL DEF Spec
-----------------------------------------------------------------------------
(* The variables keep their types (ack_data_tx.c, ack_data_rx.c).          *)
THEOREM TypeCorrect == Spec => []TypeOK
<1>1. Works => TypeOK
  BY DEF Works
<1> QED BY <1>1, Working, PTL

(* No wait of the two loops is for an event that never comes: the sender's *)
(* chip ends its reception window by itself, and the receiver waits for    *)
(* the end of an acknowledgment only when its chip sends one.              *)
THEOREM WaitsEnd == Spec => []WaitWillEnd
<1>1. Works => WaitWillEnd
  <2> SUFFICES ASSUME Works PROVE WaitWillEnd
    OBVIOUS
  <2>1. Waiting("I") => mode["I"] # "idle" \/ Noticed("I")
    BY DEF Works, SenderPhase, RxWait, OneRxFlag, NoRxFlag, RxMask, Waiting, Noticed,
           Awaited, TxPoints, DataPoints, RespPoints
  <2>2. Waiting("R") => mode["R"] # "idle" \/ Noticed("R")
    BY DEF Works, ReceiverPhase, TxWait, OneRxFlag, NoRxFlag, RxMask, Waiting, Noticed,
           Awaited, TxPoints, DataPoints, RespPoints
  <2> QED BY <2>1, <2>2 DEF WaitWillEnd, Node
<1> QED BY <1>1, Working, PTL

(* No flag that an earlier round left up ends a wait of this one: each     *)
(* path of the loops writes back what it was waiting for.                  *)
THEOREM FlagsAreFresh == Spec => []NoStaleFlag
<1>1. Works => NoStaleFlag
  BY DEF Works, SenderPhase, ReceiverPhase, RxWait, TxWait, NoRxFlag, OneRxFlag, RxMask,
         NoStaleFlag, Waiting, Noticed, Awaited, TxPoints, DataPoints, RespPoints
<1> QED BY <1>1, Working, PTL

(* A message reaches the receiver's chip only when the host has read all   *)
(* that came before, and the next one is taken up only when this one is    *)
(* there: every step of the transfer is a step of Delivery or none.        *)
LEMMA DeliveryStep == IInv /\ [Next]_vars => [D!Next]_<<tx_frame_ack_nb, arrived, got>>
<1> SUFFICES ASSUME IInv, [Next]_vars
             PROVE  [D!Next]_<<tx_frame_ack_nb, arrived, got>>
  OBVIOUS
<1>1. CASE RecvAck
  <2>1. arrived = tx_frame_ack_nb + 1
    BY <1>1 DEF RecvAck, GotFrame, IInv, Order, Accepted, Current
  <2> QED BY <1>1, <2>1 DEF RecvAck, GotFrame, D!Next, D!Confirm
<1>2. CASE RecvData
  <2>1. ReadFrame("R") = rxBuf["R"]
    BY DEF ReadFrame, IInv, Works, ReceiverPhase
  <2>2. got' = arrived /\ got \in Nat /\ arrived \in Nat /\ got <= arrived
    BY <1>2, <2>1
       DEF RecvData, ReadData, IInv, Works, TypeOK, Order, Reading, Unread, HasData
  <2>3. arrived <= got + 1 /\ UNCHANGED <<tx_frame_ack_nb, arrived>>
    BY <1>2, <2>1 DEF RecvData, ReadData, ackVars, IInv, Order, Reading, Unread, HasData
  <2> QED BY <2>2, <2>3 DEF D!Next, D!Take
<1>3. ASSUME NEW m \in air, AutoAck(m)
      PROVE  [D!Next]_<<tx_frame_ack_nb, arrived, got>>
  <2>1. m \in ToR /\ mode["R"] = "rx" /\ arrived' = m.frame.data[2] + 1
        /\ UNCHANGED <<tx_frame_ack_nb, got>>
    BY <1>3 DEF AutoAck, ToR, ackVars
  <2>2. got = arrived
    BY <2>1
       DEF IInv, Works, ReceiverPhase, TxWait, Asleep, NoRxFlag, RxMask, Order, Reading,
           Unread, HasData
  <2>3. Names(m.frame.data[1], m.frame.data[2]) /\ (OldData(m) => arrived = Current)
    BY <2>1 DEF IInv, Order, OnAir, DataInOrder, Reading
  <2>4. arrived' = arrived \/ (arrived = Current /\ arrived' = arrived + 1)
    BY <2>1, <2>3, OrderTypes DEF IInv, Order, Reading, Names, OldData
  <2> QED BY <2>1, <2>2, <2>4 DEF D!Next, D!Arrive, Current
<1>4. CASE UNCHANGED <<tx_frame_ack_nb, arrived, got>>
  BY <1>4
<1> QED
  BY <1>1, <1>2, <1>3, <1>4
     DEF Next, Sender, Send, RecvNoAck, AckFailed, GotFrame, Receiver, Listen, RecvUnacked,
         AckSent, DataFailed, ReadData, AckHardware, AckInterference, Tick, hostVars,
         ackVars, vars

(* The transfer implements Delivery.                                       *)
THEOREM Delivers == ASSUME NoneMistaken PROVE Spec => DeliversInOrder
<1>1. Init => D!Init
  BY DEF Init, D!Init
<1> QED BY <1>1, DeliveryStep, Invariance, PTL DEF Spec, DeliversInOrder, D!Spec
=============================================================================
