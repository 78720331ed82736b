------------------------------ MODULE AckData ------------------------------
(***************************************************************************)
(* Acknowledged transfer: ack_data_tx.c (node "I", the sender) and         *)
(* ack_data_rx.c (node "R", the receiver).                                 *)
(*                                                                         *)
(* The sender repeats a frame until it gets an acknowledgment with the     *)
(* frame's sequence number. The receiver's chip sends acknowledgments by   *)
(* itself; its host reads the frames one by one.                           *)
(*                                                                         *)
(* A data frame carries its sequence number and, as a history value, the   *)
(* number of the message it belongs to; an acknowledgment carries the      *)
(* sequence number only.                                                   *)
(***************************************************************************)
EXTENDS PolledHost, Sequences

CONSTANTS
  RX_AFTER_TX_DLY, \* I: receiver on this long after the frame
  RX_RESP_TO,      \* I: receiver off after this long
  ACK_DLY,         \* R: reception to automatic acknowledgment
  TX_DELAY,        \* I: pause after an acknowledged frame
  RETRY_DELAY,     \* I: pause before a retransmission (TX_DELAY_MS / 5)
  SNMOD,           \* range of the sequence number (2^8 in the code)
  ForeignAcks,     \* acknowledgments of other networks the sender may pick
                   \* up: by how much their number differs from its own
  MaxFrames,       \* bound: messages
  MaxSends         \* bound: transmissions

ASSUME AckAssumption ==
  /\ RX_AFTER_TX_DLY \in Nat /\ RX_RESP_TO \in Nat \ {0} /\ ACK_DLY \in Nat \ {0}
  /\ TX_DELAY \in Nat \ {0} /\ RETRY_DELAY \in Nat
  /\ SNMOD \in Nat /\ SNMOD > 1 /\ ForeignAcks \subseteq 0 .. SNMOD - 1
  /\ MaxFrames \in Nat /\ MaxSends \in Nat

VARIABLES
  sn,                 \* I: tx_msg[FRAME_SN_IDX]
  tx_frame_nb,        \* I: frames sent
  tx_frame_ack_nb,    \* I: frames acknowledged
  tx_frame_retry_nb,  \* I: frames to be sent again
  arrived,            \* history: messages the chip of R has had
  got                 \* history: messages the host of R has read

ackVars  == <<sn, tx_frame_nb, tx_frame_ack_nb, tx_frame_retry_nb>>
hostVars == <<pollVars, ackVars, arrived, got>>
vars     == <<linkVars, hostVars>>

(* A host at the top of its loop goes on; the bounds end the model.        *)
Awake(n)   == /\ Rested(n)
              /\ n = "I" => /\ tx_frame_ack_nb < MaxFrames
                            /\ tx_frame_nb < MaxSends
HostDue(n) == Noticed(n) \/ Awake(n)

Init ==
  /\ LinkInit({0})
  /\ rxDly = [n \in Node |-> IF n = "I" THEN RX_AFTER_TX_DLY ELSE 0]
  /\ rxTo  = [n \in Node |-> IF n = "I" THEN RX_RESP_TO ELSE 0]
  /\ HostInit
  /\ sn = 0 /\ tx_frame_nb = 0 /\ tx_frame_ack_nb = 0 /\ tx_frame_retry_nb = 0
  /\ arrived = 0 /\ got = 0
-----------------------------------------------------------------------------
(* The sender. Its rx_buffer is only looked at when it was just filled.    *)

Send ==
  /\ Awake("I")
  /\ StartTxNow("I", Frame("data", <<sn, tx_frame_ack_nb>>), TRUE, {})
  /\ Goto("I", "waitAck")
  /\ UNCHANGED <<clock, rxDly, rxTo, air, faults, buf, ackVars, arrived, got>>

(* Mutant of AckMatches: the sequence number is not compared.              *)
AckMatchesAny(frame) == frame.kind = "ack"

(* Mutant of AckMatches: compared after the number was incremented.        *)
AckMatchesNext(frame) == frame.kind = "ack" /\ frame.data[1] = (sn + 1) % SNMOD

(* A frame of the length of an ACK, with its frame control and our number. *)
AckMatches(frame) == frame.kind = "ack" /\ frame.data[1] = sn

GotFrame ==
  /\ pc["I"] = "waitAck" /\ "RXFCG" \in status["I"]
  /\ ClearFlags("I", {"RXFCG"})
  /\ tx_frame_nb' = tx_frame_nb + 1
  /\ UNCHANGED <<clock, rxDly, rxTo, air, faults, buf, arrived, got>>

(* The expected ACK: on to the next message.                               *)
RecvAck ==
  /\ GotFrame
  /\ AckMatches(rxBuf["I"])
  /\ sn' = (sn + 1) % SNMOD
  /\ tx_frame_ack_nb' = tx_frame_ack_nb + 1
  /\ Sleep("I", TX_DELAY)
  /\ UNCHANGED tx_frame_retry_nb

(* Something else: again.                                                  *)
RecvNoAck ==
  /\ GotFrame
  /\ ~AckMatches(rxBuf["I"])
  /\ tx_frame_retry_nb' = tx_frame_retry_nb + 1
  /\ Sleep("I", RETRY_DELAY)
  /\ UNCHANGED <<sn, tx_frame_ack_nb>>

(* A timeout or an error: again.                                           *)
AckFailed ==
  /\ pc["I"] = "waitAck" /\ "RXFCG" \notin status["I"] /\ Noticed("I")
  /\ ClearFlags("I", {"RXTO", "RXERR"})
  /\ tx_frame_nb' = tx_frame_nb + 1
  /\ tx_frame_retry_nb' = tx_frame_retry_nb + 1
  /\ Sleep("I", RETRY_DELAY)
  /\ UNCHANGED <<clock, rxDly, rxTo, air, faults, buf, arrived, got,
                 sn, tx_frame_ack_nb>>

Sender == Send \/ RecvAck \/ RecvNoAck \/ AckFailed
-----------------------------------------------------------------------------
(* The receiver.                                                           *)

Listen ==
  /\ Awake("R")
  /\ EnableRx("R", 0)
  /\ Goto("R", "waitData")
  /\ UNCHANGED <<clock, rxDly, rxTo, air, faults, buf, ackVars, arrived, got>>

ReadData ==
  /\ pc["R"] = "waitData" /\ "RXFCG" \in status["R"]
  /\ ClearFlags("R", {"RXFCG"})
  /\ buf' = [buf EXCEPT !["R"] = ReadFrame("R")]
  /\ UNCHANGED <<clock, rxDly, rxTo, air, faults, ackVars, arrived>>

(* The frame asks for an ACK: wait until the chip has sent it.             *)
RecvData ==
  /\ ReadData
  /\ ReadFrame("R").kind = "data"
  /\ got' = ReadFrame("R").data[2] + 1
  /\ Goto("R", "waitTx")

(* Mutant of RecvUnacked: FCTRL_ACK_REQ_MASK is not looked at.             *)
RecvUnackedWaits ==
  /\ ReadData
  /\ ReadFrame("R").kind # "data"
  /\ Goto("R", "waitTx")
  /\ UNCHANGED got

(* The frame does not ask for one.                                         *)
RecvUnacked ==
  /\ ReadData
  /\ ReadFrame("R").kind # "data"
  /\ Sleep("R", 0)
  /\ UNCHANGED got

(* Mutant of AckSent: TXFRS stays up.                                      *)
AckSentKeepTxfrs ==
  /\ pc["R"] = "waitTx" /\ Noticed("R")
  /\ ClearFlags("R", {})
  /\ Sleep("R", 0)
  /\ UNCHANGED <<clock, rxDly, rxTo, air, faults, buf, ackVars, arrived, got>>

AckSent ==
  /\ pc["R"] = "waitTx" /\ Noticed("R")
  /\ ClearFlags("R", {"TXFRS"})
  /\ Sleep("R", 0)
  /\ UNCHANGED <<clock, rxDly, rxTo, air, faults, buf, ackVars, arrived, got>>

DataFailed ==
  /\ pc["R"] = "waitData" /\ "RXFCG" \notin status["R"] /\ Noticed("R")
  /\ ClearFlags("R", {"RXERR"})
  /\ Sleep("R", 0)
  /\ UNCHANGED <<clock, rxDly, rxTo, air, faults, buf, ackVars, arrived, got>>

Receiver == Listen \/ RecvData \/ RecvUnacked \/ AckSent \/ DataFailed
-----------------------------------------------------------------------------
(* Automatic acknowledgment (dwt_enableautoack): a good frame that asks    *)
(* for it, as all of the sender do, is received and its ACK armed in one   *)
(* go, without the host.                                                   *)
AutoAck(m) ==
  /\ m.to = "R" /\ m.left = 0 /\ mode["R"] = "rx"
  /\ rxTs'   = [rxTs EXCEPT !["R"] = clock["R"]]
  /\ rxBuf'  = [rxBuf EXCEPT !["R"] = m.frame]
  /\ status' = [status EXCEPT !["R"] = @ \cup {"RXFCG"}]
  /\ mode'   = [mode EXCEPT !["R"] = "tx"]
  /\ left'   = [left EXCEPT !["R"] = ACK_DLY]
  /\ w4r'    = [w4r EXCEPT !["R"] = FALSE]
  /\ txBuf'  = [txBuf EXCEPT !["R"] = Frame("ack", <<m.frame.data[1]>>)]
  /\ air'    = air \ {m}
  /\ arrived' = m.frame.data[2] + 1
  /\ UNCHANGED <<clock, rxDly, rxTo, txTs, faults, pollVars, ackVars, got>>

AckHardware ==
  \/ \E m \in air : AutoAck(m)
  \/ /\ \/ \E n \in Node : Transmit(n) \/ OpenRx(n) \/ RxTimeout(n)
        \/ \E m \in air : \/ m.to = "I" /\ Receive(m)
                          \/ Miss(m) \/ Corrupt(m)
     /\ UNCHANGED hostVars

(* An acknowledgment of another network, whose number is d after ours.     *)
ForeignAck(d) ==
  /\ Fault
  /\ mode["I"] = "rx"
  /\ EndRx("I", "RXFCG")
  /\ rxTs'  = [rxTs EXCEPT !["I"] = clock["I"]]
  /\ rxBuf' = [rxBuf EXCEPT !["I"] = Frame("ack", <<(sn + d) % SNMOD>>)]
  /\ UNCHANGED air

(* The frame filter of the receiver (data frames to its address, at most   *)
(* 127 bytes, which its buffer holds) rejects the rest with an error.      *)
AckInterference ==
  /\ \/ \E k \in Foreign : Interfere("I", k)
     \/ \E k \in Foreign \ {"long"} : Interfere("R", k)
     \/ \E d \in ForeignAcks : ForeignAck(d)
  /\ UNCHANGED hostVars

Tick == HostTick({n \in Node : HostDue(n)}) /\ UNCHANGED <<ackVars, arrived, got>>

Next == Sender \/ Receiver \/ AckHardware \/ AckInterference \/ Tick

Spec == Init /\ [][Next]_vars

(* The loops never stop, the hardware acts when its moment comes and time  *)
(* passes. Interference may happen or not.                                 *)
FairSpec == /\ Spec
            /\ WF_vars(Sender) /\ WF_vars(Receiver)
            /\ WF_vars(AckHardware) /\ WF_vars(Tick)
-----------------------------------------------------------------------------
Frames == [kind : {"none", "data", "ack", "short", "long"}, data : Seq(Nat)]

(* Types of the variables.                                                 *)
TypeOK ==
  /\ LinkTypeOK(Frames)
  /\ HostTypeOK(Frames)
  /\ sn \in 0 .. SNMOD - 1
  /\ tx_frame_nb \in 0 .. MaxSends
  /\ tx_frame_ack_nb \in Nat /\ tx_frame_retry_nb \in Nat
  /\ arrived \in Nat /\ got \in Nat

(* At-least-once delivery in order (module Delivery): the sender counts an *)
(* acknowledgment only for a message the other chip has had, though an ACK *)
(* names no message but its number modulo 2^8, and the receiving host      *)
(* reads every message before the next one can arrive, however late it is. *)
D == INSTANCE Delivery WITH next <- tx_frame_ack_nb, stored <- arrived,
                            taken <- got
DeliversInOrder == D!Spec

(* No wait is ended by a flag that an earlier operation left up: the RX    *)
(* flags while the receiver works for the wait, TXFRS while the ACK the    *)
(* host waits for is not yet out.                                          *)
NoStaleFlag ==
  /\ Waiting("I") /\ mode["I"] # "idle" => ~Noticed("I")
  /\ pc["R"] = "waitData" /\ mode["R"] = "rx" => ~Noticed("R")
  /\ pc["R"] = "waitTx" /\ mode["R"] = "tx" => ~Noticed("R")

(* Retransmission gets every message through in the end, whatever was lost *)
(* or disturbed before.                                                    *)
AllAcked == <>(tx_frame_ack_nb = MaxFrames)
=============================================================================
