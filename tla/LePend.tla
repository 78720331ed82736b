------------------------------- MODULE LePend -------------------------------
(***************************************************************************)
(* Low-energy acknowledgment, example 15: le_pend_tx.c ("I") sends MAC     *)
(* commands and waits for the acknowledgment of each, le_pend_rx.c ("R")   *)
(* receives them and waits until its chip has sent the acknowledgment.     *)
(*                                                                         *)
(* The sender sets no receive timeout, so its second wait ends only with a *)
(* frame or an error. The receiver waits for the end of an acknowledgment  *)
(* after every good frame, whether or not the frame asked for one.         *)
(***************************************************************************)
EXTENDS PolledHost, Sequences

CONSTANTS
  ACK_DLY,   \* R: reception to automatic acknowledgment
  TX_DELAY,  \* I: pause between commands
  MaxPolls,  \* bound: commands sent, in the runs that need one
  Bounded    \* TRUE: the sender stops after MaxPolls commands

VARIABLES
  polls,  \* commands sent so far, if they are bounded
  since   \* history: commands sent since one was acknowledged, or since a
          \* fault of the air excused a loss; the first one after an excuse is
          \* not counted

leVars   == <<polls, since>>
vars     == <<linkVars, pollVars, leVars>>

LeAssumption == {ACK_DLY, TX_DELAY, MaxPolls} \subseteq Nat /\ Bounded \in BOOLEAN

Init ==
  /\ LinkInit({0})
  /\ rxDly = [n \in Node |-> 0] /\ rxTo = [n \in Node |-> 0]
  /\ HostInit
  /\ polls = 0 /\ since = -1

Awake(n)   == Rested(n) /\ (n = "I" => polls < MaxPolls)
HostDue(n) == Noticed(n) \/ Awake(n)

Rest == UNCHANGED <<clock, rxDly, rxTo, air, faults, buf>>
-----------------------------------------------------------------------------
(* The sender.                                                             *)

Send ==
  /\ Awake("I")
  /\ polls' = IF Bounded THEN polls + 1 ELSE polls
  /\ since' = IF Bounded THEN since + 1 ELSE since
  /\ StartTxNow("I", Frame("command", <<>>), TRUE, {})
  /\ Goto("I", "waitTx")
  /\ Rest

CommandSent ==
  /\ pc["I"] = "waitTx" /\ Noticed("I")
  /\ ClearFlags("I", {"TXFRS"})
  /\ Goto("I", "waitAck")
  /\ UNCHANGED leVars /\ Rest

AckReceived ==
  /\ pc["I"] = "waitAck" /\ "RXFCG" \in status["I"]
  /\ ClearFlags("I", {"RXFCG", "TXFRS"})
  /\ Sleep("I", TX_DELAY)
  /\ since' = 0
  /\ UNCHANGED polls /\ Rest

AckFailed ==
  /\ pc["I"] = "waitAck" /\ "RXFCG" \notin status["I"] /\ Noticed("I")
  /\ ClearFlags("I", {"RXTO", "RXERR", "TXFRS"})
  /\ Sleep("I", TX_DELAY)
  /\ UNCHANGED leVars /\ Rest

Sender == Send \/ CommandSent \/ AckReceived \/ AckFailed
-----------------------------------------------------------------------------
(* The receiver.                                                           *)

Listen ==
  /\ Awake("R")
  /\ EnableRx("R", 0)
  /\ Goto("R", "listen")
  /\ UNCHANGED leVars /\ Rest

CommandReceived ==
  /\ pc["R"] = "listen" /\ "RXFCG" \in status["R"]
  /\ ClearFlags("R", {"RXFCG"})
  /\ Goto("R", "waitTx")
  /\ UNCHANGED leVars /\ Rest

AckSent ==
  /\ pc["R"] = "waitTx" /\ Noticed("R")
  /\ ClearFlags("R", {"TXFRS"})
  /\ Sleep("R", 0)
  /\ UNCHANGED leVars /\ Rest

CommandFailed ==
  /\ pc["R"] = "listen" /\ "RXFCG" \notin status["R"] /\ Noticed("R")
  /\ ClearFlags("R", {"RXTO", "RXERR"})
  /\ Sleep("R", 0)
  /\ UNCHANGED leVars /\ Rest

Receiver == Listen \/ CommandReceived \/ AckSent \/ CommandFailed
-----------------------------------------------------------------------------
(* Automatic acknowledgment of a command from the address the filter lets  *)
(* through. Other frames are rejected by the filters of both nodes with an *)
(* error, as the sender's lets only acknowledgments through.               *)
AutoAck(m) ==
  /\ m.to = "R" /\ m.left = 0 /\ mode["R"] = "rx"
  /\ rxTs'   = [rxTs EXCEPT !["R"] = clock["R"]]
  /\ rxBuf'  = [rxBuf EXCEPT !["R"] = m.frame]
  /\ status' = [status EXCEPT !["R"] = @ \cup {"RXFCG"}]
  /\ mode'   = [mode EXCEPT !["R"] = "tx"]
  /\ left'   = [left EXCEPT !["R"] = ACK_DLY]
  /\ w4r'    = [w4r EXCEPT !["R"] = FALSE]
  /\ txBuf'  = [txBuf EXCEPT !["R"] = Frame("ack", <<>>)]
  /\ air'    = air \ {m}
  /\ UNCHANGED <<clock, rxDly, rxTo, txTs, faults>>

Chips ==
  \/ \E m \in air : \/ AutoAck(m) \/ Miss(m) \/ Corrupt(m)
                    \/ m.to = "I" /\ Receive(m)
  \/ \E n \in Node : Transmit(n) \/ OpenRx(n)

Radio(step) == /\ step
               /\ UNCHANGED <<pollVars, polls>>
               /\ since' = IF faults' = faults THEN since ELSE -1

Tick == HostTick({n \in Node : HostDue(n)}) /\ UNCHANGED leVars

Next == \/ Sender \/ Receiver \/ Tick
        \/ Radio(Chips \/ Interference({"bad"}))

(* The loops never stop, the chips act when their moment comes and time    *)
(* passes.                                                                 *)
FairSpec == /\ Init /\ [][Next]_vars
            /\ WF_vars(Sender) /\ WF_vars(Receiver)
            /\ WF_vars(Radio(Chips)) /\ WF_vars(Tick)
-----------------------------------------------------------------------------
(* No wait is ended by a flag that an earlier operation left up (the       *)
(* receiver's chip sends the acknowledgment while RXFCG is up).            *)
NoStaleFlag ==
  /\ Waiting("I") /\ Pending("I") => ~Noticed("I")
  /\ pc["R"] = "listen" /\ mode["R"] = "rx" => ~Noticed("R")
  /\ pc["R"] = "waitTx" /\ mode["R"] = "tx" => ~Noticed("R")

(* Commands are acknowledged unless the air disturbs them. When it does,   *)
(* the sender may not send again at all (see AlwaysNextCommand).           *)
LosesFew == since <= 1

(* Commands go on for ever, "poll for reception of a frame or              *)
(* error/timeout" says the sender's wait.                                  *)
AlwaysNextCommand == []<>(pc["I"] = "sleep")
=============================================================================
