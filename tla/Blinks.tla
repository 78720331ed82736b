------------------------------- MODULE Blinks -------------------------------
(***************************************************************************)
(* The polled examples in which one node ("I") sends frames at intervals   *)
(* and the other ("R") receives them: 1a, 1b, 1c, 1g, 1h, 1i and 3a        *)
(* against 2a, 2c, 2d, 2f, 2g, 2i and 3b. Their loops differ in a few      *)
(* traits, which a record gives for each example. What the receivers show  *)
(* of a frame (diagnostics, STS quality, trim) is left out here.           *)
(*                                                                         *)
(* A chip that has been asleep comes back with its status cleared.         *)
(***************************************************************************)
EXTENDS PolledHost, Sequences

CONSTANTS
  TX_TO_RX_DLY, \* 3a: receiver on this long after the frame
  RX_RESP_TO,   \* 3a: receiver off after this long
  TX_DELAY,     \* I: pause between frames
  WAKE_DELAY,   \* I: pause after a wake-up
  MaxPolls      \* bound: frames sent

VARIABLES
  pair,   \* the two examples that run: [tx, rx]
  asleep, \* I's chip sleeps
  polls,  \* frames sent so far
  since   \* history: frames sent since one was received, in 3a answered, or
          \* since a fault of the air excused a loss; the first one after an
          \* excuse is not counted

ownVars   == <<pair, asleep>>
blinkVars == <<ownVars, polls, since>>

BlinksAssumption ==
  /\ {TX_TO_RX_DLY, TX_DELAY, WAKE_DELAY, MaxPolls} \subseteq Nat
  /\ RX_RESP_TO \in Nat \ {0}
-----------------------------------------------------------------------------
(* A loop that sends: what, whether a response is expected, where it waits *)
(* ("sleep": nowhere), what it clears then, and when its chip is put to    *)
(* sleep ("never", by "host" after the wait, "itself" after the frame).    *)
TxLoop(kind, answered, wait, clears, sleeps) ==
  [kind |-> kind, answered |-> answered, wait |-> wait, clears |-> clears,
   sleeps |-> sleeps]

simple_tx         == TxLoop("blink", FALSE, "waitTx", {"TXFRS"}, "never")
simple_tx_sts_sdc == TxLoop("sts",   FALSE, "waitTx", {"TXFRS"}, "never")
simple_tx_pdoa    == TxLoop("sts",   FALSE, "waitTx", {"TXFRS"}, "never")
simple_tx_aes     == TxLoop("aes",   FALSE, "waitTx", {"TXFRS"}, "never")
tx_sleep          == TxLoop("blink", FALSE, "waitTx", {}, "host")
tx_sleep_idleRC   == TxLoop("blink", FALSE, "waitTx", {}, "host")
tx_sleep_auto     == TxLoop("blink", FALSE, "sleep",  {}, "itself")
tx_wait_resp      == TxLoop("blink", TRUE,  "waitResp", {}, "never")

(* A loop that receives: the kinds of frames it answers, and those it goes *)
(* on after.                                                               *)
Kinds == {"blink", "sts", "aes", "short", "long"}
RxLoop(answers, stands) == [answers |-> answers, stands |-> stands]

simple_rx         == RxLoop({}, Kinds)
simple_rx_nlos    == RxLoop({}, Kinds)
rx_diagnostics    == RxLoop({}, Kinds)
rx_sniff          == RxLoop({}, Kinds)
rx_with_xtal_trim == RxLoop({}, Kinds)
simple_rx_sts_sdc == RxLoop({}, Kinds)
simple_rx_aes     == RxLoop({}, {"aes"})
rx_send_resp      == RxLoop({"blink"}, Kinds)

(* The examples that are meant for each other.                             *)
Pair(txs, rxs) == [tx : txs, rx : rxs]
Pairs ==
       Pair({simple_tx, tx_sleep, tx_sleep_idleRC, tx_sleep_auto},
            {simple_rx, simple_rx_nlos, rx_diagnostics, rx_sniff, rx_with_xtal_trim})
  \cup Pair({simple_tx_sts_sdc, simple_tx_pdoa}, {simple_rx_sts_sdc})
  \cup Pair({simple_tx_aes}, {simple_rx_aes})
  \cup Pair({tx_wait_resp}, {rx_send_resp})

Idle == pair = [tx |-> simple_tx, rx |-> simple_rx] /\ asleep = FALSE

Init ==
  /\ pair \in Pairs
  /\ LinkInit({0})
  /\ rxDly = [n \in Node |-> IF n = "I" THEN TX_TO_RX_DLY ELSE 0]
  /\ rxTo  = [n \in Node |-> IF n = "I" /\ pair.tx.answered THEN RX_RESP_TO ELSE 0]
  /\ HostInit
  /\ asleep = FALSE /\ polls = 0 /\ since = -1

Awake(n)   == Rested(n) /\ (n = "I" => polls < MaxPolls)
HostDue(n) == Noticed(n) \/ Awake(n)

Rest == UNCHANGED <<clock, rxDly, rxTo, air, faults, buf, pair>>
-----------------------------------------------------------------------------
(* The sender.                                                             *)

Send ==
  /\ Awake("I") /\ ~asleep
  /\ polls' = polls + 1 /\ since' = since + 1
  /\ StartTxNow("I", Frame(pair.tx.kind, <<>>), pair.tx.answered, {})
  /\ IF pair.tx.wait = "sleep" THEN Sleep("I", TX_DELAY) ELSE Goto("I", pair.tx.wait)
  /\ UNCHANGED asleep /\ Rest

(* The frame has left; the flag is cleared or the chip put to sleep.       *)
Sent ==
  /\ pc["I"] = "waitTx" /\ Noticed("I")
  /\ ClearFlags("I", pair.tx.clears)
  /\ asleep' = (pair.tx.sleeps = "host")
  /\ Sleep("I", TX_DELAY)
  /\ UNCHANGED <<polls, since>> /\ Rest

(* dwt_wakeup_ic, the wait for the chip and dwt_restoreconfig.             *)
WakeUp ==
  /\ Awake("I") /\ asleep
  /\ asleep' = FALSE
  /\ ClearFlags("I", Flags)
  /\ Sleep("I", WAKE_DELAY)
  /\ UNCHANGED <<polls, since>> /\ Rest

Answered ==
  /\ pc["I"] = "waitResp" /\ "RXFCG" \in status["I"]
  /\ since' = 0
  /\ ClearFlags("I", {"RXFCG"})
  /\ Sleep("I", TX_DELAY)
  /\ UNCHANGED <<asleep, polls>> /\ Rest

NotAnswered ==
  /\ pc["I"] = "waitResp" /\ "RXFCG" \notin status["I"] /\ Noticed("I")
  /\ ClearFlags("I", {"RXTO", "RXERR"})
  /\ Sleep("I", TX_DELAY)
  /\ UNCHANGED <<asleep, polls, since>> /\ Rest

Sender == Send \/ Sent \/ WakeUp \/ Answered \/ NotAnswered
-----------------------------------------------------------------------------
(* The receiver.                                                           *)

Listen ==
  /\ Awake("R")
  /\ EnableRx("R", 0)
  /\ Goto("R", "waitData")
  /\ UNCHANGED <<asleep, polls, since>> /\ Rest

GotFrame ==
  /\ pc["R"] = "waitData" /\ "RXFCG" \in status["R"]
  /\ since' = IF pair.tx.answered \/ rxBuf["R"].kind \in Foreign THEN since ELSE 0
  /\ UNCHANGED <<asleep, polls>> /\ Rest

(* The blink of 3a is answered at once ...                                 *)
Answer ==
  /\ GotFrame /\ rxBuf["R"].kind \in pair.rx.answers
  /\ StartTxNow("R", Frame("resp", <<>>), FALSE, {"RXFCG"})
  /\ Goto("R", "waitTx")

(* ... other frames are shown ...                                          *)
Show ==
  /\ GotFrame /\ rxBuf["R"].kind \in pair.rx.stands \ pair.rx.answers
  /\ ClearFlags("R", {"RXFCG"})
  /\ Sleep("R", 0)

(* ... and one that cannot be decrypted ends the loop of 2i.               *)
Stop ==
  /\ GotFrame /\ rxBuf["R"].kind \notin pair.rx.stands
  /\ ClearFlags("R", {})
  /\ Goto("R", "stopped")

AnswerSent ==
  /\ pc["R"] = "waitTx" /\ Noticed("R")
  /\ ClearFlags("R", {"TXFRS"})
  /\ Sleep("R", 0)
  /\ UNCHANGED <<asleep, polls, since>> /\ Rest

NoFrameGot ==
  /\ pc["R"] = "waitData" /\ "RXFCG" \notin status["R"] /\ Noticed("R")
  /\ ClearFlags("R", {"RXERR"})
  /\ Sleep("R", 0)
  /\ UNCHANGED <<asleep, polls, since>> /\ Rest

Receiver == Listen \/ Answer \/ Show \/ Stop \/ AnswerSent \/ NoFrameGot
-----------------------------------------------------------------------------
Tick == HostTick({n \in Node : HostDue(n)}) /\ UNCHANGED blinkVars

(* In 1c the chip goes to sleep by itself when the frame has left.         *)
DozesOff == pair.tx.sleeps = "itself" /\ mode["I"] = "tx" /\ mode'["I"] # "tx"

Radio == /\ Hardware \/ Interference(Foreign)
         /\ UNCHANGED <<pollVars, pair, polls>>
         /\ asleep' = (asleep \/ DozesOff)
         /\ since' = IF faults' = faults THEN since ELSE -1

Next == Sender \/ Receiver \/ Radio \/ Tick
-----------------------------------------------------------------------------
(* A frame is only lost when the air disturbs it: the receiver is back on, *)
(* or the response in the window, before the next frame comes. The first   *)
(* one may come before the receiver is on.                                 *)
LosesFew == since <= 1 \/ pc["R"] = "stopped"
=============================================================================
