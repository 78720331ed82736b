------------------------------ MODULE UwbLink ------------------------------
(***************************************************************************)
(* Two DW3000 transceivers and the air between them, as the ranging and    *)
(* acknowledgement examples use them: one node runs the example that       *)
(* starts the exchanges ("I"), the other the one that answers ("R").       *)
(*                                                                         *)
(* The chip is external to this repository (the driver is a binary         *)
(* library). What is modelled is the behaviour src/ relies on: an event    *)
(* sets a status flag that stays until the host writes it back, reception  *)
(* stops at the first event, a response-expected transmission opens the    *)
(* receiver rxDly ticks after the frame left, for rxTo ticks (0: for       *)
(* ever), a delayed start fails if its time has passed, and both           *)
(* timestamps are registers overwritten by the next frame.                 *)
(*                                                                         *)
(* Time is discrete. A frame is an instant, the passage of its RMARKER.    *)
(* The two clocks run at the same rate from different offsets and wrap.    *)
(***************************************************************************)
EXTENDS TwrTime, FiniteSets

CONSTANTS
  FLIGHT,    \* ticks a frame is in the air
  Foreign,   \* what else the receivers may pick up: a frame of another
             \* network that fits the host's buffer ("short") or not
             \* ("long"), or a reception error ("bad")
  MaxFaults, \* how often the air may misbehave: a frame of a node lost or
             \* corrupted, a reception ended by interference
  MaxLag     \* ticks a host may take to notice an event it waits for

ForeignKinds == {"short", "long", "bad"}

ASSUME LinkAssumption ==
  /\ FLIGHT \in Nat \ {0}
  /\ Foreign \subseteq ForeignKinds
  /\ MaxFaults \in Nat
  /\ MaxLag \in Nat

Node == {"I", "R"}
Peer(n) == IF n = "I" THEN "R" ELSE "I"

VARIABLES
  clock,    \* clock[n]: the 40-bit system time of n's chip
  mode,     \* mode[n]: "idle", "tx" (armed), "gap" (sent, receiver not yet
            \* on) or "rx"
  left,     \* left[n]: ticks to the end of the mode, where it has one
  w4r,      \* w4r[n]: the armed transmission expects a response
  rxDly,    \* rxDly[n]: the register set by dwt_setrxaftertxdelay
  rxTo,     \* rxTo[n]: the register set by dwt_setrxtimeout
  status,   \* status[n]: the flags of SYS_STATUS that are up
  txTs,     \* txTs[n]: TX timestamp register
  rxTs,     \* rxTs[n]: RX timestamp register
  txBuf,    \* txBuf[n]: the frame that waits for its transmission
  rxBuf,    \* rxBuf[n]: the frame received since the receiver was last on
  air,      \* frames on their way: records [to, left, frame]
  faults    \* faults of the air so far

chipVars == <<mode, left, w4r, status, txTs, rxTs, txBuf, rxBuf>>
linkVars == <<clock, chipVars, rxDly, rxTo, air, faults>>

(* A frame: its function code and the numbers it carries.                  *)
Frame(kind, data) == [kind |-> kind, data |-> data]
NoFrame == Frame("none", <<>>)

RxMask == {"RXFCG", "RXTO", "RXERR"}
Flags  == RxMask \cup {"TXFRS"}
Modes  == {"idle", "tx", "gap", "rx"}
-----------------------------------------------------------------------------
(* Commands of the host. Each one leaves the other node's chip alone.      *)

(* The ticks from now to a delayed transmission time, and the chip's test  *)
(* for "too late": the time lies in the half period behind the clock.      *)
TicksTo(n, time) == (time - clock[n]) % TSMOD
TooLate(n, time) == TicksTo(n, time) >= TSMOD \div 2

(* dwt_starttx: the frame leaves the antenna after "delay" ticks. The      *)
(* flags in "clear" have been written back before.                         *)
StartTx(n, frame, delay, resp, clear) ==
  /\ mode'   = [mode EXCEPT ![n] = "tx"]
  /\ left'   = [left EXCEPT ![n] = delay]
  /\ w4r'    = [w4r EXCEPT ![n] = resp]
  /\ txBuf'  = [txBuf EXCEPT ![n] = frame]
  /\ status' = [status EXCEPT ![n] = @ \ clear]
  /\ UNCHANGED <<txTs, rxTs, rxBuf>>

StartTxNow(n, frame, resp, clear) == StartTx(n, frame, 0, resp, clear)

StartTxAt(n, frame, time, resp, clear) ==
  StartTx(n, frame, TicksTo(n, time) + TX_ANT_DLY, resp, clear)

(* A delayed dwt_starttx that returns DWT_ERROR: the transceiver is        *)
(* switched off and the frame is not sent.                                 *)
FailTx(n, clear) ==
  /\ mode'   = [mode EXCEPT ![n] = "idle"]
  /\ left'   = [left EXCEPT ![n] = 0]
  /\ status' = [status EXCEPT ![n] = @ \ clear]
  /\ UNCHANGED <<w4r, txTs, rxTs, txBuf, rxBuf>>

(* dwt_rxenable(DWT_START_RX_IMMEDIATE) with frame timeout "to".           *)
EnableRx(n, to) ==
  /\ mode' = [mode EXCEPT ![n] = "rx"]
  /\ left' = [left EXCEPT ![n] = to]
  /\ rxBuf' = [rxBuf EXCEPT ![n] = NoFrame]
  /\ UNCHANGED <<w4r, status, txTs, rxTs, txBuf>>

(* dwt_writesysstatuslo and nothing else.                                  *)
ClearFlags(n, clear) ==
  /\ status' = [status EXCEPT ![n] = @ \ clear]
  /\ UNCHANGED <<mode, left, w4r, txTs, rxTs, txBuf, rxBuf>>
-----------------------------------------------------------------------------
(* What the hardware does by itself.                                       *)

Fault == faults < MaxFaults /\ faults' = faults + 1

(* A reception ends with the flag "flag", good or bad.                     *)
EndRx(n, flag) ==
  /\ mode'   = [mode EXCEPT ![n] = "idle"]
  /\ left'   = [left EXCEPT ![n] = 0]
  /\ status' = [status EXCEPT ![n] = @ \cup {flag}]
  /\ UNCHANGED <<clock, w4r, rxDly, rxTo, txTs, txBuf>>

(* The frame in the TX buffer leaves the antenna.                          *)
Transmit(n) ==
  /\ mode[n] = "tx" /\ left[n] = 0
  /\ air'    = air \cup {[to |-> Peer(n), left |-> FLIGHT, frame |-> txBuf[n]]}
  /\ txTs'   = [txTs EXCEPT ![n] = clock[n]]
  /\ status' = [status EXCEPT ![n] = @ \cup {"TXFRS"}]
  /\ mode'   = [mode EXCEPT ![n] = IF w4r[n] THEN "gap" ELSE "idle"]
  /\ left'   = [left EXCEPT ![n] = IF w4r[n] THEN rxDly[n] ELSE 0]
  /\ w4r'    = [w4r EXCEPT ![n] = FALSE]
  /\ txBuf'  = [txBuf EXCEPT ![n] = NoFrame]
  /\ UNCHANGED <<clock, rxDly, rxTo, rxTs, rxBuf, faults>>

(* The receiver of a response-expected transmission turns on.              *)
OpenRx(n) ==
  /\ mode[n] = "gap" /\ left[n] = 0
  /\ mode' = [mode EXCEPT ![n] = "rx"]
  /\ left' = [left EXCEPT ![n] = rxTo[n]]
  /\ rxBuf' = [rxBuf EXCEPT ![n] = NoFrame]
  /\ UNCHANGED <<clock, w4r, rxDly, rxTo, status, txTs, rxTs, txBuf, air, faults>>

(* Frame wait timeout or preamble detection timeout, whichever is set.     *)
RxTimeout(n) ==
  /\ mode[n] = "rx" /\ rxTo[n] # 0 /\ left[n] = 0
  /\ EndRx(n, "RXTO")
  /\ UNCHANGED <<rxTs, rxBuf, air, faults>>

(* A frame of the other node is received.                                  *)
Receive(m) ==
  /\ m.left = 0 /\ mode[m.to] = "rx"
  /\ EndRx(m.to, "RXFCG")
  /\ rxTs'  = [rxTs EXCEPT ![m.to] = clock[m.to]]
  /\ rxBuf' = [rxBuf EXCEPT ![m.to] = m.frame]
  /\ air'   = air \ {m}
  /\ UNCHANGED faults

(* A frame passes a node that does not receive it.                         *)
Miss(m) ==
  /\ m.left = 0
  /\ IF mode[m.to] = "rx" THEN Fault ELSE UNCHANGED faults
  /\ air' = air \ {m}
  /\ UNCHANGED <<clock, chipVars, rxDly, rxTo>>

(* A frame is received with an error.                                      *)
Corrupt(m) ==
  /\ Fault
  /\ m.left = 0 /\ mode[m.to] = "rx"
  /\ EndRx(m.to, "RXERR")
  /\ air' = air \ {m}
  /\ UNCHANGED <<rxTs, rxBuf>>

(* A frame of another network, or noise, ends a reception.                 *)
Interfere(n, k) ==
  /\ Fault
  /\ mode[n] = "rx"
  /\ IF k = "bad"
     THEN EndRx(n, "RXERR") /\ UNCHANGED <<rxTs, rxBuf>>
     ELSE /\ EndRx(n, "RXFCG")
          /\ rxTs'  = [rxTs EXCEPT ![n] = clock[n]]
          /\ rxBuf' = [rxBuf EXCEPT ![n] = Frame(k, <<>>)]
  /\ UNCHANGED air

Hardware ==
  \/ \E n \in Node : Transmit(n) \/ OpenRx(n) \/ RxTimeout(n)
  \/ \E m \in air : Receive(m) \/ Miss(m) \/ Corrupt(m)

Interference(kinds) == \E n \in Node, k \in kinds : Interfere(n, k)
-----------------------------------------------------------------------------
(* The passage of one tick. Something whose moment has come happens first. *)
CountsDown(n) == mode[n] \in {"tx", "gap"} \/ (mode[n] = "rx" /\ rxTo[n] # 0)

Nearer(m) == [to |-> m.to, left |-> m.left - 1, frame |-> m.frame]

LinkTick ==
  /\ \A n \in Node : CountsDown(n) => left[n] > 0
  /\ \A m \in air : m.left > 0
  /\ clock' = [n \in Node |-> (clock[n] + 1) % TSMOD]
  /\ left'  = [n \in Node |-> IF CountsDown(n) THEN left[n] - 1 ELSE left[n]]
  /\ air'   = {Nearer(m) : m \in air}
  /\ UNCHANGED <<mode, w4r, status, txTs, rxTs, txBuf, rxBuf, rxDly, rxTo, faults>>

(* Both chips configured and idle, each clock at some time.                *)
LinkInit(starts) ==
  /\ clock  \in [Node -> starts]
  /\ mode   = [n \in Node |-> "idle"]
  /\ left   = [n \in Node |-> 0]
  /\ w4r    = [n \in Node |-> FALSE]
  /\ status = [n \in Node |-> {}]
  /\ txTs   = [n \in Node |-> 0]
  /\ rxTs   = [n \in Node |-> 0]
  /\ txBuf  = [n \in Node |-> NoFrame]
  /\ rxBuf  = [n \in Node |-> NoFrame]
  /\ air    = {}
  /\ faults = 0

LinkTypeOK(frames) ==
  /\ clock  \in [Node -> Timestamps]
  /\ mode   \in [Node -> Modes]
  /\ left   \in [Node -> Nat]
  /\ w4r    \in [Node -> BOOLEAN]
  /\ rxDly  \in [Node -> Nat]
  /\ rxTo   \in [Node -> Nat]
  /\ status \in [Node -> SUBSET Flags]
  /\ txTs   \in [Node -> Timestamps]
  /\ rxTs   \in [Node -> Timestamps]
  /\ txBuf  \in [Node -> frames]
  /\ rxBuf  \in [Node -> frames]
  /\ air    \subseteq [to : Node, left : Nat, frame : frames]
  /\ faults \in 0 .. MaxFaults
=============================================================================
