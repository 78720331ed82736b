--------------------------- MODULE PolledExamples ---------------------------
(***************************************************************************)
(* The examples without interrupts that have no run of their own: main.c   *)
(* calls exactly one of them on each board. They share the link and the    *)
(* state of the hosts; the variables of those that do not run keep their   *)
(* initial values.                                                         *)
(***************************************************************************)
EXTENDS PolledHost

CONSTANTS
  POLL_TX_TO_RESP_RX_DLY, RESP_RX_TIMEOUT, POLL_RX_TO_RESP_TX_DLY, \* 5, 6
  RNG_DELAY, Starts,
  POLL_TX_TO_REPORT_RX_DLY, RESP_RX_TO_FINAL_TX_DLY,               \* with STS
  RESP_TX_TO_FINAL_RX_DLY, RNG_DELAY_RESP,
  TX_TO_RX_DLY, RX_RESP_TO, TX_DELAY, WAKE_DELAY,                  \* 1, 2, 3
  ACK_DLY,                                                         \* 15
  TX_DELAY_MS, INITIAL_BACKOFF_PERIOD, Periods, Share,             \* 1e
  Steps, Offsets, Trims, Noise,                                    \* 2f
  StsPolls, MaxPolls                                               \* bounds

VARIABLES
  app,                                                  \* what main calls
  result, polls, since,
  proto, sts, pollRxTs, kept,                           \* StsTwr
  hdr, unsecured, frameCnt, used, nonces,               \* AesTwr
  pair, asleep,                                         \* Blinks
  period, phase, next_backoff_interval, busy,           \* TxCca
  step, offset, uCurrentTrim_val, changes               \* XtalTrim

stsVars   == <<proto, sts, pollRxTs, kept>>
aesVars   == <<hdr, unsecured, frameCnt, used, nonces>>
blinkVars == <<pair, asleep>>
ccaVars   == <<period, phase, next_backoff_interval, busy>>
trimVars  == <<step, offset, uCurrentTrim_val, changes>>
hostVars  == <<linkVars, pollVars, result, polls, since>>
vars == <<app, hostVars, stsVars, aesVars, blinkVars, ccaVars, trimVars>>

Sts   == INSTANCE StsTwr WITH MaxPolls <- StsPolls
Aes   == INSTANCE AesTwr
Blink == INSTANCE Blinks
Le    == INSTANCE LePend WITH Bounded <- TRUE
Cca   == INSTANCE TxCca
Trim  == INSTANCE XtalTrim

ASSUME PolledAssumption ==
  /\ Sts!StsAssumption
  /\ Aes!AesAssumption
  /\ Blink!BlinksAssumption
  /\ Le!LeAssumption
  /\ Cca!CcaAssumption
  /\ Trim!TrimAssumption

Apps == {"sts", "aes", "blink", "le", "cca", "trim"}

-----------------------------------------------------------------------------
(* Example a runs, and the variables of the others stay.                   *)
Runs(a, others) == app = a /\ UNCHANGED <<app, others>>

Init ==
  /\ app \in Apps
  /\ IF app = "sts"   THEN Sts!Init   ELSE Sts!Idle
  /\ IF app = "aes"   THEN Aes!Init   ELSE Aes!Idle
  /\ IF app = "blink" THEN Blink!Init ELSE Blink!Idle
  /\ IF app = "cca"   THEN Cca!Init   ELSE Cca!Idle
  /\ IF app = "trim"  THEN Trim!Init  ELSE Trim!Idle
  /\ app = "le" => Le!Init
  /\ app \in {"cca", "trim"} =>
       /\ LinkInit({0}) /\ HostInit
       /\ rxDly = [n \in Node |-> 0] /\ rxTo = [n \in Node |-> 0]
       /\ result = <<>> /\ polls = 0 /\ since = 0
  /\ app \in {"blink", "le"} => result = <<>>

Next ==
  \/ Runs("sts", <<aesVars, blinkVars, ccaVars, trimVars>>) /\ Sts!Next
  \/ Runs("aes", <<stsVars, blinkVars, ccaVars, trimVars>>) /\ Aes!Next
  \/ Runs("blink", <<stsVars, aesVars, ccaVars, trimVars, result>>) /\ Blink!Next
  \/ Runs("le", <<stsVars, aesVars, blinkVars, ccaVars, trimVars, result>>) /\ Le!Next
  \/ Runs("cca", <<stsVars, aesVars, blinkVars, trimVars, hostVars>>) /\ Cca!Next
  \/ Runs("trim", <<stsVars, aesVars, blinkVars, ccaVars, hostVars>>) /\ Trim!Next

Spec == Init /\ [][Next]_vars
-----------------------------------------------------------------------------
(* No wait is ended by a flag that an earlier operation left up.           *)
NoStaleFlag == IF app = "le" THEN Le!NoStaleFlag ELSE NoStaleEvent

(* Examples 5 and 6, with STS or encrypted: only true distances.           *)
DistanceIsTrue ==
  /\ app = "sts" => Sts!DistanceIsTrue
  /\ app = "aes" => Aes!DistanceIsTrue

(* Every pair of examples comes together again after a disturbance.        *)
LosesFew ==
  /\ app = "sts"   => Sts!LosesFew
  /\ app = "aes"   => Aes!LosesFew
  /\ app = "blink" => Blink!LosesFew
  /\ app = "le"    => Le!LosesFew

(* Examples 6e and 6f: ranging goes on for ever, whatever frame of another *)
(* network was ignored; before each transmission the header needs no more  *)
(* than the update of the addresses (what 6e's comments say, 230-240).     *)
RangingGoesOn == app = "aes" => Aes!RangingGoesOn

(* Examples 6e and 6f: no frame counter is used twice.                     *)
CounterFresh == app = "aes" => Aes!CounterFresh

(* Example 1e: the growing back-off finds the gap.                         *)
GetsThrough == app = "cca" => Cca!GetsThrough

(* Example 2f: the trim comes to rest.                                     *)
TrimSettles == app = "trim" => Trim!TrimSettles
=============================================================================
