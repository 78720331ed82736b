------------------------------ MODULE TwrTime ------------------------------
(***************************************************************************)
(* The time arithmetic of the two-way ranging examples: 40-bit DW3000      *)
(* timestamps, the 32-bit copies that travel in frames, the delayed        *)
(* transmission time with its 512-unit resolution, and the single-sided    *)
(* and double-sided time-of-flight formulas.                               *)
(***************************************************************************)
EXTENDS Integers

CONSTANTS
  TSMOD,      \* range of a DW3000 timestamp       (2^40 in the code)
  LOMOD,      \* range of the copies kept in frames (2^32 in the code)
  QUANTUM,    \* resolution of a delayed TX time    (512 in the code)
  TX_ANT_DLY  \* TX antenna delay, in device time units

ASSUME TimeAssumption ==
  /\ TSMOD \in Nat \ {0} /\ LOMOD \in Nat \ {0} /\ QUANTUM \in Nat \ {0}
  /\ TSMOD % LOMOD = 0
  /\ TSMOD % QUANTUM = 0
  /\ TX_ANT_DLY \in Nat

(* A host keeps timestamps in uint64_t variables: 40 bits, no more.        *)
Timestamps == 0 .. TSMOD - 1

(* The four least significant bytes of a timestamp, which is what          *)
(* final_msg_set_ts() and resp_msg_set_ts() store in a frame and what the  *)
(* (uint32_t) casts keep.                                                  *)
MsgTs(ts) == ts % LOMOD

(* The uint32_t difference of two truncated timestamps.                    *)
Sub32(later, earlier) == (later - earlier) % LOMOD

(* The int32_t reading of a uint32_t, as in "int32_t rtd_init = a - b".    *)
Signed32(x) == IF x < LOMOD \div 2 THEN x ELSE x - LOMOD

(* The time at which a delayed transmission starts:                        *)
(* (ts + dly) >> 8 truncated to 32 bits, whose bit 0 the DW3000 ignores.   *)
DelayedTxTime(ts, dly) ==
  LET t == (ts + dly) % TSMOD IN t - (t % QUANTUM)

(* Mutant of DelayedTxTs: the bit the DW3000 ignores is not masked.        *)
DelayedTxTsUnmasked(ts, dly) == ((ts + dly) % TSMOD) + TX_ANT_DLY

(* The timestamp the transmission will get, predicted before it happens:   *)
(* ((time & 0xFFFFFFFE) << 8) + TX_ANT_DLY.                                *)
DelayedTxTs(ts, dly) == DelayedTxTime(ts, dly) + TX_ANT_DLY

(* The C conversion of a quotient to an integer discards the fraction.     *)
TruncDiv(a, b) == IF a >= 0 THEN a \div b ELSE -((-a) \div b)

(* Asymmetric double-sided formula of ds_twr_responder.c, from the six     *)
(* 32-bit timestamps of an exchange.                                       *)
DsTof(pollTx, pollRx, respTx, respRx, finalTx, finalRx) ==
  LET Ra == Sub32(respRx, pollTx)
      Rb == Sub32(finalRx, respTx)
      Da == Sub32(finalTx, respRx)
      Db == Sub32(respTx, pollRx)
  IN  TruncDiv(Ra * Rb - Da * Db, Ra + Rb + Da + Db)

(* Single-sided formula of ss_twr_initiator.c without clock offset, in     *)
(* half units (the code divides a float by 2.0, nothing is rounded).       *)
SsTwiceTof(pollTx, pollRx, respTx, respRx) ==
  Signed32(Sub32(respRx, pollTx)) - Signed32(Sub32(respTx, pollRx))
=============================================================================
