------------------------------ MODULE XtalTrim ------------------------------
(***************************************************************************)
(* rx_with_xtal_trim.c (example 2f): after each frame the crystal trim is  *)
(* corrected so that the receiver's clock is between 2 and 4 ppm off the   *)
(* sender's.                                                               *)
(*                                                                         *)
(* Offsets are the readings of dwt_readclockoffset, in units of 2^-26. The *)
(* floating-point expressions are carried out on integers, exactly; the    *)
(* float's rounding is far below one unit.                                 *)
(***************************************************************************)
EXTENDS Integers

CONSTANTS
  Steps,   \* what one step of the trim may change, in units: 77 ppm in 64
           \* steps by the example, 1.65 ppm by deca_device_api.h
  Offsets, \* offsets at the first frame, with the initial trim
  Trims,   \* initial trims
  Noise    \* a reading is off by at most so much

TrimAssumption ==
  /\ Steps \subseteq Nat \ {0} /\ Offsets \subseteq Int
  /\ Trims \subseteq 0 .. 63 /\ Noise \in Nat

VARIABLES
  step,    \* the chip's step
  offset,  \* the true offset, with the trim as it is
  uCurrentTrim_val,
  changes  \* history: corrections that changed the trim

trimVars == <<step, offset, uCurrentTrim_val, changes>>

Idle == step = 0 /\ offset = 0 /\ uCurrentTrim_val = 0 /\ changes = 0

FS_XTALT_MAX_VAL == 63

Abs(i) == IF i < 0 THEN -i ELSE i

(* Conversion to an integer drops the fraction.                            *)
Truncated(a, b) == IF a < 0 THEN -((-a) \div b) ELSE a \div b

(* 2^26 * 2 / 10^6 and 2^26 * 4 / 10^6, rounded the way that makes the     *)
(* comparisons of integers those of the code.                              *)
OffTarget(reading) == Abs(reading) >= 269 \/ Abs(reading) <= 134

(* Mutant of Correction: AVG_TRIM_PER_PPM is taken twice as large.         *)
CorrectionTwice(reading) == 2 * Truncated(15625 * reading + 3145728, 1261568)

(* (int8_t)((3 + ppm) * 64 / 77), ppm being reading * 10^6 / 2^26.         *)
Correction(reading) == Truncated(15625 * reading + 3145728, 1261568)

(* The first correction stays within the range of the trim. Where it does  *)
(* not, the trim wraps, and it may swing from end to end for ever.         *)
InReach == uCurrentTrim_val - Correction(offset) \in 1 .. FS_XTALT_MAX_VAL - 1

Init ==
  /\ step \in Steps /\ offset \in Offsets /\ uCurrentTrim_val \in Trims
  /\ InReach
  /\ changes = 0

(* A frame is received; the trim wraps instead of stopping at its ends.    *)
(* A lower trim lowers the clock and with it the offset, as the sign of    *)
(* the correction has it.                                                  *)
Frame ==
  \E noise \in {-Noise, 0, Noise} :
    LET reading == offset + noise
        trim == IF OffTarget(reading)
                THEN (uCurrentTrim_val - Correction(reading)) % (FS_XTALT_MAX_VAL + 1)
                ELSE uCurrentTrim_val
    IN  /\ uCurrentTrim_val' = trim
        /\ offset' = offset + step * (trim - uCurrentTrim_val)
        /\ changes' = IF trim = uCurrentTrim_val THEN changes ELSE changes + 1
        /\ UNCHANGED step

Next == Frame
-----------------------------------------------------------------------------
(* The trim comes to rest after four corrections at the most and does not  *)
(* swing around the target, though a correction is truncated, the reading  *)
(* is noisy and the chip's step is not the one the correction assumes.     *)
TrimSettles == changes <= 4
=============================================================================
