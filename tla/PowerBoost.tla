----------------------------- MODULE PowerBoost -----------------------------
(***************************************************************************)
(* calculate_power_boost of shared_functions.c: by how much a frame that   *)
(* is shorter than a millisecond may be sent stronger, looked up in two    *)
(* tables. Durations are in microseconds, boosts in tenths of a decibel.   *)
(***************************************************************************)
EXTENDS Integers, Sequences

FRAME_DURATION_REF == 1000

(* The two tables, from their longest duration to their shortest.          *)
LONG == [lut |-> << 0, 1, 2, 3, 4, 5, 6, 7, 8, 9, 10, 11, 13, 15, 17, 19, 21, 23, 25,
                    27, 29, 31, 33, 35, 38, 41, 44, 47, 50, 54, 58, 63, 68 >>,
         num |-> 33, min |-> 200, step |-> 25]

SHORT == [lut |-> << 68, 70, 72, 74, 77, 80, 83, 86, 89, 93, 97, 102, 107, 113 >>,
          num |-> 14, min |-> 70, step |-> 10]

Table(d) == IF d > LONG.min THEN LONG ELSE SHORT

(* The index of d in its table: rounded down in duration, then to the      *)
(* longer neighbour if that is the closer.                                 *)
RawIndex(d) == Table(d).num - (d - Table(d).min) \div Table(d).step
Limit(d)    == (Table(d).num - RawIndex(d)) * Table(d).step + Table(d).min
Off(d)      == IF d >= Limit(d) THEN d - Limit(d) ELSE Limit(d) - d
LutIndex(d) == IF Off(d) > Table(d).step \div 2 THEN RawIndex(d) - 1 ELSE RawIndex(d)

Tabulated(d) == d \in SHORT.min .. FRAME_DURATION_REF - 1

calculate_power_boost(d) ==
  IF d >= FRAME_DURATION_REF THEN 0
  ELSE IF d < SHORT.min THEN 113
  ELSE Table(d).lut[LutIndex(d)]
=============================================================================
