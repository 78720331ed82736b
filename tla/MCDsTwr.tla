------------------------------ MODULE MCDsTwr ------------------------------
(* The values of Starts in the runs of DsTwr.                              *)
EXTENDS DsTwr

(* Two clock values that differ in parity (so that the rounding of delayed *)
(* times differs) and from which every exchange wraps one of the clocks.   *)
TwoStarts == {0, 5}

(* The two clocks differ, in the plain pair either way; the arithmetic of  *)
(* the other pair is the same.                                             *)
ApartInit ==
  Init /\ clock["I"] # clock["R"] /\ (sdc => clock["I"] < clock["R"])
ApartSpec == ApartInit /\ [][Next]_vars
=============================================================================
