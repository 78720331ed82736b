------------------------------ MODULE MCSsTwr ------------------------------
(* The values of Starts in the run of SsTwr.                               *)
EXTENDS SsTwr

(* Clock values that differ in parity (so that the rounding of delayed     *)
(* times differs) and from which the clocks wrap at different points of an *)
(* exchange.                                                               *)
ThreeStarts == {0, 5, 26}
=============================================================================
