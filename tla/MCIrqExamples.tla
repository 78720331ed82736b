--------------------------- MODULE MCIrqExamples ---------------------------
(* Values for the five examples: the figures of example 1d with low-power  *)
(* oscillators of 34 and 15 kHz and those, in between, with the longest    *)
(* and the shortest sleep; three phases and one that is none; a timer of   *)
(* four ticks with a terminal that takes less than a period and one that   *)
(* takes more than two.                                                    *)
EXTENDS IrqExamples

MCCalibrations == {1129, 2320, 2321, 2560}
MCPdoa == 0 .. 2
MCShows == {3, 9}
=============================================================================
