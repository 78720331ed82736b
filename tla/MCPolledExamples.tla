-------------------------- MODULE MCPolledExamples --------------------------
(* Delays in which the exchanges fit, a host that may be late for them and *)
(* one fault of the air; noise is left to the corruption of the frames.    *)
(* For 1e, periods of which most divide the first back-off, clear for a    *)
(* quarter. For 2f, the two documented steps of the trim and offsets of up *)
(* to 39 ppm.                                                              *)
EXTENDS PolledExamples

(* The clocks differ, and one wraps during the first exchange.             *)
MCInit == Init /\ (app \in {"sts", "aes"} => clock["I"] < clock["R"])

(* The fault comes in one of the first two exchanges, so that what follows *)
(* it is seen, too. In ranging the hosts are late in the first three.      *)
MCNext ==
  /\ Next
  /\ faults' # faults => polls <= 2
  /\ app \in {"sts", "aes"} /\ polls > 3 => \A n \in {"I", "R"} : lag'[n] = 0
MCSpec == MCInit /\ [][MCNext]_vars

(* Examples 6e and 6f alone.                                               *)
AesSpec == (MCInit /\ app = "aes") /\ [][MCNext]_vars

MCStsPolls == [p \in {"ds", "ss", "nd"} |-> IF p = "ds" THEN 6 ELSE 5]

MCStarts  == {0, 5}
MCPeriods == {16, 20, 25, 40, 50, 61}
MCSteps   == {81, 111}
MCOffsets == {37 * i - 2600 : i \in 0 .. 120}
MCTrims   == {31, 46}
=============================================================================
