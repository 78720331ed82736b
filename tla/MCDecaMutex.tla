---------------------------- MODULE MCDecaMutex ----------------------------
(* Two kinds of event.                                                     *)
EXTENDS DecaMutex

MCEvent == {"TXFRS", "RXFCG"}
=============================================================================
