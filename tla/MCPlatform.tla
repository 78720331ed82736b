----------------------------- MODULE MCPlatform -----------------------------
(* The two services that main and others share by excluding someone: the   *)
(* debug channel, shared with the probe, and the SPI driver, shared with   *)
(* the interrupt. They have nothing in common; a behaviour is about one.   *)
(*                                                                         *)
(* Rtt: a ring of six bytes, room for the two switches of terminal and a   *)
(* text, with texts that fit, that fill it and that are longer. SpiBus:    *)
(* two events, so that one can come while the other is handled.            *)
EXTENDS Rtt, SpiBus

VARIABLE service    \* what is at work

MCInit == /\ service \in {"rtt", "spi"}
          /\ Init /\ (service = "spi" => chan = "up")
          /\ SpiInit /\ (service = "rtt" => ~async /\ ~latched)

MCNext == /\ UNCHANGED service
          /\ \/ service = "rtt" /\ Next /\ UNCHANGED busVars
             \/ service = "spi" /\ SpiNext /\ UNCHANGED vars

MCSpec == MCInit /\ [][MCNext]_<<service, vars, busVars>>

MCEvent   == {"TXFRS", "RXFCG"}
MCLengths == {1, 6}
AllModes  == {"skip", "trim", "block"}
=============================================================================
