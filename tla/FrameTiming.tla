---------------------------- MODULE FrameTiming ----------------------------
(***************************************************************************)
(* The exchange of ss_twr_initiator_sts.c and ss_twr_responder_sts.c as    *)
(* its four moments, in the order in which the delays of a configuration   *)
(* make them happen.                                                       *)
(***************************************************************************)
EXTENDS FrameDelays

VARIABLES
  option, \* the number of the configuration
  left,   \* what of this exchange is to come
  on,     \* the initiator's receiver
  missed  \* a response began while it was off, or did not end before it was

vars == <<option, left, on, missed>>

Events == {"on", "off", "begin", "end"}

At(e) ==
  LET c == config_options(option)
  IN  CASE e = "on"    -> RxOn(c)
        [] e = "off"   -> RxOff(c)
        [] e = "begin" -> RespBegin(c)
        [] e = "end"   -> RespEnd(c)

Init ==
  /\ option \in 1 .. 33
  /\ left = Events
  /\ on = FALSE /\ missed = FALSE

(* What comes first happens.                                               *)
Happen(e) ==
  /\ e \in left /\ \A f \in left : At(e) <= At(f)
  /\ left' = left \ {e}
  /\ on' = ((on \/ e = "on") /\ e # "off")
  /\ missed' = (missed \/ (e \in {"begin", "end"} /\ ~on))
  /\ UNCHANGED option

(* The next poll: RNG_DELAY_MS is longer than any exchange.                *)
Poll ==
  /\ left = {} /\ left' = Events
  /\ UNCHANGED <<option, on, missed>>

Next == Poll \/ \E e \in Events : Happen(e)

Spec == Init /\ [][Next]_vars

(* The initiator's receiver is on while the response is on the air: "This  *)
(* allows for the receiver to enable on the initiator at the same time as  *)
(* responder is transmitting it's message" (ss_twr_initiator_sts.c, NOTE   *)
(* 14), whatever the configuration.                                        *)
HearsResponse == ~missed
=============================================================================
