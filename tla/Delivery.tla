------------------------------ MODULE Delivery ------------------------------
(***************************************************************************)
(* What the acknowledged transfer of ex_07a and ex_07b promises: messages  *)
(* numbered from 0 reach the receiving application in order and without a  *)
(* gap. The sender goes on to the next message only when the receiving     *)
(* chip has the current one. Receiving a message again changes nothing     *)
(* here: the promise is "at least once".                                   *)
(***************************************************************************)
EXTENDS Naturals

VARIABLES
  next,    \* the message the sender is at: it holds next confirmations
  stored,  \* messages the receiving chip has had
  taken    \* messages the receiving application has read

Init == next = 0 /\ stored = 0 /\ taken = 0

(* The current message arrives for the first time. The application has     *)
(* read all earlier ones: the chip holds one message at a time.            *)
Arrive == /\ stored = next /\ taken = stored
          /\ stored' = stored + 1
          /\ UNCHANGED <<next, taken>>

Take == /\ taken < stored
        /\ taken' = taken + 1
        /\ UNCHANGED <<next, stored>>

(* The sender learns that the current message has arrived. The application *)
(* may not have read it yet: the chip acknowledges by itself.              *)
Confirm == /\ stored = next + 1
           /\ next' = next + 1
           /\ UNCHANGED <<stored, taken>>

Next == Arrive \/ Take \/ Confirm

Spec == Init /\ [][Next]_<<next, stored, taken>>
=============================================================================
