----------------------------- MODULE ByteStream -----------------------------
(***************************************************************************)
(* What a channel of SEGGER_RTT.c promises: the bytes of each call come    *)
(* out at the other end once, unchanged and in order. How much of a call   *)
(* is sent (all, a part or nothing) is decided when it is made, and what   *)
(* is to be sent may show in several steps.                                *)
(***************************************************************************)
EXTENDS Sequences, Naturals

VARIABLES
  rest,   \* what the call in progress has yet to send
  stream  \* bytes that were sent and not taken yet

Init == rest = <<>> /\ stream = <<>>

Call(text) == rest = <<>> /\ rest' = text /\ UNCHANGED stream

Send(n) == /\ stream' = stream \o SubSeq(rest, 1, n)
           /\ rest' = SubSeq(rest, n + 1, Len(rest))

Take(n) == stream' = SubSeq(stream, n + 1, Len(stream)) /\ UNCHANGED rest

(* Any text may be sent, the one that is being sent next among them.       *)
Next == \/ Call(rest')
        \/ \E n \in 1 .. Len(rest) : Send(n)
        \/ \E n \in 1 .. Len(stream) : Take(n)

Spec == Init /\ [][Next]_<<rest, stream>>
=============================================================================
