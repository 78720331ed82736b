------------------------------ MODULE MCLePend ------------------------------
(* Commands without a bound, and one fault of the air.                     *)
EXTENDS LePend
=============================================================================
