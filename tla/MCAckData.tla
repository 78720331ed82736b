----------------------------- MODULE MCAckData -----------------------------
(* The runs of AckData.                                                    *)
EXTENDS AckData
=============================================================================
