----------------------------- MODULE MCTransfer -----------------------------
(* Two nodes in two LPs.                                                    *)
EXTENDS MtpTransfer

MCNodeSystem == [n \in Node |-> IF n = "a" THEN 1 ELSE 2]
=============================================================================
