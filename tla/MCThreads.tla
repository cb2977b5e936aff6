----------------------------- MODULE MCThreads -----------------------------
(* Model-checking instances of MtpThreads. *)
EXTENDS MtpThreads
=============================================================================
