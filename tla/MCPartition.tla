---------------------------- MODULE MCPartition ----------------------------
(* Every network of four nodes and three channels with delays 0 and 1.     *)
EXTENDS MtpPartition
=============================================================================
