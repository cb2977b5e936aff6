----------------------------- MODULE MCTcpSwift -----------------------------
(* Segments of 2 bytes, a BDP of 3 and one of 30 segments.                  *)
EXTENDS TcpSwift
=============================================================================
