------------------------------ MODULE MCRounds ------------------------------
(* Model-checking instances of MtpRounds. *)
EXTENDS MtpRounds

\* Two LPs joined by a link.
PairLinks == {<<1, 2>>, <<2, 1>>}
PairDelay == [l \in PairLinks |-> 1]

\* The same link without delay, and (with three LPs) an LP that shares no link:
\* the smallest and the largest lookahead there is.
ZeroDelay == [l \in PairLinks |-> 0]
=============================================================================
