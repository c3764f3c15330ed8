--------------------------- MODULE MCTxScheduler ---------------------------
(***************************************************************************)
(* TxScheduler for TLC: requests and channels are model values.            *)
(***************************************************************************)
EXTENDS TxScheduler, TLC

CONSTANTS r1, r2, r3, a, b

TwoRequests   == {r1, r2}
ThreeRequests == {r1, r2, r3}
TwoChannels   == <<a, b>>
OneChannel    == <<a>>

Symmetry2 == Permutations(TwoRequests)
Symmetry3 == Permutations(ThreeRequests)

=============================================================================
