----------------------------- MODULE MCTxOrder -----------------------------
(* TxOrder for TLC. *)
EXTENDS TxOrder, TLC

CONSTANTS r1, r2, r3, a, b

TwoRequests   == {r1, r2}
ThreeRequests == {r1, r2, r3}
OneChannel    == <<a>>
TwoChannels   == <<a, b>>
Symmetry2     == Permutations(TwoRequests)
Symmetry3     == Permutations(ThreeRequests)

(* What TxOneChannel.cfg tells states apart by: all but airVars, which no  *)
(* guard and none of the properties of that run reads.                     *)
WithoutAir == <<queue, future, retries, pc, cur, callerVars, roundVars,
                stopVars, before, overtaken>>

=============================================================================
