----------------------------- MODULE MCPullResp -----------------------------
(***************************************************************************)
(* PullResp for TLC: attempts and tokens are model values.                 *)
(***************************************************************************)
EXTENDS PullResp, TLC

CONSTANTS a1, a2, a3, t1, t2, t3

TwoAttempts   == {a1, a2}
ThreeAttempts == {a1, a2, a3}
TwoTokens     == {t1, t2}
ThreeTokens   == {t1, t2, t3}

Symmetry3 == Permutations(ThreeAttempts) \cup Permutations(ThreeTokens)
Symmetry2 == Permutations(TwoAttempts) \cup Permutations(TwoTokens)

=============================================================================
