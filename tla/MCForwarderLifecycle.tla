------------------------ MODULE MCForwarderLifecycle ------------------------
(***************************************************************************)
(* ForwarderLifecycle for TLC: process groups are model values.            *)
(***************************************************************************)
EXTENDS ForwarderLifecycle

CONSTANTS g1, g2

TwoGroups == {g1, g2}

=============================================================================
