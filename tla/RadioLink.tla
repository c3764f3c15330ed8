------------------------------ MODULE RadioLink ------------------------------
(***************************************************************************)
(* What one transmission attempt, a call of _send_pull_resp, promises the  *)
(* scheduler that made it:                                                 *)
(*                                                                         *)
(*   - it puts the packet on the air at most once;                         *)
(*   - "ok" is only said of a packet that has been on the air;             *)
(*   - a refusal ("dropped", "refused", "not_sent") is only said of a      *)
(*     packet that has not been on the air, and it never will be;          *)
(*   - "failed" leaves open whether the packet was on the air, and promises*)
(*     that it will not go on the air any more.                            *)
(*                                                                         *)
(* "no_ack" and "cancelled" promise nothing: the packet may go on the air  *)
(* after the caller was told.                                              *)
(***************************************************************************)
EXTENDS Integers

CONSTANT Attempts

VARIABLES
    outcome,   \* what the caller of the attempt knows
    sent       \* how many times the attempt's packet went on the air

Refused   == {"dropped", "refused", "not_sent"}
Uncertain == {"no_ack", "cancelled"}

Ask(a) ==
    /\ outcome[a] = "none"
    /\ outcome' = [outcome EXCEPT ![a] = "asked"]
    /\ UNCHANGED sent

Emit(a) ==
    /\ outcome[a] \in Uncertain \cup {"asked"}
    /\ sent[a] = 0
    /\ sent' = [sent EXCEPT ![a] = 1]
    /\ UNCHANGED outcome

Confirm(a) ==
    /\ outcome[a] = "asked"
    /\ sent[a] = 1
    /\ outcome' = [outcome EXCEPT ![a] = "ok"]
    /\ UNCHANGED sent

Refuse(a) ==
    /\ outcome[a] \in {"none", "asked"}
    /\ sent[a] = 0
    /\ \E o \in Refused : outcome' = [outcome EXCEPT ![a] = o]
    /\ UNCHANGED sent

Fail(a) ==
    /\ outcome[a] = "asked"
    /\ outcome' = [outcome EXCEPT ![a] = "failed"]
    /\ UNCHANGED sent

GiveUp(a) ==
    /\ outcome[a] = "asked"
    /\ \E o \in Uncertain : outcome' = [outcome EXCEPT ![a] = o]
    /\ UNCHANGED sent

Init ==
    /\ outcome = [a \in Attempts |-> "none"]
    /\ sent = [a \in Attempts |-> 0]

Next ==
    \E a \in Attempts :
       Ask(a) \/ Emit(a) \/ Confirm(a) \/ Refuse(a) \/ Fail(a) \/ GiveUp(a)

vars == <<outcome, sent>>

Spec == Init /\ [][Next]_vars

=============================================================================
