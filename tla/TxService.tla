------------------------------ MODULE TxService ------------------------------
(***************************************************************************)
(* What the transmit path promises the code that calls                     *)
(* WM1303Backend.send, one request at a time and without any queue:        *)
(*                                                                         *)
(*   - a request gets at most one reply and a reply is never revised;      *)
(*   - a request is on the air at most once;                               *)
(*   - "ok" is only said of a request that was on the air;                 *)
(*   - a refusal is only said of a request that was not on the air and     *)
(*     never will be.                                                      *)
(*                                                                         *)
(* A caller that stops waiting ("timeout", "cancelled") learns nothing: a  *)
(* transmission already under way may still happen.  One step of the       *)
(* transmitter may move several requests, as when a full queue accepts a   *)
(* request and refuses its oldest one, or a stop drains every queue.       *)
(***************************************************************************)
EXTENDS Integers

CONSTANT Requests

VARIABLES
    reply,   \* what the request's future holds
    aired    \* how many times the request was on the air

Refusals == {"dropped_overflow", "ttl_expired", "queue_stopped"}
GivenUp  == {"timeout", "cancelled"}
Results  == {"ok", "failed", "scheduler_stopped"}
Replies  == Refusals \cup GivenUp \cup Results

Accept(r) ==
    /\ reply[r] = "none"
    /\ reply'[r] \in {"pending", "dropped_overflow", "queue_stopped"}
    /\ aired'[r] = aired[r]

Refuse(r) ==
    /\ reply[r] = "pending"
    /\ aired[r] = 0
    /\ reply'[r] \in Refusals
    /\ aired'[r] = aired[r]

GiveUp(r) ==
    /\ reply[r] = "pending"
    /\ reply'[r] \in GivenUp
    /\ aired'[r] = aired[r]

(* An attempt ends: the request may have been on the air, for the first    *)
(* time, and the caller is told unless it has left.                        *)
Attempt(r) ==
    /\ reply[r] \in GivenUp \cup {"pending"}
    /\ aired[r] = 0
    /\ aired'[r] \in {0, 1}
    /\ IF reply[r] = "pending"
         THEN /\ reply'[r] \in Results
              /\ reply'[r] = "ok" => aired'[r] = 1
         ELSE reply'[r] = reply[r]

Idle(r) == reply'[r] = reply[r] /\ aired'[r] = aired[r]

Init ==
    /\ reply = [r \in Requests |-> "none"]
    /\ aired = [r \in Requests |-> 0]

Next ==
    /\ reply' \in [Requests -> Replies \cup {"none", "pending"}]
    /\ aired' \in [Requests -> {0, 1}]
    /\ \A r \in Requests :
          Idle(r) \/ Accept(r) \/ Refuse(r) \/ GiveUp(r) \/ Attempt(r)

Spec == Init /\ [][Next]_<<reply, aired>>

=============================================================================
