------------------------------ MODULE PullResp ------------------------------
(***************************************************************************)
(* One transmission, from WM1303Backend._send_pull_resp to the antenna and *)
(* back.  Four actors: the asyncio tasks that send, serialised by          *)
(* _tx_lock; the UDP reader thread; the callbacks the reader hands to the  *)
(* event loop; and the packet forwarder, whose down thread serves one      *)
(* PULL_RESP at a time.  Between backend and forwarder are datagrams,      *)
(* which keep their order but can be lost.                                 *)
(*                                                                         *)
(* Every packet of the backend asks for immediate transmission, so the     *)
(* forwarder's timestamped (JIT) path takes no part.                       *)
(*                                                                         *)
(* The model is untimed: a wait ends when it may, and a timeout may come   *)
(* at any moment of the wait it bounds.                                    *)
(***************************************************************************)
EXTENDS Sequences, Naturals

CONSTANTS
    Attempts,       \* the calls of _send_pull_resp, each made once
    Tokens,         \* the 16-bit tokens of the datagrams
    None            \* no attempt, no token

ASSUME LinkAssumption ==
    None \notin Attempts \cup Tokens \cup [token : Tokens, attempt : Attempts]

VARIABLES
    running,     \* WM1303Backend._running
    pullAddr,    \* _pull_addr is not None
    line,        \* _tx_lock: its holder, then those waiting for it
    pc,          \* where each attempt is in _send_pull_resp_impl
    token,       \* the token an attempt drew
    pending,     \* _pending_tx_acks
    future,      \* the state of the attempt's _ack_future
    callbacks,   \* results handed to call_soon_threadsafe and not yet run
    result,      \* what the call returned
    echo,        \* attempts whose packet is in _tx_echo_hashes
    resps,       \* PULL_RESP datagrams on their way
    acks,        \* TX_ACK datagrams on their way
    fwd,         \* where the forwarder's down thread is
    job,         \* the PULL_RESP it is serving
    emitting,    \* the attempt whose packet is on the air
    emitted,     \* how many times an attempt's packet went on the air
    cutShort     \* history: it was confirmed by a poll that expired

taskVars == <<line, pc, token, result, echo>>
ackVars  == <<pending, future, callbacks>>
netVars  == <<resps, acks>>
fwdVars  == <<fwd, job>>
airVars  == <<emitting, emitted, cutShort>>
vars == <<running, pullAddr, taskVars, ackVars, netVars, fwdVars, airVars>>

(* What a TX_ACK says, after _handle_udp has read it: "sent", "dropped"    *)
(* for TOO_LATE and the collisions, "failed" for send_failed, "error" for  *)
(* every other refusal.                                                    *)
Acks == {"sent", "dropped", "error", "failed"}

Outcome(ack) ==
    CASE ack = "sent" -> "ok" [] ack = "error" -> "refused" [] OTHER -> ack

Init ==
    /\ running = TRUE
    /\ pullAddr = FALSE
    /\ line = <<>>
    /\ pc = [a \in Attempts |-> "idle"]
    /\ token = [a \in Attempts |-> None]
    /\ pending = [t \in Tokens |-> None]
    /\ future = [a \in Attempts |-> "none"]
    /\ callbacks = {}
    /\ result = [a \in Attempts |-> "none"]
    /\ echo = {}
    /\ resps = <<>>
    /\ acks = <<>>
    /\ fwd = "down"
    /\ job = None
    /\ emitting = None
    /\ emitted = [a \in Attempts |-> 0]
    /\ cutShort = FALSE

-----------------------------------------------------------------------------
(* The sending task.                                                       *)

Holds(a) == line # <<>> /\ Head(line) = a

(* The line without an attempt, which stands in it once at most.           *)
Without(s, a) ==
    IF \E i \in DOMAIN s : s[i] = a
    THEN LET place == CHOOSE i \in DOMAIN s : s[i] = a
         IN  [i \in 1..(Len(s) - 1) |-> IF i < place THEN s[i] ELSE s[i + 1]]
    ELSE s

(* The call returns; leaving the "async with" block frees the lock, and a  *)
(* waiter that goes leaves the line.                                       *)
Finish(a, r) ==
    /\ line' = Without(line, a)
    /\ pc' = [pc EXCEPT ![a] = "done"]
    /\ result' = [result EXCEPT ![a] = r]

Call(a) ==
    /\ pc[a] = "idle"
    /\ running
    /\ pullAddr
    /\ line' = Append(line, a)
    /\ pc' = [pc EXCEPT ![a] = "lock"]
    /\ UNCHANGED <<running, pullAddr, token, result, echo, ackVars, netVars,
                   fwdVars, airVars>>

CallRefused(a) ==
    /\ pc[a] = "idle"
    /\ ~running \/ ~pullAddr
    /\ Finish(a, "not_sent")
    /\ UNCHANGED <<running, pullAddr, token, echo, ackVars, netVars, fwdVars,
                   airVars>>

(* The holder waits until _last_tx_end, for no time if that has passed.    *)
Acquire(a) ==
    /\ pc[a] = "lock"
    /\ Holds(a)
    /\ pc' = [pc EXCEPT ![a] = "guard"]
    /\ UNCHANGED <<running, pullAddr, line, token, result, echo, ackVars,
                   netVars, fwdVars, airVars>>

GuardRefused(a) ==
    /\ pc[a] = "guard"
    /\ ~running \/ ~pullAddr
    /\ Finish(a, "not_sent")
    /\ UNCHANGED <<running, pullAddr, token, echo, ackVars, netVars, fwdVars,
                   airVars>>

(* A token nothing on its way still carries.  The code draws it at random  *)
(* from 65536; two exchanges that overlap with the same token are outside  *)
(* the model.                                                              *)
Fresh(t) ==
    /\ pending[t] = None
    /\ \A i \in DOMAIN resps : resps[i].token # t
    /\ \A i \in DOMAIN acks : acks[i].token # t
    /\ job # None => job.token # t

(* A datagram to a forwarder that is gone is lost.                         *)
Datagram(a, t) ==
    resps' = IF fwd = "down" THEN resps
             ELSE Append(resps, [token |-> t, attempt |-> a])

(* Fault: the second sendto repeats a datagram that had already left.      *)
TransmitTwice(a) ==
    /\ pc[a] = "guard"
    /\ running
    /\ pullAddr
    /\ \E t \in Tokens :
          /\ Fresh(t)
          /\ token' = [token EXCEPT ![a] = t]
          /\ pending' = [pending EXCEPT ![t] = a]
          /\ resps' = IF fwd = "down" THEN resps
                      ELSE resps \o <<[token |-> t, attempt |-> a],
                                      [token |-> t, attempt |-> a]>>
    /\ future' = [future EXCEPT ![a] = "pending"]
    /\ acks' = <<>>
    /\ pc' = [pc EXCEPT ![a] = "ack"]
    /\ UNCHANGED <<running, pullAddr, line, result, echo, callbacks, fwdVars,
                   airVars>>

(* Fault: the packet counts as transmitted once its datagram has left.     *)
TransmitEchoes(a) ==
    /\ pc[a] = "guard"
    /\ running
    /\ pullAddr
    /\ \E t \in Tokens :
          /\ Fresh(t)
          /\ token' = [token EXCEPT ![a] = t]
          /\ pending' = [pending EXCEPT ![t] = a]
          /\ Datagram(a, t)
    /\ future' = [future EXCEPT ![a] = "pending"]
    /\ echo' = echo \cup {a}
    /\ acks' \in {acks, <<>>}
    /\ pc' = [pc EXCEPT ![a] = "ack"]
    /\ UNCHANGED <<running, pullAddr, line, result, callbacks, fwdVars, airVars>>

(* The future is registered before sendto.  A first sendto that raises     *)
(* OSError makes the sender recreate the socket and try again; what the    *)
(* old socket had received is gone.                                        *)
Transmit(a) ==
    /\ pc[a] = "guard"
    /\ running
    /\ pullAddr
    /\ \E t \in Tokens :
          /\ Fresh(t)
          /\ token' = [token EXCEPT ![a] = t]
          /\ pending' = [pending EXCEPT ![t] = a]
          /\ Datagram(a, t)
    /\ future' = [future EXCEPT ![a] = "pending"]
    /\ acks' \in {acks, <<>>}
    /\ pc' = [pc EXCEPT ![a] = "ack"]
    /\ UNCHANGED <<running, pullAddr, line, result, echo, callbacks, fwdVars,
                   airVars>>

(* Both sendto fail, or the first one with another exception, as when the  *)
(* watchdog cleared the address: the registration is withdrawn.            *)
TransmitFails(a) ==
    /\ pc[a] = "guard"
    /\ running
    /\ Finish(a, "not_sent")
    /\ future' = [future EXCEPT ![a] = "cancelled"]
    /\ acks' \in {acks, <<>>}
    /\ UNCHANGED <<running, pullAddr, token, echo, pending, callbacks, resps,
                   fwdVars, airVars>>

(* The finally block: whatever ended the wait, nothing stays registered    *)
(* and an unresolved future is cancelled.                                  *)
Unregister(a) ==
    /\ pending' = [pending EXCEPT ![token[a]] = None]
    /\ future' = [future EXCEPT ![a] = IF @ = "pending" THEN "cancelled" ELSE @]

(* Fault: an acknowledgement that never comes is awaited for ever.         *)
AckTimeoutNever(a) == FALSE /\ UNCHANGED vars

(* Fault: a missing acknowledgement is taken for a dropped packet.         *)
AckTimeoutDropped(a) ==
    /\ pc[a] = "ack"
    /\ Finish(a, "dropped")
    /\ Unregister(a)
    /\ UNCHANGED <<running, pullAddr, token, echo, callbacks, netVars, fwdVars,
                   airVars>>

(* Fault: the registration outlives the wait.                              *)
AckTimeoutLeaks(a) ==
    /\ pc[a] = "ack"
    /\ Finish(a, "no_ack")
    /\ future' = [future EXCEPT ![a] = IF @ = "pending" THEN "cancelled" ELSE @]
    /\ UNCHANGED <<running, pullAddr, token, echo, pending, callbacks, netVars,
                   fwdVars, airVars>>

(* wait_for may time out although the future was resolved in the same turn *)
(* of the event loop.                                                      *)
AckTimeout(a) ==
    /\ pc[a] = "ack"
    /\ Finish(a, "no_ack")
    /\ Unregister(a)
    /\ UNCHANGED <<running, pullAddr, token, echo, callbacks, netVars, fwdVars,
                   airVars>>

AckResolved(a) ==
    /\ pc[a] = "ack"
    /\ future[a] \in Acks
    /\ Finish(a, Outcome(future[a]))
    /\ echo' = IF future[a] = "sent" THEN echo \cup {a} ELSE echo
    /\ Unregister(a)
    /\ UNCHANGED <<running, pullAddr, token, callbacks, netVars, fwdVars, airVars>>

(* The task is cancelled at one of its awaits.                             *)
Cancel(a) ==
    /\ pc[a] \in {"lock", "guard", "ack"}
    /\ Finish(a, "cancelled")
    /\ IF pc[a] = "ack" THEN Unregister(a) ELSE UNCHANGED <<pending, future>>
    /\ UNCHANGED <<running, pullAddr, token, echo, callbacks, netVars, fwdVars,
                   airVars>>

Task(a) ==
    \/ Call(a) \/ CallRefused(a)
    \/ Acquire(a) \/ GuardRefused(a)
    \/ Transmit(a) \/ TransmitFails(a)
    \/ AckResolved(a) \/ AckTimeout(a) \/ Cancel(a)

-----------------------------------------------------------------------------
(* The reader thread and the event loop.                                   *)

(* Fault: the acknowledgement answers whichever future is registered.      *)
HandleAckAnyToken ==
    /\ acks # <<>>
    /\ acks' = Tail(acks)
    /\ LET waiting == {pending[t] : t \in Tokens} \ {None}
       IN  callbacks' = callbacks \cup
               {[attempt |-> a, ack |-> Head(acks).ack] : a \in waiting}
    /\ pending' = [t \in Tokens |-> None]
    /\ UNCHANGED <<running, pullAddr, taskVars, future, resps, fwdVars, airVars>>

(* _handle_udp and _tx_ack_store.                                          *)
HandleAck ==
    /\ acks # <<>>
    /\ acks' = Tail(acks)
    /\ LET m == Head(acks)
           a == pending[m.token]
       IN  /\ pending' = [pending EXCEPT ![m.token] = None]
           /\ callbacks' = IF a # None /\ future[a] = "pending"
                           THEN callbacks \cup {[attempt |-> a, ack |-> m.ack]}
                           ELSE callbacks
    /\ UNCHANGED <<running, pullAddr, taskVars, future, resps, fwdVars, airVars>>

(* The lambda of call_soon_threadsafe: set_result unless already done.     *)
RunCallback ==
    \E c \in callbacks :
       /\ callbacks' = callbacks \ {c}
       /\ future' = [future EXCEPT ![c.attempt] = IF @ = "pending" THEN c.ack ELSE @]
       /\ UNCHANGED <<running, pullAddr, taskVars, pending, netVars, fwdVars,
                      airVars>>

PullData ==
    /\ running
    /\ fwd # "down"
    /\ ~pullAddr
    /\ pullAddr' = TRUE
    /\ UNCHANGED <<running, taskVars, ackVars, netVars, fwdVars, airVars>>

-----------------------------------------------------------------------------
(* The forwarder's down thread.                                            *)

SendAck(ack) == acks' = Append(acks, [token |-> job.token, ack |-> ack])

EndJob == fwd' = "ready" /\ job' = None

Receive ==
    /\ fwd = "ready"
    /\ resps # <<>>
    /\ job' = Head(resps)
    /\ resps' = Tail(resps)
    /\ fwd' = "check"
    /\ UNCHANGED <<running, pullAddr, taskVars, ackVars, acks, airVars>>

(* TX_FREQ: the frequency is outside the chain's range.                    *)
RejectFrequency ==
    /\ fwd = "check"
    /\ SendAck("error")
    /\ EndJob
    /\ UNCHANGED <<running, pullAddr, taskVars, ackVars, resps, airVars>>

(* TOO_LATE: the concentrator did not report TX_FREE within 500 ms.        *)
NotFree ==
    /\ fwd = "check"
    /\ SendAck("dropped")
    /\ EndJob
    /\ UNCHANGED <<running, pullAddr, taskVars, ackVars, resps, airVars>>

(* CAD ends clear or forced; lgw_send puts the packet on the air.          *)
StartEmission ==
    /\ fwd = "check"
    /\ emitting = None
    /\ emitting' = job.attempt
    /\ emitted' = [emitted EXCEPT ![job.attempt] = @ + 1]
    /\ fwd' = "poll"
    /\ UNCHANGED <<running, pullAddr, taskVars, ackVars, netVars, job,
                   cutShort>>

(* CAD or listen-before-talk keeps the packet off the air: "blocked".      *)
SendBlocked ==
    /\ fwd = "check"
    /\ emitting = None
    /\ SendAck("error")
    /\ EndJob
    /\ UNCHANGED <<running, pullAddr, taskVars, ackVars, resps, airVars>>

(* lgw_send returns an error: before it triggers the radio, or after, when *)
(* listen-before-talk cannot be read or stopped (loragw_hal.c 1603-1628)   *)
(* and the packet is on its way, or was until the abort.                   *)
SendFails ==
    /\ fwd = "check"
    /\ emitting = None
    /\ SendAck("failed")
    /\ EndJob
    /\ \/ UNCHANGED <<emitting, emitted>>
       \/ /\ emitting' = job.attempt
          /\ emitted' = [emitted EXCEPT ![job.attempt] = @ + 1]
    /\ UNCHANGED <<running, pullAddr, taskVars, ackVars, resps, cutShort>>

(* Fault: the acknowledgement does not wait for TX_FREE.                   *)
ConfirmAtOnce ==
    /\ fwd = "poll"
    /\ SendAck("sent")
    /\ EndJob
    /\ UNCHANGED <<running, pullAddr, taskVars, ackVars, resps, airVars>>

(* TX_FREE was seen: the emission is over.                                 *)
Confirm ==
    /\ fwd = "poll"
    /\ emitting # job.attempt
    /\ SendAck("sent")
    /\ EndJob
    /\ UNCHANGED <<running, pullAddr, taskVars, ackVars, resps, airVars>>

(* Fault: a poll that expires is reported as TOO_LATE.                     *)
PollExpiresTooLate ==
    /\ fwd = "poll"
    /\ emitting = job.attempt
    /\ SendAck("dropped")
    /\ EndJob
    /\ UNCHANGED <<running, pullAddr, taskVars, ackVars, resps, airVars>>

(* The poll gives up after the estimated airtime + 100 ms and says "sent". *)
PollExpires ==
    /\ fwd = "poll"
    /\ emitting = job.attempt
    /\ SendAck("sent")
    /\ EndJob
    /\ cutShort' = TRUE
    /\ UNCHANGED <<running, pullAddr, taskVars, ackVars, resps, emitting, emitted>>

EmissionEnds ==
    /\ emitting # None
    /\ emitting' = None
    /\ cutShort' = FALSE
    /\ UNCHANGED <<running, pullAddr, taskVars, ackVars, netVars, fwdVars, emitted>>

Forwarder ==
    \/ Receive \/ RejectFrequency \/ NotFree \/ StartEmission \/ SendBlocked
    \/ SendFails \/ Confirm \/ PollExpires \/ EmissionEnds

-----------------------------------------------------------------------------
(* What may go wrong around them.                                          *)

LoseResp ==
    /\ resps # <<>>
    /\ resps' = Tail(resps)
    /\ UNCHANGED <<running, pullAddr, taskVars, ackVars, acks, fwdVars, airVars>>

LoseAck ==
    /\ acks # <<>>
    /\ acks' = Tail(acks)
    /\ UNCHANGED <<running, pullAddr, taskVars, ackVars, resps, fwdVars, airVars>>

(* The forwarder exits; the concentrator may finish what it was emitting.  *)
ForwarderDies ==
    /\ fwd # "down"
    /\ fwd' = "down"
    /\ job' = None
    /\ resps' = <<>>
    /\ UNCHANGED <<running, pullAddr, taskVars, ackVars, acks, airVars>>

(* _stop_pktfwd_process has reaped it: the address is forgotten.           *)
ForgetAddress ==
    /\ fwd = "down"
    /\ pullAddr
    /\ pullAddr' = FALSE
    /\ UNCHANGED <<running, taskVars, ackVars, netVars, fwdVars, airVars>>

(* A new forwarder, after the reset that ends any emission.                *)
ForwarderStarts ==
    /\ running
    /\ fwd = "down"
    /\ fwd' = "ready"
    /\ emitting' = None
    /\ cutShort' = FALSE
    /\ UNCHANGED <<running, pullAddr, taskVars, ackVars, netVars, job, emitted>>

Stop ==
    /\ running
    /\ running' = FALSE
    /\ UNCHANGED <<pullAddr, taskVars, ackVars, netVars, fwdVars, airVars>>

Next ==
    \/ \E a \in Attempts : Task(a)
    \/ HandleAck \/ RunCallback \/ PullData
    \/ Forwarder
    \/ LoseResp \/ LoseAck
    \/ ForwarderDies \/ ForgetAddress \/ ForwarderStarts
    \/ Stop

(* The event loop runs what is ready: a free lock is passed on, a sleep    *)
(* ends, a wait_for times out.  Nothing is assumed of the reader, the      *)
(* network or the forwarder.                                               *)
Fairness ==
    \A a \in Attempts :
       /\ WF_vars(Acquire(a))
       /\ WF_vars(GuardRefused(a) \/ Transmit(a) \/ TransmitFails(a))
       /\ WF_vars(AckTimeout(a))

Spec == Init /\ [][Next]_vars

FairSpec == Spec /\ Fairness

-----------------------------------------------------------------------------
(* Properties.                                                             *)

Datagrams == [token : Tokens, attempt : Attempts]

(* Every variable keeps to the values the code can give it.                *)
TypeOK ==
    /\ running \in BOOLEAN
    /\ pullAddr \in BOOLEAN
    /\ line \in Seq(Attempts)
    /\ pc \in [Attempts -> {"idle", "lock", "guard", "ack", "done"}]
    /\ token \in [Attempts -> Tokens \cup {None}]
    /\ pending \in [Tokens -> Attempts \cup {None}]
    /\ future \in [Attempts -> Acks \cup {"none", "pending", "cancelled"}]
    /\ callbacks \subseteq [attempt : Attempts, ack : Acks]
    /\ result \in [Attempts -> {"none", "ok", "dropped", "refused", "failed",
                                "no_ack", "not_sent", "cancelled"}]
    /\ echo \subseteq Attempts
    /\ resps \in Seq(Datagrams)
    /\ acks \in Seq([token : Tokens, ack : Acks])
    /\ fwd \in {"down", "ready", "check", "poll"}
    /\ job \in Datagrams \cup {None}
    /\ emitting \in Attempts \cup {None}
    /\ emitted \in [Attempts -> Nat]
    /\ cutShort \in BOOLEAN

(* What the scheduler builds on (tx_queue.py 838-861 sends a "dropped"     *)
(* packet again): "ok" is said of a packet that was on the air, and a      *)
(* refusal of one that was not and, as this holds in every state, never    *)
(* will be, whatever late, lost or crossing datagrams there are.  "failed" *)
(* is no refusal in this sense: that packet may be on the air.             *)
OutcomesTrue ==
    \A a \in Attempts :
       /\ result[a] = "ok" => emitted[a] = 1
       /\ result[a] \in {"dropped", "refused", "not_sent"} => emitted[a] = 0

(* A registered future is that of the call that holds _tx_lock and waits   *)
(* for its acknowledgement: no way out of the call, by timeout, error or   *)
(* cancellation, leaves one behind for a later token to hit.               *)
NoStaleRegistration ==
    \A t \in Tokens : pending[t] # None =>
       /\ Holds(pending[t])
       /\ pc[pending[t]] = "ack"
       /\ token[pending[t]] = t

(* wm1303_backend.py 4278-4280: only confirmed transmissions may suppress  *)
(* subsequent echoes.  A packet that was never on the air must not be      *)
(* discarded as our own when somebody else sends it.                       *)
EchoOnlyOfEmitted == \A a \in echo : emitted[a] = 1 /\ result[a] = "ok"

(* wm1303_backend.py 4210-4214 and 4255-4258: the transmission is already  *)
(* complete when its acknowledgement arrives, so 50 ms of guard are enough.*)
OverWhenConfirmed ==
    \A a \in Attempts : result[a] = "ok" => emitting # a

(* So it is as far as the forwarder's poll waited for TX_FREE.             *)
OverUnlessCutShort ==
    \A a \in Attempts : result[a] = "ok" /\ emitting = a => cutShort

(* Every call ends, even if no acknowledgement ever comes, and so the lock *)
(* is passed on to the next one (the docstring of _send_pull_resp_impl:    *)
(* no stuck locks).                                                        *)
EveryCallEnds == \A a \in Attempts : pc[a] = "lock" ~> pc[a] = "done"

(* The attempt as RadioLink promises it.                                   *)
Link == INSTANCE RadioLink WITH
    outcome <- [a \in Attempts |->
                  IF pc[a] = "idle" THEN "none"
                  ELSE IF pc[a] = "done" THEN result[a] ELSE "asked"],
    sent <- emitted

KeepsLink == Link!Spec

=============================================================================
