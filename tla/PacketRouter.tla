---------------------------- MODULE PacketRouter ----------------------------
(***************************************************************************)
(* PacketRouter (packet_router.py): the queue of packets for local use, the*)
(* route tasks it starts, the calls of the bridge that route a packet      *)
(* directly, and the delivery of PATH and response packets to companions,  *)
(* where copies of one packet share what their recipient answered.         *)
(*                                                                         *)
(* Everything runs on one event loop; an action is what happens between    *)
(* two awaits.  Of the payload types only the two paths are kept that      *)
(* differ in state: with recipients that remember, and without recipients. *)
(***************************************************************************)
EXTENDS Naturals, Sequences, FiniteSets

CONSTANTS
    Slots,        \* route calls there may be at a time (bound)
    Packets,      \* what _companion_dedup_key tells apart
    Recipients,   \* companion bridges a packet may be for
    QueueMax,     \* queue.maxsize, 500
    MaxInFlight,  \* _max_in_flight, 30
    CacheMax,     \* _COMPANION_DEDUPE_MAX_ENTRIES, 1024
    PruneAbove,   \* 200 entries
    TTL,          \* _COMPANION_DEDUPE_TTL_SEC, 60 s, in ticks
    Absent,       \* no entry, no slot
    MaxArrivals,  \* bound on the packets of a behaviour
    MaxClock      \* bound on the ticks of a behaviour

(* What the theorems about the router assume.                              *)
RouterAssumption ==
    /\ IsFiniteSet(Slots)
    /\ QueueMax \in Nat \ {0}
    /\ TTL \in Nat
    /\ Absent \notin Slots \cup Packets \cup Recipients \cup Nat

Keys == Packets \X Recipients

VARIABLES
    queue,      \* the packets waiting
    inFlight,   \* _in_flight
    phase,      \* "running", and the stages of stop()
    kind,       \* [Slots -> "free", a queue's "task" or a bridge's "call"]
    packet,     \* [Slots -> the packet of the route call or Absent]
    todo,       \* [Slots -> recipients yet to be asked]
    pc,         \* [Slots -> where the route call is]
    recipient,  \* [Slots -> the recipient at hand or Absent]
    cancelled,  \* slots whose cancellation awaits the recipient's answer
    owned,      \* slots for which some recipient has owned the packet
    delivered,  \* [Keys -> age of the entry in _companion_delivered or Absent]
    results,    \* keys in _companion_delivery_results (only owned ones are)
    users,      \* [Keys -> slots using the key's lock]: no user, no entry
    holder,     \* [Keys -> the slot in the lock or Absent]
    arrivals,   \* packets so far (bound)
    clock,      \* ticks so far (bound)
    took        \* [Keys -> age of the last ownership that was kept, or Absent]
                \* (history)

callVars  == <<kind, packet, todo, pc, recipient, cancelled, owned>>
cacheVars == <<delivered, results>>
lockVars  == <<users, holder>>
vars == <<queue, inFlight, phase, callVars, cacheVars, lockVars,
          arrivals, clock, took>>

Tasks == {t \in Slots : kind[t] = "task"}
Fresh(age) == age # Absent /\ age < TTL

Init ==
    /\ queue = <<>>
    /\ inFlight = 0
    /\ phase = "running"
    /\ kind = [t \in Slots |-> "free"]
    /\ packet = [t \in Slots |-> Absent]
    /\ todo = [t \in Slots |-> {}]
    /\ pc = [t \in Slots |-> "free"]
    /\ recipient = [t \in Slots |-> Absent]
    /\ cancelled = {}
    /\ owned = {}
    /\ delivered = [k \in Keys |-> Absent]
    /\ results = {}
    /\ users = [k \in Keys |-> {}]
    /\ holder = [k \in Keys |-> Absent]
    /\ arrivals = 0
    /\ clock = 0
    /\ took = [k \in Keys |-> Absent]

-----------------------------------------------------------------------------
(* The queue and its tasks.                                                *)

(* enqueue, of the bridge and of inject_packet: a full queue loses its     *)
(* oldest packet.                                                          *)
Enqueue(p) ==
    /\ arrivals < MaxArrivals
    /\ arrivals' = arrivals + 1
    /\ queue' = Append(IF Len(queue) = QueueMax THEN Tail(queue) ELSE queue, p)
    /\ UNCHANGED <<inFlight, phase, callVars, cacheVars, lockVars, clock, took>>

(* A route call begins, with the recipients its packet's first byte names  *)
(* (none for most payload types).                                          *)
Begin(t, p, as) ==
    /\ kind[t] = "free"
    /\ \E who \in SUBSET Recipients : todo' = [todo EXCEPT ![t] = who]
    /\ kind' = [kind EXCEPT ![t] = as]
    /\ packet' = [packet EXCEPT ![t] = p]
    /\ pc' = [pc EXCEPT ![t] = "next"]
    /\ UNCHANGED <<recipient, cancelled, owned, cacheVars, lockVars, clock, took>>

(* _process_queue: a task for the oldest packet, or, with too many tasks   *)
(* under way, none.                                                        *)
Take(t) ==
    /\ phase = "running"
    /\ queue # <<>>
    /\ queue' = Tail(queue)
    /\ IF inFlight >= MaxInFlight
       THEN UNCHANGED <<inFlight, callVars, cacheVars, lockVars, clock, took>>
       ELSE inFlight' = inFlight + 1 /\ Begin(t, Head(queue), "task")
    /\ UNCHANGED <<phase, arrivals>>

(* The bridge's repeater handler routes a packet without the queue.        *)
Call(t, p) ==
    /\ arrivals < MaxArrivals
    /\ arrivals' = arrivals + 1
    /\ Begin(t, p, "call")
    /\ UNCHANGED <<queue, inFlight, phase>>

(* _on_route_done, for a task that ended; a call just returns.             *)
OnRouteDone(t) ==
    /\ pc[t] = "done"
    /\ inFlight' = IF kind[t] = "task" THEN inFlight - 1 ELSE inFlight
    /\ kind' = [kind EXCEPT ![t] = "free"]
    /\ packet' = [packet EXCEPT ![t] = Absent]
    /\ todo' = [todo EXCEPT ![t] = {}]
    /\ pc' = [pc EXCEPT ![t] = "free"]
    /\ recipient' = [recipient EXCEPT ![t] = Absent]
    /\ cancelled' = cancelled \ {t}
    /\ owned' = owned \ {t}
    /\ UNCHANGED <<queue, phase, cacheVars, lockVars, arrivals, clock, took>>

-----------------------------------------------------------------------------
(* _deliver_to_bridges and _deliver_path_to_bridge.                        *)

(* The next recipient: a lock for the packet and it, made if there is none.*)
UseLock(t) ==
    /\ pc[t] = "next"
    /\ \E r \in todo[t] :
          /\ recipient' = [recipient EXCEPT ![t] = r]
          /\ todo' = [todo EXCEPT ![t] = @ \ {r}]
          /\ users' = [users EXCEPT ![<<packet[t], r>>] = @ \cup {t}]
    /\ pc' = [pc EXCEPT ![t] = "lock"]
    /\ UNCHANGED <<queue, inFlight, phase, kind, packet, cancelled, owned,
                   cacheVars, holder, arrivals, clock, took>>

(* The entries that are removed when there are many: expired, lock unused. *)
Pruned ==
    IF Cardinality({k \in Keys : delivered[k] # Absent}) > PruneAbove
    THEN {k \in Keys : delivered[k] = TTL /\ users[k] = {}}
    ELSE {}

Kept == [k \in Keys |-> IF k \in Pruned THEN Absent ELSE delivered[k]]

Leave(t, k) ==
    /\ users' = [users EXCEPT ![k] = @ \ {t}]
    /\ holder' = [holder EXCEPT ![k] = Absent]

(* In the lock, _should_deliver_path_to_companions: what a copy's recipient*)
(* has owned it owns again without being asked.                            *)
Repeated(t) ==
    LET k == <<packet[t], recipient[t]>>
    IN /\ pc[t] = "lock"
       /\ holder[k] = Absent
       /\ Fresh(delivered[k])
       /\ delivered' = Kept
       /\ results' = results \ Pruned
       /\ owned' = IF k \in results THEN owned \cup {t} ELSE owned
       /\ Leave(t, k)
       /\ pc' = [pc EXCEPT ![t] = "next"]
       /\ recipient' = [recipient EXCEPT ![t] = Absent]
       /\ UNCHANGED <<queue, inFlight, phase, kind, packet, todo, cancelled,
                      arrivals, clock, took>>

(* The lock does not keep the copies apart.                                *)
AskUnlocked(t) ==
    LET k == <<packet[t], recipient[t]>>
    IN /\ pc[t] = "lock"
       /\ ~Fresh(delivered[k])
       /\ delivered' = [Kept EXCEPT ![k] = 0]
       /\ results' = results \ (Pruned \cup {k})
       /\ holder' = [holder EXCEPT ![k] = t]
       /\ pc' = [pc EXCEPT ![t] = "asking"]
       /\ UNCHANGED <<queue, inFlight, phase, kind, packet, todo, recipient,
                      cancelled, owned, users, arrivals, clock, took>>

(* Otherwise the recipient is asked, under a reservation if there is room. *)
Ask(t) ==
    LET k == <<packet[t], recipient[t]>>
        room == Cardinality({j \in Keys \ {k} : Kept[j] # Absent}) < CacheMax
    IN /\ pc[t] = "lock"
       /\ holder[k] = Absent
       /\ ~Fresh(delivered[k])
       /\ delivered' = [Kept EXCEPT ![k] = IF room THEN 0 ELSE Absent]
       /\ results' = results \ (Pruned \cup {k})
       /\ holder' = [holder EXCEPT ![k] = t]
       /\ pc' = [pc EXCEPT ![t] = "asking"]
       /\ UNCHANGED <<queue, inFlight, phase, kind, packet, todo, recipient,
                      cancelled, owned, users, arrivals, clock, took>>

(* The recipient answers.  Only an ownership is remembered, and only with a*)
(* reservation; the rest may be asked again.  A cancellation that came     *)
(* meanwhile takes effect now, but an exception hides it: the caller logs  *)
(* that and goes on.  "lost" is a worker cancelled under its awaiter.      *)
Settle(t, answer) ==
    LET k == <<packet[t], recipient[t]>>
        keep == answer = "owned" /\ delivered[k] # Absent
    IN /\ pc[t] = "asking"
       /\ delivered' = [delivered EXCEPT ![k] = IF keep THEN 0 ELSE Absent]
       /\ results' = IF keep THEN results \cup {k} ELSE results \ {k}
       /\ took' = [took EXCEPT ![k] = IF keep THEN 0 ELSE Absent]
       /\ Leave(t, k)
       /\ IF answer = "lost" \/ (t \in cancelled /\ answer # "raised")
          THEN pc' = [pc EXCEPT ![t] = "done"] /\ UNCHANGED owned
          ELSE /\ pc' = [pc EXCEPT ![t] = "next"]
               /\ owned' = IF answer = "owned" THEN owned \cup {t} ELSE owned
       /\ cancelled' = cancelled \ {t}
       /\ recipient' = [recipient EXCEPT ![t] = Absent]
       /\ UNCHANGED <<queue, inFlight, phase, kind, packet, todo, arrivals, clock>>

(* The rest of _route_packet_unchecked: the helpers and, for a packet      *)
(* nobody owned, the repeater.                                             *)
Rest(t) ==
    /\ pc[t] = "next"
    /\ todo[t] = {}
    /\ pc' = [pc EXCEPT ![t] = "done"]
    /\ UNCHANGED <<queue, inFlight, phase, kind, packet, todo, recipient, cancelled,
                   owned, cacheVars, lockVars, arrivals, clock, took>>

(* A cancelled waiter does not count itself out.                           *)
CancelledUncounted(S) ==
    LET waiting == {t \in S : pc[t] \in {"next", "lock"}}
    IN /\ pc' = [t \in Slots |-> IF t \in waiting THEN "done" ELSE pc[t]]
       /\ cancelled' = cancelled \cup {t \in S : pc[t] = "asking"}
       /\ recipient' = [t \in Slots |-> IF t \in waiting THEN Absent
                                        ELSE recipient[t]]
       /\ UNCHANGED <<queue, inFlight, kind, packet, todo, owned, cacheVars,
                      users, holder, arrivals, clock, took>>

(* The effect of task.cancel(): a waiter leaves the lock's queue, a call   *)
(* whose recipient is at work goes on until the answer.                    *)
Cancelled(S) ==
    LET waiting == {t \in S : pc[t] \in {"next", "lock"}}
    IN /\ pc' = [t \in Slots |-> IF t \in waiting THEN "done" ELSE pc[t]]
       /\ users' = [k \in Keys |-> users[k] \ waiting]
       /\ cancelled' = cancelled \cup {t \in S : pc[t] = "asking"}
       /\ recipient' = [t \in Slots |-> IF t \in waiting THEN Absent
                                        ELSE recipient[t]]
       /\ UNCHANGED <<queue, inFlight, kind, packet, todo, owned, cacheVars,
                      holder, arrivals, clock, took>>

(* The bridge's receive loop is cancelled while it routes a packet.        *)
CancelCall(t) ==
    /\ kind[t] = "call"
    /\ t \notin cancelled
    /\ pc[t] # "done"
    /\ Cancelled({t})
    /\ UNCHANGED phase

-----------------------------------------------------------------------------
(* stop().                                                                 *)

(* The queue's loop ends; the tasks have five seconds.                     *)
Stop ==
    /\ phase = "running"
    /\ phase' = IF Tasks = {} THEN "stopped" ELSE "draining"
    /\ UNCHANGED <<queue, inFlight, callVars, cacheVars, lockVars, arrivals,
                   clock, took>>

(* Tasks that took longer are cancelled.                                   *)
DrainTimeout ==
    /\ phase = "draining"
    /\ phase' = "cancelling"
    /\ Cancelled(Tasks)

Drained ==
    /\ phase \in {"draining", "cancelling"}
    /\ Tasks = {}
    /\ phase' = "stopped"
    /\ UNCHANGED <<queue, inFlight, callVars, cacheVars, lockVars, arrivals,
                   clock, took>>

Older(ages) ==
    [k \in Keys |-> IF ages[k] = Absent \/ ages[k] = TTL THEN ages[k]
                    ELSE ages[k] + 1]

Tick ==
    /\ clock < MaxClock
    /\ clock' = clock + 1
    /\ delivered' = Older(delivered)
    /\ took' = Older(took)
    /\ UNCHANGED <<queue, inFlight, phase, callVars, results, lockVars, arrivals>>

-----------------------------------------------------------------------------
Step(t) ==
    \/ Take(t)
    \/ OnRouteDone(t)
    \/ UseLock(t)
    \/ Repeated(t)
    \/ Ask(t)
    \/ \E answer \in {"owned", "not_ours", "raised", "lost"} : Settle(t, answer)
    \/ Rest(t)

Next ==
    \/ \E p \in Packets : Enqueue(p)
    \/ \E t \in Slots, p \in Packets : Call(t, p)
    \/ \E t \in Slots : Step(t) \/ CancelCall(t)
    \/ Stop
    \/ DrainTimeout
    \/ Drained
    \/ Tick

Spec == Init /\ [][Next]_vars

-----------------------------------------------------------------------------
TypeOK ==
    /\ queue \in Seq(Packets)
    /\ inFlight \in Nat
    /\ phase \in {"running", "draining", "cancelling", "stopped"}
    /\ kind \in [Slots -> {"free", "task", "call"}]
    /\ packet \in [Slots -> Packets \cup {Absent}]
    /\ todo \in [Slots -> SUBSET Recipients]
    /\ pc \in [Slots -> {"free", "next", "lock", "asking", "done"}]
    /\ recipient \in [Slots -> Recipients \cup {Absent}]
    /\ cancelled \in SUBSET Slots
    /\ owned \in SUBSET Slots
    /\ delivered \in [Keys -> (0..TTL) \cup {Absent}]
    /\ results \in SUBSET Keys
    /\ users \in [Keys -> SUBSET Slots]
    /\ holder \in [Keys -> Slots \cup {Absent}]
    /\ arrivals \in Nat
    /\ clock \in Nat
    /\ took \in [Keys -> (0..TTL) \cup {Absent}]

Asking(k) == {t \in Slots : pc[t] = "asking" /\ k = <<packet[t], recipient[t]>>}

(* "so the client is not spammed" and "a failed recipient must remain      *)
(* retryable" (packet_router.py:31-32, 63-64): two copies of a packet are  *)
(* never with a recipient at once; while an ownership is remembered the    *)
(* recipient is not asked again; and a copy that finds an entry finds the  *)
(* answer that goes with it (packet_router.py:218 reads it unchecked).     *)
RecipientAskedOnce ==
    \A k \in Keys :
        /\ Cardinality(Asking(k)) <= 1
        /\ Asking(k) # {} => ~Fresh(took[k])
        /\ Fresh(delivered[k]) /\ Asking(k) = {} => k \in results

(* The lock of a key is in use exactly while somebody uses it, and the     *)
(* counter that limits the tasks counts them: at its end stop() leaves     *)
(* none behind (packet_router.py:92-136, 203-211, 252-255).                *)
NothingLeftBehind ==
    /\ inFlight = Cardinality(Tasks)
    /\ phase = "stopped" => Tasks = {}
    /\ \A k \in Keys : users[k] =
          {t \in Slots : pc[t] \in {"lock", "asking"} /\ k = <<packet[t], recipient[t]>>}

=============================================================================
