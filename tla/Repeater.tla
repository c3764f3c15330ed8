------------------------------ MODULE Repeater ------------------------------
(***************************************************************************)
(* The repeater engine (engine.py): its memory of the packets it has seen, *)
(* which packets it relays, and the tasks that send them.                  *)
(*                                                                         *)
(* One event loop; an action is what happens between two awaits.  Of a     *)
(* packet are kept the key under which it is remembered and whether it     *)
(* passes the checks that look at nothing but it and the configuration.    *)
(***************************************************************************)
EXTENDS Naturals, Sequences, FiniteSets

CONSTANTS
    Keys,        \* packet hashes
    Jobs,        \* sending tasks there may be at a time (bound)
    MaxSeen,     \* max_cache_size, 1000
    TTL,         \* cache_ttl, 60 s, in ticks
    MaxPackets,  \* bound on the packets of a behaviour
    MaxClock     \* bound on the ticks of a behaviour

VARIABLES
    mode,       \* repeater.mode in the configuration
    seen,       \* keys of seen_packets in the order of the dictionary
    stamp,      \* [Keys -> age of the last time stamp of the key]
    job,        \* [Jobs -> a delayed_send task]
    forwarded,  \* forwarded_count
    packets,    \* packets so far (bound)
    clock,      \* ticks so far (bound)
    recent,     \* every key ever marked, latest last (history)
    sent,       \* packets that went to the dispatcher and came back (history)
    elsewhere,  \* packets that others counted (history)
    abandoned   \* counted packets whose task was cancelled (history)

memory == <<seen, stamp, recent>>
outcomes == <<sent, elsewhere, abandoned>>
vars == <<mode, memory, job, forwarded, packets, clock, outcomes>>

Packets == [key : Keys, passes : BOOLEAN]
NoJob == [stage |-> "none", role |-> "relay", again |-> FALSE]
Elements(s) == {s[i] : i \in DOMAIN s}

(* What of s is in S, in its order.                                        *)
Kept(s, S) ==
    LET at == {i \in DOMAIN s : s[i] \in S}
        nth(n) == CHOOSE i \in at : Cardinality({j \in at : j <= i}) = n
    IN [n \in 1..Cardinality(at) |-> s[nth(n)]]

Init ==
    /\ mode = "forward"
    /\ seen = <<>>
    /\ stamp = [k \in Keys |-> 0]
    /\ job = [j \in Jobs |-> NoJob]
    /\ forwarded = 0
    /\ packets = 0
    /\ clock = 0
    /\ recent = <<>>
    /\ sent = 0
    /\ elsewhere = 0
    /\ abandoned = 0

Count == packets < MaxPackets /\ packets' = packets + 1

-----------------------------------------------------------------------------
(* seen_packets.                                                           *)

(* _evict_expired looks from the front only as far as the first fresh entry*)
Evicted(s) ==
    IF \E i \in DOMAIN s : stamp[s[i]] <= TTL
    THEN LET first == CHOOSE i \in DOMAIN s :
                         /\ stamp[s[i]] <= TTL
                         /\ \A j \in 1..(i - 1) : stamp[s[j]] > TTL
         IN SubSeq(s, first, Len(s))
    ELSE <<>>

Moved(s, k) == Append(Kept(s, Keys \ {k}), k)

Bounded(s) == IF Len(s) > MaxSeen THEN Tail(s) ELSE s

(* A new time stamp leaves the entry where it is.                          *)
MarkedInPlace(s, k) == IF k \in Elements(s) THEN s ELSE Bounded(Append(s, k))

(* mark_seen.                                                              *)
Marked(s, k) == Bounded(Moved(s, k))

MarkSeen(s, k) ==
    /\ seen' = Marked(s, k)
    /\ stamp' = [stamp EXCEPT ![k] = 0]
    /\ recent' = Moved(recent, k)

(* is_duplicate.                                                           *)
Duplicate(k) == k \in Elements(Evicted(seen))

(* process_packet relays it: the mode, policy, route, scope, loop, hop and *)
(* path checks let it pass, and it is not remembered.                      *)
Relayed(p) == mode = "forward" /\ p.passes /\ ~Duplicate(p.key)

(* cleanup_cache, every minute.                                            *)
CleanUp ==
    /\ seen' = Kept(seen, {k \in Keys : stamp[k] <= TTL})
    /\ UNCHANGED <<mode, stamp, recent, job, forwarded, packets, clock, outcomes>>

-----------------------------------------------------------------------------
(* Packets.                                                                *)

(* What the decision not to relay leaves of the memory: expired entries    *)
(* leave when it is asked, and a packet fails a check before that or after.*)
Asked(p) ==
    IF mode # "forward" THEN {seen}
    ELSE IF p.passes THEN {Evicted(seen)} ELSE {seen, Evicted(seen)}

Ignore(p) ==
    /\ Count
    /\ ~Relayed(p)
    /\ seen' \in Asked(p)
    /\ UNCHANGED <<mode, stamp, recent, job, forwarded, clock, outcomes>>

Begun(role) == [stage |-> "delay", role |-> role, again |-> FALSE]

(* __call__ for a packet from the air: remembered, and sent after a delay  *)
(* unless the duty cycle says no at once.  An acknowledgement's second copy*)
(* is a task of its own either way.                                        *)
Relay(p, ack, j, x, allowed) ==
    /\ Count
    /\ Relayed(p)
    /\ IF ack THEN x # j ELSE x = j
    /\ job[j] = NoJob
    /\ job[x] = NoJob
    /\ MarkSeen(Evicted(seen), p.key)
    /\ job' = [i \in Jobs |-> IF i = j /\ allowed THEN Begun("relay")
                            ELSE IF i = x /\ ack THEN Begun("extra")
                            ELSE job[i]]
    /\ forwarded' = IF allowed THEN forwarded + 1 ELSE forwarded
    /\ UNCHANGED <<mode, clock, outcomes>>

(* The bridge's repeater handler has the engine decide and hands what is   *)
(* relayed to the bridge itself.                                           *)
RelayByBridge(p) ==
    /\ Count
    /\ IF Relayed(p) THEN MarkSeen(Evicted(seen), p.key)
       ELSE /\ seen' \in Asked(p)
            /\ UNCHANGED <<stamp, recent>>
    /\ UNCHANGED <<mode, job, forwarded, clock, outcomes>>

(* A packet of our own; what the duty cycle refuses is sent later.         *)
Originate(k, j) ==
    /\ Count
    /\ job[j] = NoJob
    /\ IF mode = "no_tx"
       THEN UNCHANGED <<memory, job, forwarded>>
       ELSE /\ MarkSeen(seen, k)
            /\ job' = [job EXCEPT ![j] = Begun("local")]
            /\ forwarded' = forwarded + 1
    /\ UNCHANGED <<mode, clock, outcomes>>

(* _update_repeater_counters, after the bridge forwarded a packet by its   *)
(* rules, and log_trace_record (engine.py:479-487) raise the same count.   *)
CountElsewhere ==
    /\ Count
    /\ forwarded' = forwarded + 1
    /\ elsewhere' = elsewhere + 1
    /\ UNCHANGED <<mode, memory, job, clock, sent, abandoned>>

(* An advert of ours that went through the bridge.                         *)
Announced(k) ==
    /\ Count
    /\ MarkSeen(seen, k)
    /\ UNCHANGED <<mode, job, forwarded, clock, outcomes>>

-----------------------------------------------------------------------------
(* delayed_send.                                                           *)

Wake(j) ==
    /\ job[j].stage = "delay"
    /\ job' = [job EXCEPT ![j].stage = "lock"]
    /\ UNCHANGED <<mode, memory, forwarded, packets, clock, outcomes>>

Enter(j) == job[j].stage = "lock" /\ \A i \in Jobs : job[i].stage # "sending"

(* In the lock the mode and the duty cycle are looked at again.            *)
Transmit(j) ==
    /\ Enter(j)
    /\ mode = "forward" \/ (mode = "monitor" /\ job[j].role = "local")
    /\ job' = [job EXCEPT ![j].stage = "sending"]
    /\ UNCHANGED <<mode, memory, forwarded, packets, clock, outcomes>>

(* The end of the task that __call__ awaits, or of an extra copy.          *)
Refuse(j) ==
    /\ Enter(j)
    /\ job' = [job EXCEPT ![j] = NoJob]
    /\ forwarded' = IF job[j].role = "extra" THEN forwarded ELSE forwarded - 1
    /\ UNCHANGED <<mode, memory, packets, clock, outcomes>>

Sent(j) ==
    /\ job[j].stage = "sending"
    /\ job' = [job EXCEPT ![j] = NoJob]
    /\ sent' = sent + 1
    /\ forwarded' = IF job[j].role = "extra" THEN forwarded + 1 ELSE forwarded
    /\ UNCHANGED <<mode, memory, packets, clock, elsewhere, abandoned>>

(* The exception passes the counters by.                                   *)
FailsCounted(j) ==
    /\ job[j].stage = "sending"
    /\ job' = [job EXCEPT ![j] = NoJob]
    /\ UNCHANGED <<mode, memory, forwarded, packets, clock, outcomes>>

(* A packet of our own is tried again a second later, out of the lock.     *)
Fails(j) ==
    /\ job[j].stage = "sending"
    /\ IF job[j].role = "local" /\ ~job[j].again
       THEN /\ job' = [job EXCEPT ![j] = [@ EXCEPT !.stage = "delay", !.again = TRUE]]
            /\ UNCHANGED forwarded
       ELSE /\ job' = [job EXCEPT ![j] = NoJob]
            /\ forwarded' = IF job[j].role = "extra" THEN forwarded ELSE forwarded - 1
    /\ UNCHANGED <<mode, memory, packets, clock, outcomes>>

(* Whoever awaits the task is cancelled, at a shutdown say, and the task   *)
(* with it.  A cancellation is no Exception: nothing is taken back.        *)
Cancelled(j) ==
    /\ job[j] # NoJob
    /\ job' = [job EXCEPT ![j] = NoJob]
    /\ abandoned' = IF job[j].role = "extra" THEN abandoned ELSE abandoned + 1
    /\ UNCHANGED <<mode, memory, forwarded, packets, clock, sent, elsewhere>>

-----------------------------------------------------------------------------
SetMode(m) ==
    /\ m # mode
    /\ mode' = m
    /\ UNCHANGED <<memory, job, forwarded, packets, clock, outcomes>>

Older(ages) == [k \in Keys |-> IF ages[k] > TTL THEN ages[k] ELSE ages[k] + 1]

Tick ==
    /\ clock < MaxClock
    /\ clock' = clock + 1
    /\ stamp' = Older(stamp)
    /\ UNCHANGED <<mode, seen, recent, job, forwarded, packets, outcomes>>

Send(j) ==
    Wake(j) \/ Transmit(j) \/ Refuse(j) \/ Sent(j) \/ Fails(j) \/ Cancelled(j)

Next ==
    \/ \E p \in Packets :
          \/ Ignore(p)
          \/ \E ack, allowed \in BOOLEAN, j, x \in Jobs : Relay(p, ack, j, x, allowed)
          \/ RelayByBridge(p)
    \/ \E k \in Keys : Announced(k) \/ \E j \in Jobs : Originate(k, j)
    \/ CountElsewhere
    \/ \E j \in Jobs : Send(j)
    \/ \E m \in {"forward", "monitor", "no_tx"} : SetMode(m)
    \/ CleanUp
    \/ Tick

Spec == Init /\ [][Next]_vars

-----------------------------------------------------------------------------
TypeOK ==
    /\ mode \in {"forward", "monitor", "no_tx"}
    /\ seen \in Seq(Keys) /\ recent \in Seq(Keys)
    /\ stamp \in [Keys -> 0..(TTL + 1)]
    /\ job \in [Jobs -> [stage : {"none", "delay", "lock", "sending"},
                         role : {"relay", "local", "extra"}, again : BOOLEAN]]
    /\ {forwarded, sent, elsewhere, abandoned} \subseteq Nat
    /\ packets \in Nat /\ clock \in Nat

(* "OrderedDict is insertion-ordered; oldest entries are first" and "keep  *)
(* the oldest timestamp first so expiry can safely stop at it" (engine.py: *)
(* 758, 770-771): however packets are heard, sent and marked again, the    *)
(* memory holds the MaxSeen latest keys that are not older than the TTL and*)
(* no others: none is relayed twice within it, none is refused beyond it.  *)
RememberedExactly ==
    \A k \in Keys :
        Duplicate(k) <=>
            \E i \in DOMAIN recent :
                /\ recent[i] = k
                /\ i > Len(recent) - MaxSeen
                /\ stamp[k] <= TTL

(* forwarded_count is raised before a packet is sent and put right in four *)
(* places (engine.py:305-362, 1148-1158): it is what was sent, what is     *)
(* being sent and what others counted, and too high by the packets whose   *)
(* task was cancelled and by no other.                                     *)
ForwardedCounted ==
    forwarded = sent + elsewhere + abandoned
                + Cardinality({j \in Jobs : job[j] # NoJob /\ job[j].role # "extra"})

=============================================================================
