------------------------------- MODULE Adverts ------------------------------
(***************************************************************************)
(* What the repeater lets through of the adverts it hears: one charge per  *)
(* advert however often it is heard, a bucket of tokens and a least gap    *)
(* per sender, penalties for senders that go on, and limits that follow    *)
(* how busy the mesh is (handler_helpers/advert.py).  A handler runs to    *)
(* its decision without an await; what it stores is in NeighbourRecords.   *)
(*                                                                         *)
(* The averages of a minute are one of the tiers they may amount to.  An   *)
(* advert costs `Cost' parts of a token, and factors are in halves.        *)
(***************************************************************************)
EXTENDS Integers, Sequences, FiniteSets

CONSTANTS
    Adverts,       \* packet hashes of adverts
    Senders,       \* public keys
    Sender,        \* [Adverts -> Senders]
    Activity,      \* tiers the averages may come to amount to
    Configs,      \* [adaptive, limited, penalised] the configuration may have
    None,
    Cost, Capacity, Interval, MinGap,        \* advert_rate_limit
    Threshold, Decay, PenaltyBase, PenaltyMax, \* advert_penalty_box
    TTL, Hysteresis, Window, KeptFor,
    MaxHeard, MaxReloads, MaxClock           \* bounds

VARIABLES
    clock,
    config,       \* the settings in force
    target,       \* the tier the averages amount to
    tier,         \* [now, pending, since]
    updated,      \* _last_metrics_update
    memory,       \* _recent_advert_hashes: when each is forgotten, 0 if not known
    bucket,       \* _bucket_state: [tokens, refilled, seen], or None
    until,        \* _penalty_until, 0 if there is none
    violations,   \* _violation_state: [count, last]
    charged,      \* when each advert was charged (history)
    passed,       \* adverts the limits let through (history)
    refused,      \* when a sender's adverts broke the limits (history)
    heard, reloads \* bounds

vars == <<clock, config, target, tier, updated, memory, bucket, until, violations,
          charged, passed, refused, heard, reloads>>

Twice == [quiet |-> 0, normal |-> 1, busy |-> 2, congested |-> 4]

Lesser(a, b) == IF a <= b THEN a ELSE b

NoViolations == [count |-> 0, last |-> 0]

Init ==
    /\ clock = 1
    /\ config \in Configs
    /\ target = "normal"
    /\ tier = [now |-> "normal", pending |-> None, since |-> 0]
    /\ updated = 1
    /\ memory = [a \in Adverts |-> 0]
    /\ bucket = [k \in Senders |-> None]
    /\ until = [k \in Senders |-> 0]
    /\ violations = [k \in Senders |-> NoViolations]
    /\ charged = [a \in Adverts |-> <<>>]
    /\ passed = [k \in Senders |-> <<>>]
    /\ refused = [k \in Senders |-> <<>>]
    /\ heard = 0 /\ reloads = 0

-----------------------------------------------------------------------------
(* The window of a minute, and the clean-up that may come at its end.      *)

WindowOver == clock - updated >= Window

(* What the averages may be now: they change at the end of a window.       *)
Targets == IF WindowOver /\ config.adaptive THEN Activity ELSE {target}

Cleanings == IF WindowOver THEN BOOLEAN ELSE {FALSE}

Inactive(k) == bucket[k] # None /\ clock - bucket[k].seen > KeptFor

(* Fault: penalties are dropped with the bucket they belong to.            *)
BucketAndPenalty(k) == Inactive(k) \/ until[k] < clock

Expired(k) == until[k] < clock

Faded(v) == IF clock - v.last > Decay THEN [v EXCEPT !.count = 0] ELSE v

(* Fault: a clean-up starts the memory of hashes anew.                     *)
NoHashes == [a \in Adverts |-> 0]

(* _cleanup_old_state: what it leaves of each table.                       *)
HashesLeft == [a \in Adverts |-> IF memory[a] <= clock THEN 0 ELSE memory[a]]

Left(clean) ==
    IF ~clean THEN [bucket |-> bucket, until |-> until, violations |-> violations,
                    memory |-> memory]
    ELSE [bucket |-> [k \in Senders |-> IF Inactive(k) THEN None ELSE bucket[k]],
          until |-> [k \in Senders |-> IF Expired(k) THEN 0 ELSE until[k]],
          violations |-> [k \in Senders |->
              IF Inactive(k) THEN NoViolations ELSE Faded(violations[k])],
          memory |-> HashesLeft]

(* _update_tier: a change has to last.                                     *)
TierFor(next) ==
    IF ~config.adaptive THEN tier
    ELSE IF next = tier.now THEN [tier EXCEPT !.pending = None]
    ELSE IF tier.pending # next THEN [tier EXCEPT !.pending = next, !.since = clock]
    ELSE IF clock - tier.since >= Hysteresis
        THEN [now |-> next, pending |-> None, since |-> 0]
    ELSE tier

-----------------------------------------------------------------------------
(* The limits.                                                             *)

Factor(t) == IF config.adaptive THEN Twice[t.now] ELSE 2

(* Parts of a token that come back in a unit of time.                      *)
Rate(factor) == (2 * Cost) \div (Interval * factor)

Gap(t) == (MinGap * Factor(t)) \div 2

(* Fault: what has come back is not measured from the last refill.         *)
RefilledAgain(s, t) ==
    IF s = None THEN [tokens |-> Capacity, refilled |-> clock, seen |-> 0]
    ELSE [s EXCEPT !.tokens = Lesser(Capacity, @ + (clock - s.refilled) * Rate(Factor(t)))]

Refilled(s, t) ==
    IF s = None THEN [tokens |-> Capacity, refilled |-> clock, seen |-> 0]
    ELSE [s EXCEPT !.tokens = Lesser(Capacity, @ + (clock - s.refilled) * Rate(Factor(t))),
                   !.refilled = clock]

TooSoon(s, t) == Gap(t) > 0 /\ s.seen > 0 /\ clock - s.seen < Gap(t)

(* Fault: an old violation counts for ever.                                *)
ViolatedForEver(v) == [count |-> v.count + 1, last |-> clock]

Violated(v) ==
    [count |-> (IF clock - v.last > Decay THEN 0 ELSE v.count) + 1, last |-> clock]

PenaltyOf(v) == Lesser(PenaltyMax, PenaltyBase * 2 ^ (v.count - Threshold))

(* _record_violation_and_maybe_penalize                                    *)
Penalise(k, left) ==
    LET v == Violated(left.violations[k]) IN
    IF ~config.penalised
    THEN /\ until' = left.until /\ violations' = left.violations
         /\ UNCHANGED refused
    ELSE /\ refused' = [refused EXCEPT ![k] = Append(@, clock)]
         /\ violations' = [left.violations EXCEPT ![k] = v]
         /\ until' = [left.until EXCEPT ![k] =
                IF v.count < Threshold \/ clock + PenaltyOf(v) <= @ THEN @
                ELSE clock + PenaltyOf(v)]

Unlimited(t) == ~config.limited \/ (config.adaptive /\ t.now = "quiet")

(* _allow_advert, after the window and the tier.                           *)
Decide(k, t, left) ==
    LET s == Refilled(left.bucket[k], t) IN
    IF Unlimited(t) \/ clock < left.until[k]
    THEN /\ bucket' = left.bucket /\ until' = left.until /\ violations' = left.violations
         /\ UNCHANGED <<passed, refused>>
    ELSE IF TooSoon(s, t) \/ s.tokens < Cost
    THEN /\ bucket' = [left.bucket EXCEPT ![k] = s]
         /\ Penalise(k, left)
         /\ UNCHANGED passed
    ELSE /\ bucket' = [left.bucket EXCEPT ![k] = [s EXCEPT !.tokens = @ - Cost, !.seen = clock]]
         /\ until' = left.until /\ violations' = left.violations
         /\ passed' = [passed EXCEPT ![k] =
                Append(@, [at |-> clock, gap |-> Gap(t), banned |-> until[k]])]
         /\ UNCHANGED refused

(* process_advert_packet up to its decision.  A copy is measured, and      *)
(* changes nothing else, whether the first was let through or not.         *)
Hear(a) ==
    /\ heard < MaxHeard
    /\ heard' = heard + 1
    /\ updated' = IF WindowOver THEN clock ELSE updated
    /\ \E clean \in Cleanings, next \in Targets :
        /\ target' = next
        /\ LET left == Left(clean) IN
           IF memory[a] > clock
           THEN /\ memory' = left.memory /\ bucket' = left.bucket
                /\ until' = left.until /\ violations' = left.violations
                /\ UNCHANGED <<tier, charged, passed, refused>>
           ELSE /\ memory' = [left.memory EXCEPT ![a] = clock + TTL]
                /\ charged' = [charged EXCEPT ![a] = Append(@, clock)]
                /\ tier' = TierFor(next)
                /\ Decide(Sender[a], TierFor(next), left)
    /\ UNCHANGED <<clock, config, reloads>>

(* Adverts of others fill the memory, and this one was heard least lately. *)
PushedOut(a) ==
    /\ memory[a] > clock
    /\ memory' = [memory EXCEPT ![a] = 0]
    /\ charged' = [charged EXCEPT ![a] = <<>>]
    /\ UNCHANGED <<clock, config, target, tier, updated, bucket, until, violations,
                   passed, refused, heard, reloads>>

(* A clean-up with too many senders: those let through least lately go.    *)
Forgotten(k) ==
    /\ bucket[k] # None
    /\ bucket' = [bucket EXCEPT ![k] = None]
    /\ until' = [until EXCEPT ![k] = 0]
    /\ violations' = [violations EXCEPT ![k] = NoViolations]
    /\ passed' = [passed EXCEPT ![k] = <<>>]
    /\ refused' = [refused EXCEPT ![k] = <<>>]
    /\ UNCHANGED <<clock, config, target, tier, updated, memory, charged, heard, reloads>>

(* reload_config: the tables stay as they are.                             *)
Reload ==
    /\ reloads < MaxReloads
    /\ config' \in Configs \ {config}
    /\ reloads' = reloads + 1
    /\ UNCHANGED <<clock, target, tier, updated, memory, bucket, until, violations,
                   charged, passed, refused, heard>>

Tick ==
    /\ clock < MaxClock
    /\ clock' = clock + 1
    /\ UNCHANGED <<config, target, tier, updated, memory, bucket, until, violations,
                   charged, passed, refused, heard, reloads>>

Next ==
    \/ \E a \in Adverts : Hear(a) \/ PushedOut(a)
    \/ \E k \in Senders : Forgotten(k)
    \/ Reload
    \/ Tick

Spec == Init /\ [][Next]_vars

-----------------------------------------------------------------------------
(* What the theorems about the limits assume: an advert fits into a bucket,*)
(* a bucket that is dropped for its age would have been full by then and   *)
(* the gap over, and the rest has its type.                                *)
Tiers == Activity \cup {"normal"}

LimitsAssumption ==
    /\ Sender \in [Adverts -> Senders]
    /\ Tiers \subseteq DOMAIN Twice
    /\ Configs \subseteq [adaptive : BOOLEAN, limited : BOOLEAN, penalised : BOOLEAN]
    /\ None \notin [tokens : Int, refilled : Int, seen : Int]
    /\ {Cost, Capacity, Interval} \subseteq Nat \ {0} /\ Cost <= Capacity
    /\ {MinGap, Threshold, Decay, PenaltyBase, PenaltyMax, TTL, KeptFor} \subseteq Nat
    /\ Capacity <= Rate(1) * KeptFor
    /\ \A n \in {2} \cup {Twice[t] : t \in Tiers} : (MinGap * n) \div 2 <= KeptFor
    /\ MaxHeard \in Nat /\ \A n \in 0..MaxHeard : 2 ^ n \in Nat

(* Properties.                                                             *)

(* An advert is charged once while it is remembered, whatever clean-ups    *)
(* come between its copies (advert.py:208-236, 545-555).                   *)
ChargedOnce ==
    \A a \in Adverts : \A i, j \in DOMAIN charged[a] :
        i < j => charged[a][j] - charged[a][i] >= TTL

(* A sender never gets more through than a full bucket and what came back  *)
(* at the best rate, never sooner than the gap in force and never under a  *)
(* penalty, across tiers, clean-ups and reloads (advert.py:403-447).       *)
WithinLimits ==
    \A k \in Senders : LET s == passed[k] IN
        \A j \in DOMAIN s :
            /\ s[j].at >= s[j].banned
            /\ j > 1 => s[j].at - s[j - 1].at >= s[j].gap
            /\ \A i \in 1..j : (j - i + 1) * Cost <= Capacity + Rate(1) * (s[j].at - s[i].at)

(* A penalty takes violations none of which had faded before the next.     *)
PenaltiesDeserved ==
    \A k \in Senders : until[k] > clock =>
        \E s \in {refused[k]} : \E n \in DOMAIN s :
            /\ n >= Threshold
            /\ \A i \in n - Threshold + 2 .. n : s[i] - s[i - 1] <= Decay

LimitsKept == WithinLimits /\ PenaltiesDeserved
=============================================================================
