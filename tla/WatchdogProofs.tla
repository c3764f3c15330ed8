--------------------------- MODULE WatchdogProofs ---------------------------
(***************************************************************************)
(* Proofs about Watchdog: the respawn budget, when a restart is a deep     *)
(* reset, and how long systemd may wait for a sign of life.                *)
(*                                                                         *)
(* The second part is about other budgets of time, those of the adverts    *)
(* that the repeater lets through: a sender's bucket is right by the       *)
(* history of what was let through (BucketRight), its penalty by that of   *)
(* its refusals (PenaltyRight), and stays so whichever tiers, clean-ups    *)
(* and reloads come between two adverts.                                   *)
(*                                                                         *)
(* The last part is about what is kept of measurements, RetentionTiers and *)
(* TierQuery: each is in one place at most, in a bucket it lies in, and    *)
(* those within the retention are there, in the tables worked on and in    *)
(* the committed ones (TablesRight). A query sees such tables, and makes   *)
(* its buckets of whole ones (WidthsFit), since buckets of buckets are     *)
(* buckets of what they hold (BucketOfBucket).                             *)
(***************************************************************************)
EXTENDS Watchdog, Integers, Sequences, FiniteSetTheorems, TLAPS

(* The thresholds of the code, both 2: with a higher one a second restart  *)
(* in silence is not yet a deep reset.                                     *)
Thresholds == RestartThreshold = 2 /\ CrashThreshold = 2

Live(ages) == {age \in ages : age < Window}

(* _respawn_times and the history of exits agree on what is in the window. *)
BudgetInv ==
    /\ respawns \subseteq 0..Window
    /\ exits \subseteq 0..Window
    /\ Live(exits) = Live(respawns)
    /\ Cardinality(Live(exits)) <= RespawnMax

(* The counters and the history of receptions agree since the last restart *)
(* on channels A to D.                                                     *)
SilenceInv ==
    /\ restarts \in Nat
    /\ crashes \in Nat
    /\ "channel" \in heard => restarts = 0 /\ crashes = 0
    /\ "channel" \notin heard => restarts >= 1

-----------------------------------------------------------------------------
(* A window holds finitely many ages.                                      *)
LEMMA LiveFinite ==
  ASSUME NEW S \in SUBSET (0..Window)
  PROVE  IsFiniteSet(Live(S))
<1>1. Live(S) \subseteq 0..Window
  BY DEF Live
<1>2. IsFiniteSet(0..Window)
  BY FS_Interval, TickAssumption
<1> QED
  BY <1>1, <1>2, FS_Subset

(* Time never fills the window.                                            *)
LEMMA OlderLive ==
  ASSUME NEW S \in SUBSET (0..Window)
  PROVE  /\ Older(S) \subseteq 0..Window
         /\ Live(Older(S)) = {age + 1 : age \in {x \in Live(S) : x + 1 < Window}}
         /\ Cardinality(Live(Older(S))) <= Cardinality(Live(S))
<1> Window \in Nat
  BY TickAssumption
<1>1. Older(S) \subseteq 0..Window
  BY SMT DEF Older, Least
<1> DEFINE Staying == {x \in Live(S) : x + 1 < Window}
<1>2. Live(Older(S)) = {age + 1 : age \in Staying}
  BY SMT DEF Live, Older, Least
<1>3. IsFiniteSet(Live(S))
  BY LiveFinite
<1>4. Staying \subseteq Live(S)
  OBVIOUS
<1>5. IsFiniteSet(Staying) /\ Cardinality(Staying) <= Cardinality(Live(S))
  BY <1>3, <1>4, FS_Subset
<1>6. /\ IsFiniteSet({age + 1 : age \in Staying})
      /\ Cardinality({age + 1 : age \in Staying}) <= Cardinality(Staying)
  <2> DEFINE f == [age \in Staying |-> age + 1]
  <2>1. f \in Surjection(Staying, {age + 1 : age \in Staying})
    BY DEF Surjection
  <2> QED
    BY <2>1, <1>5, FS_Surjection
<1>7. /\ Cardinality(Staying) \in Nat
      /\ Cardinality(Live(S)) \in Nat
      /\ Cardinality({age + 1 : age \in Staying}) \in Nat
  BY <1>3, <1>5, <1>6, FS_CardinalityType
<1> QED
  BY <1>1, <1>2, <1>5, <1>6, <1>7

(* A respawn adds one age to the window.                                   *)
LEMMA RespawnLive ==
  ASSUME NEW S \in SUBSET (0..Window)
  PROVE  /\ S \cup {0} \subseteq 0..Window
         /\ Live(S \cup {0}) = Live(S) \cup {0}
         /\ Live(Live(S) \cup {0}) = Live(S) \cup {0}
         /\ Live(S) \subseteq 0..Window
         /\ Live(Live(S)) = Live(S)
         /\ Cardinality(Live(S)) \in Nat
         /\ Cardinality(Live(S) \cup {0}) \in Nat
         /\ Cardinality(Live(S) \cup {0}) <= Cardinality(Live(S)) + 1
<1>1. Window \in Nat /\ 0 < Window
  BY TickAssumption
<1>2. /\ S \cup {0} \subseteq 0..Window
      /\ Live(S \cup {0}) = Live(S) \cup {0}
      /\ Live(Live(S) \cup {0}) = Live(S) \cup {0}
      /\ Live(S) \subseteq 0..Window
      /\ Live(Live(S)) = Live(S)
  <2> 0 \in 0..Window
    BY <1>1
  <2>1. S \cup {0} \subseteq 0..Window /\ Live(S) \subseteq 0..Window
    BY Zenon DEF Live
  <2>2. Live(S \cup {0}) = Live(S) \cup {0}
    BY <1>1 DEF Live
  <2>3. Live(Live(S)) = Live(S)
    BY DEF Live
  <2>4. \A T : Live(T \cup {0}) = Live(T) \cup {0}
    BY <1>1 DEF Live
  <2>5. Live(Live(S) \cup {0}) = Live(S) \cup {0}
    BY <2>3, <2>4
  <2> QED
    BY <2>1, <2>2, <2>3, <2>5
<1>3. IsFiniteSet(Live(S))
  BY LiveFinite
<1>4. /\ IsFiniteSet(Live(S) \cup {0})
      /\ Cardinality(Live(S) \cup {0}) =
           IF 0 \in Live(S) THEN Cardinality(Live(S)) ELSE Cardinality(Live(S)) + 1
  BY <1>3, FS_AddElement
<1>5. Cardinality(Live(S)) \in Nat
  BY <1>3, FS_CardinalityType
<1> QED
  BY <1>2, <1>4, <1>5

-----------------------------------------------------------------------------
(* Nothing but time, a respawn and a cooldown touches the respawn history. *)
LEMMA BudgetElsewhere ==
  ASSUME [Next]_vars, ~Tick, ~Respawn, ~Cooldown
  PROVE  UNCHANGED <<respawns, exits>>
<1> USE DEF counters, history, Restart, SleepFor
<1>1. CASE AckRestart \/ SpikeRestart \/ TimeoutRestart
  BY <1>1 DEF AckRestart, SpikeRestart, TimeoutRestart
<1>2. CASE AllWell \/ RestartSucceeds \/ RestartFails
  BY <1>2 DEF AllWell, RestartSucceeds, RestartFails
<1>3. CASE Exits \/ Spikes \/ Receive \/ AckTimesOut \/ AckArrives
  BY <1>3 DEF Exits, Spikes, Receive, Rx, AckTimesOut, AckArrives
<1>4. CASE UNCHANGED vars
  BY <1>4 DEF vars
<1> QED
  BY <1>1, <1>2, <1>3, <1>4 DEF Next, Loop

(* The window's count stays within the limit.                              *)
LEMMA BudgetStep ==
  ASSUME BudgetInv, [Next]_vars
  PROVE  BudgetInv'
<1> RespawnMax \in Nat
  BY TickAssumption
<1>1. CASE Tick
  <2>1. respawns' = Older(respawns) /\ exits' = Older(exits)
    BY <1>1 DEF Tick
  <2>2. respawns \in SUBSET (0..Window) /\ exits \in SUBSET (0..Window)
    BY DEF BudgetInv
  <2>3. respawns' \subseteq 0..Window /\ exits' \subseteq 0..Window
    BY <2>1, <2>2, OlderLive
  <2>4. Live(exits') = Live(respawns')
    BY <2>1, <2>2, OlderLive DEF BudgetInv
  <2>5. /\ Cardinality(Live(exits')) <= Cardinality(Live(exits))
        /\ Cardinality(Live(exits')) \in Nat
        /\ Cardinality(Live(exits)) \in Nat
    BY <2>1, <2>2, <2>3, OlderLive, LiveFinite, FS_CardinalityType
  <2> QED
    BY <2>3, <2>4, <2>5 DEF BudgetInv, Live
<1>2. CASE Respawn
  <2>1. /\ respawns' = Live(respawns) \cup {0}
        /\ exits' = exits \cup {0}
        /\ ~(Cardinality(Live(respawns)) >= RespawnMax)
    BY <1>2 DEF Respawn, LimitReached, Recent, Live
  <2>2. respawns \in SUBSET (0..Window) /\ exits \in SUBSET (0..Window)
    BY DEF BudgetInv
  <2>3. respawns' \subseteq 0..Window /\ exits' \subseteq 0..Window
    BY <2>1, <2>2, RespawnLive
  <2>4. Live(exits') = Live(respawns')
    BY <2>1, <2>2, RespawnLive DEF BudgetInv
  <2>5. Live(exits') = Live(respawns) \cup {0}
    BY <2>1, <2>2, RespawnLive DEF BudgetInv
  <2>6. /\ Cardinality(Live(respawns)) \in Nat
        /\ Cardinality(Live(exits')) \in Nat
        /\ Cardinality(Live(exits')) <= Cardinality(Live(respawns)) + 1
    BY <2>2, <2>5, RespawnLive
  <2>7. Cardinality(Live(exits')) <= RespawnMax
    BY <2>1, <2>6
  <2> QED
    BY <2>3, <2>4, <2>7 DEF BudgetInv, Live
<1>3. CASE Cooldown
  <2>1. respawns' = Live(respawns) /\ exits' = exits
    BY <1>3 DEF Cooldown, SleepFor, Recent, Live
  <2>2. respawns \in SUBSET (0..Window)
    BY DEF BudgetInv
  <2>3. respawns' \subseteq 0..Window /\ Live(respawns') = Live(respawns)
    BY <2>1, <2>2, RespawnLive
  <2> QED
    BY <2>1, <2>3 DEF BudgetInv, Live
<1>4. CASE ~Tick /\ ~Respawn /\ ~Cooldown
  <2>1. UNCHANGED <<respawns, exits>>
    BY <1>4, BudgetElsewhere
  <2> QED
    BY <2>1 DEF BudgetInv, Live
<1> QED
  BY <1>1, <1>2, <1>3, <1>4

(* In no window do more than _respawn_max_per_hour restarts follow an      *)
(* exit, for every window, limit, cooldown and duration of a restart.      *)
THEOREM RespawnsBounded == Spec => []RespawnBudget
<1>1. Init => BudgetInv
  <2> SUFFICES ASSUME Init
               PROVE  BudgetInv
    OBVIOUS
  <2>1. respawns = {} /\ exits = {} /\ Live(exits) = {}
    BY DEF Init, Live
  <2>2. Cardinality({}) = 0
    BY FS_EmptySet
  <2> QED
    BY <2>1, <2>2, TickAssumption DEF BudgetInv, Live
<1>2. BudgetInv /\ [Next]_vars => BudgetInv'
  BY BudgetStep
<1>3. BudgetInv => RespawnBudget
  BY DEF BudgetInv, RespawnBudget, Live
<1> QED
  BY <1>1, <1>2, <1>3, PTL DEF Spec

-----------------------------------------------------------------------------
(* A step leaves the counters and the history of receptions alone, begins  *)
(* a restart, or is a reception.                                           *)
LEMMA SilenceSteps ==
  ASSUME [Next]_vars
  PROVE  \/ UNCHANGED <<restarts, crashes, heard>> /\ ~Begins
         \/ Restart(FALSE) /\ UNCHANGED crashes
         \/ /\ crashes' = Least(crashes + 1, CrashThreshold)
            /\ Restart(crashes' >= CrashThreshold)
         \/ \E kind \in Kinds : Rx(kind)
<1> USE DEF counters, history, SleepFor, Begins, Wakes
<1>1. CASE Respawn \/ AckRestart \/ SpikeRestart \/ TimeoutRestart
  BY <1>1 DEF Respawn, AckRestart, SpikeRestart, TimeoutRestart
<1>2. CASE Cooldown \/ AllWell
  BY <1>2 DEF Cooldown, AllWell, Well
<1>3. CASE RestartSucceeds \/ RestartFails
  BY <1>3 DEF RestartSucceeds, RestartFails
<1>4. CASE Receive
  BY <1>4 DEF Receive
<1>5. CASE Tick \/ Exits \/ Spikes \/ AckTimesOut \/ AckArrives
  BY <1>5 DEF Tick, Exits, Spikes, AckTimesOut, AckArrives
<1>6. CASE UNCHANGED vars
  BY <1>6 DEF vars
<1> QED
  BY <1>1, <1>2, <1>3, <1>4, <1>5, <1>6 DEF Next, Loop

(* The counters count what happened since the last reception.              *)
LEMMA SilenceStep ==
  ASSUME SilenceInv, [Next]_vars
  PROVE  SilenceInv'
<1> CrashThreshold \in Nat /\ RestartThreshold \in Nat /\ RestartThreshold >= 1
  BY TickAssumption
<1>1. CASE UNCHANGED <<restarts, crashes, heard>>
  BY <1>1 DEF SilenceInv
<1>2. ASSUME heard' = {},
             restarts' = Least(restarts + 1, RestartThreshold),
             crashes' \in {crashes, Least(crashes + 1, CrashThreshold)}
      PROVE  SilenceInv'
  BY <1>2, SMT DEF SilenceInv, Least
<1>3. CASE \E kind \in Kinds : Rx(kind)
  BY <1>3, SMT DEF SilenceInv, Rx, Kinds
<1>4. CASE Restart(FALSE) /\ UNCHANGED crashes
  BY <1>2, <1>4 DEF Restart
<1>5. CASE /\ crashes' = Least(crashes + 1, CrashThreshold)
           /\ Restart(crashes' >= CrashThreshold)
  BY <1>2, <1>5 DEF Restart
<1> QED
  BY <1>1, <1>3, <1>4, <1>5, SilenceSteps

(* With the thresholds of the code, a restart is a deep reset exactly when *)
(* nothing was received on channels A to D since the one before.           *)
THEOREM DeepExactlyInSilence ==
  ASSUME Thresholds
  PROVE  Spec => EscalatesInSilence
<1>1. Init => SilenceInv
  BY DEF Init, SilenceInv
<1>2. SilenceInv /\ [Next]_vars => SilenceInv'
  BY SilenceStep
<1>3. ASSUME SilenceInv, [Next]_vars, Begins
      PROVE  deep' <=> "channel" \notin heard
  <2>1. CASE Restart(FALSE)
    <3>1. deep' <=> restarts' >= RestartThreshold
      BY <2>1 DEF Restart
    <3>2. restarts' = Least(restarts + 1, 2)
      BY <2>1 DEF Restart, Thresholds
    <3>3. (restarts' >= RestartThreshold) <=> "channel" \notin heard
      BY <1>3, <3>2, SMT DEF SilenceInv, Least, Thresholds
    <3> QED
      BY <3>1, <3>3, Zenon
  <2>2. CASE /\ crashes' = Least(crashes + 1, CrashThreshold)
             /\ Restart(crashes' >= CrashThreshold)
    <3>1. deep' <=> (crashes' >= CrashThreshold \/ restarts' >= RestartThreshold)
      BY <2>2 DEF Restart
    <3>2. restarts' = Least(restarts + 1, 2) /\ crashes' = Least(crashes + 1, 2)
      BY <2>2 DEF Restart, Thresholds
    <3>3. (crashes' >= CrashThreshold \/ restarts' >= RestartThreshold)
            <=> "channel" \notin heard
      BY <1>3, <3>2, SMT DEF SilenceInv, Least, Thresholds
    <3> QED
      BY <3>1, <3>3, Zenon
  <2>3. ~\E kind \in Kinds : Rx(kind)
    BY <1>3 DEF Rx, Begins
  <2> QED
    BY <1>3, <2>1, <2>2, <2>3, SilenceSteps
<1>4. SilenceInv /\ [Next]_vars
        => [Begins => (deep' <=> "channel" \notin heard)]_vars
  BY <1>3
<1> QED
  BY <1>1, <1>2, <1>4, PTL DEF Spec, EscalatesInSilence

-----------------------------------------------------------------------------
(* The time since the last sign of life and what is left of the sleep or   *)
(* restart under way: a cooldown is slept in one go, and a restart is      *)
(* followed by a sleep.                                                    *)
FedInv ==
    /\ left \in Nat
    /\ fed \in Nat
    /\ ~cooling => fed + left <= (IF pc = "restart" THEN 0 ELSE 1) + RestartTicks
    /\ cooling => pc = "sleep" /\ fed + left <= NapTicks + 1

(* Time moves from what is left to what has passed; a turn of the loop     *)
(* begins with a sign of life, and the end of a restart with a sleep of    *)
(* one tick.                                                               *)
LEMMA FedStep ==
  ASSUME FedInv, [Next]_vars
  PROVE  FedInv'
<1> /\ RestartTicks \in Nat \ {0}
    /\ NapTicks \in Nat \ {0}
    /\ Longest \in Nat
  BY TickAssumption DEF Longest
<1> USE DEF FedInv
<1>1. CASE Tick
  <2>1. /\ left > 0 /\ left' = left - 1 /\ pc' = pc /\ cooling' = cooling
        /\ fed' = Least(fed + 1, Longest)
    BY <1>1 DEF Tick
  <2>2. PICK l \in Nat, f \in Nat : l = left - 1 /\ f = Least(fed + 1, Longest)
    BY <2>1 DEF Least
  <2>3. left' = l /\ fed' = f
    BY <2>1, <2>2
  <2>4. f + l <= fed + left
    BY <2>2 DEF Least
  <2>5. left' \in Nat /\ fed' \in Nat /\ fed' + left' <= fed + left
    BY <2>3, <2>4
  <2> DEFINE most == (IF pc = "restart" THEN 0 ELSE 1) + RestartTicks
  <2>6. ~cooling' => fed' + left' <= most
    <3>1. most \in Nat
      OBVIOUS
    <3>2. SUFFICES ASSUME ~cooling' PROVE f + l <= most
      BY <2>3
    <3>3. fed + left <= most
      BY <2>1, <3>2
    <3> QED
      BY <2>4, <3>1, <3>3
  <2>7. cooling' => pc' = "sleep" /\ fed' + left' <= NapTicks + 1
    <3>1. SUFFICES ASSUME cooling' PROVE pc = "sleep" /\ f + l <= NapTicks + 1
      BY <2>1, <2>3
    <3>2. pc = "sleep" /\ fed + left <= NapTicks + 1
      BY <2>1, <3>1
    <3> QED
      BY <2>4, <3>2
  <2> QED
    BY <2>1, <2>5, <2>6, <2>7
<1>2. ASSUME NEW ticks \in {1, NapTicks + 1}, SleepFor(ticks), pc = "sleep"
      PROVE  FedInv'
  <2>1. left' = ticks /\ fed' = 0 /\ pc' = "sleep" /\ ticks \in Nat
    BY <1>2 DEF SleepFor
  <2>2. CASE ticks = 1
    <3>1. cooling' = (ticks > 1)
      BY <1>2 DEF SleepFor
    <3>2. ~(ticks > 1)
      BY <2>2
    <3>3. ~cooling'
      BY <3>1, <3>2, Zenon
    <3> QED
      BY <2>1, <2>2, <3>3
  <2>3. CASE ticks = NapTicks + 1
    <3>1. ticks > 1
      BY <2>3
    <3>2. cooling' = (ticks > 1)
      BY <1>2 DEF SleepFor
    <3>3. cooling'
      BY <3>1, <3>2, Zenon
    <3> QED
      BY <2>1, <3>3
  <2> QED
    BY <2>2, <2>3
<1>3. ASSUME NEW escalate, Restart(escalate)
      PROVE  FedInv'
  <2>1. PICK ticks \in 1..RestartTicks : left' = ticks
    BY <1>3 DEF Restart
  <2>2. fed' = 0 /\ pc' = "restart" /\ ~cooling'
    BY <1>3 DEF Restart
  <2> QED
    BY <2>1, <2>2
<1>4. CASE RestartSucceeds \/ RestartFails
  BY <1>4 DEF RestartSucceeds, RestartFails, counters, history
<1>5. CASE UNCHANGED <<pc, left, fed, cooling>>
  BY <1>5
<1>6. Cooldown \/ AllWell => \E ticks \in {1, NapTicks + 1} : SleepFor(ticks) /\ pc = "sleep"
  BY DEF Cooldown, AllWell, Well, Wakes
<1>7. Respawn \/ AckRestart \/ SpikeRestart \/ TimeoutRestart
        => \E escalate : Restart(escalate)
  BY DEF Respawn, AckRestart, SpikeRestart, TimeoutRestart
<1>8. Exits \/ Spikes \/ Receive \/ AckTimesOut \/ AckArrives \/ UNCHANGED vars
        => UNCHANGED <<pc, left, fed, cooling>>
  BY DEF Exits, Spikes, Receive, Rx, AckTimesOut, AckArrives, counters, history, vars
<1> QED
  BY <1>1, <1>2, <1>3, <1>4, <1>5, <1>6, <1>7, <1>8 DEF Next, Loop

(* Between two signs of life lies one cooldown or one restart at most,     *)
(* with the sleep that follows, for all durations: however restarts fail   *)
(* and follow one another, they never add up.                              *)
THEOREM DelaysNeverAddUp == Spec => []FedBetweenDelays
<1>1. Init => FedInv
  BY TickAssumption DEF Init, FedInv
<1>2. FedInv /\ [Next]_vars => FedInv'
  BY FedStep
<1>3. FedInv => FedBetweenDelays
  <2>1. RestartTicks \in Nat /\ NapTicks \in Nat
    BY TickAssumption
  <2> QED
    BY <2>1 DEF FedInv, FedBetweenDelays
<1> QED
  BY <1>1, <1>2, <1>3, PTL DEF Spec

-----------------------------------------------------------------------------
(* How many adverts come through: Adverts.                                 *)
CONSTANTS Hashes, Senders, Sender, Activity, Configs, Missing, Cost, Capacity, Interval,
          MinGap, Threshold, Decay, PenaltyBase, PenaltyMax, TTL, Hysteresis, Period,
          KeptFor, MaxHeard, MaxReloads, MaxClock

VARIABLES clock, config, target, tier, updated, memory, bucket, until, violations,
          charged, passed, refused, adverts, reloads

Ads == INSTANCE Adverts WITH
    Adverts <- Hashes, None <- Missing, Window <- Period, heard <- adverts

(* Parts of a token that come back in a unit of time, at most.             *)
BestRate == Ads!Rate(1)

(* What the tables and their histories hold.                               *)
BucketType == [tokens : Int, refilled : Int, seen : Int]
PassType == [at : Int, gap : Int, banned : Int]
ViolationType == [count : Nat, last : Int]

(* What WithinLimits says of one sender.                                   *)
Within(s) ==
    \A j \in DOMAIN s :
        /\ s[j].at >= s[j].banned
        /\ j > 1 => s[j].at - s[j - 1].at >= s[j].gap
        /\ \A i \in 1..j : (j - i + 1) * Cost <= Capacity + BestRate * (s[j].at - s[i].at)

(* A bucket is right if what its sender got through is within the limits   *)
(* and is paid for with what it holds; it may be missing only if it would  *)
(* be full.                                                                *)
BucketRight(b, s, now) ==
    /\ s \in Seq(PassType)
    /\ \A j \in DOMAIN s : s[j].at >= 1 /\ s[j].at <= now
    /\ Within(s)
    /\ b = Missing /\ s # <<>> => s[Len(s)].at + KeptFor <= now
    /\ b # Missing =>
          /\ b \in BucketType /\ s # <<>>
          /\ 0 <= b.tokens /\ b.tokens <= Capacity
          /\ b.refilled <= now /\ b.seen = s[Len(s)].at
          /\ \A i \in DOMAIN s :
                (Len(s) - i + 1) * Cost + b.tokens <= Capacity + BestRate * (b.refilled - s[i].at)

(* What was let through by now is paid for, with tokens to spare.          *)
Paid(s, tokens, now) ==
    \A i \in DOMAIN s : (Len(s) - i + 1) * Cost + tokens <= Capacity + BestRate * (now - s[i].at)

(* A penalty was deserved.                                                 *)
Deserved(r) ==
    \E n \in DOMAIN r :
        /\ n >= Threshold
        /\ \A i \in n - Threshold + 2 .. n : r[i] - r[i - 1] <= Decay

(* The violations counted are the last of the history and none had faded,  *)
(* and where there is a penalty it was deserved.                           *)
PenaltyRight(u, v, r) ==
    /\ r \in Seq(Int)
    /\ v \in ViolationType
    /\ v.count > 0 => /\ v.count <= Len(r) /\ v.last = r[Len(r)]
                      /\ \A i \in Len(r) - v.count + 2 .. Len(r) : r[i] - r[i - 1] <= Decay
    /\ u \in Int
    /\ u # 0 => Deserved(r)

-----------------------------------------------------------------------------
(* With any factor in force no more comes back than at the best rate.      *)
LEMMA RateFacts ==
    Ads!LimitsAssumption =>
       /\ BestRate \in Nat
       /\ \A f \in {1, 2, 4} : Ads!Rate(f) \in Nat /\ Ads!Rate(f) <= BestRate
<1> SUFFICES ASSUME Ads!LimitsAssumption
             PROVE  /\ BestRate \in Nat
                    /\ \A f \in {1, 2, 4} : Ads!Rate(f) \in Nat /\ Ads!Rate(f) <= BestRate
  OBVIOUS
<1>1. Cost \in Nat /\ Interval \in Nat /\ Interval >= 1 /\ 2 * Cost \in Nat
  BY DEF Ads!LimitsAssumption
<1>2. ASSUME NEW x \in Nat, NEW d \in Nat, d >= 1, NEW e \in Nat, e >= d
      PROVE  x \div d \in Nat /\ x \div e \in Nat /\ x \div e <= x \div d
  <2>0. ASSUME NEW n \in Nat, n >= 1
        PROVE  x \div n \in Nat /\ n * (x \div n) <= x /\ x < n * (x \div n) + n
    <3>1. x \div n \in Int /\ n * (x \div n) <= x /\ x < n * (x \div n) + n
      BY <2>0, SMTT(30)
    <3>2. x \div n >= 0
      BY <2>0, SMTT(30)
    <3>3. QED
      BY <3>1, <3>2
  <2>1. /\ x \div d \in Nat /\ d * (x \div d) <= x /\ x < d * (x \div d) + d
        /\ x \div e \in Nat /\ e * (x \div e) <= x
    BY <1>2, <2>0
  <2>2. x \div e <= x \div d
    <3> DEFINE p == x \div e
    <3> DEFINE q == x \div d
    <3>1. p \in Nat /\ q \in Nat /\ e * p <= x /\ x < d * q + d
      BY <2>1
    <3> HIDE DEF p, q
    <3>2. d * p <= e * p
      BY <1>2, <3>1
    <3>3. d * p < d * (q + 1)
      <4>1. d * (q + 1) = d * q + d
        BY <3>1
      <4>2. d * p \in Int /\ e * p \in Int /\ d * q \in Int
        BY <3>1
      <4>3. QED
        BY <3>1, <3>2, <4>1, <4>2
    <3>4. p < q + 1
      BY <1>2, <3>1, <3>3
    <3>5. p <= q
      BY <3>1, <3>4
    <3>6. QED
      BY <3>5 DEF p, q
  <2>3. QED
    BY <2>1, <2>2
<1>3. ASSUME NEW f \in {1, 2, 4} PROVE Interval * f \in Nat /\ Interval * f >= Interval * 1
  BY <1>1
<1>4. Interval * 1 = Interval
  BY <1>1
<1>5. QED
  BY <1>1, <1>2, <1>3, <1>4 DEF BestRate, Ads!Rate

(* Time passes.                                                            *)
LEMMA BucketLater ==
    ASSUME Ads!LimitsAssumption, NEW b, NEW s, NEW now \in Int, NEW later \in Int, now <= later,
           BucketRight(b, s, now)
    PROVE  BucketRight(b, s, later)
<1>1. s \in Seq(PassType) /\ KeptFor \in Int
  BY DEF BucketRight, Ads!LimitsAssumption
<1>2. \A j \in DOMAIN s : s[j].at \in Int
  <2>1. \A j \in DOMAIN s : s[j] \in PassType
    BY <1>1
  <2>2. QED
    BY <2>1 DEF PassType
<1>3. s # <<>> => Len(s) \in DOMAIN s
  BY <1>1
<1>4. b # Missing => b.refilled \in Int
  BY DEF BucketRight, BucketType
<1>5. \A j \in DOMAIN s : s[j].at >= 1 /\ s[j].at <= later
  BY <1>2 DEF BucketRight
<1>6. b = Missing /\ s # <<>> => s[Len(s)].at + KeptFor <= later
  <2>1. s # <<>> => s[Len(s)].at \in Int
    BY <1>2, <1>3
  <2>2. QED
    BY <1>1, <2>1 DEF BucketRight
<1>7. b # Missing => b.refilled <= later
  BY <1>4 DEF BucketRight
<1>8. QED
  BY <1>5, <1>6, <1>7 DEF BucketRight

(* A bucket that is old goes.                                              *)
LEMMA BucketGoes ==
    ASSUME Ads!LimitsAssumption, NEW b, NEW s, NEW now \in Int, BucketRight(b, s, now),
           b # Missing, now - b.seen > KeptFor
    PROVE  BucketRight(Missing, s, now)
<1>1. s \in Seq(PassType) /\ KeptFor \in Int /\ b \in BucketType /\ b.seen = s[Len(s)].at
  BY DEF BucketRight, Ads!LimitsAssumption
<1>2. b.seen \in Int
  BY <1>1 DEF BucketType
<1>3. s[Len(s)].at + KeptFor <= now
  BY <1>1, <1>2
<1>4. QED
  BY <1>3 DEF BucketRight

(* What comes back brings no more than the best rate.                      *)
LEMMA BucketFills ==
    ASSUME Ads!LimitsAssumption, NEW b, NEW s, NEW now \in Int, BucketRight(b, s, now),
           b # Missing, NEW rate \in Nat, rate <= BestRate, NEW q \in BucketType,
           q.tokens = Ads!Lesser(Capacity, b.tokens + (now - b.refilled) * rate),
           q.refilled = now, q.seen = b.seen
    PROVE  BucketRight(q, s, now)
<1>0. Missing \notin BucketType /\ Cost \in Nat /\ Capacity \in Nat /\ BestRate \in Nat
  BY RateFacts DEF Ads!LimitsAssumption, BucketType
<1>1. /\ s \in Seq(PassType) /\ b \in BucketType /\ s # <<>> /\ Len(s) \in Nat
      /\ b.tokens \in Int /\ b.refilled \in Int /\ 0 <= b.tokens /\ b.refilled <= now
  BY DEF BucketRight, BucketType
<1> DEFINE back == (now - b.refilled) * rate
<1>2. back \in Int /\ back >= 0 /\ back <= BestRate * (now - b.refilled)
  <2>1. now - b.refilled \in Nat
    BY <1>1
  <2>2. \A n \in Nat : n * rate \in Nat /\ n * rate <= BestRate * n
    BY <1>0
  <2>3. QED
    BY <2>1, <2>2
<1>3. q.tokens = IF Capacity <= b.tokens + back THEN Capacity ELSE b.tokens + back
  BY DEF Ads!Lesser
<1> HIDE DEF back
<1>4. q.tokens \in Int /\ 0 <= q.tokens /\ q.tokens <= Capacity /\ q.tokens <= b.tokens + back
  BY <1>0, <1>1, <1>2, <1>3
<1>5. ASSUME NEW i \in DOMAIN s
      PROVE  (Len(s) - i + 1) * Cost + q.tokens <= Capacity + BestRate * (q.refilled - s[i].at)
  <2> DEFINE c == (Len(s) - i + 1) * Cost
  <2>0. s[i] \in PassType /\ i \in Int
    BY <1>1
  <2>1. c \in Int /\ s[i].at \in Int
    BY <1>0, <1>1, <2>0 DEF PassType
  <2>2. c + b.tokens <= Capacity + BestRate * (b.refilled - s[i].at)
    BY DEF BucketRight
  <2> DEFINE m == now - b.refilled
  <2> DEFINE n == b.refilled - s[i].at
  <2> DEFINE early == BestRate * m
  <2> DEFINE late == BestRate * n
  <2>3. /\ BestRate * (now - s[i].at) = early + late
        /\ early \in Int /\ late \in Int
    <3>0. ASSUME NEW x \in Int, NEW y \in Int, NEW z \in Int
          PROVE  x - y \in Int /\ y - z \in Int /\ (x - y) + (y - z) = x - z
      OBVIOUS
    <3>1. m \in Int /\ n \in Int /\ m + n = now - s[i].at
      <4>1. now \in Int /\ b.refilled \in Int /\ s[i].at \in Int
        BY <1>1, <2>1
      <4> HIDE DEF c
      <4>2. QED
        BY <3>0, <4>1
    <3> HIDE DEF m, n
    <3>2. BestRate * (m + n) = BestRate * m + BestRate * n
      BY <1>0, <3>1
    <3>3. BestRate * m \in Int /\ BestRate * n \in Int
      BY <1>0, <3>1
    <3>4. QED
      BY <3>1, <3>2, <3>3
  <2>4. back <= early /\ c + b.tokens <= Capacity + late
    BY <1>2, <2>2
  <2> HIDE DEF c, early, late
  <2>5. c + q.tokens <= Capacity + BestRate * (now - s[i].at)
    BY <1>0, <1>1, <1>2, <1>4, <2>1, <2>3, <2>4, SMTT(30)
  <2>6. QED
    BY <2>5 DEF c
<1>6. QED
  BY <1>0, <1>1, <1>4, <1>5 DEF BucketRight

(* One more advert is let through, and paid for.                           *)
LEMMA OnePass ==
    ASSUME Ads!LimitsAssumption, NEW s \in Seq(PassType), NEW now \in Int, now >= 1,
           Within(s), \A j \in DOMAIN s : s[j].at >= 1 /\ s[j].at <= now,
           NEW tokens \in Int, Cost <= tokens, tokens <= Capacity,
           Paid(s, tokens, now),
           NEW p \in PassType, p.at = now, p.banned <= now,
           s # <<>> => now - s[Len(s)].at >= p.gap,
           NEW q \in BucketType, q.tokens = tokens - Cost, q.refilled = now, q.seen = now
    PROVE  BucketRight(q, Append(s, p), now)
<1> DEFINE t == Append(s, p)
<1>0. Missing \notin BucketType /\ Cost \in Nat /\ Capacity \in Nat /\ BestRate \in Nat
  BY RateFacts DEF Ads!LimitsAssumption, BucketType
<1>1. /\ t \in Seq(PassType) /\ Len(t) = Len(s) + 1 /\ t[Len(s) + 1] = p
      /\ \A i \in 1..Len(s) : t[i] = s[i]
      /\ Len(s) \in Nat /\ DOMAIN s = 1..Len(s) /\ DOMAIN t = 1..(Len(s) + 1)
      /\ t # <<>> /\ (s = <<>> <=> Len(s) = 0)
  <2>1. /\ t \in Seq(PassType) /\ Len(t) = Len(s) + 1 /\ t[Len(s) + 1] = p
        /\ \A i \in 1..Len(s) : t[i] = s[i]
    OBVIOUS
  <2>2. Len(s) \in Nat /\ DOMAIN s = 1..Len(s) /\ (s = <<>> <=> Len(s) = 0)
    OBVIOUS
  <2> HIDE DEF t
  <2>3. DOMAIN t = 1..(Len(s) + 1) /\ t # <<>>
    BY <2>1, <2>2
  <2>4. QED
    BY <2>1, <2>2, <2>3
<1> HIDE DEF t
<1>2. p.at \in Int /\ p.gap \in Int /\ p.banned \in Int
  BY DEF PassType
<1>3. \A j \in DOMAIN t : t[j].at >= 1 /\ t[j].at <= now
  BY <1>1, <1>2
<1>4. ASSUME NEW i \in DOMAIN t
      PROVE  (Len(t) - i + 1) * Cost + q.tokens <= Capacity + BestRate * (q.refilled - t[i].at)
  <2>1. CASE i = Len(s) + 1
    <3>1. (Len(t) - i + 1) * Cost = Cost
      <4>1. Len(t) - i + 1 = 1
        BY <1>1, <2>1
      <4>2. QED
        BY <1>0, <4>1
    <3>2. q.refilled - t[i].at = 0
      BY <1>1, <2>1
    <3>3. BestRate * (q.refilled - t[i].at) = 0
      BY <1>0, <3>2
    <3> DEFINE x == (Len(t) - i + 1) * Cost
    <3> DEFINE y == BestRate * (q.refilled - t[i].at)
    <3>4. x = Cost /\ y = 0
      BY <3>1, <3>3
    <3> HIDE DEF x, y
    <3>5. x + q.tokens <= Capacity + y
      BY <1>0, <3>4
    <3>6. QED
      BY <3>5 DEF x, y
  <2>2. CASE i \in 1..Len(s)
    <3> DEFINE n == Len(s) - i + 1
    <3> DEFINE back == BestRate * (now - s[i].at)
    <3>1. n \in Int /\ Len(t) - i + 1 = n + 1 /\ t[i] = s[i]
      BY <1>1, <2>2
    <3>2. n * Cost + tokens <= Capacity + back
      BY <1>1, <2>2 DEF Paid
    <3>3. s[i] \in PassType
      BY <1>1, <2>2
    <3>4. s[i].at \in Int
      BY <3>3 DEF PassType
    <3>5. now - s[i].at \in Int
      BY <3>4
    <3>6. back \in Int
      BY <1>0, <3>5
    <3> HIDE DEF n, back
    <3>7. (n + 1) * Cost = n * Cost + Cost /\ n * Cost \in Int
      BY <1>0, <3>1
    <3>8. (n + 1) * Cost + (tokens - Cost) <= Capacity + back
      BY <1>0, <3>2, <3>6, <3>7
    <3>9. QED
      BY <3>1, <3>8 DEF back
  <2>3. QED
    BY <1>1, <2>1, <2>2
<1>5. Within(t)
  <2> SUFFICES ASSUME NEW j \in DOMAIN t
               PROVE  /\ t[j].at >= t[j].banned
                      /\ j > 1 => t[j].at - t[j - 1].at >= t[j].gap
                      /\ \A i \in 1..j : (j - i + 1) * Cost <= Capacity + BestRate * (t[j].at - t[i].at)
    BY DEF Within
  <2>1. CASE j \in 1..Len(s)
    <3>1. t[j] = s[j] /\ (j > 1 => t[j - 1] = s[j - 1]) /\ \A i \in 1..j : t[i] = s[i]
      BY <1>1, <2>1
    <3>2. QED
      BY <1>1, <2>1, <3>1 DEF Within
  <2>2. CASE j = Len(s) + 1
    <3>1. t[j].at = now /\ t[j].gap = p.gap /\ t[j].banned = p.banned /\ j = Len(t)
      BY <1>1, <2>2
    <3>2. j > 1 => t[j].at - t[j - 1].at >= t[j].gap
      BY <1>1, <2>2, <3>1
    <3>3. ASSUME NEW i \in 1..j
          PROVE  (j - i + 1) * Cost <= Capacity + BestRate * (t[j].at - t[i].at)
      <4> DEFINE x == (Len(t) - i + 1) * Cost
      <4> DEFINE y == BestRate * (now - t[i].at)
      <4>1. x + q.tokens <= Capacity + y
        BY <1>1, <1>4, <2>2
      <4>2. t[i] \in PassType
        BY <1>1, <2>2
      <4>3. t[i].at \in Int
        BY <4>2 DEF PassType
      <4>4. now - t[i].at \in Int /\ Len(t) - i + 1 \in Int
        BY <1>1, <4>3
      <4>5. x \in Int /\ y \in Int
        BY <1>0, <4>4
      <4> HIDE DEF x, y
      <4>6. x <= Capacity + y
        BY <1>0, <4>1, <4>5
      <4>7. QED
        BY <3>1, <4>6 DEF x, y
    <3>4. QED
      BY <1>2, <3>1, <3>2, <3>3
  <2>3. QED
    BY <1>1, <2>1, <2>2
<1>6. q \in BucketType /\ t # <<>> /\ 0 <= q.tokens /\ q.tokens <= Capacity /\ q # Missing
  BY <1>0, <1>1
<1>7. q.seen = t[Len(t)].at /\ q.refilled <= now
  BY <1>1
<1>8. BucketRight(q, t, now)
  BY <1>1, <1>3, <1>4, <1>5, <1>6, <1>7 DEF BucketRight
<1>9. QED
  BY <1>8 DEF t

(* From a bucket that was dropped, or never was, the same.                 *)
LEMMA FreshBucket ==
    ASSUME Ads!LimitsAssumption, NEW s, NEW now \in Int, BucketRight(Missing, s, now)
    PROVE  \A i \in DOMAIN s :
              (Len(s) - i + 1) * Cost + Capacity <= Capacity + BestRate * (now - s[i].at)
<1>0. /\ Cost \in Nat /\ Capacity \in Nat /\ BestRate \in Nat /\ KeptFor \in Nat
      /\ Capacity <= BestRate * KeptFor
  BY RateFacts DEF Ads!LimitsAssumption, BestRate
<1>1. /\ s \in Seq(PassType) /\ Len(s) \in Nat /\ DOMAIN s = 1..Len(s)
      /\ s # <<>> => Len(s) \in DOMAIN s
  BY DEF BucketRight
<1> SUFFICES ASSUME NEW i \in DOMAIN s
             PROVE  (Len(s) - i + 1) * Cost + Capacity <= Capacity + BestRate * (now - s[i].at)
  OBVIOUS
<1>2. s # <<>> /\ Len(s) \in DOMAIN s /\ s[Len(s)] \in PassType /\ s[i] \in PassType
      /\ i \in 1..Len(s)
  BY <1>1
<1> DEFINE x == (Len(s) - i + 1) * Cost
<1> DEFINE m == now - s[Len(s)].at
<1> DEFINE n == s[Len(s)].at - s[i].at
<1>3. x <= Capacity + BestRate * n
  BY <1>1, <1>2 DEF BucketRight, Within
<1>4. Len(s) - i + 1 \in Int
  BY <1>1, <1>2
<1>5. x \in Int
  BY <1>0, <1>4
<1> HIDE DEF x
<1>6. s[Len(s)].at \in Int /\ s[i].at \in Int
  BY <1>2 DEF PassType
<1>7. s[Len(s)].at + KeptFor <= now
  BY <1>2 DEF BucketRight
<1>8. m \in Int /\ n \in Int /\ m + n = now - s[i].at /\ m >= KeptFor
  <2>1. ASSUME NEW y \in Int, NEW z \in Int, y + KeptFor <= now
        PROVE  /\ now - y \in Int /\ y - z \in Int /\ (now - y) + (y - z) = now - z
               /\ now - y >= KeptFor
    BY ONLY <1>0, <2>1, now \in Int
  <2>2. QED
    BY <1>6, <1>7, <2>1
<1> HIDE DEF m, n
<1>9. BestRate * (m + n) = BestRate * m + BestRate * n
  BY <1>0, <1>8
<1>10. BestRate * m >= BestRate * KeptFor
  BY <1>0, <1>8
<1>11. BestRate * m \in Int /\ BestRate * n \in Int /\ BestRate * KeptFor \in Int
  BY <1>0, <1>8
<1>12. x + Capacity <= Capacity + BestRate * (m + n)
  BY <1>0, <1>3, <1>5, <1>9, <1>10, <1>11
<1>13. QED
  BY <1>8, <1>12 DEF x
-----------------------------------------------------------------------------
(* A penalty that was deserved remains so.                                 *)
LEMMA StaysDeserved ==
    ASSUME NEW r \in Seq(Int), NEW x \in Int, Deserved(r), Threshold \in Nat
    PROVE  Deserved(Append(r, x))
<1> DEFINE t == Append(r, x)
<1>1. /\ Len(r) \in Nat /\ DOMAIN r = 1..Len(r) /\ DOMAIN t = 1..(Len(r) + 1)
      /\ \A i \in 1..Len(r) : t[i] = r[i]
  OBVIOUS
<1> HIDE DEF t
<1>2. PICK n \in DOMAIN r : /\ n >= Threshold
                            /\ \A i \in n - Threshold + 2 .. n : r[i] - r[i - 1] <= Decay
  BY DEF Deserved
<1>3. ASSUME NEW i \in n - Threshold + 2 .. n PROVE t[i] - t[i - 1] <= Decay
  <2>1. i \in 1..Len(r) /\ i - 1 \in 1..Len(r)
    BY <1>1, <1>2
  <2>2. QED
    BY <1>1, <1>2, <2>1
<1>4. Deserved(t)
  <2>1. n \in DOMAIN t
    BY <1>1
  <2>2. QED
    BY <1>2, <1>3, <2>1 DEF Deserved
<1>5. QED
  BY <1>4 DEF t

(* A violation more.                                                       *)
LEMMA OneViolation ==
    ASSUME Ads!LimitsAssumption, NEW u, NEW v, NEW r, PenaltyRight(u, v, r), NEW now \in Int,
           NEW w \in ViolationType, w.last = now,
           w.count = (IF now - v.last > Decay THEN 0 ELSE v.count) + 1,
           NEW e \in Int, e = u \/ w.count >= Threshold
    PROVE  PenaltyRight(e, w, Append(r, now))
<1> DEFINE t == Append(r, now)
<1>0. Threshold \in Nat /\ Decay \in Nat
  BY DEF Ads!LimitsAssumption
<1>1. r \in Seq(Int) /\ v \in ViolationType /\ u \in Int
  BY DEF PenaltyRight
<1>2. v.count \in Nat /\ v.last \in Int /\ w.count \in Nat
  BY <1>1 DEF ViolationType
<1>3. /\ t \in Seq(Int) /\ Len(t) = Len(r) + 1 /\ t[Len(r) + 1] = now
      /\ \A i \in 1..Len(r) : t[i] = r[i] /\ r[i] \in Int
      /\ Len(r) \in Nat /\ DOMAIN r = 1..Len(r) /\ DOMAIN t = 1..(Len(r) + 1)
  BY <1>1
<1> HIDE DEF t
<1>4. w.count <= Len(t) /\ w.count >= 1 /\ w.last = t[Len(t)]
  BY <1>2, <1>3 DEF PenaltyRight
<1>5. ASSUME NEW i \in Len(t) - w.count + 2 .. Len(t) PROVE t[i] - t[i - 1] <= Decay
  <2>1. w.count # 1 /\ now - v.last <= Decay /\ w.count = v.count + 1 /\ v.count > 0
    <3>1. w.count # 1
      BY <1>2, <1>3, <1>5
    <3>2. QED
      BY <1>0, <1>2, <3>1
  <2>2. /\ v.count <= Len(r) /\ v.last = r[Len(r)]
        /\ \A j \in Len(r) - v.count + 2 .. Len(r) : r[j] - r[j - 1] <= Decay
    BY <2>1 DEF PenaltyRight
  <2>3. CASE i = Len(t)
    <3>1. i - 1 = Len(r) /\ Len(r) \in 1..Len(r)
      BY <1>2, <1>3, <2>1, <2>2, <2>3
    <3>2. QED
      BY <1>3, <2>1, <2>2, <2>3, <3>1
  <2>4. CASE i # Len(t)
    <3>1. i \in Len(r) - v.count + 2 .. Len(r)
      <4>1. Len(t) - w.count + 2 = Len(r) - v.count + 2
        <5>1. Len(t) = Len(r) + 1 /\ w.count = v.count + 1 /\ Len(r) \in Nat /\ v.count \in Nat
          BY <1>2, <1>3, <2>1
        <5>2. ASSUME NEW x \in Nat, NEW y \in Nat PROVE (x + 1) - (y + 1) + 2 = x - y + 2
          OBVIOUS
        <5>3. QED
          BY ONLY <5>1, <5>2
      <4>2. i \in Len(r) - v.count + 2 .. Len(r) + 1 /\ i # Len(r) + 1
        BY <1>3, <2>4, <4>1
      <4>3. QED
        BY <1>2, <1>3, <4>2
    <3>2. i \in 1..Len(r) /\ i - 1 \in 1..Len(r)
      BY <1>2, <1>3, <2>2, <3>1
    <3>3. QED
      BY <1>3, <2>2, <3>1, <3>2
  <2>5. QED
    BY <2>3, <2>4
<1>6. e # 0 => Deserved(t)
  <2>1. CASE w.count >= Threshold
    <3>1. Len(t) \in DOMAIN t /\ Len(t) >= Threshold
      BY <1>0, <1>2, <1>3, <1>4, <2>1
    <3>2. ASSUME NEW i \in Len(t) - Threshold + 2 .. Len(t) PROVE t[i] - t[i - 1] <= Decay
      <4>1. i \in Len(t) - w.count + 2 .. Len(t)
        BY <1>0, <1>2, <1>3, <2>1, <3>2
      <4>2. QED
        BY <1>5, <4>1
    <3>3. QED
      BY <3>1, <3>2 DEF Deserved
  <2>2. CASE e = u
    <3>1. e # 0 => Deserved(r)
      BY <2>2 DEF PenaltyRight
    <3>2. QED
      BY <1>0, <1>1, <3>1, StaysDeserved DEF t
  <2>3. QED
    BY <2>1, <2>2
<1>7. PenaltyRight(e, w, t)
  BY <1>3, <1>4, <1>5, <1>6 DEF PenaltyRight
<1>8. QED
  BY <1>7 DEF t

(* A penalty may be taken away, and violations forgotten.                  *)
LEMMA PenaltyFades ==
    ASSUME NEW u, NEW v, NEW r, PenaltyRight(u, v, r)
    PROVE  /\ PenaltyRight(0, v, r)
           /\ \A w \in ViolationType : w.count = 0 => PenaltyRight(u, w, r) /\ PenaltyRight(0, w, r)
BY DEF PenaltyRight, ViolationType

-----------------------------------------------------------------------------
(* An advert is charged again only when it was forgotten.                  *)
ChargeRight(m, c, now) ==
    /\ c \in Seq(Int)
    /\ \A i, j \in DOMAIN c : i < j => c[j] - c[i] >= TTL
    /\ \A i \in DOMAIN c : c[i] + TTL <= m \/ c[i] + TTL <= now

LEMMA OneCharge ==
    ASSUME TTL \in Nat, NEW m \in Int, NEW c, NEW now \in Int, ChargeRight(m, c, now), m <= now
    PROVE  ChargeRight(now + TTL, Append(c, now), now)
<1> DEFINE t == Append(c, now)
<1>1. /\ t \in Seq(Int) /\ Len(t) = Len(c) + 1 /\ t[Len(c) + 1] = now
      /\ \A i \in 1..Len(c) : t[i] = c[i] /\ c[i] \in Int
      /\ Len(c) \in Nat /\ DOMAIN c = 1..Len(c) /\ DOMAIN t = 1..(Len(c) + 1)
  BY DEF ChargeRight
<1> HIDE DEF t
<1>2. ASSUME NEW i \in 1..Len(c) PROVE c[i] + TTL <= now
  <2>1. c[i] + TTL <= m \/ c[i] + TTL <= now
    BY <1>1 DEF ChargeRight
  <2>2. c[i] + TTL \in Int
    BY <1>1
  <2>3. QED
    BY <2>1, <2>2
<1>3. ASSUME NEW i \in DOMAIN t, NEW j \in DOMAIN t, i < j PROVE t[j] - t[i] >= TTL
  <2>1. i \in 1..Len(c)
    BY <1>1, <1>3
  <2>2. CASE j \in 1..Len(c)
    BY <1>1, <1>3, <2>1, <2>2 DEF ChargeRight
  <2>3. CASE j = Len(c) + 1
    BY <1>1, <1>2, <2>1, <2>3
  <2>4. QED
    BY <1>1, <2>2, <2>3
<1>4. ASSUME NEW i \in DOMAIN t PROVE t[i] + TTL <= now + TTL
  <2>1. CASE i \in 1..Len(c)
    <3>1. t[i] = c[i] /\ c[i] \in Int /\ c[i] + TTL <= now
      BY <1>1, <1>2, <2>1
    <3>2. QED
      BY <3>1
  <2>2. CASE i = Len(c) + 1
    BY <1>1, <2>2
  <2>3. QED
    BY <1>1, <2>1, <2>2
<1>5. ChargeRight(now + TTL, t, now)
  BY <1>1, <1>3, <1>4 DEF ChargeRight
<1>6. QED
  BY <1>5 DEF t

LEMMA ChargeLater ==
    ASSUME TTL \in Nat, NEW m \in Int, NEW c, NEW now \in Int, NEW later \in Int, now <= later,
           ChargeRight(m, c, now)
    PROVE  /\ ChargeRight(m, c, later)
           /\ m <= now => ChargeRight(0, c, now)
<1>1. \A i \in DOMAIN c : c[i] \in Int
  BY DEF ChargeRight
<1>2. QED
  BY <1>1 DEF ChargeRight

-----------------------------------------------------------------------------
(* Types of the state of the limits.                                       *)
TierType == [now : Ads!Tiers, pending : Ads!Tiers \cup {Missing}, since : Int]

LimitTypes ==
    /\ clock \in Int /\ clock >= 1
    /\ config \in Configs
    /\ target \in Ads!Tiers
    /\ tier \in TierType
    /\ memory \in [Hashes -> Int]
    /\ bucket \in [Senders -> BucketType \cup {Missing}]
    /\ until \in [Senders -> Int]
    /\ violations \in [Senders -> ViolationType]
    /\ charged \in [Hashes -> Seq(Int)]
    /\ passed \in [Senders -> Seq(PassType)]
    /\ refused \in [Senders -> Seq(Int)]
    /\ adverts \in 0..MaxHeard

(* Each sender's tables are right, and each advert's charges.              *)
SendersRight ==
    \A k \in Senders :
        /\ BucketRight(bucket[k], passed[k], clock)
        /\ PenaltyRight(until[k], violations[k], refused[k])
        /\ violations[k].count <= adverts

ChargesRight == \A a \in Hashes : ChargeRight(memory[a], charged[a], clock)

(* The inductive invariant of the limits.                                  *)
LimitInv == LimitTypes /\ SendersRight /\ ChargesRight

(* What a clean-up, or none, leaves for the decision.                      *)
LeftRight(kept) ==
    /\ kept.memory \in [Hashes -> Int]
    /\ kept.bucket \in [Senders -> BucketType \cup {Missing}]
    /\ kept.until \in [Senders -> Int]
    /\ kept.violations \in [Senders -> ViolationType]
    /\ \A k \in Senders :
          /\ BucketRight(kept.bucket[k], passed[k], clock)
          /\ PenaltyRight(kept.until[k], kept.violations[k], refused[k])
          /\ kept.violations[k].count <= adverts
          /\ kept.until[k] <= clock => until[k] <= clock
    /\ \A a \in Hashes : /\ ChargeRight(kept.memory[a], charged[a], clock)
                         /\ memory[a] <= clock => kept.memory[a] <= clock

(* It holds at the start.                                                  *)
LEMMA LimitsStart == Ads!LimitsAssumption /\ Ads!Init => LimitInv
<1> SUFFICES ASSUME Ads!LimitsAssumption, Ads!Init PROVE LimitInv
  OBVIOUS
<1>1. Ads!NoViolations \in ViolationType /\ Ads!NoViolations.count = 0
  BY DEF Ads!NoViolations, ViolationType
<1>2. \A T : <<>> \in Seq(T)
  OBVIOUS
<1>3. "normal" \in Ads!Tiers /\ MaxHeard \in Nat
  BY DEF Ads!Tiers, Ads!LimitsAssumption
<1>4. LimitTypes
  BY <1>1, <1>2, <1>3 DEF Ads!Init, LimitTypes, TierType
<1>5. BucketRight(Missing, <<>>, 1)
  BY <1>2 DEF BucketRight, Within
<1>6. PenaltyRight(0, Ads!NoViolations, <<>>)
  BY <1>1, <1>2 DEF PenaltyRight
<1>7. ChargeRight(0, <<>>, 1)
  BY <1>2 DEF ChargeRight
<1>8. SendersRight /\ ChargesRight
  BY <1>1, <1>3, <1>5, <1>6, <1>7 DEF Ads!Init, SendersRight, ChargesRight
<1>9. QED
  BY <1>4, <1>8 DEF LimitInv

(* A clean-up takes away only what no longer makes a difference.           *)
LEMMA CleanUpLeaves ==
    ASSUME Ads!LimitsAssumption, LimitInv, NEW clean \in BOOLEAN
    PROVE  LeftRight(Ads!Left(clean))
<1> DEFINE kept == Ads!Left(clean)
<1>0. TTL \in Nat /\ KeptFor \in Nat /\ Decay \in Nat
  BY DEF Ads!LimitsAssumption
<1>1. LimitTypes /\ SendersRight /\ ChargesRight /\ clock \in Int
  BY DEF LimitInv, LimitTypes
<1>2. CASE ~clean
  <2>1. /\ kept.memory = memory /\ kept.bucket = bucket /\ kept.until = until
        /\ kept.violations = violations
    BY <1>2 DEF Ads!Left
  <2> HIDE DEF kept
  <2>2. LeftRight(kept)
    BY <1>1, <2>1 DEF LeftRight, LimitTypes, SendersRight, ChargesRight
  <2>3. QED
    BY <2>2 DEF kept
<1>3. CASE clean
  <2>1. /\ kept.memory = Ads!HashesLeft
        /\ kept.bucket = [k \in Senders |-> IF Ads!Inactive(k) THEN Missing ELSE bucket[k]]
        /\ kept.until = [k \in Senders |-> IF Ads!Expired(k) THEN 0 ELSE until[k]]
        /\ kept.violations = [k \in Senders |->
               IF Ads!Inactive(k) THEN Ads!NoViolations ELSE Ads!Faded(violations[k])]
    BY <1>3 DEF Ads!Left
  <2> HIDE DEF kept
  <2>2. /\ kept.memory \in [Hashes -> Int]
        /\ \A a \in Hashes : /\ ChargeRight(kept.memory[a], charged[a], clock)
                             /\ memory[a] <= clock => kept.memory[a] <= clock
    <3>1. ASSUME NEW a \in Hashes
          PROVE  /\ kept.memory[a] \in Int /\ ChargeRight(kept.memory[a], charged[a], clock)
                 /\ kept.memory[a] = IF memory[a] <= clock THEN 0 ELSE memory[a]
      <4>1. kept.memory[a] = IF memory[a] <= clock THEN 0 ELSE memory[a]
        BY <2>1 DEF Ads!HashesLeft
      <4>2. memory[a] \in Int /\ ChargeRight(memory[a], charged[a], clock)
        BY <1>1 DEF LimitTypes, ChargesRight
      <4>3. memory[a] <= clock => ChargeRight(0, charged[a], clock)
        BY <1>0, <1>1, <4>2, ChargeLater
      <4>4. QED
        BY <4>1, <4>2, <4>3
    <3>2. DOMAIN kept.memory = Hashes /\ kept.memory = [a \in Hashes |-> kept.memory[a]]
      BY <2>1 DEF Ads!HashesLeft
    <3>3. clock \in Int /\ 0 <= clock
      BY <1>1 DEF LimitTypes
    <3>4. QED
      BY <3>1, <3>2, <3>3
  <2>3. ASSUME NEW k \in Senders
        PROVE  /\ kept.bucket[k] \in BucketType \cup {Missing}
               /\ kept.until[k] \in Int /\ kept.violations[k] \in ViolationType
               /\ BucketRight(kept.bucket[k], passed[k], clock)
               /\ PenaltyRight(kept.until[k], kept.violations[k], refused[k])
               /\ kept.violations[k].count <= adverts
               /\ kept.until[k] <= clock => until[k] <= clock
    <3>1. /\ bucket[k] \in BucketType \cup {Missing} /\ until[k] \in Int
          /\ violations[k] \in ViolationType /\ adverts \in Nat
          /\ BucketRight(bucket[k], passed[k], clock)
          /\ PenaltyRight(until[k], violations[k], refused[k])
          /\ violations[k].count <= adverts
      BY <1>1 DEF LimitTypes, SendersRight, Ads!LimitsAssumption
    <3>2. /\ kept.bucket[k] = IF Ads!Inactive(k) THEN Missing ELSE bucket[k]
          /\ kept.until[k] = IF Ads!Expired(k) THEN 0 ELSE until[k]
          /\ kept.violations[k] = IF Ads!Inactive(k) THEN Ads!NoViolations
                                  ELSE Ads!Faded(violations[k])
      BY <2>1
    <3>3. BucketRight(kept.bucket[k], passed[k], clock)
      BY <1>1, <3>1, <3>2, BucketGoes DEF Ads!Inactive
    <3>4. kept.violations[k] \in ViolationType /\ (kept.violations[k].count = 0 \/ kept.violations[k] = violations[k])
      <4>1. Ads!NoViolations \in ViolationType /\ Ads!NoViolations.count = 0
        BY DEF Ads!NoViolations, ViolationType
      <4>2. \/ Ads!Faded(violations[k]) = violations[k]
            \/ Ads!Faded(violations[k]) = [violations[k] EXCEPT !.count = 0]
        BY DEF Ads!Faded
      <4>3. ASSUME NEW v \in ViolationType
            PROVE  [v EXCEPT !.count = 0] \in ViolationType /\ [v EXCEPT !.count = 0].count = 0
        BY DEF ViolationType
      <4>4. QED
        BY <3>1, <3>2, <4>1, <4>2, <4>3
    <3>5. PenaltyRight(kept.until[k], kept.violations[k], refused[k])
      <4>1. kept.until[k] = until[k] \/ kept.until[k] = 0
        BY <3>2
      <4>2. QED
        BY <3>1, <3>4, <4>1, PenaltyFades
    <3>6. kept.until[k] <= clock => until[k] <= clock
      BY <1>1, <3>1, <3>2 DEF Ads!Expired
    <3>7. kept.violations[k].count <= adverts
      BY <3>1, <3>4
    <3>8. QED
      BY <3>1, <3>2, <3>3, <3>4, <3>5, <3>6, <3>7
  <2>4. /\ kept.bucket \in [Senders -> BucketType \cup {Missing}]
        /\ kept.until \in [Senders -> Int]
        /\ kept.violations \in [Senders -> ViolationType]
    <3>1. /\ kept.bucket = [k \in Senders |-> kept.bucket[k]]
          /\ kept.until = [k \in Senders |-> kept.until[k]]
          /\ kept.violations = [k \in Senders |-> kept.violations[k]]
      BY <2>1
    <3>2. QED
      BY <2>3, <3>1
  <2>5. LeftRight(kept)
    BY <2>2, <2>3, <2>4 DEF LeftRight
  <2>6. QED
    BY <2>5 DEF kept
<1>4. QED
  BY <1>2, <1>3

(* Where the decision is made, what the clean-up kept decides.             *)
LEMMA FactorsKnown ==
    ASSUME Ads!LimitsAssumption, config \in Configs, NEW t \in TierType
    PROVE  /\ Ads!Factor(t) \in {0, 1, 2, 4}
           /\ ~Ads!Unlimited(t) => Ads!Factor(t) \in {1, 2, 4}
           /\ Ads!Gap(t) \in Int /\ Ads!Gap(t) <= KeptFor
<1>1. /\ t.now \in Ads!Tiers /\ Ads!Tiers \subseteq DOMAIN Ads!Twice
      /\ config \in [adaptive : BOOLEAN, limited : BOOLEAN, penalised : BOOLEAN]
  BY DEF TierType, Ads!LimitsAssumption
<1>2. /\ DOMAIN Ads!Twice = {"quiet", "normal", "busy", "congested"}
      /\ Ads!Twice["quiet"] = 0 /\ Ads!Twice["normal"] = 1
      /\ Ads!Twice["busy"] = 2 /\ Ads!Twice["congested"] = 4
  BY DEF Ads!Twice
<1>3. t.now \in {"quiet", "normal", "busy", "congested"}
  BY <1>1, <1>2
<1>4. Ads!Twice[t.now] \in {0, 1, 2, 4} /\ (t.now # "quiet" => Ads!Twice[t.now] \in {1, 2, 4})
  BY <1>2, <1>3
<1>5. /\ Ads!Factor(t) \in {0, 1, 2, 4}
      /\ ~Ads!Unlimited(t) => Ads!Factor(t) \in {1, 2, 4}
  BY <1>1, <1>4 DEF Ads!Factor, Ads!Unlimited
<1>6. Ads!Factor(t) \in {2} \cup {Ads!Twice[n] : n \in Ads!Tiers}
  BY <1>1 DEF Ads!Factor
<1>7. Ads!Gap(t) <= KeptFor
  BY <1>6 DEF Ads!Gap, Ads!LimitsAssumption
<1>8. Ads!Gap(t) \in Int
  <2>1. MinGap \in Nat
    BY DEF Ads!LimitsAssumption
  <2>2. MinGap * Ads!Factor(t) \in Int
    BY <1>5, <2>1
  <2>3. QED
    BY <2>2 DEF Ads!Gap
<1>9. QED
  BY <1>5, <1>7, <1>8

(* A bucket that was missing or there, filled up to now.                   *)
LEMMA BucketNow ==
    ASSUME Ads!LimitsAssumption, NEW b \in BucketType \cup {Missing}, NEW s,
           clock \in Int, clock >= 1, BucketRight(b, s, clock),
           NEW t, Ads!Factor(t) \in {1, 2, 4}, NEW q, q = Ads!Refilled(b, t)
    PROVE  /\ q \in BucketType /\ q.refilled = clock /\ q.tokens <= Capacity
           /\ b = Missing => q.seen = 0 /\ q.tokens = Capacity
           /\ b # Missing => q.seen = b.seen /\ BucketRight(q, s, clock)
           /\ Paid(s, q.tokens, clock)
<1>0. Missing \notin BucketType /\ Cost \in Nat /\ Capacity \in Nat /\ BestRate \in Nat
  BY RateFacts DEF Ads!LimitsAssumption, BucketType
<1>1. Ads!Rate(Ads!Factor(t)) \in Nat /\ Ads!Rate(Ads!Factor(t)) <= BestRate
  BY RateFacts
<1> DEFINE rate == Ads!Rate(Ads!Factor(t))
<1>2. CASE b = Missing
  <2>1. q = [tokens |-> Capacity, refilled |-> clock, seen |-> 0]
    BY <1>2 DEF Ads!Refilled
  <2>2. q \in BucketType /\ q.tokens = Capacity /\ q.refilled = clock /\ q.seen = 0
    BY <1>0, <2>1 DEF BucketType
  <2>3. Paid(s, q.tokens, clock)
    <3>1. \A i \in DOMAIN s :
             (Len(s) - i + 1) * Cost + q.tokens <= Capacity + BestRate * (clock - s[i].at)
      BY <1>2, <2>2, FreshBucket
    <3>2. QED
      BY <3>1 DEF Paid
  <2>4. QED
    BY <1>0, <1>2, <2>2, <2>3
<1>3. CASE b # Missing
  <2> DEFINE full == Ads!Lesser(Capacity, b.tokens + (clock - b.refilled) * rate)
  <2>1. q = [b EXCEPT !.tokens = full, !.refilled = clock]
    BY <1>3 DEF Ads!Refilled
  <2>2. b \in BucketType
    BY <1>3
  <2>3. full \in Int /\ full <= Capacity
    <3>1. b.tokens \in Int /\ b.refilled \in Int /\ clock - b.refilled \in Int
      BY <2>2 DEF BucketType
    <3> HIDE DEF rate
    <3>2. rate \in Nat
      BY <1>1 DEF rate
    <3>3. (clock - b.refilled) * rate \in Int
      BY <3>1, <3>2
    <3>4. QED
      BY <1>0, <3>1, <3>3 DEF Ads!Lesser
  <2> HIDE DEF full
  <2>4. q \in BucketType /\ q.tokens = full /\ q.refilled = clock /\ q.seen = b.seen
    BY <2>1, <2>2, <2>3 DEF BucketType
  <2>5. BucketRight(q, s, clock)
    BY <1>1, <1>3, <2>4, BucketFills DEF full
  <2>6. Paid(s, q.tokens, clock)
    <3>1. \A i \in DOMAIN s :
             (Len(s) - i + 1) * Cost + q.tokens <= Capacity + BestRate * (clock - s[i].at)
      BY <1>0, <2>4, <2>5 DEF BucketRight
    <3>2. QED
      BY <3>1 DEF Paid
  <2>7. QED
    BY <1>3, <2>3, <2>4, <2>5, <2>6
<1>4. QED
  BY <1>2, <1>3

(* A refusal leaves its sender's penalty right.                            *)
LEMMA RefusalKeeps ==
    ASSUME Ads!LimitsAssumption, LimitTypes, adverts < MaxHeard, NEW k \in Senders, NEW kept,
           LeftRight(kept), Ads!Penalise(k, kept)
    PROVE  /\ until' \in [Senders -> Int] /\ violations' \in [Senders -> ViolationType]
           /\ refused' \in [Senders -> Seq(Int)]
           /\ \A i \in Senders : /\ PenaltyRight(until'[i], violations'[i], refused'[i])
                                 /\ violations'[i].count <= adverts + 1
<1> USE DEF LimitTypes
<1>0. /\ adverts \in Nat /\ MaxHeard \in Nat /\ clock \in Int
      /\ {Threshold, Decay, PenaltyBase, PenaltyMax} \subseteq Nat
      /\ \A n \in 0..MaxHeard : 2 ^ n \in Nat
  BY DEF Ads!LimitsAssumption
<1>1. /\ kept.until \in [Senders -> Int] /\ kept.violations \in [Senders -> ViolationType]
      /\ \A i \in Senders : /\ PenaltyRight(kept.until[i], kept.violations[i], refused[i])
                            /\ kept.violations[i].count <= adverts
  BY DEF LeftRight
<1>2. \A i \in Senders : kept.violations[i].count \in Nat
  <2>1. \A i \in Senders : kept.violations[i] \in ViolationType
    BY <1>1
  <2>2. QED
    BY <2>1 DEF ViolationType
<1>3. CASE ~config.penalised
  BY <1>0, <1>1, <1>2, <1>3 DEF Ads!Penalise
<1>4. CASE config.penalised
  <2> DEFINE v == kept.violations[k]
  <2> DEFINE w == Ads!Violated(v)
  <2> DEFINE u == kept.until[k]
  <2> DEFINE e == IF w.count < Threshold \/ clock + Ads!PenaltyOf(w) <= u THEN u
                  ELSE clock + Ads!PenaltyOf(w)
  <2>1. /\ refused' = [refused EXCEPT ![k] = Append(refused[k], clock)]
        /\ violations' = [kept.violations EXCEPT ![k] = w]
        /\ until' = [kept.until EXCEPT ![k] = e]
    BY <1>4 DEF Ads!Penalise
  <2>2. v \in ViolationType /\ u \in Int /\ v.count <= adverts /\ PenaltyRight(u, v, refused[k])
    BY <1>1
  <2> HIDE DEF v, u, e
  <2>3. /\ w = [count |-> (IF clock - v.last > Decay THEN 0 ELSE v.count) + 1, last |-> clock]
    BY DEF Ads!Violated
  <2> HIDE DEF w
  <2>4. /\ w \in ViolationType /\ w.last = clock /\ w.count <= adverts + 1 /\ w.count \in Nat
        /\ w.count = (IF clock - v.last > Decay THEN 0 ELSE v.count) + 1
    <3>1. v.count \in Nat /\ v.last \in Int
      BY <2>2 DEF ViolationType
    <3>2. QED
      BY <1>0, <2>2, <2>3, <3>1 DEF ViolationType
  <2>5. e \in Int /\ (e = u \/ w.count >= Threshold)
    <3>1. CASE w.count < Threshold
      BY <2>2, <3>1 DEF e
    <3>2. CASE w.count >= Threshold
      <4>1. w.count - Threshold \in 0..MaxHeard
        BY <1>0, <2>4, <3>2
      <4>2. PenaltyBase * 2 ^ (w.count - Threshold) \in Int
        <5>1. 2 ^ (w.count - Threshold) \in Nat
          BY <1>0, <4>1
        <5> DEFINE p == 2 ^ (w.count - Threshold)
        <5> HIDE DEF p
        <5>2. PenaltyBase \in Nat /\ (p \in Nat => PenaltyBase * p \in Int)
          BY <1>0
        <5>3. QED
          BY <5>1, <5>2 DEF p
      <4>3. Ads!PenaltyOf(w) \in Int
        BY <1>0, <4>2 DEF Ads!PenaltyOf, Ads!Lesser
      <4>4. clock + Ads!PenaltyOf(w) \in Int
        BY <1>0, <4>3
      <4>5. QED
        BY <2>2, <3>2, <4>4 DEF e
    <3>3. QED
      BY <1>0, <2>4, <3>1, <3>2
  <2>6. PenaltyRight(e, w, Append(refused[k], clock))
    BY <1>0, <2>2, <2>4, <2>5, OneViolation
  <2>7. Append(refused[k], clock) \in Seq(Int)
    BY <1>0
  <2>8. /\ until' \in [Senders -> Int] /\ violations' \in [Senders -> ViolationType]
        /\ refused' \in [Senders -> Seq(Int)]
    BY <1>1, <2>1, <2>4, <2>5, <2>7
  <2>9. ASSUME NEW i \in Senders
        PROVE  PenaltyRight(until'[i], violations'[i], refused'[i]) /\ violations'[i].count <= adverts + 1
    <3>1. CASE i = k
      <4>1. until'[i] = e /\ violations'[i] = w /\ refused'[i] = Append(refused[k], clock)
        BY <1>1, <2>1, <3>1
      <4>2. QED
        BY <2>4, <2>6, <4>1
    <3>2. CASE i # k
      <4>1. until'[i] = kept.until[i] /\ violations'[i] = kept.violations[i] /\ refused'[i] = refused[i]
        BY <1>1, <2>1, <3>2
      <4>2. kept.violations[i].count <= adverts /\ kept.violations[i].count \in Nat
        BY <1>1, <1>2
      <4> DEFINE n == kept.violations[i].count
      <4>3. n \in Nat /\ n <= adverts /\ violations'[i].count = n
        BY <4>1, <4>2
      <4> HIDE DEF n
      <4>5. violations'[i].count <= adverts + 1
        BY <1>0, <4>3
      <4>4. QED
        BY <1>1, <4>1, <4>5
    <3>3. QED
      BY <3>1, <3>2
  <2>10. QED
    BY <2>8, <2>9
<1>5. QED
  BY <1>3, <1>4

(* An advert that was let through, refused or not limited.                 *)
LEMMA DecisionKeeps ==
    ASSUME Ads!LimitsAssumption, LimitTypes, adverts < MaxHeard, NEW k \in Senders,
           NEW t \in TierType, NEW kept, LeftRight(kept), Ads!Decide(k, t, kept)
    PROVE  /\ bucket' \in [Senders -> BucketType \cup {Missing}]
           /\ until' \in [Senders -> Int] /\ violations' \in [Senders -> ViolationType]
           /\ passed' \in [Senders -> Seq(PassType)]
           /\ refused' \in [Senders -> Seq(Int)]
           /\ \A i \in Senders : /\ BucketRight(bucket'[i], passed'[i], clock)
                                 /\ PenaltyRight(until'[i], violations'[i], refused'[i])
                                 /\ violations'[i].count <= adverts + 1
<1> USE DEF LimitTypes
<1>0. /\ adverts \in Nat /\ MaxHeard \in Nat /\ Cost \in Nat \ {0} /\ Capacity \in Nat
      /\ Cost <= Capacity /\ KeptFor \in Nat /\ Missing \notin BucketType
  BY DEF Ads!LimitsAssumption, BucketType
<1>1. /\ kept.bucket \in [Senders -> BucketType \cup {Missing}]
      /\ kept.until \in [Senders -> Int] /\ kept.violations \in [Senders -> ViolationType]
      /\ \A i \in Senders : /\ BucketRight(kept.bucket[i], passed[i], clock)
                            /\ PenaltyRight(kept.until[i], kept.violations[i], refused[i])
                            /\ kept.violations[i].count <= adverts
                            /\ kept.until[i] <= clock => until[i] <= clock
  BY DEF LeftRight
<1>2. ASSUME NEW i \in Senders PROVE kept.violations[i].count <= adverts + 1
  <2>1. kept.violations[i] \in ViolationType /\ kept.violations[i].count <= adverts
    BY <1>1
  <2>2. kept.violations[i].count \in Nat
    BY <2>1 DEF ViolationType
  <2> DEFINE n == kept.violations[i].count
  <2>3. n \in Nat /\ n <= adverts
    BY <2>1, <2>2
  <2> HIDE DEF n
  <2>4. n <= adverts + 1
    BY <1>0, <2>3
  <2>5. QED
    BY <2>4 DEF n
<1> DEFINE b == kept.bucket[k]
<1> DEFINE q == Ads!Refilled(b, t)
<1>3. b \in BucketType \cup {Missing} /\ BucketRight(b, passed[k], clock)
  BY <1>1
<1>4. CASE Ads!Unlimited(t) \/ clock < kept.until[k]
  <2>1. /\ bucket' = kept.bucket /\ until' = kept.until /\ violations' = kept.violations
        /\ passed' = passed /\ refused' = refused
    BY <1>4 DEF Ads!Decide
  <2>2. QED
    BY <1>1, <1>2, <2>1
<1>5. CASE ~Ads!Unlimited(t) /\ ~(clock < kept.until[k])
  <2>0. /\ Ads!Factor(t) \in {1, 2, 4} /\ Ads!Gap(t) \in Int /\ Ads!Gap(t) <= KeptFor
    BY <1>5, FactorsKnown
  <2>1. /\ q \in BucketType /\ q.refilled = clock /\ q.tokens <= Capacity
        /\ b = Missing => q.seen = 0 /\ q.tokens = Capacity
        /\ b # Missing => q.seen = b.seen /\ BucketRight(q, passed[k], clock)
        /\ Paid(passed[k], q.tokens, clock)
    <3>1. clock \in Int /\ clock >= 1
      OBVIOUS
    <3> HIDE DEF b, LimitTypes
    <3>2. q = Ads!Refilled(b, t)
      OBVIOUS
    <3> HIDE DEF q
    <3>3. QED
      BY <1>3, <2>0, <3>1, <3>2, BucketNow
  <2>2. q.tokens \in Int /\ q.seen \in Int
    BY <2>1 DEF BucketType
  <2>3. CASE Ads!TooSoon(q, t) \/ q.tokens < Cost
    <3>1. /\ bucket' = [kept.bucket EXCEPT ![k] = q] /\ Ads!Penalise(k, kept)
          /\ passed' = passed
      BY <1>5, <2>3 DEF Ads!Decide
    <3> HIDE DEF q
    <3>2. b # Missing
      BY <1>0, <2>1, <2>2, <2>3 DEF Ads!TooSoon
    <3>3. BucketRight(q, passed[k], clock)
      BY <2>1, <3>2
    <3>4. /\ until' \in [Senders -> Int] /\ violations' \in [Senders -> ViolationType]
          /\ refused' \in [Senders -> Seq(Int)]
          /\ \A i \in Senders : /\ PenaltyRight(until'[i], violations'[i], refused'[i])
                                /\ violations'[i].count <= adverts + 1
      BY <3>1, RefusalKeeps
    <3>5. QED
      BY <1>1, <2>1, <3>1, <3>3, <3>4
  <2>4. CASE ~Ads!TooSoon(q, t) /\ q.tokens >= Cost
    <3> DEFINE p == [at |-> clock, gap |-> Ads!Gap(t), banned |-> until[k]]
    <3> DEFINE r == [q EXCEPT !.tokens = q.tokens - Cost, !.seen = clock]
    <3>1. /\ bucket' = [kept.bucket EXCEPT ![k] = r]
          /\ until' = kept.until /\ violations' = kept.violations
          /\ passed' = [passed EXCEPT ![k] = Append(passed[k], p)] /\ refused' = refused
      <4>1. ~(q.tokens < Cost)
        BY <1>0, <2>2, <2>4
      <4>2. QED
        BY <1>5, <2>4, <4>1 DEF Ads!Decide
    <3>2. p \in PassType /\ p.at = clock /\ p.gap = Ads!Gap(t) /\ p.banned = until[k]
      BY <2>0 DEF PassType
    <3>3. r \in BucketType /\ r.tokens = q.tokens - Cost /\ r.refilled = clock /\ r.seen = clock
      <4> HIDE DEF q
      <4>1. q.tokens - Cost \in Int
        BY <1>0, <2>2
      <4>2. QED
        BY <2>1, <4>1 DEF BucketType
    <3> HIDE DEF p, q, r
    <3>4. p.banned <= clock
      BY <1>1, <1>5, <3>2
    <3>5. passed[k] \in Seq(PassType) /\ Within(passed[k])
          /\ \A j \in DOMAIN passed[k] : passed[k][j].at >= 1 /\ passed[k][j].at <= clock
      BY <1>3 DEF BucketRight
    <3>6. ASSUME passed[k] # <<>>
          PROVE  clock - passed[k][Len(passed[k])].at >= p.gap
      <4> DEFINE last == passed[k][Len(passed[k])]
      <4>1. Len(passed[k]) \in DOMAIN passed[k]
        BY <3>5, <3>6
      <4>2. last \in PassType /\ last.at >= 1
        BY <3>5, <4>1
      <4>3. last.at \in Int
        BY <4>2 DEF PassType
      <4>4. CASE b = Missing
        <5>1. last.at + KeptFor <= clock
          BY <1>3, <3>6, <4>4 DEF BucketRight
        <5> HIDE DEF last
        <5>2. clock - last.at >= p.gap
          BY <1>0, <2>0, <3>2, <4>3, <5>1
        <5>3. QED
          BY <5>2 DEF last
      <4>5. CASE b # Missing
        <5>1. q.seen = last.at
          BY <1>3, <2>1, <4>5 DEF BucketRight
        <5> HIDE DEF last
        <5>2. ~(Ads!Gap(t) > 0 /\ q.seen > 0 /\ clock - q.seen < Ads!Gap(t))
          BY <2>4 DEF Ads!TooSoon
        <5>3. clock \in Int /\ clock - last.at \in Int
          BY <4>3
        <5>4. CASE Ads!Gap(t) > 0
          BY <2>0, <3>2, <4>2, <4>3, <5>1, <5>2, <5>3, <5>4 DEF last
        <5>5. CASE ~(Ads!Gap(t) > 0)
          <6>1. last.at <= clock
            BY <3>5, <4>1 DEF last
          <6>2. clock - last.at >= p.gap
            BY <2>0, <3>2, <4>3, <5>3, <5>5, <6>1
          <6>3. QED
            BY <6>2 DEF last
        <5>6. QED
          BY <5>4, <5>5
      <4>6. QED
        BY <4>4, <4>5
    <3>7. BucketRight(r, Append(passed[k], p), clock)
      BY <1>0, <2>1, <2>2, <2>4, <3>2, <3>3, <3>4, <3>5, <3>6, OnePass
    <3>8. Append(passed[k], p) \in Seq(PassType)
      BY <3>2, <3>5
    <3>9. /\ bucket' \in [Senders -> BucketType \cup {Missing}]
          /\ passed' \in [Senders -> Seq(PassType)]
      BY <1>1, <3>1, <3>3, <3>8
    <3>10. \A i \in Senders : BucketRight(bucket'[i], passed'[i], clock)
      BY <1>1, <3>1, <3>7
    <3>11. QED
      BY <1>1, <1>2, <3>1, <3>9, <3>10
  <2>5. QED
    BY <1>0, <2>2, <2>3, <2>4
<1>6. QED
  BY <1>4, <1>5

(* An advert is heard, anew or again.                                      *)
LEMMA HearingKeeps ==
    ASSUME Ads!LimitsAssumption, LimitInv, NEW a \in Hashes, Ads!Hear(a)
    PROVE  LimitInv'
<1>0. /\ adverts < MaxHeard /\ adverts' = adverts + 1 /\ clock' = clock /\ config' = config
      /\ Sender[a] \in Senders /\ TTL \in Nat /\ MaxHeard \in Nat
  BY DEF Ads!Hear, Ads!LimitsAssumption
<1>1. LimitTypes /\ SendersRight /\ ChargesRight
  BY DEF LimitInv
<1>2. adverts \in Nat /\ adverts' \in 0..MaxHeard /\ clock \in Int /\ clock >= 1
  BY <1>0, <1>1 DEF LimitTypes
<1>3. PICK clean \in Ads!Cleanings, next \in Ads!Targets :
        /\ target' = next
        /\ LET kept == Ads!Left(clean) IN
           IF memory[a] > clock
           THEN /\ memory' = kept.memory /\ bucket' = kept.bucket
                /\ until' = kept.until /\ violations' = kept.violations
                /\ UNCHANGED <<tier, charged, passed, refused>>
           ELSE /\ memory' = [kept.memory EXCEPT ![a] = clock + TTL]
                /\ charged' = [charged EXCEPT ![a] = Append(@, clock)]
                /\ tier' = Ads!TierFor(next)
                /\ Ads!Decide(Sender[a], Ads!TierFor(next), kept)
  BY DEF Ads!Hear
<1> DEFINE kept == Ads!Left(clean)
<1>4. LeftRight(kept)
  <2>1. clean \in BOOLEAN
    BY DEF Ads!Cleanings
  <2>2. QED
    BY <2>1, CleanUpLeaves DEF LimitInv
<1>5. next \in Ads!Tiers /\ target' \in Ads!Tiers
  BY <1>1, <1>3 DEF Ads!Targets, Ads!Tiers, LimitTypes
<1>6. Ads!TierFor(next) \in TierType
  <2>1. tier \in TierType
    BY <1>1 DEF LimitTypes
  <2>2. QED
    <3>1. /\ [tier EXCEPT !.pending = Missing] \in TierType
          /\ [tier EXCEPT !.pending = next, !.since = clock] \in TierType
          /\ [now |-> next, pending |-> Missing, since |-> 0] \in TierType
      <4> DEFINE P == Ads!Tiers \cup {Missing}
      <4>1. tier \in [now : Ads!Tiers, pending : P, since : Int]
        BY <2>1 DEF TierType
      <4>2. next \in Ads!Tiers /\ next \in P /\ Missing \in P /\ 0 \in Int /\ clock \in Int
        BY <1>2, <1>5
      <4> HIDE DEF P
      <4>3. /\ [tier EXCEPT !.pending = Missing] \in [now : Ads!Tiers, pending : P, since : Int]
            /\ [tier EXCEPT !.pending = next, !.since = clock]
                  \in [now : Ads!Tiers, pending : P, since : Int]
            /\ [now |-> next, pending |-> Missing, since |-> 0]
                  \in [now : Ads!Tiers, pending : P, since : Int]
        BY ONLY <4>1, <4>2
      <4>4. QED
        BY <4>3 DEF TierType, P
    <3>2. \/ Ads!TierFor(next) = tier
          \/ Ads!TierFor(next) = [tier EXCEPT !.pending = Missing]
          \/ Ads!TierFor(next) = [tier EXCEPT !.pending = next, !.since = clock]
          \/ Ads!TierFor(next) = [now |-> next, pending |-> Missing, since |-> 0]
      BY DEF Ads!TierFor
    <3>3. QED
      BY <2>1, <3>1, <3>2
<1>7. CASE memory[a] > clock
  <2>1. /\ memory' = kept.memory /\ bucket' = kept.bucket
        /\ until' = kept.until /\ violations' = kept.violations
        /\ tier' = tier /\ charged' = charged /\ passed' = passed /\ refused' = refused
    BY <1>3, <1>7
  <2> HIDE DEF kept
  <2>2. LimitTypes'
    BY <1>0, <1>1, <1>2, <1>4, <1>5, <2>1 DEF LimitTypes, LeftRight
  <2>3. SendersRight'
    <3>1. ASSUME NEW k \in Senders
          PROVE  /\ BucketRight(bucket'[k], passed'[k], clock')
                 /\ PenaltyRight(until'[k], violations'[k], refused'[k])
                 /\ violations'[k].count <= adverts'
      <4>1. /\ BucketRight(kept.bucket[k], passed[k], clock)
            /\ PenaltyRight(kept.until[k], kept.violations[k], refused[k])
            /\ kept.violations[k].count <= adverts /\ kept.violations[k] \in ViolationType
        BY <1>4 DEF LeftRight
      <4>2. kept.violations[k].count \in Nat
        BY <4>1 DEF ViolationType
      <4> DEFINE n == kept.violations[k].count
      <4>3. n \in Nat /\ n <= adverts /\ violations'[k].count = n
        BY <2>1, <4>1, <4>2
      <4> HIDE DEF n
      <4>4. violations'[k].count <= adverts'
        BY <1>0, <1>2, <4>3
      <4>5. QED
        BY <1>0, <2>1, <4>1, <4>4
    <3>2. QED
      BY <3>1 DEF SendersRight
  <2>4. ChargesRight'
    BY <1>0, <1>4, <2>1 DEF ChargesRight, LeftRight
  <2>5. QED
    BY <2>2, <2>3, <2>4 DEF LimitInv
<1>8. CASE ~(memory[a] > clock)
  <2>1. /\ memory' = [kept.memory EXCEPT ![a] = clock + TTL]
        /\ charged' = [charged EXCEPT ![a] = Append(charged[a], clock)]
        /\ tier' = Ads!TierFor(next)
        /\ Ads!Decide(Sender[a], Ads!TierFor(next), kept)
    BY <1>3, <1>8
  <2> HIDE DEF kept
  <2>2. /\ bucket' \in [Senders -> BucketType \cup {Missing}]
        /\ until' \in [Senders -> Int] /\ violations' \in [Senders -> ViolationType]
        /\ passed' \in [Senders -> Seq(PassType)]
        /\ refused' \in [Senders -> Seq(Int)]
        /\ \A i \in Senders : /\ BucketRight(bucket'[i], passed'[i], clock)
                              /\ PenaltyRight(until'[i], violations'[i], refused'[i])
                              /\ violations'[i].count <= adverts + 1
    BY <1>0, <1>1, <1>4, <1>6, <2>1, DecisionKeeps
  <2>3. kept.memory \in [Hashes -> Int] /\ charged \in [Hashes -> Seq(Int)]
    BY <1>1, <1>4 DEF LeftRight, LimitTypes
  <2>4. memory' \in [Hashes -> Int] /\ charged' \in [Hashes -> Seq(Int)]
    <3>1. clock + TTL \in Int /\ Append(charged[a], clock) \in Seq(Int)
      BY <1>0, <1>2, <2>3
    <3>2. QED
      BY <2>1, <2>3, <3>1
  <2>5. LimitTypes'
    BY <1>0, <1>1, <1>2, <1>5, <1>6, <2>1, <2>2, <2>4 DEF LimitTypes
  <2>6. SendersRight'
    BY <1>0, <2>2 DEF SendersRight
  <2>7. ChargesRight'
    <3>1. ASSUME NEW h \in Hashes PROVE ChargeRight(memory'[h], charged'[h], clock)
      <4>0. ChargeRight(kept.memory[h], charged[h], clock) /\ kept.memory[h] \in Int
        BY <1>4, <2>3 DEF LeftRight
      <4>1. CASE h = a
        <5>1. memory[a] \in Int
          BY <1>1 DEF LimitTypes
        <5>2. memory[a] <= clock
          BY <1>2, <1>8, <5>1
        <5>3. kept.memory[a] <= clock
          BY <1>4, <5>2 DEF LeftRight
        <5>4. ChargeRight(clock + TTL, Append(charged[a], clock), clock)
          BY <1>0, <1>2, <4>0, <4>1, <5>3, OneCharge
        <5>5. QED
          BY <2>1, <2>3, <4>1, <5>4
      <4>2. CASE h # a
        BY <2>1, <2>3, <4>0, <4>2
      <4>3. QED
        BY <4>1, <4>2
    <3>2. QED
      BY <1>0, <3>1 DEF ChargesRight
  <2>8. QED
    BY <2>5, <2>6, <2>7 DEF LimitInv
<1>9. QED
  BY <1>7, <1>8

(* Every step keeps the invariant.                                         *)
LEMMA LimitsStep ==
    ASSUME Ads!LimitsAssumption, LimitInv, [Ads!Next]_(Ads!vars)
    PROVE  LimitInv'
<1>0. /\ LimitTypes /\ SendersRight /\ ChargesRight /\ clock \in Int /\ clock >= 1
      /\ adverts \in Nat /\ TTL \in Nat
  BY DEF LimitInv, LimitTypes, Ads!LimitsAssumption
<1>1. ASSUME NEW a \in Hashes, Ads!Hear(a) PROVE LimitInv'
  BY <1>1, HearingKeeps
<1>2. ASSUME NEW a \in Hashes, Ads!PushedOut(a) PROVE LimitInv'
  <2>1. /\ memory' = [memory EXCEPT ![a] = 0] /\ charged' = [charged EXCEPT ![a] = <<>>]
        /\ UNCHANGED <<clock, config, target, tier, bucket, until, violations, passed,
                       refused, adverts>>
    BY <1>2 DEF Ads!PushedOut
  <2>2. <<>> \in Seq(Int) /\ ChargeRight(0, <<>>, clock)
    BY DEF ChargeRight
  <2>3. LimitTypes' /\ SendersRight'
    BY <1>0, <2>1, <2>2 DEF LimitTypes, SendersRight
  <2>4. memory \in [Hashes -> Int] /\ charged \in [Hashes -> Seq(Int)]
    BY <1>0 DEF LimitTypes
  <2>5. ASSUME NEW h \in Hashes PROVE ChargeRight(memory'[h], charged'[h], clock')
    BY <1>0, <2>1, <2>2, <2>4 DEF ChargesRight
  <2>6. QED
    BY <2>3, <2>5 DEF LimitInv, ChargesRight
<1>3. ASSUME NEW k \in Senders, Ads!Forgotten(k) PROVE LimitInv'
  <2>1. /\ bucket' = [bucket EXCEPT ![k] = Missing] /\ until' = [until EXCEPT ![k] = 0]
        /\ violations' = [violations EXCEPT ![k] = Ads!NoViolations]
        /\ passed' = [passed EXCEPT ![k] = <<>>] /\ refused' = [refused EXCEPT ![k] = <<>>]
        /\ UNCHANGED <<clock, config, target, tier, memory, charged, adverts>>
    BY <1>3 DEF Ads!Forgotten
  <2>2. Ads!NoViolations \in ViolationType /\ Ads!NoViolations.count = 0
    BY DEF Ads!NoViolations, ViolationType
  <2>3. <<>> \in Seq(Int) /\ <<>> \in Seq(PassType)
    OBVIOUS
  <2>4. BucketRight(Missing, <<>>, clock) /\ PenaltyRight(0, Ads!NoViolations, <<>>)
    BY <2>2, <2>3 DEF BucketRight, Within, PenaltyRight
  <2>5. LimitTypes' /\ ChargesRight'
    BY <1>0, <2>1, <2>2, <2>3 DEF LimitTypes, ChargesRight
  <2>6. /\ bucket \in [Senders -> BucketType \cup {Missing}] /\ until \in [Senders -> Int]
        /\ violations \in [Senders -> ViolationType]
        /\ passed \in [Senders -> Seq(PassType)] /\ refused \in [Senders -> Seq(Int)]
    BY <1>0 DEF LimitTypes
  <2>7. ASSUME NEW i \in Senders
        PROVE  /\ BucketRight(bucket'[i], passed'[i], clock')
               /\ PenaltyRight(until'[i], violations'[i], refused'[i])
               /\ violations'[i].count <= adverts'
    <3>1. CASE i = k
      BY <1>0, <2>1, <2>2, <2>4, <2>6, <3>1
    <3>2. CASE i # k
      BY <1>0, <2>1, <2>6, <3>2 DEF SendersRight
    <3>3. QED
      BY <3>1, <3>2
  <2>8. QED
    BY <2>5, <2>7 DEF LimitInv, SendersRight
<1>4. ASSUME Ads!Reload PROVE LimitInv'
  BY <1>0, <1>4 DEF Ads!Reload, LimitInv, LimitTypes, SendersRight, ChargesRight
<1>5. ASSUME Ads!Tick PROVE LimitInv'
  <2>1. /\ clock' = clock + 1 /\ clock' \in Int /\ clock <= clock'
        /\ UNCHANGED <<config, target, tier, memory, bucket, until, violations, charged,
                       passed, refused, adverts>>
    BY <1>0, <1>5 DEF Ads!Tick
  <2>2. LimitTypes'
    BY <1>0, <2>1 DEF LimitTypes
  <2>3. ASSUME NEW k \in Senders PROVE BucketRight(bucket[k], passed[k], clock + 1)
    BY <1>0, <2>1, BucketLater DEF SendersRight
  <2>4. ASSUME NEW a \in Hashes PROVE ChargeRight(memory[a], charged[a], clock + 1)
    <3>1. memory[a] \in Int
      BY <1>0 DEF LimitTypes
    <3>2. QED
      BY <1>0, <2>1, <3>1, ChargeLater DEF ChargesRight
  <2>5. SendersRight' /\ ChargesRight'
    BY <1>0, <2>1, <2>3, <2>4 DEF SendersRight, ChargesRight
  <2>6. QED
    BY <2>2, <2>5 DEF LimitInv
<1>6. CASE UNCHANGED Ads!vars
  BY <1>0, <1>6 DEF Ads!vars, LimitInv, LimitTypes, SendersRight, ChargesRight
<1>7. QED
  BY <1>1, <1>2, <1>3, <1>4, <1>5, <1>6 DEF Ads!Next

(* The invariant holds throughout, for any senders, adverts, tiers,        *)
(* configurations and rates (advert.py:403-447).                           *)
THEOREM AdvertLimitsInvariant == Ads!LimitsAssumption => (Ads!Spec => []LimitInv)
<1> SUFFICES ASSUME Ads!LimitsAssumption PROVE Ads!Spec => []LimitInv
  OBVIOUS
<1>1. Ads!Init => LimitInv
  BY LimitsStart
<1>2. LimitInv /\ [Ads!Next]_(Ads!vars) => LimitInv'
  BY LimitsStep
<1>3. QED
  BY <1>1, <1>2, PTL DEF Ads!Spec

(* However tiers, clean-ups and reloads come between its adverts, a sender *)
(* gets no more through than a full bucket and what came back at the best  *)
(* rate, keeps the gap, and is under a penalty only for violations none of *)
(* which had faded before the next (advert.py:403-447).                    *)
THEOREM AdvertsWithinLimits == Ads!LimitsAssumption => (Ads!Spec => []Ads!LimitsKept)
<1> SUFFICES ASSUME Ads!LimitsAssumption PROVE Ads!Spec => []Ads!LimitsKept
  OBVIOUS
<1>1. LimitInv => Ads!LimitsKept
  <2> SUFFICES ASSUME LimitInv PROVE Ads!WithinLimits /\ Ads!PenaltiesDeserved
    BY DEF Ads!LimitsKept
  <2>1. \A k \in Senders : Within(passed[k])
    BY DEF LimitInv, SendersRight, BucketRight
  <2>2. Ads!WithinLimits
    BY <2>1 DEF Ads!WithinLimits, Within, BestRate
  <2>3. ASSUME NEW k \in Senders, until[k] > clock PROVE Deserved(refused[k])
    <3>1. until[k] \in Int /\ clock \in Int /\ clock >= 1
      BY DEF LimitInv, LimitTypes
    <3>2. until[k] # 0
      BY <2>3, <3>1
    <3>3. QED
      BY <3>2 DEF LimitInv, SendersRight, PenaltyRight
  <2>4. Ads!PenaltiesDeserved
    BY <2>3 DEF Ads!PenaltiesDeserved, Deserved
  <2>5. QED
    BY <2>2, <2>4
<1>2. QED
  BY <1>1, AdvertLimitsInvariant, PTL

(* An advert is charged once while it is remembered, though clean-ups come *)
(* between its copies (advert.py:208-236, 545-555).                        *)
THEOREM AdvertsChargedOnce == Ads!LimitsAssumption => (Ads!Spec => []Ads!ChargedOnce)
<1> SUFFICES ASSUME Ads!LimitsAssumption PROVE Ads!Spec => []Ads!ChargedOnce
  OBVIOUS
<1>1. LimitInv => Ads!ChargedOnce
  BY DEF LimitInv, ChargesRight, ChargeRight, Ads!ChargedOnce
<1>2. QED
  BY <1>1, AdvertLimitsInvariant, PTL

-----------------------------------------------------------------------------
(* What is kept of measurements, and for how long: RetentionTiers,         *)
(* TierQuery.                                                              *)
CONSTANTS Samples, Fine, Coarse, Hot, Cool, Keep, Late, LastClock, MaxBreaks, Windows
VARIABLES instant, written, raw, rows, step, at, open, safe, breaks, query

(* The tables and the query, their clock and faults under other names.     *)
Tiers == INSTANCE TierQuery WITH
    MaxClock <- LastClock, MaxFaults <- MaxBreaks, None <- Missing,
    clock <- instant, faults <- breaks

(* Products grow with their factors.                                       *)
LEMMA TimesMono ==
    ASSUME NEW a \in Nat, NEW b \in Nat, NEW w \in Nat, a <= b
    PROVE  a * w <= b * w
<1>1. PICK d \in Nat : b = a + d
  <2>1. b - a \in Nat /\ b = a + (b - a)
    OBVIOUS
  <2>2. QED
    BY <2>1
<1>2. b * w = a * w + d * w
  BY <1>1
<1>3. d * w \in Nat /\ a * w \in Nat
  OBVIOUS
<1>4. QED
  BY <1>2, <1>3

(* A bucket begins no later than what it holds and ends after it.          *)
LEMMA BucketFacts ==
    ASSUME NEW t \in Nat, NEW w \in Nat \ {0}
    PROVE  /\ t \div w \in Nat /\ Tiers!Bucket(t, w) = (t \div w) * w
           /\ Tiers!Bucket(t, w) \in Nat
           /\ Tiers!Bucket(t, w) <= t /\ t < Tiers!Bucket(t, w) + w
<1>1. t \div w \in Nat /\ (t \div w) * w <= t /\ t < (t \div w) * w + w
  OBVIOUS
<1>2. QED
  BY <1>1 DEF Tiers!Bucket

(* It is the only one of its width.                                        *)
LEMMA OneBucket ==
    ASSUME NEW t \in Nat, NEW w \in Nat \ {0}, NEW c \in Nat, c * w <= t, t < c * w + w
    PROVE  Tiers!Bucket(t, w) = c * w
<1> DEFINE q == t \div w
<1>1. q \in Nat /\ q * w <= t /\ t < q * w + w /\ Tiers!Bucket(t, w) = q * w
  BY BucketFacts
<1> HIDE DEF q
<1>2. ~(q < c)
  <2>1. SUFFICES ASSUME q + 1 <= c PROVE FALSE
    BY <1>1
  <2>2. (q + 1) * w <= c * w
    BY <1>1, <2>1, TimesMono
  <2>3. (q + 1) * w = q * w + w
    BY <1>1
  <2>4. q * w \in Nat /\ c * w \in Nat
    BY <1>1
  <2>5. QED
    BY <1>1, <2>2, <2>3, <2>4
<1>3. ~(c < q)
  <2>1. SUFFICES ASSUME c + 1 <= q PROVE FALSE
    BY <1>1
  <2>2. (c + 1) * w <= q * w
    BY <1>1, <2>1, TimesMono
  <2>3. (c + 1) * w = c * w + w
    OBVIOUS
  <2>4. q * w \in Nat /\ c * w \in Nat
    BY <1>1
  <2>5. QED
    BY <1>1, <2>2, <2>3, <2>4
<1>4. q = c
  BY <1>1, <1>2, <1>3
<1>5. QED
  BY <1>1, <1>4

(* The one width is a multiple of the other.                               *)
Fits(w, v) == \E k \in Nat \ {0} : v = k * w

(* Buckets of buckets are buckets of what they hold, if the widths fit.    *)
LEMMA BucketOfBucket ==
    ASSUME NEW t \in Nat, NEW w \in Nat \ {0}, NEW v \in Nat \ {0}, Fits(w, v)
    PROVE  Tiers!Bucket(Tiers!Bucket(t, w), v) = Tiers!Bucket(t, v)
<1>1. PICK k \in Nat \ {0} : v = k * w
  BY DEF Fits
<1> DEFINE q == t \div w
           c == t \div v
           b == Tiers!Bucket(t, w)
<1>2. /\ q \in Nat /\ b = q * w /\ b \in Nat /\ b <= t /\ t < b + w
      /\ c \in Nat /\ Tiers!Bucket(t, v) = c * v /\ c * v <= t /\ t < c * v + v
  <2>1. q \in Nat /\ b = q * w /\ b \in Nat /\ b <= t /\ t < b + w
    BY BucketFacts
  <2>2. c \in Nat /\ Tiers!Bucket(t, v) = c * v /\ c * v <= t /\ t < c * v + v
    <3>1. t \div v \in Nat /\ Tiers!Bucket(t, v) = (t \div v) * v
          /\ Tiers!Bucket(t, v) <= t /\ t < Tiers!Bucket(t, v) + v
      BY BucketFacts
    <3>2. QED
      BY <3>1
  <2>3. QED
    BY <2>1, <2>2
<1> HIDE DEF q, c, b
<1>3. c * v <= b
  <2>1. c * v = (c * k) * w /\ c * k \in Nat
    BY <1>1, <1>2
  <2>2. CASE c * k <= q
    <3>1. (c * k) * w <= q * w
      BY <1>2, <2>1, <2>2, TimesMono
    <3>2. QED
      BY <1>2, <2>1, <3>1
  <2>3. CASE ~(c * k <= q)
    <3>1. q + 1 <= c * k
      BY <1>2, <2>1, <2>3
    <3>2. (q + 1) * w <= (c * k) * w
      BY <1>2, <2>1, <3>1, TimesMono
    <3>3. (q + 1) * w = b + w
      BY <1>2
    <3>4. (c * k) * w \in Nat
      BY <2>1
    <3>5. QED
      BY <1>2, <2>1, <3>2, <3>3, <3>4
  <2>4. QED
    BY <2>2, <2>3
<1>4. b < c * v + v
  <2>1. c * v \in Nat
    BY <1>2
  <2>2. QED
    BY <1>2, <2>1
<1>5. Tiers!Bucket(b, v) = c * v
  BY <1>2, <1>3, <1>4, OneBucket
<1>6. QED
  BY <1>2, <1>5 DEF b
(* A row of a summary.                                                     *)
SummaryType == [tier : {"1m", "15m"}, bucket : Nat, members : SUBSET Samples]

(* The variables have their types.                                         *)
TierTypes ==
    /\ instant \in Nat /\ instant <= LastClock
    /\ at \in Nat /\ at <= instant
    /\ written \in [Samples -> Nat]
    /\ safe \in [raw : SUBSET Samples, rows : SUBSET SummaryType]
    /\ open \in BOOLEAN

(* Of measurements R and summaries Q: each measurement is in one place at  *)
(* most, and in a bucket it lies in.                                       *)
Sound(stamps, R, Q) ==
    /\ R \subseteq Samples /\ Q \subseteq SummaryType
    /\ \A s \in R : stamps[s] <= LastClock
    /\ \A r \in Q : \A s \in r.members :
          /\ stamps[s] <= LastClock /\ s \notin R
          /\ Tiers!Bucket(stamps[s], Tiers!Width(r)) = r.bucket
    /\ \A r, q \in Q : r.members \cap q.members # {} => r = q

(* And what was measured within the retention is there.                    *)
Full(stamps, now, R, Q) ==
    \A s \in Samples :
        stamps[s] <= LastClock /\ stamps[s] >= Tiers!Minus(now, Keep)
           => s \in R \/ \E r \in Q : s \in r.members

(* Both at once.                                                           *)
TablesRight(stamps, now, R, Q) == Sound(stamps, R, Q) /\ Full(stamps, now, R, Q)

(* The inductive invariant of the tables.                                  *)
TierInv ==
    /\ TierTypes
    /\ TablesRight(written, instant, raw, rows)
    /\ TablesRight(written, instant, safe.raw, safe.rows)

(* Subtraction in naturals.                                                *)
LEMMA MinusFacts ==
    ASSUME NEW a \in Nat, NEW b \in Nat
    PROVE  /\ Tiers!Minus(a, b) \in Nat
           /\ \A c \in Nat : c <= a => Tiers!Minus(c, b) <= Tiers!Minus(a, b)
  BY DEF Tiers!Minus

(* The widths of the two kinds of rows.                                    *)
LEMMA WidthFacts ==
    ASSUME Tiers!TiersAssumption
    PROVE  /\ Fine \in Nat \ {0} /\ Coarse \in Nat \ {0} /\ Fits(Fine, Coarse)
           /\ \A r \in SummaryType : Tiers!Width(r) \in Nat \ {0}
<1>1. PICK k \in 1..Coarse : Coarse = k * Fine
  BY DEF Tiers!TiersAssumption
<1>2. Fine \in Nat \ {0} /\ Coarse \in Nat \ {0} /\ k \in Nat \ {0}
  BY <1>1 DEF Tiers!TiersAssumption
<1>3. Fits(Fine, Coarse)
  BY <1>1, <1>2 DEF Fits
<1>4. QED
  BY <1>2, <1>3 DEF Tiers!Width

(* A change of the tables is right in the tables worked on, and in the     *)
(* committed ones if it is committed at once.                              *)
LEMMA ChangeKeeps ==
    ASSUME TierInv, TierTypes', UNCHANGED <<instant, written>>,
           NEW R, NEW Q, Tiers!Change(R, Q), TablesRight(written, instant, R, Q)
    PROVE  TierInv'
<1>1. raw' = R /\ rows' = Q /\ (safe' = safe \/ safe' = [raw |-> R, rows |-> Q])
  BY DEF Tiers!Change
<1>2. TablesRight(written, instant, safe'.raw, safe'.rows)
  <2>1. CASE safe' = safe
    BY <2>1 DEF TierInv
  <2>2. CASE safe' = [raw |-> R, rows |-> Q]
    BY <2>2
  <2>3. QED
    BY <1>1, <2>1, <2>2
<1>3. TablesRight(written, instant, raw', rows')
  BY <1>1
<1>4. TablesRight(written, instant, raw, rows)' /\ TablesRight(written, instant, safe.raw, safe.rows)'
  BY <1>2, <1>3 DEF TablesRight, Sound, Full
<1>5. QED
  BY <1>4 DEF TierInv

(* The types after a change.                                               *)
LEMMA ChangeTypes ==
    ASSUME TierTypes, UNCHANGED <<instant, written, at, open>>,
           NEW R, NEW Q, Tiers!Change(R, Q), Sound(written, R, Q)
    PROVE  TierTypes'
<1>1. safe' = safe \/ safe' = [raw |-> R, rows |-> Q]
  BY DEF Tiers!Change
<1>2. [raw |-> R, rows |-> Q] \in [raw : SUBSET Samples, rows : SUBSET SummaryType]
  BY DEF Sound
<1>3. QED
  BY <1>1, <1>2 DEF TierTypes

(* Measurements are rolled up.                                             *)
LEMMA RawRolled ==
    ASSUME Tiers!TiersAssumption, TierInv, NEW from, NEW to,
           NEW kind \in {"1m", "15m"}, NEW width, width = (IF kind = "1m" THEN Fine ELSE Coarse)
    PROVE  TablesRight(written, instant, raw \ Tiers!RawIn(from, to),
                       rows \cup Tiers!FromRaw(from, to, width, kind))
<1> DEFINE I == Tiers!RawIn(from, to)
           Group(b) == {s \in I : Tiers!Bucket(written[s], width) = b}
           Made(b) == [tier |-> kind, bucket |-> b, members |-> Group(b)]
           N == Tiers!FromRaw(from, to, width, kind)
<1>1. /\ I \subseteq raw /\ raw \subseteq Samples /\ rows \subseteq SummaryType
      /\ written \in [Samples -> Nat] /\ width \in Nat \ {0}
      /\ Sound(written, raw, rows) /\ Full(written, instant, raw, rows)
  BY WidthFacts DEF Tiers!RawIn, TierInv, TierTypes, TablesRight, Sound
<1>2. N = {Made(b) : b \in {Tiers!Bucket(written[s], width) : s \in I}}
  BY DEF Tiers!FromRaw
<1>3. \A s \in I : /\ Tiers!Bucket(written[s], width) \in Nat
                   /\ Made(Tiers!Bucket(written[s], width)) \in N
                   /\ s \in Made(Tiers!Bucket(written[s], width)).members
  <2>1. \A s \in I : written[s] \in Nat
    BY <1>1
  <2>2. \A s \in I : Tiers!Bucket(written[s], width) \in Nat
    BY <1>1, <2>1, BucketFacts
  <2> HIDE DEF I, N
  <2>3. QED
    BY <1>2, <2>2
<1> HIDE DEF I, N
<1>4. \A r \in N : /\ r \in SummaryType /\ Tiers!Width(r) = width
                   /\ r = Made(r.bucket)
                   /\ \A s \in r.members : s \in I /\ Tiers!Bucket(written[s], width) = r.bucket
  <2>1. ASSUME NEW r \in N
        PROVE  /\ r \in SummaryType /\ Tiers!Width(r) = width
               /\ r = Made(r.bucket)
               /\ \A s \in r.members : s \in I /\ Tiers!Bucket(written[s], width) = r.bucket
    <3>1. PICK s \in I : r = Made(Tiers!Bucket(written[s], width))
      BY <1>2
    <3>2. Tiers!Bucket(written[s], width) \in Nat /\ I \subseteq Samples
      BY <1>1, <1>3
    <3>3. QED
      BY <3>1, <3>2 DEF SummaryType, Tiers!Width
  <2>2. QED
    BY <2>1
<1> HIDE DEF Made
<1>5. Sound(written, raw \ I, rows \cup N)
  <2>1. raw \ I \subseteq Samples /\ rows \cup N \subseteq SummaryType
    BY <1>1, <1>4
  <2>2. \A s \in raw : written[s] <= LastClock
    BY <1>1 DEF Sound
  <2>3. ASSUME NEW r \in rows \cup N, NEW s \in r.members
        PROVE  /\ written[s] <= LastClock /\ s \notin raw \ I
               /\ Tiers!Bucket(written[s], Tiers!Width(r)) = r.bucket
    <3>1. CASE r \in rows
      BY <1>1, <2>3, <3>1 DEF Sound
    <3>2. CASE r \in N
      BY <1>1, <1>4, <2>2, <2>3, <3>2
    <3>3. QED
      BY <3>1, <3>2
  <2>4. ASSUME NEW r \in rows \cup N, NEW q \in rows \cup N, NEW s \in r.members \cap q.members
        PROVE  r = q
    <3>1. CASE r \in rows /\ q \in rows
      BY <1>1, <3>1 DEF Sound
    <3>2. CASE r \in N /\ q \in N
      BY <1>4, <3>2
    <3>3. CASE r \in rows /\ q \in N
      BY <1>1, <1>4, <3>3 DEF Sound
    <3>4. CASE r \in N /\ q \in rows
      BY <1>1, <1>4, <3>4 DEF Sound
    <3>5. QED
      BY <3>1, <3>2, <3>3, <3>4
  <2>5. QED
    BY <2>1, <2>2, <2>3, <2>4 DEF Sound
<1>6. Full(written, instant, raw \ I, rows \cup N)
  BY <1>1, <1>3 DEF Full
<1>7. QED
  BY <1>5, <1>6 DEF TablesRight, I, N

(* Fine rows are rolled up into coarse ones.                               *)
LEMMA FineRolled ==
    ASSUME Tiers!TiersAssumption, TierInv, NEW from, NEW to
    PROVE  TablesRight(written, instant, raw,
                       (rows \ Tiers!FineIn(from, to)) \cup Tiers!FromFine(from, to))
<1> DEFINE I == Tiers!FineIn(from, to)
           In(b) == {q \in I : Tiers!Bucket(q.bucket, Coarse) = b}
           Made(b) == [tier |-> "15m", bucket |-> b,
                       members |-> UNION {r.members : r \in In(b)}]
           N == Tiers!FromFine(from, to)
<1>1. /\ I \subseteq rows /\ raw \subseteq Samples /\ rows \subseteq SummaryType
      /\ \A r \in I : r.tier = "1m" /\ Tiers!Width(r) = Fine /\ r.bucket \in Nat
      /\ written \in [Samples -> Nat]
      /\ Sound(written, raw, rows) /\ Full(written, instant, raw, rows)
      /\ Fine \in Nat \ {0} /\ Coarse \in Nat \ {0} /\ Fits(Fine, Coarse)
  <2>1. rows \subseteq SummaryType /\ I \subseteq rows /\ \A r \in I : r.tier = "1m"
    BY DEF Tiers!FineIn, TierInv, TablesRight, Sound
  <2>2. \A r \in SummaryType : r.bucket \in Nat
    BY DEF SummaryType
  <2>3. QED
    BY <2>1, <2>2, WidthFacts DEF TierInv, TierTypes, TablesRight, Sound, Tiers!Width
<1>2. N = {Made(b) : b \in {Tiers!Bucket(r.bucket, Coarse) : r \in I}}
  BY DEF Tiers!FromFine
<1> HIDE DEF I, N
<1>3. \A r \in I : /\ Tiers!Bucket(r.bucket, Coarse) \in Nat
                   /\ Made(Tiers!Bucket(r.bucket, Coarse)) \in N
                   /\ r.members \subseteq Made(Tiers!Bucket(r.bucket, Coarse)).members
  <2>1. \A r \in I : Tiers!Bucket(r.bucket, Coarse) \in Nat
    BY <1>1, BucketFacts
  <2>2. ASSUME NEW r \in I PROVE r.members \subseteq Made(Tiers!Bucket(r.bucket, Coarse)).members
    <3>1. r \in In(Tiers!Bucket(r.bucket, Coarse))
      OBVIOUS
    <3>2. QED
      BY <3>1
  <2> HIDE DEF Made
  <2>3. QED
    BY <1>2, <2>1, <2>2
<1>4. ASSUME NEW r \in N
      PROVE  /\ r \in SummaryType /\ Tiers!Width(r) = Coarse
             /\ r = Made(r.bucket)
             /\ \A s \in r.members : \E p \in I : s \in p.members
                                       /\ Tiers!Bucket(p.bucket, Coarse) = r.bucket
  <2>1. PICK p \in I : r = Made(Tiers!Bucket(p.bucket, Coarse))
    BY <1>2
  <2> DEFINE b == Tiers!Bucket(p.bucket, Coarse)
  <2>2. b \in Nat
    BY <1>3
  <2> HIDE DEF b
  <2>3. r = Made(b)
    BY <2>1 DEF b
  <2>4. \A q \in I : q.members \subseteq Samples
    BY <1>1 DEF SummaryType
  <2>5. Made(b).members \subseteq Samples
    BY <2>4
  <2>6. Made(b) \in SummaryType
    BY <2>2, <2>5 DEF SummaryType
  <2>7. r.bucket = b /\ r.tier = "15m" /\ r.members = UNION {q.members : q \in In(b)}
    BY <2>3
  <2>8. QED
    BY <2>3, <2>6, <2>7 DEF Tiers!Width
<1> HIDE DEF Made
<1>5. \A r \in N : \A s \in r.members : \E p \in I :
         /\ s \in p.members /\ Tiers!Bucket(p.bucket, Coarse) = r.bucket
         /\ p \in rows /\ written[s] <= LastClock /\ s \notin raw
         /\ Tiers!Bucket(written[s], Coarse) = r.bucket
  <2>1. SUFFICES ASSUME NEW r \in N, NEW s \in r.members
                 PROVE  \E p \in I :
                           /\ s \in p.members /\ Tiers!Bucket(p.bucket, Coarse) = r.bucket
                           /\ p \in rows /\ written[s] <= LastClock /\ s \notin raw
                           /\ Tiers!Bucket(written[s], Coarse) = r.bucket
    OBVIOUS
  <2>2. PICK p \in I : s \in p.members /\ Tiers!Bucket(p.bucket, Coarse) = r.bucket
    BY <1>4
  <2>3. /\ p \in rows /\ written[s] <= LastClock /\ s \notin raw
        /\ Tiers!Bucket(written[s], Fine) = p.bucket
    BY <1>1, <2>2 DEF Sound
  <2>4. s \in Samples /\ written[s] \in Nat
    BY <1>1, <2>2, <2>3 DEF SummaryType
  <2>5. Tiers!Bucket(Tiers!Bucket(written[s], Fine), Coarse) = Tiers!Bucket(written[s], Coarse)
    BY <1>1, <2>4, BucketOfBucket
  <2>6. QED
    BY <2>2, <2>3, <2>5
<1> DEFINE Q == (rows \ I) \cup N
<1>6. Sound(written, raw, Q)
  <2>1. raw \subseteq Samples /\ Q \subseteq SummaryType /\ \A s \in raw : written[s] <= LastClock
    BY <1>1, <1>4 DEF Sound
  <2>2. ASSUME NEW r \in Q, NEW s \in r.members
        PROVE  /\ written[s] <= LastClock /\ s \notin raw
               /\ Tiers!Bucket(written[s], Tiers!Width(r)) = r.bucket
    <3>1. CASE r \in rows
      BY <1>1, <2>2, <3>1 DEF Sound
    <3>2. CASE r \in N
      BY <1>4, <1>5, <2>2, <3>2
    <3>3. QED
      BY <3>1, <3>2
  <2>3. ASSUME NEW r \in Q, NEW q \in Q, NEW s \in r.members \cap q.members
        PROVE  r = q
    <3>0. \A x, y \in rows : s \in x.members /\ s \in y.members => x = y
      BY <1>1 DEF Sound
    <3>1. CASE r \in rows \ I /\ q \in rows \ I
      BY <3>0, <3>1
    <3>2. CASE r \in N /\ q \in N
      <4>1. PICK p1 \in I : /\ s \in p1.members /\ p1 \in rows
                            /\ Tiers!Bucket(p1.bucket, Coarse) = r.bucket
        BY <1>5, <3>2
      <4>2. PICK p2 \in I : /\ s \in p2.members /\ p2 \in rows
                            /\ Tiers!Bucket(p2.bucket, Coarse) = q.bucket
        BY <1>5, <3>2
      <4>3. r.bucket = q.bucket
        BY <3>0, <4>1, <4>2
      <4>4. r = Made(r.bucket) /\ q = Made(q.bucket)
        BY <1>4, <3>2
      <4>5. QED
        BY <4>3, <4>4
    <3>3. CASE r \in rows \ I /\ q \in N
      BY <1>5, <3>0, <3>3
    <3>4. CASE r \in N /\ q \in rows \ I
      BY <1>5, <3>0, <3>4
    <3>5. QED
      BY <3>1, <3>2, <3>3, <3>4
  <2> HIDE DEF Q
  <2>4. QED
    BY <2>1, <2>2, <2>3 DEF Sound
<1>7. Full(written, instant, raw, Q)
  <2>1. ASSUME NEW s, NEW r \in rows, s \in r.members PROVE \E q \in Q : s \in q.members
    <3>1. CASE r \notin I
      BY <2>1, <3>1
    <3>2. CASE r \in I
      BY <1>3, <2>1, <3>2
    <3>3. QED
      BY <3>1, <3>2
  <2> HIDE DEF Q
  <2>2. QED
    BY <1>1, <2>1 DEF Full
<1>8. QED
  BY <1>6, <1>7 DEF TablesRight, I, N

(* Of a smaller table that lost what is over, what was said holds.         *)
LEMMA LessRight ==
    ASSUME TierInv, NEW R, NEW Q, R \subseteq raw, Q \subseteq rows,
           \A s \in raw \ R : ~(written[s] >= Tiers!Minus(instant, Keep)),
           \A r \in rows \ Q : \A s \in r.members : ~(written[s] >= Tiers!Minus(instant, Keep))
    PROVE  TablesRight(written, instant, R, Q)
<1>1. Sound(written, raw, rows) /\ Full(written, instant, raw, rows)
  BY DEF TierInv, TablesRight
<1>2. Sound(written, R, Q)
  BY <1>1 DEF Sound
<1>3. Full(written, instant, R, Q)
  <2>1. SUFFICES ASSUME NEW s \in Samples, written[s] <= LastClock,
                        written[s] >= Tiers!Minus(instant, Keep)
                 PROVE  s \in R \/ \E r \in Q : s \in r.members
    BY DEF Full
  <2>2. s \in raw \/ \E r \in rows : s \in r.members
    BY <1>1, <2>1 DEF Full
  <2>3. QED
    BY <2>1, <2>2
<1>4. QED
  BY <1>2, <1>3 DEF TablesRight

(* The steps of the pass.                                                  *)
LEMMA PassKeeps ==
    ASSUME Tiers!TiersAssumption, TierInv,
           Tiers!RollUp \/ Tiers!Expire \/ Tiers!ExpireRows \/ Tiers!Commit \/ Tiers!Crash
    PROVE  TierInv'
<1>0. /\ TierTypes /\ TablesRight(written, instant, raw, rows)
      /\ TablesRight(written, instant, safe.raw, safe.rows)
      /\ instant \in Nat /\ at \in Nat /\ at <= instant /\ Keep \in Nat
      /\ written \in [Samples -> Nat]
  BY DEF TierInv, TierTypes, Tiers!TiersAssumption
<1>1. CASE Tiers!RollUp
  <2>1. /\ UNCHANGED <<instant, written, at, open>> /\ step \in {"warm", "cold", "cascade"}
        /\ Tiers!RolledUp \/ Tiers!Failed
    BY <1>1 DEF Tiers!RollUp
  <2>2. \E R, Q : Tiers!Change(R, Q) /\ TablesRight(written, instant, R, Q)
    <3>1. CASE Tiers!Failed
      BY <1>0, <3>1 DEF Tiers!Failed
    <3>2. CASE Tiers!RolledUp /\ step = "warm"
      <4>1. Tiers!Change(raw \ Tiers!RawIn(Tiers!WarmFrom, Tiers!WarmTo),
               rows \cup Tiers!FromRaw(Tiers!WarmFrom, Tiers!WarmTo, Fine, "1m"))
        BY <3>2 DEF Tiers!RolledUp
      <4>2. TablesRight(written, instant, raw \ Tiers!RawIn(Tiers!WarmFrom, Tiers!WarmTo),
               rows \cup Tiers!FromRaw(Tiers!WarmFrom, Tiers!WarmTo, Fine, "1m"))
        BY RawRolled
      <4>3. QED
        BY <4>1, <4>2
    <3>3. CASE Tiers!RolledUp /\ step = "cold"
      <4>1. Tiers!Change(raw \ Tiers!RawIn(Tiers!ColdFrom, Tiers!ColdTo),
               rows \cup Tiers!FromRaw(Tiers!ColdFrom, Tiers!ColdTo, Coarse, "15m"))
        BY <3>3 DEF Tiers!RolledUp
      <4>2. TablesRight(written, instant, raw \ Tiers!RawIn(Tiers!ColdFrom, Tiers!ColdTo),
               rows \cup Tiers!FromRaw(Tiers!ColdFrom, Tiers!ColdTo, Coarse, "15m"))
        BY RawRolled
      <4>3. QED
        BY <4>1, <4>2
    <3>4. CASE Tiers!RolledUp /\ step = "cascade"
      <4>1. Tiers!Change(raw, (rows \ Tiers!FineIn(Tiers!ColdFrom, Tiers!ColdTo))
                                 \cup Tiers!FromFine(Tiers!ColdFrom, Tiers!ColdTo))
        BY <3>4 DEF Tiers!RolledUp
      <4>2. TablesRight(written, instant, raw,
               (rows \ Tiers!FineIn(Tiers!ColdFrom, Tiers!ColdTo))
                  \cup Tiers!FromFine(Tiers!ColdFrom, Tiers!ColdTo))
        BY FineRolled
      <4>3. QED
        BY <4>1, <4>2
    <3>5. QED
      BY <2>1, <3>1, <3>2, <3>3, <3>4
  <2>3. PICK R, Q : Tiers!Change(R, Q) /\ TablesRight(written, instant, R, Q)
    BY <2>2
  <2>4. TierTypes'
    BY <1>0, <2>1, <2>3, ChangeTypes DEF TablesRight
  <2>5. QED
    BY <2>1, <2>3, <2>4, ChangeKeeps
<1>2. /\ Tiers!ColdFrom \in Nat /\ Tiers!ColdFrom <= Tiers!Minus(instant, Keep)
      /\ Tiers!Minus(instant, Keep) \in Nat
  BY <1>0, MinusFacts DEF Tiers!ColdFrom
<1>3. CASE Tiers!Expire
  <2>1. /\ UNCHANGED <<instant, written, rows, at, safe>> /\ open' = TRUE
        /\ raw' = {s \in raw : written[s] >= Tiers!ColdFrom} \/ raw' = raw
    BY <1>3 DEF Tiers!Expire
  <2>2. \A s \in raw : written[s] \in Nat
    BY <1>0 DEF TablesRight, Sound
  <2>3. \A s \in raw \ raw' : ~(written[s] >= Tiers!Minus(instant, Keep))
    BY <1>2, <2>1, <2>2
  <2>4. TablesRight(written, instant, raw', rows)
    BY <2>1, <2>3, LessRight
  <2>5. TablesRight(written, instant, raw, rows)' /\ TablesRight(written, instant, safe.raw, safe.rows)'
    BY <1>0, <2>1, <2>4 DEF TablesRight, Sound, Full
  <2>6. QED
    BY <1>0, <2>1, <2>5 DEF TierInv, TierTypes
<1>4. CASE Tiers!ExpireRows
  <2>1. /\ UNCHANGED <<instant, written, raw, at, open, safe>>
        /\ rows' = {r \in rows : ~Tiers!Over(r)} \/ rows' = rows
    BY <1>4 DEF Tiers!ExpireRows
  <2>2. ASSUME NEW r \in rows \ rows', NEW s \in r.members
        PROVE  ~(written[s] >= Tiers!Minus(instant, Keep))
    <3>1. /\ r.bucket + Tiers!Width(r) <= Tiers!ColdFrom /\ s \in Samples /\ r \in SummaryType
          /\ Tiers!Bucket(written[s], Tiers!Width(r)) = r.bucket
      BY <1>0, <2>1, <2>2 DEF Tiers!Over, TablesRight, Sound, SummaryType
    <3>2. written[s] \in Nat /\ r.bucket \in Nat /\ Tiers!Width(r) \in Nat \ {0}
      BY <1>0, <3>1, WidthFacts DEF SummaryType
    <3>3. written[s] < r.bucket + Tiers!Width(r)
      BY <3>1, <3>2, BucketFacts
    <3>4. QED
      BY <1>2, <3>1, <3>2, <3>3
  <2>3. TablesRight(written, instant, raw, rows')
    BY <2>1, <2>2, LessRight
  <2>4. TablesRight(written, instant, raw, rows)' /\ TablesRight(written, instant, safe.raw, safe.rows)'
    BY <1>0, <2>1, <2>3 DEF TablesRight, Sound, Full
  <2>5. QED
    BY <1>0, <2>1, <2>4 DEF TierInv, TierTypes
<1>5. CASE Tiers!Commit
  <2>1. /\ UNCHANGED <<instant, written, at>> /\ open' = FALSE
        /\ \/ safe' = [raw |-> raw, rows |-> rows] /\ UNCHANGED <<raw, rows>>
           \/ raw' = safe.raw /\ rows' = safe.rows /\ UNCHANGED safe
    BY <1>5 DEF Tiers!Commit
  <2>2. TablesRight(written, instant, raw', rows')
        /\ TablesRight(written, instant, safe'.raw, safe'.rows)
    BY <1>0, <2>1
  <2>3. TablesRight(written, instant, raw, rows)' /\ TablesRight(written, instant, safe.raw, safe.rows)'
    BY <2>1, <2>2 DEF TablesRight, Sound, Full
  <2>4. raw \subseteq Samples /\ rows \subseteq SummaryType
    BY <1>0 DEF TablesRight, Sound
  <2>5. safe' \in [raw : SUBSET Samples, rows : SUBSET SummaryType]
    <3>1. [raw |-> raw, rows |-> rows] \in [raw : SUBSET Samples, rows : SUBSET SummaryType]
      BY <2>4
    <3>2. QED
      BY <1>0, <2>1, <3>1 DEF TierTypes
  <2>6. TierTypes'
    BY <1>0, <2>1, <2>5 DEF TierTypes
  <2>7. QED
    BY <2>3, <2>6 DEF TierInv
<1>6. CASE Tiers!Crash
  <2>1. /\ UNCHANGED <<instant, written, at, safe>> /\ open' = FALSE
        /\ raw' = safe.raw /\ rows' = safe.rows
    BY <1>6 DEF Tiers!Crash
  <2>2. TablesRight(written, instant, raw, rows)' /\ TablesRight(written, instant, safe.raw, safe.rows)'
    BY <1>0, <2>1 DEF TablesRight, Sound, Full
  <2>3. QED
    BY <1>0, <2>1, <2>2 DEF TierInv, TierTypes
<1>7. QED
  BY <1>1, <1>3, <1>4, <1>5, <1>6

(* Something is measured: it is in no table yet.                           *)
LEMMA RecordKeeps ==
    ASSUME Tiers!TiersAssumption, TierInv, NEW s \in Samples, NEW t, Tiers!Record(s, t)
    PROVE  TierInv' /\ \A x \in Samples : written[x] <= LastClock => written'[x] = written[x]
<1>0. /\ TierTypes /\ TablesRight(written, instant, raw, rows)
      /\ instant \in Nat /\ instant <= LastClock /\ written \in [Samples -> Nat]
      /\ LastClock \in Nat /\ Late \in Nat
  BY DEF TierInv, TierTypes, Tiers!TiersAssumption
<1>1. /\ written[s] > LastClock /\ ~open
      /\ t \in Tiers!Minus(instant, Late)..instant
      /\ written' = [written EXCEPT ![s] = t] /\ UNCHANGED <<instant, at, open>>
      /\ raw' = raw \cup {s} /\ rows' = rows /\ safe' = [raw |-> raw', rows |-> rows']
  BY DEF Tiers!Record, Tiers!Change
<1>2. t \in Nat /\ t <= LastClock
  <2>1. Tiers!Minus(instant, Late) \in Nat
    BY <1>0, MinusFacts
  <2>2. QED
    BY <1>0, <1>1, <2>1
<1>3. /\ written'[s] = t /\ written' \in [Samples -> Nat]
      /\ \A x \in Samples : x # s => written'[x] = written[x]
      /\ \A x \in Samples : written[x] <= LastClock => x # s /\ written'[x] = written[x]
  BY <1>0, <1>1, <1>2
<1>4. /\ Sound(written, raw, rows) /\ Full(written, instant, raw, rows)
      /\ raw \subseteq Samples /\ rows \subseteq SummaryType
      /\ \A r \in rows : \A x \in r.members : x \in Samples /\ written[x] <= LastClock
  BY <1>0 DEF TablesRight, Sound, SummaryType
<1>5. \A r \in rows : \A x \in r.members : x # s /\ written'[x] = written[x]
  BY <1>3, <1>4
<1>6. Sound(written', raw', rows')
  <2>1. raw' \subseteq Samples /\ rows' \subseteq SummaryType
    BY <1>1, <1>4
  <2>2. \A x \in raw' : written'[x] <= LastClock
    BY <1>1, <1>2, <1>3, <1>4 DEF Sound
  <2>3. ASSUME NEW r \in rows', NEW x \in r.members
        PROVE  /\ written'[x] <= LastClock /\ x \notin raw'
               /\ Tiers!Bucket(written'[x], Tiers!Width(r)) = r.bucket
    BY <1>1, <1>4, <1>5, <2>3 DEF Sound
  <2>4. \A r, q \in rows' : r.members \cap q.members # {} => r = q
    BY <1>1, <1>4 DEF Sound
  <2>5. QED
    BY <2>1, <2>2, <2>3, <2>4 DEF Sound
<1>7. Full(written', instant', raw', rows')
  <2>1. SUFFICES ASSUME NEW x \in Samples, written'[x] <= LastClock,
                        written'[x] >= Tiers!Minus(instant, Keep)
                 PROVE  x \in raw' \/ \E r \in rows' : x \in r.members
    BY <1>1 DEF Full
  <2>2. CASE x = s
    BY <1>1, <2>2
  <2>3. CASE x # s
    BY <1>1, <1>3, <1>4, <2>1, <2>3 DEF Full
  <2>4. QED
    BY <2>2, <2>3
<1>8. TierTypes'
  <2>1. safe' \in [raw : SUBSET Samples, rows : SUBSET SummaryType]
    BY <1>1, <1>4
  <2>2. QED
    BY <1>0, <1>1, <1>3, <2>1 DEF TierTypes
<1>9. TablesRight(written, instant, raw, rows)' /\ TablesRight(written, instant, safe.raw, safe.rows)'
  <2>1. TablesRight(written', instant', raw', rows')
    BY <1>6, <1>7 DEF TablesRight
  <2>2. safe'.raw = raw' /\ safe'.rows = rows'
    BY <1>1
  <2>3. QED
    BY <2>1, <2>2 DEF TablesRight, Sound, Full
<1>10. QED
  BY <1>3, <1>8, <1>9 DEF TierInv

(* A pass begins, or time passes: what is within the retention was before. *)
LEMMA ClockKeeps ==
    ASSUME Tiers!TiersAssumption, TierInv,
           (\E first \in BOOLEAN : Tiers!Begin(first)) \/ Tiers!Tick \/ UNCHANGED Tiers!vars
    PROVE  TierInv'
<1>0. /\ TierTypes /\ TablesRight(written, instant, raw, rows)
      /\ TablesRight(written, instant, safe.raw, safe.rows)
      /\ instant \in Nat /\ at \in Nat /\ at <= instant /\ Keep \in Nat /\ LastClock \in Nat
      /\ written \in [Samples -> Nat]
  BY DEF TierInv, TierTypes, Tiers!TiersAssumption
<1>1. /\ UNCHANGED <<written, raw, rows, safe>> /\ instant' \in Nat /\ instant <= instant'
      /\ instant' <= LastClock /\ at' \in Nat /\ at' <= instant' /\ open' \in BOOLEAN
  <2>1. CASE \E first \in BOOLEAN : Tiers!Begin(first)
    BY <1>0, <2>1 DEF Tiers!Begin, TierTypes
  <2>2. CASE Tiers!Tick
    BY <1>0, <2>2 DEF Tiers!Tick, TierTypes
  <2>3. CASE UNCHANGED Tiers!vars
    BY <1>0, <2>3 DEF Tiers!vars, TierTypes
  <2>4. QED
    BY <2>1, <2>2, <2>3
<1>2. Tiers!Minus(instant, Keep) <= Tiers!Minus(instant', Keep)
      /\ Tiers!Minus(instant, Keep) \in Nat /\ Tiers!Minus(instant', Keep) \in Nat
  BY <1>0, <1>1, MinusFacts
<1>3. ASSUME NEW R, NEW Q, TablesRight(written, instant, R, Q)
      PROVE  TablesRight(written, instant', R, Q)
  <2>1. \A s \in Samples : written[s] >= Tiers!Minus(instant', Keep)
                              => written[s] >= Tiers!Minus(instant, Keep)
    BY <1>0, <1>2
  <2>2. QED
    BY <1>3, <2>1 DEF TablesRight, Full
<1>4. TablesRight(written, instant', raw, rows) /\ TablesRight(written, instant', safe.raw, safe.rows)
  BY <1>0, <1>3
<1>5. TablesRight(written, instant, raw, rows)' /\ TablesRight(written, instant, safe.raw, safe.rows)'
  BY <1>1, <1>4 DEF TablesRight, Sound, Full
<1>6. TierTypes'
  BY <1>0, <1>1 DEF TierTypes
<1>7. QED
  BY <1>5, <1>6 DEF TierInv

(* The invariant holds at the start.                                       *)
LEMMA TierStart ==
    ASSUME Tiers!TiersAssumption, Tiers!Init
    PROVE  TierInv
<1>1. /\ instant = Keep /\ written = [s \in Samples |-> LastClock + 1] /\ raw = {} /\ rows = {}
      /\ at = 0 /\ open = FALSE /\ safe = [raw |-> {}, rows |-> {}]
      /\ Keep \in Nat /\ LastClock \in Nat /\ Keep <= LastClock
  BY DEF Tiers!Init, Tiers!TiersAssumption
<1>2. TierTypes
  <2>1. safe \in [raw : SUBSET Samples, rows : SUBSET SummaryType]
    BY <1>1
  <2>2. [s \in Samples |-> LastClock + 1] \in [Samples -> Nat]
    BY <1>1
  <2>3. instant \in Nat /\ instant <= LastClock /\ at \in Nat /\ at <= instant
    BY <1>1
  <2>4. open \in BOOLEAN
    BY <1>1, Zenon
  <2>5. written \in [Samples -> Nat]
    BY <1>1, <2>2
  <2>6. QED
    BY <2>1, <2>3, <2>4, <2>5 DEF TierTypes
<1>3. TablesRight(written, instant, {}, {})
  <2>1. \A s \in Samples : ~(written[s] <= LastClock)
    BY <1>1
  <2>2. QED
    BY <2>1 DEF TablesRight, Sound, Full
<1>4. QED
  BY <1>1, <1>2, <1>3 DEF TierInv

(* A step of the tables keeps the invariant, and no stamp changes.         *)
LEMMA TierStep ==
    ASSUME Tiers!TiersAssumption, TierInv, [Tiers!Next]_Tiers!vars
    PROVE  TierInv' /\ \A x \in Samples : written[x] <= LastClock => written'[x] = written[x]
<1>1. CASE \E s \in Samples, t \in 0..LastClock : Tiers!Record(s, t)
  BY <1>1, RecordKeeps
<1>2. CASE (\E first \in BOOLEAN : Tiers!Begin(first)) \/ Tiers!Tick \/ UNCHANGED Tiers!vars
  <2>1. UNCHANGED written
    BY <1>2 DEF Tiers!Begin, Tiers!Tick, Tiers!vars
  <2>2. QED
    BY <1>2, <2>1, ClockKeeps
<1>3. CASE Tiers!RollUp \/ Tiers!Expire \/ Tiers!ExpireRows \/ Tiers!Commit \/ Tiers!Crash
  <2>1. UNCHANGED written
    BY <1>3 DEF Tiers!RollUp, Tiers!Expire, Tiers!ExpireRows, Tiers!Commit, Tiers!Crash
  <2>2. QED
    BY <1>3, <2>1, PassKeeps
<1>4. QED
  BY <1>1, <1>2, <1>3 DEF Tiers!Next

(* The invariant of the tables holds throughout.                           *)
THEOREM TierInvariant ==
    ASSUME Tiers!TiersAssumption
    PROVE  Tiers!Spec => []TierInv
<1>1. Tiers!Init => TierInv
  BY TierStart
<1>2. TierInv /\ [Tiers!Next]_Tiers!vars => TierInv'
  BY TierStep
<1>3. QED
  BY <1>1, <1>2, PTL DEF Tiers!Spec

(* The module's Cardinality is the library's.                              *)
LEMMA SameCount ==
    \A S : Tiers!Cardinality(S) = Cardinality(S)
  BY DEF Tiers!Cardinality, Cardinality

(* How often something is in a set of which at most one has it.            *)
LEMMA AtMostOne ==
    ASSUME NEW S, \A x, y \in S : x = y
    PROVE  /\ Tiers!Cardinality(S) \in {0, 1}
           /\ S # {} => Tiers!Cardinality(S) = 1
           /\ S = {} => Tiers!Cardinality(S) = 0
<1>1. CASE S = {}
  BY <1>1, SameCount, FS_EmptySet
<1>2. CASE S # {}
  <2>1. PICK x : S = {x}
    BY <1>2
  <2>2. QED
    BY <2>1, SameCount, FS_Singleton
<1>3. QED
  BY <1>1, <1>2

(* The tables say of every measurement what they should.                   *)
LEMMA RightIsCounted ==
    ASSUME NEW tables, NEW s \in Samples, written[s] <= LastClock,
           TablesRight(written, instant, tables.raw, tables.rows)
    PROVE  /\ Tiers!Counted(s, tables) <= 1
           /\ written[s] >= Tiers!Minus(instant, Keep) => Tiers!Counted(s, tables) = 1
           /\ \A r \in tables.rows : s \in r.members =>
                  Tiers!Bucket(written[s], Tiers!Width(r)) = r.bucket
<1> DEFINE S == {r \in tables.rows : s \in r.members}
<1>1. \A x, y \in S : x = y
  BY DEF TablesRight, Sound
<1>2. S # {} => s \notin tables.raw
  BY DEF TablesRight, Sound
<1>3. Tiers!Counted(s, tables) = Tiers!Cardinality(S) + (IF s \in tables.raw THEN 1 ELSE 0)
  BY DEF Tiers!Counted
<1>4. written[s] >= Tiers!Minus(instant, Keep) => s \in tables.raw \/ S # {}
  BY DEF TablesRight, Full
<1>5. \A r \in tables.rows : s \in r.members => Tiers!Bucket(written[s], Tiers!Width(r)) = r.bucket
  BY DEF TablesRight, Sound
<1> HIDE DEF S
<1>6. /\ Tiers!Cardinality(S) \in {0, 1}
      /\ S # {} => Tiers!Cardinality(S) = 1
      /\ S = {} => Tiers!Cardinality(S) = 0
  BY <1>1, AtMostOne
<1>7. CASE S = {}
  BY <1>3, <1>4, <1>5, <1>6, <1>7
<1>8. CASE S # {}
  <2>1. Tiers!Cardinality(S) = 1 /\ s \notin tables.raw
    BY <1>2, <1>6, <1>8
  <2>2. Tiers!Counted(s, tables) = 1
    BY <1>3, <2>1
  <2>3. QED
    BY <1>5, <2>2
<1>9. QED
  BY <1>7, <1>8

(* The tables' conjunct of CountedOnce: whatever fails, is late or is left *)
(* out, what was measured within the retention is counted exactly once, in *)
(* the committed tables and in the ones being worked on, and in a bucket it*)
(* lies in (metrics_retention.py:353, 671, 703).                           *)
THEOREM MeasuredCountedOnce ==
    Tiers!TiersAssumption => (Tiers!Spec => []Tiers!CountedOnce)
<1>1. SUFFICES ASSUME Tiers!TiersAssumption PROVE Tiers!Spec => []Tiers!CountedOnce
  OBVIOUS
<1>2. TierInv => Tiers!CountedOnce
  <2>1. SUFFICES ASSUME TierInv, NEW s \in Samples,
                        NEW tables \in {safe, [raw |-> raw, rows |-> rows]},
                        written[s] <= LastClock
                 PROVE  /\ Tiers!Counted(s, tables) <= 1
                        /\ written[s] >= Tiers!Minus(instant, Keep) => Tiers!Counted(s, tables) = 1
                        /\ \A r \in tables.rows : s \in r.members =>
                               Tiers!Bucket(written[s], Tiers!Width(r)) = r.bucket
    BY DEF Tiers!CountedOnce
  <2>2. TablesRight(written, instant, tables.raw, tables.rows)
    BY <2>1 DEF TierInv
  <2>3. QED
    BY <2>1, <2>2, RightIsCounted
<1>3. QED
  BY <1>1, <1>2, TierInvariant, PTL

(* What a tier has of a window, by the stamps given.                       *)
FoundAt(stamps, kind, w, tables) ==
    IF kind = "raw"
    THEN {[tier |-> "raw", bucket |-> stamps[s], members |-> {s}]
             : s \in {t \in tables.raw : stamps[t] >= w.since /\ stamps[t] < w.until}}
    ELSE {r \in tables.rows : /\ r.tier = kind
                              /\ r.bucket + Tiers!Width(r) > w.since
                              /\ r.bucket < w.until}

(* And what a query makes of it.                                           *)
Got(stamps, q, kind) ==
    {[row |-> r, bucket |-> Tiers!Bucket(r.bucket, q.window.width)]
        : r \in FoundAt(stamps, kind, q.window, q.seen)}

(* The tiers are read in turn, and the answer is what those read have.     *)
InTiers(stamps, q) ==
    \/ q.left = <<"raw", "1m", "15m">> /\ q.answer = {}
    \/ q.left = <<"1m", "15m">> /\ q.answer = Got(stamps, q, "raw")
    \/ q.left = <<"15m">> /\ q.answer = Got(stamps, q, "raw") \cup Got(stamps, q, "1m")
    \/ /\ q.left = <<>>
       /\ q.answer = Got(stamps, q, "raw") \cup Got(stamps, q, "1m") \cup Got(stamps, q, "15m")

(* The buckets of the query are made of whole buckets of the rows it finds.*)
WidthsFit(q) ==
    \A kind \in {"1m", "15m"} : \A r \in FoundAt(<<>>, kind, q.window, q.seen) :
        Fits(Tiers!Width(r), q.window.width)

(* A query sees tables that were right, and still are of what they have.   *)
QueryRight(stamps, q) ==
    /\ q = [window |-> q.window, seen |-> q.seen, left |-> q.left, answer |-> q.answer]
    /\ q.window \in [since : Nat, until : Nat, width : Nat \ {0}]
    /\ Sound(stamps, q.seen.raw, q.seen.rows)
    /\ WidthsFit(q)
    /\ InTiers(stamps, q)

(* The inductive invariant of tables and query.                            *)
ChartInv == TierInv /\ (query # Missing => QueryRight(written, query))

(* Of what a query saw no stamp changes any more.                          *)
LEMMA QueryStays ==
    ASSUME NEW old, NEW new, NEW q, QueryRight(old, q),
           \A s \in Samples : old[s] <= LastClock => new[s] = old[s]
    PROVE  QueryRight(new, q)
<1>1. Sound(old, q.seen.raw, q.seen.rows)
  BY DEF QueryRight
<1>2. /\ \A s \in q.seen.raw : new[s] = old[s]
      /\ \A r \in q.seen.rows : \A s \in r.members : new[s] = old[s]
  BY <1>1 DEF Sound, SummaryType
<1>3. Sound(new, q.seen.raw, q.seen.rows)
  BY <1>1, <1>2 DEF Sound
<1>4. \A kind : FoundAt(new, kind, q.window, q.seen) = FoundAt(old, kind, q.window, q.seen)
  <2>1. {t \in q.seen.raw : new[t] >= q.window.since /\ new[t] < q.window.until}
          = {t \in q.seen.raw : old[t] >= q.window.since /\ old[t] < q.window.until}
    BY <1>2
  <2>2. FoundAt(new, "raw", q.window, q.seen) = FoundAt(old, "raw", q.window, q.seen)
    BY <1>2, <2>1 DEF FoundAt
  <2>3. QED
    BY <2>2 DEF FoundAt
<1>5. \A kind : Got(new, q, kind) = Got(old, q, kind)
  BY <1>4 DEF Got
<1>6. InTiers(new, q)
  BY <1>5 DEF QueryRight, InTiers
<1>7. QED
  BY <1>3, <1>6 DEF QueryRight

(* A query begins.                                                         *)
LEMMA AskKeeps ==
    ASSUME Tiers!QueryAssumption, ChartInv, NEW w \in Windows, Tiers!Ask(w)
    PROVE  QueryRight(written, query')
<1> DEFINE width == Tiers!Rounded(w, safe)
           window == [w EXCEPT !.width = width]
           q == [window |-> window, seen |-> safe, left |-> <<"raw", "1m", "15m">>, answer |-> {}]
<1>1. query' = q
  BY DEF Tiers!Ask
<1>2. /\ w \in [since : Nat, until : Nat, width : Nat \ {0}]
      /\ Fine \in Nat \ {0} /\ Coarse \in Nat \ {0} /\ Fits(Fine, Coarse)
  BY WidthFacts DEF Tiers!QueryAssumption
<1> DEFINE native == IF Tiers!Found("15m", w, safe) # {} THEN Coarse
                     ELSE IF Tiers!Found("1m", w, safe) # {} THEN Fine ELSE 1
<1>3. width \in Nat \ {0} /\ Fits(native, width)
  <2>1. native \in Nat \ {0}
    BY <1>2
  <2>2. width = ((w.width + native - 1) \div native) * native
    BY DEF Tiers!Rounded
  <2> HIDE DEF native, width
  <2> DEFINE k == (w.width + native - 1) \div native
  <2>3. k \in Nat \ {0}
    <3> DEFINE n == w.width + native - 1
    <3>1. n \in Nat /\ n >= native
      BY <1>2, <2>1
    <3>2. n \div native \in Nat /\ n < (n \div native) * native + native
      BY <2>1, <3>1, BucketFacts
    <3>3. n \div native # 0
      BY <2>1, <3>1, <3>2
    <3>4. QED
      BY <3>2, <3>3
  <2>4. width = k * native
    BY <2>2
  <2> HIDE DEF k
  <2>5. k * native \in Nat \ {0}
    BY <2>1, <2>3
  <2>6. QED
    BY <2>3, <2>4, <2>5 DEF Fits
<1>4. Fits(native, width) /\ native = Coarse => Fits(Fine, width)
  <2> HIDE DEF width
  <2>1. SUFFICES ASSUME Fits(Coarse, width) PROVE Fits(Fine, width)
    OBVIOUS
  <2>2. PICK a \in Nat \ {0} : width = a * Coarse
    BY <2>1 DEF Fits
  <2>3. PICK b \in Nat \ {0} : Coarse = b * Fine
    BY <1>2 DEF Fits
  <2>4. width = (a * b) * Fine /\ a * b \in Nat \ {0}
    BY <1>2, <2>2, <2>3
  <2>5. QED
    BY <2>4 DEF Fits
<1>5. \A kind \in {"1m", "15m"} :
         FoundAt(<<>>, kind, window, safe) = Tiers!Found(kind, w, safe)
  <2>1. window.since = w.since /\ window.until = w.until
    BY <1>2
  <2> HIDE DEF window
  <2>2. QED
    BY <2>1 DEF FoundAt, Tiers!Found
<1>6. WidthsFit(q)
  <2>1. q.window = window /\ q.seen = safe /\ window.width = width
    BY <1>2
  <2> HIDE DEF q, window, width
  <2>2. ASSUME NEW r \in Tiers!Found("1m", w, safe) PROVE Fits(Tiers!Width(r), width)
    <3>1. Tiers!Width(r) = Fine
      BY DEF Tiers!Found, Tiers!Width
    <3>2. native = Coarse \/ native = Fine
      BY <2>2
    <3>3. QED
      BY <1>3, <1>4, <3>1, <3>2
  <2>3. ASSUME NEW r \in Tiers!Found("15m", w, safe) PROVE Fits(Tiers!Width(r), width)
    <3>1. Tiers!Width(r) = Coarse
      BY DEF Tiers!Found, Tiers!Width
    <3>2. native = Coarse
      BY <2>3
    <3>3. QED
      BY <1>3, <3>1, <3>2
  <2>4. QED
    BY <1>5, <2>1, <2>2, <2>3 DEF WidthsFit
<1>7. Sound(written, safe.raw, safe.rows)
  BY DEF ChartInv, TierInv, TablesRight
<1>8. InTiers(written, q)
  BY DEF InTiers
<1>9. q.window \in [since : Nat, until : Nat, width : Nat \ {0}]
  <2>1. q.window = window
    OBVIOUS
  <2> HIDE DEF q, width
  <2>2. window \in [since : Nat, until : Nat, width : Nat \ {0}]
    BY <1>2, <1>3
  <2>3. QED
    BY <2>1, <2>2
<1>10. QED
  <2>1. /\ q.seen = safe
        /\ q = [window |-> q.window, seen |-> q.seen, left |-> q.left, answer |-> q.answer]
    <3> HIDE DEF window
    <3>1. QED
      OBVIOUS
  <2> HIDE DEF q
  <2>2. QED
    BY <1>1, <1>6, <1>7, <1>8, <1>9, <2>1 DEF QueryRight

(* What of a query changes with a read.                                    *)
LEMMA ReadRecord ==
    ASSUME NEW w, NEW t, NEW k, NEW b, NEW l, NEW a, NEW q,
           q = [window |-> w, seen |-> t, left |-> k, answer |-> b]
    PROVE  [q EXCEPT !.left = l, !.answer = a]
              = [window |-> w, seen |-> t, left |-> l, answer |-> a]
<1> DEFINE q1 == [q EXCEPT !.left = l]
           q2 == [q1 EXCEPT !.answer = a]
           T == [window : {w}, seen : {t}, left : {k, l}, answer : {b, a}]
<1>1. q \in T
  OBVIOUS
<1>2. q1 \in T /\ q1.left = l /\ q1.answer = b
  OBVIOUS
<1>3. q2 \in T /\ q2.left = l /\ q2.answer = a
  <2> HIDE DEF q1
  <2>1. QED
    BY <1>2
<1>4. [q EXCEPT !.left = l, !.answer = a] = q2
  BY <1>1
<1>5. q2 = [window |-> w, seen |-> t, left |-> l, answer |-> a]
  <2> HIDE DEF q2
  <2>1. QED
    BY <1>3
<1>6. QED
  BY <1>4, <1>5

(* A tier is read.                                                         *)
LEMMA ReadKeeps ==
    ASSUME ChartInv, Tiers!Read
    PROVE  QueryRight(written, query')
<1>1. /\ query # Missing /\ QueryRight(written, query)
      /\ query.left # <<>>
  BY DEF Tiers!Read, ChartInv
<1> DEFINE kind == query.left[1]
           rest == [i \in 1..(Len(query.left) - 1) |-> query.left[i + 1]]
           found == {[row |-> r, bucket |-> Tiers!Bucket(r.bucket, query.window.width)]
                        : r \in Tiers!Found(kind, query.window, query.seen)}
<1>2. query' = [query EXCEPT !.left = rest, !.answer = query.answer \cup found]
  BY DEF Tiers!Read, Tiers!Sees
<1>3. found = Got(written, query, kind)
  BY DEF Got, FoundAt, Tiers!Found
<1>4. /\ query'.window = query.window /\ query'.seen = query.seen
      /\ query'.left = rest /\ query'.answer = query.answer \cup Got(written, query, kind)
      /\ query' = [window |-> query'.window, seen |-> query'.seen, left |-> query'.left,
                   answer |-> query'.answer]
  <2>1. query = [window |-> query.window, seen |-> query.seen, left |-> query.left,
                 answer |-> query.answer]
    BY <1>1 DEF QueryRight
  <2> HIDE DEF rest, found, kind
  <2>2. query' = [window |-> query.window, seen |-> query.seen, left |-> rest,
                  answer |-> query.answer \cup found]
    BY <1>2, <2>1, ReadRecord
  <2>3. QED
    BY <1>3, <2>2
<1>5. \A t : Got(written, query', t) = Got(written, query, t)
  BY <1>4 DEF Got
<1>6. InTiers(written, query')
  <2>1. CASE query.left = <<"raw", "1m", "15m">> /\ query.answer = {}
    <3>1. kind = "raw" /\ rest = <<"1m", "15m">>
      BY <2>1
    <3>2. QED
      BY <1>4, <1>5, <2>1, <3>1 DEF InTiers
  <2>2. CASE query.left = <<"1m", "15m">> /\ query.answer = Got(written, query, "raw")
    <3>1. kind = "1m" /\ rest = <<"15m">>
      BY <2>2
    <3>2. QED
      BY <1>4, <1>5, <2>2, <3>1 DEF InTiers
  <2>3. CASE /\ query.left = <<"15m">>
             /\ query.answer = Got(written, query, "raw") \cup Got(written, query, "1m")
    <3>1. kind = "15m" /\ rest = <<>>
      BY <2>3
    <3>2. QED
      BY <1>4, <1>5, <2>3, <3>1 DEF InTiers
  <2>4. QED
    BY <1>1, <2>1, <2>2, <2>3 DEF QueryRight, InTiers
<1>7. WidthsFit(query')
  BY <1>1, <1>4 DEF QueryRight, WidthsFit
<1>8. QED
  BY <1>1, <1>4, <1>6, <1>7 DEF QueryRight

(* The invariant of tables and query holds throughout.                     *)
THEOREM ChartInvariant ==
    ASSUME Tiers!QueryAssumption
    PROVE  Tiers!SpecQuery => []ChartInv
<1>1. Tiers!TiersAssumption
  BY DEF Tiers!QueryAssumption
<1>2. Tiers!InitQuery => ChartInv
  BY <1>1, TierStart DEF Tiers!InitQuery, ChartInv
<1>3. ChartInv /\ [Tiers!NextQuery]_Tiers!queryVars => ChartInv'
  <2>1. SUFFICES ASSUME ChartInv, [Tiers!NextQuery]_Tiers!queryVars PROVE ChartInv'
    OBVIOUS
  <2>2. CASE [Tiers!Next]_Tiers!vars /\ UNCHANGED query
    <3>1. TierInv' /\ \A x \in Samples : written[x] <= LastClock => written'[x] = written[x]
      BY <1>1, <2>1, <2>2, TierStep DEF ChartInv
    <3>2. query # Missing => QueryRight(written', query)
      BY <2>1, <3>1, QueryStays DEF ChartInv
    <3>3. QED
      BY <2>2, <3>1, <3>2 DEF ChartInv
  <2>3. CASE UNCHANGED Tiers!vars /\ (query' = Missing \/ QueryRight(written, query'))
    <3>1. TierInv'
      BY <1>1, <2>1, <2>3, TierStep DEF ChartInv
    <3>2. written' = written
      BY <2>3 DEF Tiers!vars
    <3>3. QED
      BY <2>3, <3>1, <3>2 DEF ChartInv
  <2>4. CASE \E w \in Windows : Tiers!Ask(w)
    BY <2>1, <2>3, <2>4, AskKeeps DEF Tiers!Ask
  <2>5. CASE Tiers!Read
    BY <2>1, <2>3, <2>5, ReadKeeps DEF Tiers!Read
  <2>6. CASE Tiers!Return
    BY <2>3, <2>6 DEF Tiers!Return
  <2>7. CASE UNCHANGED Tiers!queryVars
    BY <2>2, <2>7 DEF Tiers!queryVars, Tiers!vars
  <2>8. QED
    BY <2>1, <2>2, <2>4, <2>5, <2>6, <2>7 DEF Tiers!NextQuery
<1>4. QED
  BY <1>2, <1>3, PTL DEF Tiers!SpecQuery

(* What is in the answer of a query that has read every tier.              *)
LEMMA AnswerFacts ==
    ASSUME NEW stamps, NEW q, QueryRight(stamps, q), q.left = <<>>
    PROVE  /\ \A e \in q.answer :
                 /\ e = [row |-> e.row, bucket |-> Tiers!Bucket(e.row.bucket, q.window.width)]
                 /\ \/ e.row \in FoundAt(stamps, "raw", q.window, q.seen)
                    \/ e.row \in FoundAt(stamps, "1m", q.window, q.seen)
                    \/ e.row \in FoundAt(stamps, "15m", q.window, q.seen)
           /\ \A kind \in {"raw", "1m", "15m"} :
                 \A r \in FoundAt(stamps, kind, q.window, q.seen) :
                    [row |-> r, bucket |-> Tiers!Bucket(r.bucket, q.window.width)] \in q.answer
<1>1. q.answer = Got(stamps, q, "raw") \cup Got(stamps, q, "1m") \cup Got(stamps, q, "15m")
  BY DEF QueryRight, InTiers
<1>2. QED
  BY <1>1 DEF Got

(* What of the answer has a measurement.                                   *)
EntriesOf(q, s) == {e \in q.answer : s \in e.row.members}

(* The answer is right of every measurement.                               *)
LEMMA ChartOf ==
    ASSUME NEW stamps \in [Samples -> Nat], NEW q, Tiers!TiersAssumption,
           QueryRight(stamps, q), q.left = <<>>, NEW s \in Samples
    PROVE  /\ \A x, y \in EntriesOf(q, s) : x = y
           /\ /\ s \in q.seen.raw \cup UNION {r.members : r \in q.seen.rows}
              /\ stamps[s] >= q.window.since /\ stamps[s] < q.window.until
              => EntriesOf(q, s) # {}
           /\ \A e \in EntriesOf(q, s) :
                 /\ e.bucket = Tiers!Bucket(stamps[s], q.window.width)
                 /\ stamps[s] < q.window.since \/ stamps[s] >= q.window.until
                       => e.row.tier # "raw"
<1> DEFINE w == q.window
           S == EntriesOf(q, s)
<1>0. w.since \in Nat /\ w.until \in Nat /\ S = {e \in q.answer : s \in e.row.members}
  BY DEF QueryRight, EntriesOf
<1> HIDE DEF S
<1>1. Sound(stamps, q.seen.raw, q.seen.rows) /\ WidthsFit(q) /\ w.width \in Nat \ {0}
  BY DEF QueryRight
<1>2. /\ q.seen.raw \subseteq Samples /\ q.seen.rows \subseteq SummaryType /\ stamps[s] \in Nat
      /\ \A r \in q.seen.rows : s \in r.members =>
            /\ s \notin q.seen.raw /\ Tiers!Bucket(stamps[s], Tiers!Width(r)) = r.bucket
            /\ r.bucket \in Nat /\ Tiers!Width(r) \in Nat \ {0}
  BY <1>1, WidthFacts DEF Sound, SummaryType
<1>3. \A r \in FoundAt(stamps, "raw", w, q.seen) :
         s \in r.members =>
            /\ s \in q.seen.raw
            /\ r = [tier |-> "raw", bucket |-> stamps[s], members |-> {s}]
            /\ stamps[s] >= w.since /\ stamps[s] < w.until
  BY DEF FoundAt
<1>4. \A kind \in {"1m", "15m"} :
         /\ FoundAt(stamps, kind, w, q.seen) = FoundAt(<<>>, kind, w, q.seen)
         /\ FoundAt(stamps, kind, w, q.seen) \subseteq q.seen.rows
         /\ \A r \in FoundAt(stamps, kind, w, q.seen) : r.tier = kind
  BY DEF FoundAt
<1>5. ASSUME NEW r, s \in r.members,
             r \in FoundAt(stamps, "1m", w, q.seen) \/ r \in FoundAt(stamps, "15m", w, q.seen)
      PROVE  /\ r \in q.seen.rows /\ r.tier # "raw" /\ s \notin q.seen.raw
             /\ Tiers!Bucket(r.bucket, w.width) = Tiers!Bucket(stamps[s], w.width)
  <2>1. r \in q.seen.rows /\ r.tier # "raw"
    BY <1>4, <1>5
  <2>2. Fits(Tiers!Width(r), w.width)
    BY <1>1, <1>4, <1>5 DEF WidthsFit
  <2>3. QED
    BY <1>1, <1>2, <1>5, <2>1, <2>2, BucketOfBucket
<1>6. \A e \in q.answer :
         /\ e = [row |-> e.row, bucket |-> Tiers!Bucket(e.row.bucket, w.width)]
         /\ \/ e.row \in FoundAt(stamps, "raw", w, q.seen)
            \/ e.row \in FoundAt(stamps, "1m", w, q.seen)
            \/ e.row \in FoundAt(stamps, "15m", w, q.seen)
  BY AnswerFacts
<1>7. \A x, y \in S : x = y
  <2>1. SUFFICES ASSUME NEW x \in S, NEW y \in S PROVE x.row = y.row
    BY <1>0, <1>6
  <2>2. /\ s \in x.row.members /\ s \in y.row.members /\ x \in q.answer /\ y \in q.answer
    BY <1>0
  <2>3. CASE s \in q.seen.raw
    BY <1>3, <1>5, <1>6, <2>2, <2>3
  <2>4. CASE s \notin q.seen.raw
    <3>1. x.row \in q.seen.rows /\ y.row \in q.seen.rows
      BY <1>3, <1>5, <1>6, <2>2, <2>4
    <3>2. QED
      BY <1>1, <2>2, <3>1 DEF Sound
  <2>5. QED
    BY <2>3, <2>4
<1>8. ASSUME s \in q.seen.raw \cup UNION {r.members : r \in q.seen.rows},
             stamps[s] >= w.since, stamps[s] < w.until
      PROVE  S # {}
  <2>1. \E kind \in {"raw", "1m", "15m"} :
           \E r \in FoundAt(stamps, kind, w, q.seen) : s \in r.members
    <3>1. CASE s \in q.seen.raw
      <4>1. [tier |-> "raw", bucket |-> stamps[s], members |-> {s}]
               \in FoundAt(stamps, "raw", w, q.seen)
        BY <1>8, <3>1 DEF FoundAt
      <4>2. QED
        BY <4>1
    <3>2. CASE s \notin q.seen.raw
      <4>1. PICK r \in q.seen.rows : s \in r.members
        BY <1>8, <3>2
      <4>2. r.tier \in {"1m", "15m"}
        BY <1>2, <4>1 DEF SummaryType
      <4>3. r.bucket <= stamps[s] /\ stamps[s] < r.bucket + Tiers!Width(r)
        BY <1>2, <4>1, BucketFacts
      <4>4. r.bucket + Tiers!Width(r) > w.since /\ r.bucket < w.until
        BY <1>0, <1>2, <1>8, <4>1, <4>3
      <4>5. r \in FoundAt(stamps, r.tier, w, q.seen)
        BY <4>1, <4>2, <4>4 DEF FoundAt
      <4>6. QED
        BY <4>1, <4>2, <4>5
    <3>3. QED
      BY <3>1, <3>2
  <2>2. PICK kind \in {"raw", "1m", "15m"} :
           \E r \in FoundAt(stamps, kind, w, q.seen) : s \in r.members
    BY <2>1
  <2>3. PICK r \in FoundAt(stamps, kind, w, q.seen) : s \in r.members
    BY <2>2
  <2>4. [row |-> r, bucket |-> Tiers!Bucket(r.bucket, w.width)] \in q.answer
    BY AnswerFacts
  <2>5. QED
    BY <1>0, <2>3, <2>4
<1>9. ASSUME NEW e \in S
      PROVE  /\ e.bucket = Tiers!Bucket(stamps[s], w.width)
             /\ stamps[s] < w.since \/ stamps[s] >= w.until => e.row.tier # "raw"
  <2>1. /\ s \in e.row.members /\ e.bucket = Tiers!Bucket(e.row.bucket, w.width)
        /\ \/ e.row \in FoundAt(stamps, "raw", w, q.seen)
           \/ e.row \in FoundAt(stamps, "1m", w, q.seen)
           \/ e.row \in FoundAt(stamps, "15m", w, q.seen)
    BY <1>0, <1>6
  <2>2. CASE e.row \in FoundAt(stamps, "raw", w, q.seen)
    BY <1>0, <1>2, <1>3, <2>1, <2>2
  <2>3. CASE e.row \notin FoundAt(stamps, "raw", w, q.seen)
    BY <1>5, <2>1, <2>3
  <2>4. QED
    BY <2>2, <2>3
<1>10. QED
  BY <1>7, <1>8, <1>9 DEF S

(* The charts' conjunct of CountedOnce: while rows are moved, late or      *)
(* never, what was measured in the window is in the chart once, in the     *)
(* bucket it belongs to, and of what was not only what shares a row with   *)
(* the window (tiered_query.py:466-469).                                   *)
THEOREM ChartsAreRight ==
    Tiers!QueryAssumption => (Tiers!SpecQuery => []Tiers!ChartsRight)
<1>1. SUFFICES ASSUME Tiers!QueryAssumption PROVE Tiers!SpecQuery => []Tiers!ChartsRight
  OBVIOUS
<1>2. Tiers!TiersAssumption
  BY <1>1 DEF Tiers!QueryAssumption
<1>3. ChartInv => Tiers!ChartsRight
  <2>1. SUFFICES ASSUME ChartInv, query # Missing, query.left = <<>>, NEW s \in Samples
                 PROVE  LET w == query.window
                            Of(t) == {e \in query.answer : t \in e.row.members}
                            There == query.seen.raw \cup UNION {r.members : r \in query.seen.rows}
                        IN  /\ Tiers!Cardinality(Of(s)) <= 1
                            /\ s \in There /\ written[s] >= w.since /\ written[s] < w.until
                                  => Tiers!Cardinality(Of(s)) = 1
                            /\ \A e \in Of(s) :
                                  /\ e.bucket = Tiers!Bucket(written[s], w.width)
                                  /\ written[s] < w.since \/ written[s] >= w.until
                                        => e.row.tier # "raw"
    BY DEF Tiers!ChartsRight
  <2> DEFINE S == EntriesOf(query, s)
  <2>2. /\ QueryRight(written, query) /\ written \in [Samples -> Nat]
        /\ query.window.since \in Nat /\ query.window.until \in Nat
    BY <2>1 DEF ChartInv, QueryRight, TierInv, TierTypes
  <2>3. /\ \A x, y \in S : x = y
        /\ /\ s \in query.seen.raw \cup UNION {r.members : r \in query.seen.rows}
           /\ written[s] >= query.window.since /\ written[s] < query.window.until
           => S # {}
        /\ \A e \in S :
              /\ e.bucket = Tiers!Bucket(written[s], query.window.width)
              /\ written[s] < query.window.since \/ written[s] >= query.window.until
                    => e.row.tier # "raw"
    BY <1>2, <2>1, <2>2, ChartOf
  <2> HIDE DEF S
  <2>4. /\ Tiers!Cardinality(S) \in {0, 1}
        /\ S # {} => Tiers!Cardinality(S) = 1
    BY <2>3, AtMostOne
  <2>5. Tiers!Cardinality(S) <= 1
    BY <2>4
  <2>6. QED
    BY <2>3, <2>4, <2>5 DEF S, EntriesOf
<1>4. QED
  BY <1>1, <1>3, ChartInvariant, PTL
=============================================================================
