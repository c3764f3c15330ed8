------------------------------ MODULE Watchdog ------------------------------
(***************************************************************************)
(* What _watchdog_loop takes for a dead radio, and what it does about it.  *)
(*                                                                         *)
(* The loop wakes every 5 s, the tick of this module, tells systemd that   *)
(* it lives and looks for a reason to restart the packet forwarder.  The   *)
(* reasons are counters that the reader thread and the event loop change   *)
(* between two looks: exits, acknowledgements that timed out, receptions.  *)
(* ForwarderLifecycle models how a restart is carried out; here it takes   *)
(* some ticks and succeeds or fails.                                       *)
(*                                                                         *)
(* Time is kept as ages, which saturate where the code no longer tells     *)
(* them apart.                                                             *)
(*                                                                         *)
(* Detection 1, STAT, wants 999 statistics of 30 s without a packet, and   *)
(* what sets the age of the last reception back ends that series too.      *)
(* Detection 3 is due long before: a restart for either is TimeoutRestart. *)
(***************************************************************************)
EXTENDS Naturals, FiniteSets

CONSTANTS
    Window,              \* 3600 s, for which a respawn counts
    RespawnMax,          \* _respawn_max_per_hour
    NapTicks,            \* the cooldown when it is reached, 60 s
    RxTimeout,           \* _watchdog_timeout
    SpikeAfter,          \* 60 s of silence, which detection 2 asks for
    AckThreshold,        \* _l2_ack_timeout_threshold
    CrashThreshold,      \* _sx1261_escalation_threshold
    RestartThreshold,    \* _watchdog_escalation_threshold
    RestartTicks         \* the time-outs of a restart, added up

ASSUME TickAssumption ==
    /\ {Window, RespawnMax, NapTicks, RxTimeout, SpikeAfter, AckThreshold,
        CrashThreshold, RestartThreshold, RestartTicks} \subseteq Nat \ {0}
    /\ SpikeAfter <= RxTimeout

(* _dispatch_rx tells channels A to D from channels E and F ("aux").       *)
Kinds == {"channel", "aux"}

VARIABLES
    pc,          \* "sleep" or "restart"
    left,        \* ticks left of it
    fed,         \* age of the last WATCHDOG=1
    proc,        \* "up", "exited", or "gone": no handle
    respawns,    \* _respawn_times, as ages
    crashes,     \* _consecutive_crash_count
    restarts,    \* _consecutive_watchdog_restarts
    acks,        \* _consecutive_ack_timeouts
    silence,     \* age of _last_rx_timestamp
    spikes,      \* _rssi_spike_count has reached 999
    deep,        \* history: the latest restart was a deep reset
    heard,       \* history: the kinds received since it began
    exits,       \* history: ages of the restarts after an exit
    own,         \* history: an acknowledgement timed out since the last start
    cooling      \* history: the sleep under way is a cooldown

counters == <<respawns, crashes, restarts, acks, silence, spikes>>
history  == <<deep, heard, exits, own, cooling>>
vars == <<pc, left, fed, proc, counters, history>>

Init ==
    /\ pc = "sleep"
    /\ left = 1
    /\ fed = 0
    /\ proc = "up"
    /\ respawns = {}
    /\ crashes = 0
    /\ restarts = 0
    /\ acks = 0
    /\ silence = 0
    /\ spikes = FALSE
    /\ deep = FALSE
    /\ heard = {"channel"}
    /\ exits = {}
    /\ own = FALSE
    /\ cooling = FALSE

Least(m, n) == IF m < n THEN m ELSE n

(* The longest the loop sleeps or restarts without a sign of life, and one *)
(* tick more.                                                              *)
Longest == NapTicks + RestartTicks + 2

Older(ages) == {Least(age + 1, Window) : age \in ages}

-----------------------------------------------------------------------------
(* Time.                                                                   *)

Tick ==
    /\ left > 0
    /\ left' = left - 1
    /\ fed' = Least(fed + 1, Longest)
    /\ silence' = Least(silence + 1, RxTimeout + 1)
    /\ respawns' = Older(respawns)
    /\ exits' = Older(exits)
    /\ UNCHANGED <<pc, proc, crashes, restarts, acks, spikes, deep, heard, own,
                   cooling>>

-----------------------------------------------------------------------------
(* One turn of the loop.  It feeds systemd before it looks.                *)

Wakes == pc = "sleep" /\ left = 0

(* Fault: escalates one restart late.                                      *)
RestartTimid(escalate) ==
    /\ pc' = "restart"
    /\ left' \in 1..RestartTicks
    /\ fed' = 0
    /\ restarts' = Least(restarts + 1, RestartThreshold + 1)
    /\ deep' = (escalate \/ restarts' > RestartThreshold)
    /\ heard' = {}
    /\ cooling' = FALSE
    /\ UNCHANGED <<proc, silence, spikes, own>>

(* _do_watchdog_restart begins.                                            *)
Restart(escalate) ==
    /\ pc' = "restart"
    /\ left' \in 1..RestartTicks
    /\ fed' = 0
    /\ restarts' = Least(restarts + 1, RestartThreshold)
    /\ deep' = (escalate \/ restarts' >= RestartThreshold)
    /\ heard' = {}
    /\ cooling' = FALSE
    /\ UNCHANGED <<proc, silence, spikes, own>>

SleepFor(ticks) ==
    /\ left' = ticks
    /\ fed' = 0
    /\ cooling' = (ticks > 1)
    /\ UNCHANGED <<pc, proc, crashes, restarts, acks, silence, deep, heard,
                   exits, own>>

Recent == {age \in respawns : age < Window}

(* Fault: one respawn more than the limit.                                 *)
LimitReachedLate == Cardinality(Recent) > RespawnMax

LimitReached == Cardinality(Recent) >= RespawnMax

(* Fault: the respawn that is refused counts.                              *)
CooldownCounts ==
    /\ Wakes
    /\ proc = "exited"
    /\ LimitReached
    /\ respawns' = Recent \cup {0}
    /\ UNCHANGED spikes
    /\ SleepFor(NapTicks + 1)

(* Detection 4 at the rate limit: the cooldown, and then the next sleep.   *)
Cooldown ==
    /\ Wakes
    /\ proc = "exited"
    /\ LimitReached
    /\ respawns' = Recent
    /\ UNCHANGED spikes
    /\ SleepFor(NapTicks + 1)

(* Detection 4: PROCESS_EXIT.                                              *)
Respawn ==
    /\ Wakes
    /\ proc = "exited"
    /\ ~LimitReached
    /\ respawns' = Recent \cup {0}
    /\ exits' = exits \cup {0}
    /\ crashes' = Least(crashes + 1, CrashThreshold)
    /\ Restart(crashes' >= CrashThreshold)
    /\ UNCHANGED acks

(* Detection 5: ACK_TIMEOUT.                                               *)
AckRestart ==
    /\ Wakes
    /\ proc # "exited"
    /\ acks >= AckThreshold
    /\ acks' = 0
    /\ Restart(FALSE)
    /\ UNCHANGED <<respawns, crashes, exits>>

(* Detection 2: RSSI.                                                      *)
SpikeRestart ==
    /\ Wakes
    /\ proc # "exited"
    /\ acks < AckThreshold
    /\ spikes
    /\ silence > SpikeAfter
    /\ Restart(FALSE)
    /\ UNCHANGED <<respawns, crashes, acks, exits>>

(* Detections 1 and 3: STAT and TIMEOUT.                                   *)
TimeoutRestart ==
    /\ Wakes
    /\ proc # "exited"
    /\ acks < AckThreshold
    /\ silence > RxTimeout
    /\ Restart(FALSE)
    /\ UNCHANGED <<respawns, crashes, acks, exits>>

Well ==
    /\ Wakes
    /\ proc # "exited"
    /\ acks < AckThreshold
    /\ silence <= RxTimeout
    /\ ~(spikes /\ silence > SpikeAfter)

(* Fault: systemd is fed by a restart only.                                *)
AllWellUnfed ==
    /\ Well
    /\ left' = 1
    /\ UNCHANGED <<pc, fed, proc, counters, history>>

(* The spikes of the last 120 s may be over.                               *)
AllWell ==
    /\ Well
    /\ SleepFor(1)
    /\ spikes' \in {spikes, FALSE}
    /\ UNCHANGED respawns

(* The restart is over.                                                    *)
RestartSucceeds ==
    /\ pc = "restart"
    /\ left = 0
    /\ proc' = "up"
    /\ pc' = "sleep"
    /\ left' = 1
    /\ silence' = 0
    /\ spikes' = FALSE
    /\ own' = FALSE
    /\ UNCHANGED <<fed, respawns, crashes, restarts, acks, deep, heard, exits,
                   cooling>>

(* The old process cannot be stopped, no new one can be started, or it     *)
(* exits at once.                                                          *)
RestartFails ==
    /\ pc = "restart"
    /\ left = 0
    /\ proc' \in {proc, "gone", "exited"}
    /\ pc' = "sleep"
    /\ left' = 1
    /\ UNCHANGED <<fed, counters, history>>

-----------------------------------------------------------------------------
(* What the other threads and the forwarder do meanwhile.                  *)

Exits ==
    /\ proc = "up"
    /\ proc' = "exited"
    /\ UNCHANGED <<pc, left, fed, counters, history>>

(* The noise monitor counts what is above the noise on channel E, 999 by   *)
(* now.                                                                    *)
Spikes ==
    /\ spikes' = TRUE
    /\ UNCHANGED <<pc, left, fed, proc, respawns, crashes, restarts, acks, silence,
                   history>>

(* Fault: a packet on a channel does not end the series of restarts.       *)
RxKeepsRestarts(kind) ==
    /\ silence' = 0
    /\ heard' = heard \cup {kind}
    /\ crashes' = IF kind = "channel" THEN 0 ELSE crashes
    /\ spikes' = (spikes /\ kind # "channel")
    /\ UNCHANGED <<pc, left, fed, proc, respawns, restarts, acks, deep, exits, own,
                   cooling>>

(* What was received before a restart may be read during it.               *)
Rx(kind) ==
    /\ silence' = 0
    /\ heard' = heard \cup {kind}
    /\ crashes' = IF kind = "channel" THEN 0 ELSE crashes
    /\ spikes' = (spikes /\ kind # "channel")
    /\ restarts' = IF kind = "channel" THEN 0 ELSE restarts
    /\ UNCHANGED <<pc, left, fed, proc, respawns, acks, deep, exits, own, cooling>>

Receive == (proc = "up" \/ pc = "restart") /\ \E kind \in Kinds : Rx(kind)

(* _send_pull_resp_impl gives up an acknowledgement, or gets it.           *)
AckTimesOut ==
    /\ proc # "gone" \/ pc = "restart"
    /\ acks' = Least(acks + 1, AckThreshold)
    /\ own' = TRUE
    /\ UNCHANGED <<pc, left, fed, proc, respawns, crashes, restarts, silence,
                   spikes, deep, heard, exits, cooling>>

AckArrives ==
    /\ proc = "up" \/ pc = "restart"
    /\ acks' = 0
    /\ UNCHANGED <<pc, left, fed, proc, respawns, crashes, restarts, silence,
                   spikes, history>>

Loop ==
    \/ Cooldown \/ Respawn \/ AckRestart \/ SpikeRestart \/ TimeoutRestart
    \/ AllWell \/ RestartSucceeds \/ RestartFails

Next ==
    Tick \/ Loop \/ Exits \/ Spikes \/ Receive \/ AckTimesOut \/ AckArrives

Spec == Init /\ [][Next]_vars

(* Time passes, the loop runs, and a restart that is repeated succeeds.    *)
FairSpec == Spec /\ WF_vars(Tick) /\ WF_vars(Loop) /\ SF_vars(RestartSucceeds)

-----------------------------------------------------------------------------
(* Properties.                                                             *)

(* Every variable keeps to the values the code can give it.                *)
TypeOK ==
    /\ pc \in {"sleep", "restart"}
    /\ left \in 0..(NapTicks + RestartTicks + 1)
    /\ fed \in 0..Longest
    /\ proc \in {"up", "exited", "gone"}
    /\ respawns \subseteq 0..Window
    /\ crashes \in 0..CrashThreshold
    /\ restarts \in 0..RestartThreshold
    /\ acks \in 0..AckThreshold
    /\ silence \in 0..(RxTimeout + 1)
    /\ spikes \in BOOLEAN
    /\ deep \in BOOLEAN
    /\ heard \subseteq Kinds
    /\ exits \subseteq 0..Window
    /\ own \in BOOLEAN
    /\ cooling \in BOOLEAN

(* 1131, "hard cap to prevent infinite crash loops": in no Window do more  *)
(* than RespawnMax restarts follow an exit, wherever the Window begins.    *)
RespawnBudget == Cardinality({age \in exits : age < Window}) <= RespawnMax

Begins == pc = "sleep" /\ pc' = "restart"

(* 1138-1145 and 3733-3734: a restart is a deep reset if and only if no    *)
(* packet arrived on channels A to D since the one before, whatever        *)
(* triggered the two and whichever of the two counters says so.            *)
EscalatesInSilence == [][Begins => (deep' <=> "channel" \notin heard)]_vars

(* 2737-2740: the loop feeds systemd in each cycle.  Restarts that fail or *)
(* follow one another, and cooldowns among them, never add up: it waits    *)
(* for one of them and one sleep at most.  Against WatchdogSec, 60 s, that *)
(* is no margin: the cooldown and its sleep are 65 s, and the time-outs of *)
(* a deep restart together some 97 s.                                      *)
FedBetweenDelays == fed <= (IF cooling THEN NapTicks ELSE RestartTicks) + 1

(* 2792-2794, "consecutive post-TX ACK timeouts indicate C-level JIT       *)
(* thread is stuck": the forwarder restarted for timeouts had some.        *)
AccusedByOwnTimeouts == [][AckRestart => own]_vars

(* A forwarder that died is replaced, after restarts that failed too and   *)
(* in spite of the rate limit.                                             *)
Replaced == (proc # "up") ~> (proc = "up")

=============================================================================
