---------------------------- MODULE TxScheduler ----------------------------
(***************************************************************************)
(* The transmit path of openhop_core/hardware/tx_queue.py: the per-channel *)
(* queues (ChannelTXQueue), their manager (TXQueueManager) and the single  *)
(* round-robin worker (GlobalTXScheduler), with the callers that wait on   *)
(* them.  Everything here runs on one asyncio event loop, so an action is  *)
(* the code between two awaits; the interleavings are those of callers,    *)
(* worker, shutdown and clock at the awaits.                               *)
(*                                                                         *)
(* The radio (the send_func argument) and the duty-cycle budget            *)
(* (airtime_manager) are the environment: every answer they can give is    *)
(* explored.                                                               *)
(***************************************************************************)
EXTENDS ChannelQueue, FiniteSets

CONSTANTS
    Requests,         \* the calls of enqueue() that are made, each once
    NoRequest,        \* what the worker holds when it holds nothing
    ChannelOrder,     \* the channels, in the order of TXQueueManager.queues
    QueueSize,        \* queue_size
    DropOldest,       \* overflow_policy = 'drop_oldest'
    TTL,              \* ttl_seconds, in ticks of the model's clock
    Grace,            \* the bounded send/ACK interval enqueue() adds to the TTL
    MaxRetries,       \* _max_retries of _do_send
    BudgetMayRaise    \* whether airtime_manager.can_transmit may raise

Channels == {ChannelOrder[i] : i \in 1..Len(ChannelOrder)}

ASSUME ConstantsAssumption ==
    /\ NoRequest \notin Requests
    /\ ChannelOrder \in Seq(Channels)
    /\ Len(ChannelOrder) > 0
    /\ QueueSize \in Nat \ {0}
    /\ TTL \in Nat \ {0}
    /\ Grace \in Nat \ {0}
    /\ MaxRetries \in Nat
    /\ DropOldest \in BOOLEAN
    /\ BudgetMayRaise \in BOOLEAN

VARIABLES
    queue,      \* [Channels -> Seq(Requests)], ChannelTXQueue.queue
    stopped,    \* [Channels -> BOOLEAN], ChannelTXQueue._stopped
    chan,       \* the channel each request was submitted to
    future,     \* the state of each request's future
    returned,   \* whether enqueue() has returned, with what the future holds
    age,        \* now - enqueue_time, saturating at the caller's timeout
    retries,    \* request["_retry_count"]
    running,    \* GlobalTXScheduler._running
    pc,         \* where the worker task is
    cur,        \* the request the worker took from its queue
    turn,       \* _round_index modulo the number of queues
    visited,    \* queues already visited in this round
    sentAny,    \* sent_any
    cancelled,  \* the worker's task has a cancellation to deliver
    stopping,   \* a stop() is in progress
    aired,      \* how many times a request was on the air
    charged,    \* how many times its airtime was charged to the budget
    faulted     \* history: requests whose send the forwarder said had failed

callerVars == <<chan, returned, age>>
roundVars  == <<turn, visited, sentAny>>
stopVars   == <<running, cancelled, stopping, stopped>>
airVars    == <<aired, charged, faulted>>
vars == <<queue, future, retries, pc, cur,
          callerVars, roundVars, stopVars, airVars>>

NumChannels == Len(ChannelOrder)
Deadline    == TTL + Grace

Refusals == {"dropped_overflow", "ttl_expired", "queue_stopped"}
GivenUp  == {"timeout", "cancelled"}
Results  == {"ok", "failed", "scheduler_stopped"}
Replies  == Refusals \cup GivenUp \cup Results

(* future.done() *)
Done == {r \in Requests : future[r] \in Replies}

Waiting(r) == future[r] # "none" /\ ~returned[r]

(* set_result guarded by "not future.done()", for every request of S.      *)
Resolve(S, reply) ==
    future' = [r \in Requests |->
                 IF r \in S /\ future[r] = "pending" THEN reply ELSE future[r]]

Init ==
    /\ queue = [c \in Channels |-> <<>>]
    /\ stopped = [c \in Channels |-> FALSE]
    /\ chan \in [Requests -> Channels]
    /\ future = [r \in Requests |-> "none"]
    /\ returned = [r \in Requests |-> FALSE]
    /\ age = [r \in Requests |-> 0]
    /\ retries = [r \in Requests |-> 0]
    /\ running = FALSE
    /\ pc = "off"
    /\ cur = NoRequest
    /\ turn = 0
    /\ visited = 0
    /\ sentAny = FALSE
    /\ cancelled = FALSE
    /\ stopping = FALSE
    /\ aired = [r \in Requests |-> 0]
    /\ charged = [r \in Requests |-> 0]
    /\ faulted = {}

-----------------------------------------------------------------------------
(* Callers: ChannelTXQueue.enqueue, from its call to its return.           *)

Fresh(r) == future[r] = "none"

EnqueueRefused(r) ==
    /\ Fresh(r)
    /\ stopped[chan[r]]
    /\ future' = [future EXCEPT ![r] = "queue_stopped"]
    /\ returned' = [returned EXCEPT ![r] = TRUE]
    /\ UNCHANGED <<queue, retries, pc, cur, chan, age,
                   roundVars, stopVars, airVars>>

EnqueueAdmitted(r) ==
    LET c == chan[r]
        live == DiscardCompleted(queue[c], Done)
    IN  /\ Fresh(r)
        /\ ~stopped[c]
        /\ Len(live) < QueueSize
        /\ queue' = [queue EXCEPT ![c] = Append(live, r)]
        /\ future' = [future EXCEPT ![r] = "pending"]
        /\ UNCHANGED <<retries, pc, cur, callerVars, roundVars, stopVars,
                       airVars>>

(* asyncio.QueueFull under 'drop_newest': the new request is turned away.  *)
EnqueueDropsNewest(r) ==
    LET c == chan[r]
        live == DiscardCompleted(queue[c], Done)
    IN  /\ Fresh(r)
        /\ ~stopped[c]
        /\ ~DropOldest
        /\ Len(live) >= QueueSize
        /\ queue' = [queue EXCEPT ![c] = live]
        /\ future' = [future EXCEPT ![r] = "dropped_overflow"]
        /\ returned' = [returned EXCEPT ![r] = TRUE]
        /\ UNCHANGED <<retries, pc, cur, chan, age,
                       roundVars, stopVars, airVars>>

(* asyncio.QueueFull under 'drop_oldest': the head makes room.             *)
EnqueueDropsOldest(r) ==
    LET c == chan[r]
        live == DiscardCompleted(queue[c], Done)
    IN  /\ Fresh(r)
        /\ ~stopped[c]
        /\ DropOldest
        /\ Len(live) >= QueueSize
        /\ queue' = [queue EXCEPT ![c] = Append(Tail(live), r)]
        /\ future' = [future EXCEPT
                        ![Head(live)] = IF @ = "pending"
                                        THEN "dropped_overflow" ELSE @,
                        ![r] = "pending"]
        /\ UNCHANGED <<retries, pc, cur, callerVars, roundVars, stopVars,
                       airVars>>

(* Fault: no timeout on the caller's wait.                                 *)
WaitTimesOutNever(r) == FALSE /\ UNCHANGED vars

(* The timer of wait_for fires, or the caller's task is cancelled: the     *)
(* future is done at once, the caller runs again only later.               *)
WaitTimesOut(r) ==
    /\ future[r] = "pending"
    /\ age[r] >= Deadline
    /\ future' = [future EXCEPT ![r] = "timeout"]
    /\ UNCHANGED <<queue, retries, pc, cur, callerVars, roundVars, stopVars,
                   airVars>>

CallerCancelled(r) ==
    /\ future[r] = "pending"
    /\ future' = [future EXCEPT ![r] = "cancelled"]
    /\ UNCHANGED <<queue, retries, pc, cur, callerVars, roundVars, stopVars,
                   airVars>>

(* The caller runs again; the "finally" clause purges its queue.           *)
EnqueueReturns(r) ==
    LET c == chan[r] IN
    /\ Waiting(r)
    /\ r \in Done
    /\ returned' = [returned EXCEPT ![r] = TRUE]
    /\ age' = [age EXCEPT ![r] = 0]   \* of no further use
    /\ queue' = [queue EXCEPT ![c] = DiscardCompleted(queue[c], Done)]
    /\ UNCHANGED <<future, retries, pc, cur, chan, roundVars, stopVars,
                   airVars>>

Caller(r) ==
    \/ EnqueueRefused(r) \/ EnqueueAdmitted(r)
    \/ EnqueueDropsNewest(r) \/ EnqueueDropsOldest(r)
    \/ WaitTimesOut(r) \/ CallerCancelled(r) \/ EnqueueReturns(r)

(* time.monotonic() advances; ages matter only up to the deadline.         *)
Tick ==
    /\ \E r \in Requests : future[r] = "pending" /\ age[r] < Deadline
    /\ age' = [r \in Requests |->
                 IF future[r] = "pending" /\ age[r] < Deadline
                 THEN age[r] + 1 ELSE age[r]]
    /\ UNCHANGED <<queue, future, retries, pc, cur, chan, returned,
                   roundVars, stopVars, airVars>>

-----------------------------------------------------------------------------
(* The worker: GlobalTXScheduler._scheduler_loop, _do_send and             *)
(* _wait_for_airtime.  pc is                                               *)
(*   "nap"     asleep between idle rounds, or created and not yet run;     *)
(*   "visit"   inside the "for" of a round, where there is no await;       *)
(*   "hold"    in the RX batching hold of _do_send;                        *)
(*   "gap"     in its inter-packet delay;                                  *)
(*   "duty"    polling the duty budget;                                    *)
(*   "air"     awaiting send_func;                                         *)
(*   "ended", "failed"   the task is over, by return or cancellation, or   *)
(*             by an exception;                                            *)
(*   "off"     no task; "retired" no task after a failure: the backend     *)
(*             keeps the scheduler and refuses to begin again.             *)
(* The random delay at the start of _do_send never happens: nothing sets   *)
(* _tx_delay_factor, which is 0.                                           *)

Sleeps  == {"hold", "gap", "duty"}
Awaits  == Sleeps \cup {"nap", "air"}
AtAwait == pc # "visit"

(* Which wait of _do_send can come after which.                            *)
After(place) ==
    IF place \in {"gap", "duty"} THEN {"duty", "air"} ELSE Sleeps \cup {"air"}

(* The condition of _discard_expired.                                      *)
Expired(r) == r \in Done \/ age[r] >= TTL

(* Fault: never looks at _running.                                         *)
TopOfLoopForever ==
    /\ pc' = "visit"
    /\ visited' = 0
    /\ sentAny' = FALSE

(* The top of "while self._running".                                       *)
TopOfLoop ==
    /\ pc' = IF running THEN "visit" ELSE "ended"
    /\ visited' = 0
    /\ sentAny' = FALSE

Visited == ChannelOrder[((turn + visited) % NumChannels) + 1]

(* Fault: drains a queue before going on.                                  *)
VisitUntilEmpty ==
    /\ pc = "visit"
    /\ visited < NumChannels
    /\ visited' = IF queue[Visited] = <<>> THEN visited + 1 ELSE visited

Visit ==
    /\ pc = "visit"
    /\ visited < NumChannels
    /\ visited' = visited + 1

SkipEmptyQueue ==
    /\ Visit
    /\ queue[Visited] = <<>>
    /\ UNCHANGED <<queue, future, retries, pc, cur, turn, sentAny, callerVars,
                   stopVars, airVars>>

(* Fault: an expired request gets no answer.                               *)
TakeExpiredSilently ==
    /\ Visit
    /\ queue[Visited] # <<>>
    /\ Expired(Head(queue[Visited]))
    /\ queue' = [queue EXCEPT ![Visited] = Tail(@)]
    /\ UNCHANGED <<future, retries, pc, cur, turn, sentAny, callerVars,
                   stopVars, airVars>>

TakeExpired ==
    /\ Visit
    /\ queue[Visited] # <<>>
    /\ Expired(Head(queue[Visited]))
    /\ queue' = [queue EXCEPT ![Visited] = Tail(@)]
    /\ Resolve({Head(queue[Visited])}, "ttl_expired")
    /\ UNCHANGED <<retries, pc, cur, turn, sentAny, callerVars, stopVars,
                   airVars>>

TakeRequest ==
    /\ Visit
    /\ queue[Visited] # <<>>
    /\ ~Expired(Head(queue[Visited]))
    /\ queue' = [queue EXCEPT ![Visited] = Tail(@)]
    /\ cur' = Head(queue[Visited])
    /\ pc' \in After(pc)
    /\ UNCHANGED <<future, retries, turn, sentAny, callerVars, stopVars,
                   airVars>>

(* Fault: no recheck after a wait.                                         *)
MoveOnUnchecked ==
    /\ pc \in Sleeps
    /\ ~cancelled
    /\ pc' \in After(pc)
    /\ UNCHANGED <<queue, future, retries, cur, callerVars, roundVars,
                   stopVars, airVars>>

(* A wait is over and _discard_expired, which follows every one of them,   *)
(* finds the request still wanted.                                         *)
MoveOn ==
    /\ pc \in Sleeps
    /\ ~cancelled
    /\ ~Expired(cur)
    /\ pc' \in After(pc)
    /\ UNCHANGED <<queue, future, retries, cur, callerVars, roundVars,
                   stopVars, airVars>>

(* _discard_expired before the radio: _do_send returns to the loop.        *)
DropExpired ==
    /\ pc \in Sleeps
    /\ ~cancelled
    /\ Expired(cur)
    /\ Resolve({cur}, "ttl_expired")
    /\ cur' = NoRequest
    /\ pc' = "visit"
    /\ sentAny' = TRUE
    /\ UNCHANGED <<queue, retries, turn, visited, callerVars, stopVars,
                   airVars>>

(* can_transmit raises: the exception ends the task.                       *)
BudgetRaises ==
    /\ BudgetMayRaise
    /\ pc = "duty"
    /\ ~cancelled
    /\ ~Expired(cur)
    /\ cur' = NoRequest
    /\ pc' = "failed"
    /\ UNCHANGED <<queue, future, retries, callerVars, roundVars, stopVars,
                   airVars>>

(* What send_func may report, and how often the packet was then on air:    *)
(* "dropped" is a JIT refusal, "refused" every other one made before the   *)
(* radio was triggered, "no_ack" a missing TX_ACK, "error" an exception or *)
(* a malformed result.  "send_failed" is an error of lgw_send: it may be   *)
(* one from after the trigger, with the packet on its way.                 *)
Outcomes == {"ok", "dropped", "refused", "send_failed", "no_ack", "error"}

AiredBy(o) ==
    CASE o = "ok" -> {1}
      [] o \in {"send_failed", "no_ack", "error"} -> {0, 1}
      [] OTHER -> {0}

(* Fault: charges acknowledged packets only.                               *)
ChargedByAcknowledged(o) == IF o = "ok" THEN 1 ELSE 0

ChargedBy(o) == IF o \in {"ok", "no_ack", "error"} THEN 1 ELSE 0

(* A send that returns although a cancellation was requested has swallowed *)
(* it, as wait_for does before Python 3.12.                                *)
SendDone(o) ==
    /\ pc = "air"
    /\ \E n \in AiredBy(o) : aired' = [aired EXCEPT ![cur] = @ + n]
    /\ charged' = [charged EXCEPT ![cur] = @ + ChargedBy(o)]
    /\ faulted' = IF o = "send_failed" THEN faulted \cup {cur} ELSE faulted
    /\ cancelled' = FALSE
    /\ cur' = NoRequest
    /\ pc' = "visit"
    /\ sentAny' = TRUE
    /\ UNCHANGED <<turn, visited, callerVars, running, stopping, stopped>>

(* Fault: also retries what may have been on the air.                      *)
RetriableUnconfirmed(o) ==
    /\ o \in {"dropped", "no_ack"}
    /\ retries[cur] < MaxRetries
    /\ Len(queue[chan[cur]]) < QueueSize

Retriable(o) ==
    /\ o = "dropped"
    /\ retries[cur] < MaxRetries
    /\ Len(queue[chan[cur]]) < QueueSize

SendRetried(o) ==
    /\ SendDone(o)
    /\ Retriable(o)
    /\ retries' = [retries EXCEPT ![cur] = @ + 1]
    /\ queue' = [queue EXCEPT ![chan[cur]] = Append(@, cur)]
    /\ UNCHANGED future

SendConcluded(o) ==
    /\ SendDone(o)
    /\ ~Retriable(o)
    /\ Resolve({cur}, IF o = "ok" THEN "ok" ELSE "failed")
    /\ UNCHANGED <<queue, retries>>

EndRound ==
    /\ pc = "visit"
    /\ visited = NumChannels
    /\ IF sentAny
         THEN TopOfLoop /\ turn' = (turn + 1) % NumChannels
         ELSE pc' = "nap" /\ visited' = 0 /\ sentAny' = FALSE /\ turn' = turn
    /\ UNCHANGED <<queue, future, retries, cur, callerVars, stopVars, airVars>>

EndNap ==
    /\ pc = "nap"
    /\ ~cancelled
    /\ TopOfLoop
    /\ UNCHANGED <<queue, future, retries, cur, turn, callerVars, stopVars,
                   airVars>>

(* The CancelledError reaches the worker at its await; a send cut short    *)
(* may or may not have been on the air and is charged either way.          *)
CancelDelivered ==
    /\ pc \in Awaits
    /\ cancelled
    /\ Resolve({cur}, "scheduler_stopped")
    /\ IF pc = "air"
         THEN /\ \E n \in {0, 1} : aired' = [aired EXCEPT ![cur] = @ + n]
              /\ charged' = [charged EXCEPT ![cur] = @ + 1]
         ELSE UNCHANGED <<aired, charged>>
    /\ UNCHANGED faulted
    /\ cur' = NoRequest
    /\ pc' = "ended"
    /\ cancelled' = FALSE
    /\ visited' = 0
    /\ sentAny' = FALSE
    /\ UNCHANGED <<queue, retries, callerVars, turn, running, stopping,
                   stopped>>

Worker ==
    \/ SkipEmptyQueue \/ TakeExpired \/ TakeRequest \/ EndRound
    \/ EndNap \/ MoveOn \/ DropExpired
    \/ \E o \in Outcomes : SendRetried(o) \/ SendConcluded(o)
    \/ CancelDelivered

-----------------------------------------------------------------------------
(* Start and stop, as the backend performs them.                           *)

(* ensure_tx_queues_started and GlobalTXScheduler.start.                   *)
Start ==
    /\ pc = "off"
    /\ ~running
    /\ ~stopping
    /\ stopped' = [c \in Channels |-> FALSE]
    /\ running' = TRUE
    /\ pc' = "nap"
    /\ turn' = 0
    /\ visited' = 0
    /\ sentAny' = FALSE
    /\ UNCHANGED <<queue, future, retries, cur, callerVars, cancelled,
                   stopping, airVars>>

(* ChannelTXQueue.stop on every queue.                                     *)
StopQueues ==
    /\ stopped' = [c \in Channels |-> TRUE]
    /\ queue' = [c \in Channels |-> <<>>]
    /\ Resolve(UNION {Elements(queue[c]) : c \in Channels}, "queue_stopped")

(* stop_transmitter of WM1303Backend.stop, up to its await: stop_all, then *)
(* GlobalTXScheduler.stop cancels the worker and waits for it.             *)
StopBegin ==
    /\ ~stopping
    /\ pc # "retired"
    /\ StopQueues
    /\ running' = FALSE
    /\ cancelled' = (pc \in Awaits)
    /\ stopping' = TRUE
    /\ UNCHANGED <<retries, pc, cur, callerVars, roundVars, airVars>>

(* Fault: relies on the drain at the start of the stop.                    *)
StopEndDrainedBefore ==
    /\ stopping
    /\ pc \in {"off", "ended", "failed"}
    /\ pc' = IF pc = "failed" THEN "retired" ELSE "off"
    /\ cancelled' = FALSE
    /\ stopping' = FALSE
    /\ UNCHANGED <<queue, future, stopped, retries, cur, callerVars, roundVars,
                   running, airVars>>

(* The "finally" of GlobalTXScheduler.stop, once the task is over.         *)
StopEnd ==
    /\ stopping
    /\ pc \in {"off", "ended", "failed"}
    /\ StopQueues
    /\ pc' = IF pc = "failed" THEN "retired" ELSE "off"
    /\ cancelled' = FALSE
    /\ stopping' = FALSE
    /\ UNCHANGED <<retries, cur, callerVars, roundVars, running, airVars>>

-----------------------------------------------------------------------------
Next ==
    \/ AtAwait /\ \E r \in Requests : Caller(r)
    \/ AtAwait /\ (Start \/ StopBegin \/ StopEnd)
    \/ Worker
    \/ BudgetRaises
    \/ Tick

(* Time passes; the worker's task runs whenever it is ready, and send_func *)
(* returns, its wait for the TX_ACK being bounded; a stop that was begun   *)
(* is carried out.  At each await of the worker the event loop runs every  *)
(* caller that is ready, which takes strong fairness: in between, while    *)
(* the worker runs, a caller's step is disabled.                           *)
Fairness ==
    /\ WF_vars(Tick)
    /\ WF_vars(Worker)
    /\ WF_vars(AtAwait /\ StopEnd)
    /\ \A r \in Requests :
          SF_vars(AtAwait /\ (WaitTimesOut(r) \/ EnqueueReturns(r)))

Spec     == Init /\ [][Next]_vars
FairSpec == Spec /\ Fairness

-----------------------------------------------------------------------------
(* Properties.                                                             *)

TypeOK ==
    /\ queue \in [Channels -> Seq(Requests)]
    /\ stopped \in [Channels -> BOOLEAN]
    /\ chan \in [Requests -> Channels]
    /\ future \in [Requests -> Replies \cup {"none", "pending"}]
    /\ returned \in [Requests -> BOOLEAN]
    /\ age \in [Requests -> 0..Deadline]
    /\ retries \in [Requests -> 0..MaxRetries]
    /\ running \in BOOLEAN
    /\ pc \in Awaits \cup {"off", "visit", "ended", "failed", "retired"}
    /\ cur \in Requests \cup {NoRequest}
    /\ turn \in 0..(NumChannels - 1)
    /\ visited \in 0..NumChannels
    /\ sentAny \in BOOLEAN
    /\ cancelled \in BOOLEAN
    /\ stopping \in BOOLEAN
    /\ aired \in [Requests -> Nat]
    /\ charged \in [Requests -> Nat]
    /\ faulted \subseteq Requests

(* A caller told that its packet was refused (overflow, expiry, stopped    *)
(* queue) can send it again: the packet was not on the air, and never will *)
(* be, whatever retries, drains and late outcomes follow.                  *)
RefusedNeverOnAir ==
    \A r \in Requests : future[r] \in Refusals => aired[r] = 0

(* No packet is transmitted twice: only a confirmed JIT refusal is retried *)
(* and nothing that may have been on the air re-enters a queue; and "ok"   *)
(* is only said of a packet that was on the air.                           *)
OnAirAtMostOnce ==
    \A r \in Requests :
        /\ aired[r] <= 1
        /\ future[r] = "ok" => aired[r] = 1

(* Airtime is never charged twice for one packet, and what was on the air  *)
(* is charged however its attempt ends: acknowledged, without TX_ACK, by   *)
(* an exception, or cut short by a shutdown.  The one way on the air free  *)
(* of charge is a send the forwarder calls failed: the code takes that for *)
(* a confirmed refusal (tx_queue.py 806-810), which it need not be.        *)
AirtimeAccounted ==
    \A r \in Requests :
        /\ charged[r] <= 1
        /\ aired[r] > charged[r] => r \in faulted

(* A request is in one place only: once in the queue of its own channel,   *)
(* or in the worker's hands.  A retry, a purge or a drain that left a copy *)
(* behind would send the packet again after its answer.                    *)
OnePlace ==
    \A c \in Channels :
        /\ NoRepeats(queue[c])
        /\ \A r \in Elements(queue[c]) : chan[r] = c /\ r # cur

(* A request whose caller still waits is in its queue or in the worker's   *)
(* hands, unless the worker died with it: none is forgotten until its      *)
(* timeout.                                                                *)
NothingLost ==
    \A r \in Requests :
        future[r] = "pending" /\ r # cur /\ pc \notin {"failed", "retired"}
          => r \in Elements(queue[chan[r]])

(* The radio is only asked to send for a caller that is still waiting and  *)
(* within the request's original lifetime, also after holds, delays,       *)
(* budget polls and retries.                                               *)
SendsOnlyLive ==
    [][pc # "air" /\ pc' = "air" => future[cur'] = "pending" /\ age[cur'] < TTL]_vars

(* When stop() is over every admitted caller has its answer and no queue   *)
(* holds anything, even if a retry or a swallowed cancellation put work    *)
(* back after the queues were first drained.                               *)
StopAnswersEveryone ==
    [][stopping /\ ~stopping'
         => \A r \in Requests :
               future'[r] # "pending" /\ r \notin Elements(queue'[chan[r]])]_vars

(* Every call of enqueue() returns.                                        *)
EveryCallReturns ==
    \A r \in Requests : Waiting(r) ~> ~Waiting(r)

(* A stop always finishes, so the backend can let go of socket and process.*)
StopFinishes == stopping ~> ~stopping

(* The transmit path keeps the promise of TxService.                       *)
Service == INSTANCE TxService WITH reply <- future

KeepsPromise == Service!Spec

=============================================================================
