------------------------------ MODULE TxOrder ------------------------------
(***************************************************************************)
(* The order in which the transmit worker serves the queues.  Two history  *)
(* variables observe TxScheduler: which request was admitted before which, *)
(* for as long as neither was tried, and how many requests were taken from *)
(* other queues since a queue was last visited or the worker started.      *)
(***************************************************************************)
EXTENDS TxScheduler

VARIABLES
    before,     \* pairs of requests, the first of which was admitted first
    overtaken   \* [Channels -> Nat]

OrderInit ==
    /\ Init
    /\ before = {}
    /\ overtaken = [c \in Channels |-> 0]

(* What the step at hand does, told from its effect.                       *)
Entering == {r \in Requests : Fresh(r) /\ future'[r] = "pending"}
VisitEnds(c) == pc = "visit" /\ visited < NumChannels /\ Visited = c
Taken == cur = NoRequest /\ cur' # NoRequest

Starts == ~running /\ running'

Untried(r) == retries[r] = 0

(* Waits for its first attempt, or is in the middle of it.                 *)
Untouched(r) == Untried(r) /\ (r = cur \/ r \in Elements(queue[chan[r]]))

Observe ==
    /\ before' = {p \in before \cup ((Requests \ Entering) \X Entering) :
                     Untouched(p[1])' /\ Untouched(p[2])'}
    /\ overtaken' = [c \in Channels |->
                       IF VisitEnds(c) \/ Starts THEN 0
                       ELSE IF Taken THEN overtaken[c] + 1 ELSE overtaken[c]]

OrderNext == Next /\ Observe

OrderSpec == OrderInit /\ [][OrderNext]_<<vars, before, overtaken>>

-----------------------------------------------------------------------------
(* Within a channel first attempts are made in the order of admission: no  *)
(* purge, overflow or retry lets a later packet overtake an earlier one    *)
(* that was never tried.                                                   *)
FirstAttemptsInOrder ==
    \A c \in Channels :
        /\ \A i, j \in 1..Len(queue[c]) :
              i < j /\ Untried(queue[c][i]) /\ Untried(queue[c][j])
                => <<queue[c][i], queue[c][j]>> \in before
        /\ cur # NoRequest /\ chan[cur] = c /\ Untried(cur)
             => \A r \in Elements(queue[c]) :
                   Untried(r) => <<cur, r>> \in before

(* "Each channel gets equal priority over time": between two visits to a   *)
(* queue at most two requests of each other queue are taken.               *)
RoundRobinFair ==
    \A c \in Channels : overtaken[c] <= 2 * (NumChannels - 1)

=============================================================================
