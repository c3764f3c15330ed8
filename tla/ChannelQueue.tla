---------------------------- MODULE ChannelQueue ----------------------------
(***************************************************************************)
(* The bounded FIFO inside ChannelTXQueue (openhop_core/hardware/          *)
(* tx_queue.py): an asyncio.Queue of requests, each request carrying the   *)
(* future its caller waits on.  A queue is a sequence of request           *)
(* identities; which futures are done is a parameter of the operators.     *)
(***************************************************************************)
EXTENDS Integers, Sequences

Elements(q) == {q[i] : i \in 1..Len(q)}

NoRepeats(q) == \A i, j \in 1..Len(q) : q[i] = q[j] => i = j

(***************************************************************************)
(* ChannelTXQueue._discard_completed_requests.  The code turns the queue   *)
(* once around: Len(q) times it takes the head and puts it back at the     *)
(* tail unless its future is done.                                         *)
(***************************************************************************)
Turned(q, done) ==
    LET turn[i \in 0..Len(q)] ==
          IF i = 0 THEN q
          ELSE IF Head(turn[i-1]) \in done
               THEN Tail(turn[i-1])
               ELSE Append(Tail(turn[i-1]), Head(turn[i-1]))
    IN  turn

(* Fault: one turn too few.                                                *)
DiscardCompletedOneShort(q, done) ==
    IF q = <<>> THEN q ELSE Turned(q, done)[Len(q) - 1]

DiscardCompleted(q, done) == Turned(q, done)[Len(q)]

=============================================================================
