--------------------------- MODULE CompanionInbox ---------------------------
(***************************************************************************)
(* The inbox of a companion: messages received from the mesh wait in RAM   *)
(* (the bridge's message_queue) until SQLite has them, and in SQLite until *)
(* the client has asked for them (companion/message_delivery.py,           *)
(* data_acquisition/sqlite_handler.py, companion/bridge.py).               *)
(*                                                                         *)
(* _message_persistence_lock serialises reception, the client's command    *)
(* and the final flush; stage is who holds it and how far he is.  Saving,  *)
(* reading and deleting may fail each time, the client may be gone, and the*)
(* process may die between any two steps.                                  *)
(***************************************************************************)
EXTENDS Naturals, Sequences, FiniteSets, SequencesExt

CONSTANTS
    Messages,   \* a message is its packet_hash
    Channel,    \* the channel messages among them; the others are direct
    Capacity,   \* message_queue.max_size, the limit of both stores
    MaxFaults   \* bound on the faults and restarts of a behaviour

VARIABLES
    ram,      \* Seq(Messages): message_queue._queue
    pending,  \* messages with metadata in _pending_message_fallbacks
    seen,     \* messages the protocol handlers know (outside src/)
    sql,      \* Seq(Messages): the rows of companion_messages by id
    stage,    \* of the lock's holder
    admitted, \* messages the queue accepted, in order (history)
    offered,  \* messages admitted to the client's queue, in order (history)
    excused,  \* messages that may be missing or come twice (history)
    faults    \* faults and restarts so far (bound)

vars == <<ram, pending, seen, sql, stage, admitted, offered, excused, faults>>

Stages == {"idle", "receive", "command", "stop", "peek", "offered_row",
           "stopped"}

Init ==
    /\ ram = <<>>
    /\ pending = {}
    /\ seen = {}
    /\ sql = <<>>
    /\ stage = "idle"
    /\ admitted = <<>>
    /\ offered = <<>>
    /\ excused = {}
    /\ faults = 0

(* The messages of s that are not in S, in turn: what is left of the first *)
(* i, for each i.  (A function and no SelectSeq, for the theorems.)        *)
Sifted(s, S) ==
    LET kept[i \in 0..Len(s)] ==
            IF i = 0 THEN <<>>
            ELSE IF s[i] \in S THEN kept[i - 1] ELSE Append(kept[i - 1], s[i])
    IN  kept
Minus(s, S) == Sifted(s, S)[Len(s)]
Fail == faults < MaxFaults /\ faults' = faults + 1

(* A store that is full makes room by its oldest channel message, never by *)
(* a direct one; the newcomer itself is not a candidate.                   *)
Evicted(s) ==
    IF Len(s) < Capacity THEN {}
    ELSE {s[i] : i \in {k \in DOMAIN s : /\ s[k] \in Channel
                                         /\ \A j \in 1..(k - 1) : s[j] \notin Channel}}
HasRoom(s) == Len(s) < Capacity \/ Evicted(s) # {}
Pushed(s, m) == Append(Minus(s, Evicted(s)), m)

(* The history forgets what may be missing or come twice.                  *)
Excuse(S) ==
    /\ excused'  = excused \cup S
    /\ admitted' = Minus(admitted, S)
    /\ offered'  = Minus(offered, S)

(* A message arrives: MessageQueue.push, outside src/, then                *)
(* _persist_companion_message, which drops the metadata of entries that    *)
(* were evicted from RAM and keeps that of the new one.  For a channel     *)
(* message the metadata comes by a callback outside src/, if it comes.     *)
(* After a restart nobody remembers that a message was there before.       *)
Receive(m) ==
    /\ stage = "idle"
    /\ m \notin seen
    /\ HasRoom(ram)
    /\ ~Contains(ram, m)
    /\ seen' = seen \cup {m}
    /\ ram' = Pushed(ram, m)
    /\ \/ pending' = (pending \cap ToSet(ram')) \cup {m}
       \/ m \in Channel /\ pending' = pending \cap ToSet(ram')
    /\ stage' = "receive"
    /\ IF Contains(admitted, m) \/ m \in excused
       THEN Excuse(Evicted(ram) \cup {m})
       ELSE /\ admitted' = Append(Minus(admitted, Evicted(ram)), m)
            /\ offered'  = Minus(offered, Evicted(ram))
            /\ excused'  = excused \cup Evicted(ram)
    /\ UNCHANGED <<sql, faults>>

-----------------------------------------------------------------------------
(* _flush_pending_messages: the oldest of RAM, again and again, until one  *)
(* has no metadata or cannot be saved.                                     *)
Flushing == stage \in {"receive", "command", "stop"}
Oldest   == Head(ram)

AfterFlush ==
    CASE stage = "receive" -> "idle"
      [] stage = "command" -> "peek"
      [] stage = "stop"    -> "stopped"

(* companion_push_message, one transaction.  A row with the same hash      *)
(* counts as saved.                                                        *)
SaveOldest ==
    /\ Flushing
    /\ ram # <<>>
    /\ Oldest \in pending
    /\ IF Contains(sql, Oldest)
       THEN UNCHANGED <<sql, admitted, offered, excused>>
       ELSE /\ HasRoom(sql)
            /\ sql' = Pushed(sql, Oldest)
            /\ Excuse(Evicted(sql))
    /\ ram' = Tail(ram)
    /\ pending' = pending \ {Oldest}
    /\ UNCHANGED <<seen, stage, faults>>

(* The flush passes over a message that cannot be saved now.               *)
FlushSkips ==
    /\ Flushing
    /\ \/ ram = <<>> /\ UNCHANGED <<faults, ram, pending>> /\ stage' = AfterFlush
       \/ /\ Len(ram) > 1 /\ Fail
          /\ ram' = Append(Tail(ram), Oldest)
          /\ UNCHANGED <<pending, stage>>
       \/ ram # <<>> /\ Fail /\ UNCHANGED <<ram, pending>> /\ stage' = AfterFlush
       \/ /\ ram # <<>> /\ Oldest \notin pending
          /\ UNCHANGED <<faults, ram, pending>> /\ stage' = AfterFlush
    /\ UNCHANGED <<seen, sql, admitted, offered, excused>>

FlushEnds ==
    /\ Flushing
    /\ \/ ram = <<>> /\ UNCHANGED faults
       \/ ram # <<>> /\ Oldest \notin pending /\ UNCHANGED faults
       \/ /\ ram # <<>> /\ Oldest \in pending
          /\ ~Contains(sql, Oldest) /\ ~HasRoom(sql)
          /\ UNCHANGED faults
       \/ ram # <<>> /\ Oldest \in pending /\ Fail
    /\ stage' = AfterFlush
    /\ UNCHANGED <<seen, ram, pending, sql, admitted, offered, excused>>

-----------------------------------------------------------------------------
(* _cmd_sync_next_message.                                                 *)

Command ==
    /\ stage = "idle"
    /\ stage' = "command"
    /\ UNCHANGED <<seen, ram, pending, sql, admitted, offered, excused, faults>>

(* No row can be read, or neither store has a message, or the client is    *)
(* gone: nothing is given away.                                            *)
NoMessage ==
    /\ stage = "peek"
    /\ stage' = "idle"
    /\ \/ sql = <<>> /\ ram = <<>> /\ UNCHANGED faults
       \/ Fail
    /\ UNCHANGED <<seen, ram, pending, sql, admitted, offered, excused>>

(* The oldest row is admitted to the client's queue of frames.             *)
OfferRow ==
    /\ stage = "peek"
    /\ sql # <<>>
    /\ offered' = Minus(Append(offered, Head(sql)), excused)
    /\ stage' = "offered_row"
    /\ UNCHANGED <<seen, ram, pending, sql, admitted, excused, faults>>

(* The row is deleted; if that fails it will be delivered again.           *)
DeleteRow ==
    /\ stage = "offered_row"
    /\ stage' = "idle"
    /\ \/ sql' = Tail(sql) /\ UNCHANGED <<admitted, offered, excused, faults>>
       \/ Fail /\ Excuse({Head(sql)}) /\ UNCHANGED sql
    /\ UNCHANGED <<seen, ram, pending>>

(* Without a row the head of RAM is given, and removed in the same step.   *)
OfferRam ==
    /\ stage = "peek"
    /\ sql = <<>>
    /\ ram # <<>>
    /\ offered' = Minus(Append(offered, Oldest), excused)
    /\ ram' = Tail(ram)
    /\ pending' = pending \ {Oldest}
    /\ stage' = "idle"
    /\ UNCHANGED <<seen, sql, admitted, excused, faults>>

-----------------------------------------------------------------------------
(* stop(): the last flush (_flush_message_fallbacks).                      *)
Stop ==
    /\ stage = "idle"
    /\ stage' = "stop"
    /\ UNCHANGED <<seen, ram, pending, sql, admitted, offered, excused, faults>>

(* The process dies, or ends: RAM is lost, and a row that was offered but  *)
(* not deleted stays.                                                      *)
Restart ==
    /\ Fail
    /\ ram' = <<>>
    /\ pending' = {}
    /\ seen' = {}
    /\ stage' = "idle"
    /\ Excuse(ToSet(ram) \cup (IF stage = "offered_row" THEN {Head(sql)} ELSE {}))
    /\ UNCHANGED sql

-----------------------------------------------------------------------------
Next ==
    \/ \E m \in Messages : Receive(m)
    \/ SaveOldest
    \/ FlushEnds
    \/ Command
    \/ NoMessage
    \/ OfferRow
    \/ DeleteRow
    \/ OfferRam
    \/ Stop
    \/ Restart

Spec == Init /\ [][Next]_vars

-----------------------------------------------------------------------------
TypeOK ==
    /\ ram \in Seq(Messages)
    /\ pending \in SUBSET Messages
    /\ seen \in SUBSET Messages
    /\ sql \in Seq(Messages)
    /\ stage \in Stages
    /\ admitted \in Seq(Messages)
    /\ offered \in Seq(Messages)
    /\ excused \in SUBSET Messages
    /\ faults \in 0..MaxFaults

GivenAway == IF stage = "offered_row" THEN Tail(sql) ELSE sql

(* An accepted message stays until the client was given it, and is given   *)
(* once and in its turn: what was given, what SQLite holds and what RAM    *)
(* holds is, in this order, what was accepted.  Excused are only channel   *)
(* messages evicted by a full store, what RAM held when the process died,  *)
(* a row whose deletion failed, and what arrives again after a restart     *)
(* (message_delivery.py:111-113, 183-202; sqlite_handler.py:4410-4413).    *)
GivenOnceInOrder == offered \o Minus(GivenAway \o ram, excused) = admitted

=============================================================================
