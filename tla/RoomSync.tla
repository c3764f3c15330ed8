------------------------------ MODULE RoomSync ------------------------------
(***************************************************************************)
(* A hosted room: posts with increasing timestamps, and for each client a  *)
(* durable row with the cursor up to which it has them and the push that is*)
(* under way (handler_helpers/room_server.py, sqlite_handler.py).  Logins  *)
(* and keep-alives change the rows while the sync loop waits for the       *)
(* transmit limiter or for an acknowledgement.                             *)
(*                                                                         *)
(* A post is its timestamp.  The loop goes round the clients; the model    *)
(* leaves open which one it reaches.  Times (intervals, back-off, the age  *)
(* of a post) only delay actions and are left out.                         *)
(***************************************************************************)
EXTENDS Naturals, FiniteSets, FiniteSetsExt

CONSTANTS
    Clients,      \* those who can log in
    Server,       \* the room itself as an author
    Nonces,       \* the two random bits that tell attempts apart
    MaxFailures,  \* MAX_PUSH_FAILURES, 3
    KeepPosts,    \* max_posts, 32
    None,         \* no row, no attempt, no push
    MaxPosts,     \* bound on the posts of a behaviour
    MaxFaults,    \* bound on failing transactions and restarts
    MaxResets     \* bound on logins and keep-alives

VARIABLES
    author,   \* [posts so far -> author]; the domain is room_post_cursors
    posts,    \* timestamps in room_messages
    row,      \* [Clients -> room_client_sync row or None]
    acl,      \* [Clients -> sync_since of the ClientInfo or None]
    acked,    \* [Clients -> attempt in _acknowledged_pushes or None]
    push,     \* what push_post_to_client is doing, or None
    received, \* [Clients -> posts it acknowledged] (history)
    claimed,  \* [Clients -> cursor it last sent itself] (history)
    unacked,  \* [Clients -> attempts in a row not acknowledged] (history)
    faults,   \* bound
    resets    \* bound

tables  == <<author, posts>>
history == <<received, claimed, unacked>>
vars == <<tables, row, acl, acked, push, history, faults, resets>>

Last == Cardinality(DOMAIN author)
Attempts == [post : 1..MaxPosts, nonce : Nonces]
Rows == [since : 0..MaxPosts, pending : Attempts \cup {None},
         failures : Nat, active : BOOLEAN]
Members == {c \in Clients : acl[c] # None}

Init ==
    /\ author = [p \in {} |-> Server]
    /\ posts = {}
    /\ row = [c \in Clients |-> None]
    /\ acl = [c \in Clients |-> None]
    /\ acked = [c \in Clients |-> None]
    /\ push = None
    /\ received = [c \in Clients |-> {}]
    /\ claimed = [c \in Clients |-> 0]
    /\ unacked = [c \in Clients |-> 0]
    /\ faults = 0
    /\ resets = 0

Fault == faults < MaxFaults /\ faults' = faults + 1
Reset == resets < MaxResets /\ resets' = resets + 1

-----------------------------------------------------------------------------
(* Clients and the operator.                                               *)

(* add_post: insert_room_message gives a timestamp beyond every one there  *)
(* ever was, whatever the clock says.                                      *)
AddPost(a) ==
    /\ Last < MaxPosts
    /\ a \in Members \cup {Server}
    /\ author' = [p \in 1..(Last + 1) |-> IF p <= Last THEN author[p] ELSE a]
    /\ posts' = posts \cup {Last + 1}
    /\ UNCHANGED <<row, acl, acked, push, history, faults, resets>>

(* The row after a login or keep-alive: the push under way is disowned.    *)
Fresh(since) == [since |-> since, pending |-> None, failures |-> 0, active |-> TRUE]

(* A login, with a cursor or without; the session exists only if the row   *)
(* could be saved.                                                         *)
Login(c, cursor) ==
    /\ Reset
    /\ LET old == IF row[c] = None THEN 0 ELSE row[c].since
           since == IF cursor = None THEN old ELSE cursor
       IN /\ row' = [row EXCEPT ![c] = Fresh(since)]
          /\ acl' = [acl EXCEPT ![c] = IF cursor # None THEN cursor
                                       ELSE IF @ = None THEN 0 ELSE @]
          /\ claimed' = [claimed EXCEPT ![c] = IF cursor = None THEN @ ELSE cursor]
    /\ unacked' = [unacked EXCEPT ![c] = 0]
    /\ UNCHANGED <<tables, acked, push, received, faults>>

(* REQ_TYPE_KEEP_ALIVE of a member (refresh_room_keep_alive); zero keeps   *)
(* the cursor.                                                             *)
KeepAlive(c, cursor) ==
    /\ Reset
    /\ c \in Members
    /\ LET old == IF row[c] = None THEN acl[c] ELSE row[c].since
       IN row' = [row EXCEPT ![c] = Fresh(IF cursor > 0 THEN cursor ELSE old)]
    /\ acl' = [acl EXCEPT ![c] = IF cursor > 0 THEN cursor ELSE @]
    /\ claimed' = [claimed EXCEPT ![c] = IF cursor > 0 THEN cursor ELSE @]
    /\ unacked' = [unacked EXCEPT ![c] = 0]
    /\ UNCHANGED <<tables, acked, push, received, faults>>

-----------------------------------------------------------------------------
(* The sync loop.                                                          *)

(* Any attempt is finished, the row's or not.                              *)
FinishedUnmatched(c, attempt, answered) ==
    IF row[c] = None THEN row
    ELSE [row EXCEPT ![c] =
             [since    |-> IF answered /\ attempt.post > @.since
                           THEN attempt.post ELSE @.since,
              pending  |-> None,
              failures |-> IF answered THEN 0 ELSE @.failures + 1,
              active   |-> answered \/ @.active]]

(* finish_room_push: only the attempt the row names is finished.           *)
Finished(c, attempt, answered) ==
    IF row[c] = None \/ row[c].pending # attempt THEN row
    ELSE [row EXCEPT ![c] =
             [since    |-> IF answered /\ attempt.post > @.since
                           THEN attempt.post ELSE @.since,
              pending  |-> None,
              failures |-> IF answered THEN 0 ELSE @.failures + 1,
              active   |-> answered \/ @.active]]

(* An acknowledgement that cannot be stored is forgotten.                  *)
HandleAckReceivedOnce(c, attempt) ==
    \/ /\ row' = Finished(c, attempt, TRUE)
       /\ acked' = [acked EXCEPT ![c] = None]
       /\ UNCHANGED faults
    \/ /\ Fault
       /\ UNCHANGED <<row, acked>>

(* _handle_ack_received: an acknowledgement that cannot be stored is kept. *)
HandleAckReceived(c, attempt) ==
    \/ /\ row' = Finished(c, attempt, TRUE)
       /\ acked' = [acked EXCEPT ![c] = None]
       /\ UNCHANGED faults
    \/ /\ Fault
       /\ acked' = [acked EXCEPT ![c] = attempt]
       /\ UNCHANGED row

(* Every iteration begins with what is still to be stored; as long as that *)
(* fails it goes no further.                                               *)
Flush(c) ==
    /\ push = None
    /\ acked[c] # None
    /\ HandleAckReceived(c, acked[c])
    /\ UNCHANGED <<tables, acl, push, history, resets>>

Iterating == push = None /\ \A c \in Clients : acked[c] = None

(* _evict_failed_clients: too many failures, or an hour without activity.  *)
Evict(c) ==
    /\ Iterating
    /\ row[c] # None
    /\ row[c].active
    /\ row' = [row EXCEPT ![c].active = FALSE]
    /\ acl' = [acl EXCEPT ![c] = None]
    /\ UNCHANGED <<tables, acked, push, history, faults, resets>>

(* _cleanup_old_messages.                                                  *)
CleanUp ==
    /\ Iterating
    /\ Cardinality(posts) > KeepPosts
    /\ posts' = {p \in posts : Cardinality({q \in posts : q > p}) < KeepPosts}
    /\ UNCHANGED <<author, row, acl, acked, push, history, faults, resets>>

(* _check_ack_timeouts: a pending attempt nobody waits for any more, left  *)
(* by a restart, a cancellation or a failed transaction.                   *)
CheckAckTimeout(c) ==
    /\ Iterating
    /\ row[c] # None
    /\ row[c].pending # None
    /\ row' = Finished(c, row[c].pending, FALSE)
    /\ unacked' = [unacked EXCEPT ![c] = @ + 1]
    /\ UNCHANGED <<tables, acl, acked, push, received, claimed, faults, resets>>

Unsynced(c, since) == {p \in posts : p > since /\ author[p] # c}

(* The next client that can be pushed to, a row for it if it has none, and *)
(* its oldest unsynced post.                                               *)
Choose(c) ==
    /\ Iterating
    /\ c \in Members
    /\ LET since == IF row[c] = None THEN acl[c] ELSE row[c].since
       IN /\ row[c] # None => /\ row[c].pending = None
                              /\ row[c].active
                              /\ row[c].failures < MaxFailures
          /\ row' = IF row[c] = None THEN [row EXCEPT ![c] = Fresh(since)] ELSE row
          /\ Unsynced(c, since) # {}
          /\ push' = [client |-> c, since |-> since, stage |-> "limiter",
                      post |-> Min(Unsynced(c, since)), nonce |-> None]
    /\ UNCHANGED <<tables, acl, acked, history, faults, resets>>

(* A cursor that was reset meanwhile goes unnoticed.                       *)
StillValidAnyCursor ==
    LET r == row[push.client]
    IN /\ push.client \in Members
       /\ r # None
       /\ r.pending = None
       /\ r.active
       /\ r.failures < MaxFailures

(* With the limiter everything is looked at again, and the attempt is      *)
(* stored (begin_room_push) before it is sent.                             *)
StillValid ==
    LET r == row[push.client]
    IN /\ push.client \in Members
       /\ r # None
       /\ r.since = push.since
       /\ push.post > r.since
       /\ r.pending = None
       /\ r.active
       /\ r.failures < MaxFailures

BeginPush(nonce) ==
    /\ push # None
    /\ push.stage = "limiter"
    /\ \/ /\ StillValid
          /\ row' = [row EXCEPT ![push.client].pending =
                        [post |-> push.post, nonce |-> nonce]]
          /\ push' = [push EXCEPT !.stage = "sending", !.nonce = nonce]
          /\ UNCHANGED faults
       \/ ~StillValid /\ push' = None /\ UNCHANGED <<row, faults>>
       \/ Fault /\ push' = None /\ UNCHANGED row
    /\ UNCHANGED <<tables, acl, acked, history, resets>>

Attempt == [post |-> push.post, nonce |-> push.nonce]

(* The client's acknowledgement comes in time.                             *)
Answered ==
    /\ push # None
    /\ push.stage = "sending"
    /\ HandleAckReceived(push.client, Attempt)
    /\ received' = [received EXCEPT ![push.client] = @ \cup {push.post}]
    /\ unacked' = [unacked EXCEPT ![push.client] = 0]
    /\ push' = None
    /\ UNCHANGED <<tables, acl, claimed, resets>>

(* It does not, or the packet was never transmitted: the injector answers  *)
(* False to both (packet_router.py:333-334, 359-361), and both are charged *)
(* to the client (_handle_ack_timeout).  A failed transaction leaves the   *)
(* attempt to CheckAckTimeout.                                             *)
Unacknowledged ==
    /\ push # None
    /\ push.stage = "sending"
    /\ \/ /\ row' = Finished(push.client, Attempt, FALSE)
          /\ unacked' = [unacked EXCEPT ![push.client] =
                           IF row' = row THEN @ ELSE @ + 1]
          /\ UNCHANGED faults
       \/ Fault /\ UNCHANGED <<row, unacked>>
    /\ push' = None
    /\ UNCHANGED <<tables, acl, acked, received, claimed, resets>>

(* stop() and start(), or a crash: sessions, kept acknowledgements and the *)
(* push are gone.  What was acknowledged and not stored counts no more.    *)
Restart ==
    /\ Fault
    /\ acl' = [c \in Clients |-> None]
    /\ acked' = [c \in Clients |-> None]
    /\ push' = None
    /\ unacked' = [c \in Clients |->
                     IF acked[c] = None \/ row[c] = None THEN unacked[c]
                     ELSE row[c].failures]
    /\ UNCHANGED <<tables, row, received, claimed, resets>>

-----------------------------------------------------------------------------
Next ==
    \/ \E a \in Clients \cup {Server} : AddPost(a)
    \/ \E c \in Clients :
          \/ \E cursor \in (0..Last) \cup {None} : Login(c, cursor)
          \/ \E cursor \in 0..Last : KeepAlive(c, cursor)
          \/ Flush(c)
          \/ Evict(c)
          \/ CheckAckTimeout(c)
          \/ Choose(c)
    \/ CleanUp
    \/ \E nonce \in Nonces : BeginPush(nonce)
    \/ Answered
    \/ Unacknowledged
    \/ Restart

Spec == Init /\ [][Next]_vars

-----------------------------------------------------------------------------
TypeOK ==
    /\ DOMAIN author = 1..Last
    /\ posts \subseteq 1..Last
    /\ row \in [Clients -> Rows \cup {None}]
    /\ acl \in [Clients -> (0..MaxPosts) \cup {None}]
    /\ acked \in [Clients -> Attempts \cup {None}]

(* The cursor never passes a post the client has not got: what it covers   *)
(* is the client's own, acknowledged by it, or below the cursor it sent    *)
(* itself, whatever logins reset while a push is under way                 *)
(* (room_server.py:532-562, sqlite_handler.py:3614-3688).                  *)
CursorCoversReceived ==
    \A c \in Clients : row[c] # None =>
        \A p \in posts : p <= row[c].since =>
            author[p] = c \/ p \in received[c] \/ p <= claimed[c]

(* "A database outage is not evidence of an unresponsive client"           *)
(* (room_server.py:728): what is charged to a client are attempts since it *)
(* was last heard that it has not acknowledged, be it that it is silent or *)
(* that nothing was transmitted, and no other.                             *)
FailuresUnacknowledged ==
    \A c \in Clients : row[c] # None /\ acked[c] = None =>
        row[c].failures <= unacked[c]
=============================================================================
