------------------------- MODULE CompanionRequests -------------------------
(***************************************************************************)
(* Requests of an app to other nodes and the frames it gets for them.      *)
(*                                                                         *)
(* One app is connected over TCP at a time.  A command reads, registers a  *)
(* request, transmits and writes SENT; the answer comes from the air at any*)
(* moment from then on, even before SENT, and must go to the connection    *)
(* that asked.  Binary requests hold a ticket (request_replies.py,         *)
(* binary_requests.py); others leave a task behind that awaits the answer  *)
(* (command_replies.py); the web interface asks without a connection.      *)
(*                                                                         *)
(* One event loop; an action is what happens between two awaits.           *)
(***************************************************************************)
EXTENDS Naturals, Sequences, FiniteSets

CONSTANTS
    Requests,     \* requests of a behaviour (bound)
    Tags,         \* random 32-bit tags, so few that they meet
    Connections,  \* 1..n, connections of a behaviour in turn (bound)
    MaxPending,   \* MAX_PENDING_REQUEST_REPLIES and ..._BINARY_REQUESTS, 128
    Absent        \* no request, no connection

VARIABLES
    session,   \* the connection whose frames are read, _client_writer, or 0
    aborted,   \* connections whose transport was aborted
    waiting,   \* connections accepted that await the session lock
    pending,   \* [Tags -> request in _pending_binary_requests or Absent]
    replies,   \* [Tags -> request in _request_replies or Absent]
    req,       \* [Requests -> the request and its ticket]
    out        \* [Connections -> frames queued for it]

vars == <<session, aborted, waiting, pending, replies, req, out>>

Kinds == {"owned", "task", "web"}
NotMade == [stage |-> "none", kind |-> "web", tag |-> Absent, conn |-> 0,
            active |-> FALSE, sent |-> FALSE, admitted |-> FALSE,
            received |-> FALSE, overdue |-> FALSE]

Init ==
    /\ session = 0
    /\ aborted = {}
    /\ waiting = {}
    /\ pending = [t \in Tags |-> Absent]
    /\ replies = [t \in Tags |-> Absent]
    /\ req = [r \in Requests |-> NotMade]
    /\ out = [c \in Connections |-> <<>>]

(* _command_reply_writer_is_current.                                       *)
Current(c) == c # 0 /\ session = c /\ c \notin aborted

Entries(table) == {t \in Tags : table[t] # Absent}
Made == {r \in Requests : req[r].stage # "none"}
Commanding(c) == \E r \in Made : req[r].conn = c /\ req[r].stage \in {"sending", "flushing"}

-----------------------------------------------------------------------------
(* Connections.                                                            *)

(* _handle_client: a new connection aborts the others and waits for the    *)
(* session lock.                                                           *)
Connect(c) ==
    /\ out[c] = <<>> /\ c \notin waiting \cup aborted \cup {session}
    /\ waiting' = waiting \cup {c}
    /\ aborted' = aborted \cup waiting \cup ({session} \ {0})
    /\ UNCHANGED <<session, pending, replies, req, out>>

Disconnect ==
    /\ session \notin aborted \cup {0}
    /\ aborted' = aborted \cup {session}
    /\ UNCHANGED <<session, waiting, pending, replies, req, out>>

Enter(c) ==
    /\ session = 0
    /\ c \in waiting
    /\ waiting' = waiting \ {c}
    /\ session' = IF c \in aborted THEN 0 ELSE c
    /\ UNCHANGED <<aborted, pending, replies, req, out>>

(* _discard_request_reply.                                                 *)
Discard(table, rs) == [t \in Tags |-> IF table[t] \in rs THEN Absent ELSE table[t]]
Ended(rs) == [r \in Requests |-> IF r \in rs THEN [req[r] EXCEPT !.active = FALSE] ELSE req[r]]

Tickets(c) == {r \in Requests : req[r].conn = c /\ r \in {replies[t] : t \in Entries(replies)}}

(* _cleanup_client, once the command at work is over: the reader never     *)
(* cancels it (frame_reads.py:40-42).                                      *)
Leave ==
    /\ session \in aborted
    /\ ~Commanding(session)
    /\ session' = 0
    /\ replies' = Discard(replies, Tickets(session))
    /\ req' = Ended(Tickets(session))
    /\ UNCHANGED <<aborted, waiting, pending, out>>

-----------------------------------------------------------------------------
(* Asking.                                                                 *)

(* cleanup_expired_binary_requests and _prune_request_replies.             *)
Unexpired(table) ==
    [t \in Tags |-> IF table[t] # Absent /\ req[table[t]].overdue THEN Absent ELSE table[t]]

Pruned ==
    {r \in Requests :
        /\ r \in {replies[t] : t \in Entries(replies)}
        /\ (req[r].overdue /\ ~req[r].received) \/ ~Current(req[r].conn)}

New(kind, t, c, stage, active) ==
    [NotMade EXCEPT !.stage = stage, !.kind = kind, !.tag = t, !.conn = c, !.active = active]

(* The command of a connected app registers a binary request before it is  *)
(* transmitted.  A tag in use, or a full table, fails the command.         *)
AskOwned(r, t) ==
    LET table == Unexpired(pending)
        taken == table[t] # Absent \/ Cardinality(Entries(table)) >= MaxPending
        gone == IF taken THEN {} ELSE Pruned
        kept == Discard(replies, gone)
        refused == taken \/ kept[t] # Absent \/ Cardinality(Entries(kept)) >= MaxPending
    IN /\ req[r].stage = "none"
       /\ Current(session)
       /\ ~Commanding(session)
       /\ req' = [Ended(gone) EXCEPT ![r] =
              New("owned", t, session, IF refused THEN "flushing" ELSE "sending", ~refused)]
       /\ pending' = IF refused THEN table ELSE [table EXCEPT ![t] = r]
       /\ replies' = IF refused THEN kept ELSE [kept EXCEPT ![t] = r]
       /\ UNCHANGED <<session, aborted, waiting, out>>

(* A request whose answer a task awaits, as login and status.              *)
AskTask(r) ==
    /\ req[r].stage = "none"
    /\ Current(session)
    /\ ~Commanding(session)
    /\ req' = [req EXCEPT ![r] = New("task", Absent, session, "sending", TRUE)]
    /\ UNCHANGED <<session, aborted, waiting, pending, replies, out>>

(* The web interface asks; nobody owns the reply.                          *)
AskWeb(r, t) ==
    LET table == Unexpired(pending)
    IN /\ req[r].stage = "none"
       /\ table[t] = Absent
       /\ Cardinality(Entries(table)) < MaxPending
       /\ req' = [req EXCEPT ![r] = New("web", t, 0, "sending", FALSE)]
       /\ pending' = [table EXCEPT ![t] = r]
       /\ UNCHANGED <<session, aborted, waiting, replies, out>>

(* The transmission is over.  If it succeeded the deadlines start and SENT *)
(* is captured; if not the request leaves the table.                       *)
Transmitted(r, ok) ==
    /\ req[r].stage = "sending"
    /\ req' = [req EXCEPT ![r] = [@ EXCEPT
            !.stage = IF req[r].kind = "web" THEN "over" ELSE "flushing",
            !.sent = ok]]
    /\ pending' = IF ok \/ req[r].tag = Absent THEN pending
                  ELSE Discard(pending, {r})
    /\ UNCHANGED <<session, aborted, waiting, replies, out>>

(* _flush_command_replies and _command_reply_capture_finished: the frames  *)
(* are queued, if the connection is still there; a ticket that was not     *)
(* announced so ends.  Then the waiters go.                                *)
Flushed(r) ==
    LET flushed == Current(req[r].conn)
        admitted == req[r].active /\ req[r].sent /\ flushed
    IN /\ req[r].stage = "flushing"
       /\ req' = [req EXCEPT ![r] = [@ EXCEPT !.stage = "over", !.admitted = admitted,
                                              !.active = admitted]]
       /\ replies' = IF admitted THEN replies ELSE Discard(replies, {r})
       /\ out' = IF flushed
                 THEN [out EXCEPT ![session] =
                          Append(@, <<IF req[r].sent THEN "sent" ELSE "error", r>>)]
                 ELSE out
       /\ UNCHANGED <<session, aborted, waiting, pending>>

(* The end of a request's time, which began with its transmission.         *)
Expire(r) ==
    /\ req[r].sent
    /\ ~req[r].overdue
    /\ req[r].kind # "task"
    /\ req' = [req EXCEPT ![r].overdue = TRUE]
    /\ UNCHANGED <<session, aborted, waiting, pending, replies, out>>

-----------------------------------------------------------------------------
(* Answers.                                                                *)

(* The request of a ticket gets its answer, once.                          *)
Received(r) ==
    LET kept == Discard(replies, Pruned)
        got == kept[req[r].tag] = r /\ ~req[r].received /\ r \notin Pruned
    IN /\ replies' = kept
       /\ req' = [Ended(Pruned) EXCEPT ![r].received = @ \/ got]
       /\ UNCHANGED out

(* Frames for whoever is connected.                                        *)
Broadcast(r) ==
    /\ out' = IF Current(session) THEN [out EXCEPT ![session] = Append(@, <<"push", r>>)]
              ELSE out
    /\ req' = [req EXCEPT ![r].received = TRUE]
    /\ UNCHANGED replies

(* Who owns the reply is looked up after the request has left the table.   *)
RespondOwnerless(t) ==
    /\ pending[t] # Absent
    /\ pending' = [pending EXCEPT ![t] = Absent]
    /\ IF req[pending[t]].active THEN Received(pending[t]) ELSE Broadcast(pending[t])
    /\ UNCHANGED <<session, aborted, waiting>>

(* _on_binary_response: the owner is known before the core takes the       *)
(* request from the table, and stays known when the ticket has ended.      *)
Respond(t) ==
    /\ pending[t] # Absent
    /\ pending' = [pending EXCEPT ![t] = Absent]
    /\ IF req[pending[t]].kind = "owned" THEN Received(pending[t]) ELSE Broadcast(pending[t])
    /\ UNCHANGED <<session, aborted, waiting>>

(* The reply does not wait for the command's own frames.                   *)
DeliverAtOnce(r) ==
    /\ req[r].received
    /\ req[r].active
    /\ req' = Ended({r})
    /\ replies' = Discard(replies, {r})
    /\ out' = IF Current(req[r].conn)
              THEN [out EXCEPT ![session] = Append(@, <<"reply", r>>)] ELSE out
    /\ UNCHANGED <<session, aborted, waiting, pending>>

(* _deliver_owned_request_reply: when the command's frames are out.        *)
Deliver(r) ==
    /\ req[r].kind = "owned"
    /\ req[r].received
    /\ req[r].active
    /\ req[r].stage = "over"
    /\ req' = Ended({r})
    /\ replies' = Discard(replies, {r})
    /\ out' = IF req[r].admitted /\ Current(req[r].conn)
              THEN [out EXCEPT ![session] = Append(@, <<"reply", r>>)] ELSE out
    /\ UNCHANGED <<session, aborted, waiting, pending>>

(* The task of _spawn_request_task: a capture of its own for the same      *)
(* connection, behind the frames of the command.                           *)
TaskAnswers(r) ==
    /\ req[r].kind = "task"
    /\ req[r].stage = "over"
    /\ req[r].sent
    /\ ~req[r].received
    /\ req' = [req EXCEPT ![r].received = TRUE]
    /\ out' = IF Current(req[r].conn)
              THEN [out EXCEPT ![session] = Append(@, <<"reply", r>>)] ELSE out
    /\ UNCHANGED <<session, aborted, waiting, pending, replies>>

-----------------------------------------------------------------------------
Next ==
    \/ \E c \in Connections : Connect(c) \/ Enter(c)
    \/ Disconnect
    \/ Leave
    \/ \E r \in Requests :
          \/ \E t \in Tags : AskOwned(r, t) \/ AskWeb(r, t)
          \/ AskTask(r)
          \/ \E ok \in BOOLEAN : Transmitted(r, ok)
          \/ Flushed(r)
          \/ Expire(r)
          \/ Deliver(r)
          \/ TaskAnswers(r)
    \/ \E t \in Tags : Respond(t)

Spec == Init /\ [][Next]_vars

-----------------------------------------------------------------------------
(* What the theorem about the requests assumes: "no request" and "no       *)
(* connection" are none of them.                                           *)
RequestsApart == Absent \notin Requests /\ 0 \notin Connections

TypeOK ==
    /\ session \in Connections \cup {0}
    /\ aborted \in SUBSET Connections /\ waiting \in SUBSET Connections
    /\ pending \in [Tags -> Requests \cup {Absent}]
    /\ replies \in [Tags -> Requests \cup {Absent}]
    /\ req \in [Requests ->
          [stage : {"none", "sending", "flushing", "over"}, kind : Kinds,
           tag : Tags \cup {Absent}, conn : Connections \cup {0}, active : BOOLEAN,
           sent : BOOLEAN, admitted : BOOLEAN, received : BOOLEAN, overdue : BOOLEAN]]
    /\ out \in [Connections -> Seq({"sent", "error", "reply", "push"} \X Requests)]

(* "A completion already available from the RF waiter must not overtake the*)
(* initiating command's SENT frame" and "a stale TCP-owned regions response*)
(* must not turn into an unowned broadcast" (command_replies.py:66-67,     *)
(* request_replies.py:144-145): what an app receives about a request it    *)
(* asked for itself on this connection, first that it was sent and then at *)
(* most one reply; only the web's answers go to whoever is there.  A ticket*)
(* is in the table for the connection being served, and never for another. *)
RepliesToTheAsker ==
    /\ \A c \in Connections : \A i \in DOMAIN out[c] :
          LET what == out[c][i][1]
              r == out[c][i][2]
          IN /\ what = "push" <=> req[r].kind = "web"
             /\ what # "push" => req[r].conn = c
             /\ what = "reply" => \E j \in 1..(i - 1) : out[c][j] = <<"sent", r>>
             /\ \A j \in DOMAIN out[c] : out[c][j] = out[c][i] => i = j
    /\ \A t \in Entries(replies) :
          LET r == replies[t]
          IN /\ req[r].active
             /\ req[r].conn = session
             /\ req[r].stage = "over" => req[r].admitted

=============================================================================
