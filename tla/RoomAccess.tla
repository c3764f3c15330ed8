----------------------------- MODULE RoomAccess -----------------------------
(***************************************************************************)
(* Who may write to a hosted room, and what becomes of it: logins with a   *)
(* password or without (login_server.py, login.py, acl.py), posts and      *)
(* commands (text.py), keep-alives (protocol_request.py), removals and     *)
(* restarts.  Anything a client ever sent may come again at any time.      *)
(*                                                                         *)
(* A message is its timestamp and its text.  Keys are whole, so messages   *)
(* for others with the same first byte are left out; RoomSync has what the *)
(* logins do to the cursors.                                               *)
(***************************************************************************)
EXTENDS Naturals, Sequences

CONSTANTS
    Clients,     \* public keys
    Jobs,        \* tasks that deliver a message
    Times,       \* timestamps of the clients
    Texts,       \* texts of posts
    ReadOnly,    \* allow_read_only
    None,        \* no client, no task
    MaxLives,    \* bound on the ClientInfo objects of a client
    MaxTaken,    \* bound on what is stored and executed
    MaxFaults    \* bound on failing transactions and restarts

VARIABLES
    client,   \* [Clients -> [role, last, receipt, life] or None]
    lives,    \* [Clients -> ClientInfo objects so far]
    job,      \* [Jobs -> [who, life, msg, at] or None]
    taken,    \* what was stored or executed, in turn (history)
    acked,    \* posts that were acknowledged (history)
    granted,  \* [Clients -> role of the last login that was saved] (history)
    faults    \* bound

vars == <<client, lives, job, taken, acked, granted, faults>>

Posts == [kind : {"post"}, time : Times, text : Texts]
Commands == [kind : {"cli"}, time : Times, text : {None}]

Members == {c \in Clients : client[c] # None}
Larger(a, b) == IF a > b THEN a ELSE b

Init ==
    /\ client = [c \in Clients |-> None]
    /\ lives = [c \in Clients |-> 0]
    /\ job = [j \in Jobs |-> None]
    /\ taken = <<>>
    /\ acked = {}
    /\ granted = [c \in Clients |-> None]
    /\ faults = 0

Fault == faults < MaxFaults /\ faults' = faults + 1

-----------------------------------------------------------------------------
(* Logins.                                                                 *)

NewClient(c) == [role |-> "guest", last |-> 0, receipt |-> None, life |-> lives[c] + 1]

(* What authenticate_client makes of a client: an empty password keeps the *)
(* role, a good one sets it.                                               *)
Touched(old, password, time) ==
    [old EXCEPT !.last = time, !.role = IF password = "blank" THEN @ ELSE password]

(* Whoever comes as a reader needs the room's consent.  A full list refuses*)
(* as a wrong password does, and nothing happens.                          *)
Admissible(c, password) ==
    password = "blank" /\ (client[c] = None \/ client[c].role = "guest") => ReadOnly

(* Fault: a login that cannot be saved is not taken back.                  *)
RolledBackNot(c, new) == [client EXCEPT ![c] = new]

(* The ACL is as before.                                                   *)
RolledBack(c, new) == client

(* The session exists only if its row could be saved.                      *)
Login(c, password, time) ==
    LET old == IF client[c] = None THEN NewClient(c) ELSE client[c]
        new == Touched(old, password, time)
    IN /\ Admissible(c, password)
       /\ time > old.last
       /\ new.life <= MaxLives
       /\ \/ /\ client' = [client EXCEPT ![c] = new]
             /\ lives' = [lives EXCEPT ![c] = new.life]
             /\ granted' = [granted EXCEPT ![c] = new.role]
             /\ UNCHANGED faults
          \/ /\ Fault
             /\ client' = RolledBack(c, new)
             /\ UNCHANGED <<lives, granted>>
       /\ UNCHANGED <<job, taken, acked>>

(* A keep-alive that is not older counts, if it can be stored.             *)
KeepAlive(c, time) ==
    /\ c \in Members
    /\ time > client[c].last
    /\ client' = [client EXCEPT ![c].last = time]
    /\ UNCHANGED <<lives, job, taken, acked, granted, faults>>

(* The sync loop evicts after three failures, the web interface on demand. *)
Remove(c) ==
    /\ c \in Members
    /\ client' = [client EXCEPT ![c] = None]
    /\ UNCHANGED <<lives, job, taken, acked, granted, faults>>

-----------------------------------------------------------------------------
(* Messages.                                                               *)

(* The sender is looked up, then waited for.                               *)
Arrive(j, c, msg) ==
    /\ job[j] = None
    /\ c \in Members
    /\ job' = [job EXCEPT ![j] = [who |-> c, life |-> client[c].life, msg |-> msg,
                                  at |-> "waiting"]]
    /\ UNCHANGED <<client, lives, taken, acked, granted, faults>>

(* One message of a ClientInfo at a time.                                  *)
Turn(j) ==
    /\ job[j] # None
    /\ job[j].at = "waiting"
    /\ \A i \in Jobs : job[i] # None /\ job[i].at = "replying"
                          => job[i].who # job[j].who \/ job[i].life # job[j].life

(* Still the same ClientInfo, with a role for this kind of message.        *)
Welcome(j) ==
    LET who == client[job[j].who]
    IN /\ who # None
       /\ who.life = job[j].life
       /\ who.role = "admin" \/ (who.role = "writer" /\ job[j].msg.kind = "post")

Entry(j) == [who |-> job[j].who, life |-> job[j].life, msg |-> job[j].msg]
New(j) == job[j].msg.time > client[job[j].who].last
Repeated(j) ==
    /\ client[job[j].who].receipt = job[j].msg
    /\ client[job[j].who].last = job[j].msg.time

Refuse(j) ==
    /\ Turn(j)
    /\ Welcome(j) => ~(New(j) \/ Repeated(j))
    /\ job' = [job EXCEPT ![j] = None]
    /\ UNCHANGED <<client, lives, taken, acked, granted, faults>>

(* A post that was stored is acknowledged again, with no newer in between. *)
Again(j) ==
    /\ Turn(j) /\ Welcome(j)
    /\ Repeated(j)
    /\ acked' = acked \cup {Entry(j)}
    /\ job' = [job EXCEPT ![j] = None]
    /\ UNCHANGED <<client, lives, taken, granted, faults>>

Marked(j) ==
    [client EXCEPT ![job[j].who].last = Larger(@, job[j].msg.time),
                   ![job[j].who].receipt = job[j].msg]

(* Fault: the receipt is written before the post is stored.                *)
NotStoredMarked(j) == Fault /\ client' = Marked(j)

(* It cannot be stored, or there were too many: it may be tried again.     *)
NotStored(j) == Fault /\ UNCHANGED client

Post(j) ==
    /\ Turn(j) /\ Welcome(j) /\ New(j)
    /\ job[j].msg.kind = "post"
    /\ \/ /\ Len(taken) < MaxTaken
          /\ taken' = Append(taken, Entry(j))
          /\ acked' = acked \cup {Entry(j)}
          /\ client' = Marked(j)
          /\ UNCHANGED faults
       \/ NotStored(j) /\ UNCHANGED <<taken, acked>>
    /\ job' = [job EXCEPT ![j] = None]
    /\ UNCHANGED <<lives, granted>>

(* Fault: a command is noted with its reply.                               *)
ReservedLate(j) == client

(* A command is noted before it runs.                                      *)
Reserved(j) == [client EXCEPT ![job[j].who].last = Larger(@, job[j].msg.time)]

(* The reply takes over half a second, and its sender's next message waits.*)
Command(j) ==
    /\ Turn(j) /\ Welcome(j) /\ New(j)
    /\ job[j].msg.kind = "cli"
    /\ Len(taken) < MaxTaken
    /\ client' = Reserved(j)
    /\ taken' = Append(taken, Entry(j))
    /\ job' = [job EXCEPT ![j].at = "replying"]
    /\ UNCHANGED <<lives, acked, granted, faults>>

Replied(j) ==
    /\ job[j] # None
    /\ job[j].at = "replying"
    /\ job' = [job EXCEPT ![j] = None]
    /\ UNCHANGED <<client, lives, taken, acked, granted, faults>>

(* The access list is in memory.                                           *)
Restart ==
    /\ Fault
    /\ client' = [c \in Clients |-> None]
    /\ job' = [j \in Jobs |-> None]
    /\ UNCHANGED <<lives, taken, acked, granted>>

Next ==
    \/ \E c \in Clients :
        \/ \E password \in {"blank", "writer", "admin"}, time \in Times :
               Login(c, password, time)
        \/ \E time \in Times : KeepAlive(c, time)
        \/ Remove(c)
        \/ \E j \in Jobs, msg \in Posts \cup Commands : Arrive(j, c, msg)
    \/ \E j \in Jobs :
        Refuse(j) \/ Again(j) \/ Post(j) \/ Command(j) \/ Replied(j)
    \/ Restart

Spec == Init /\ [][Next]_vars

-----------------------------------------------------------------------------
(* What the theorem about messages assumes.                                *)
AccessAssumption ==
    /\ Times \subseteq Nat
    /\ None \notin Posts \cup Commands
    /\ None \notin [role : {"guest", "writer", "admin"}, last : Nat,
                    receipt : Posts \cup Commands \cup {None}, life : Nat]
    /\ None \notin [who : Clients, life : Nat, msg : Posts \cup Commands,
                    at : {"waiting", "replying"}]

(* While a client is on the list each of its messages is taken once and in *)
(* the order of their times, whatever is repeated or overtaken (text.py:   *)
(* 288-330, 396-404); what was acknowledged is stored; a role is that of   *)
(* the last login that was saved (login.py:131-190).                       *)
MessagesOnce ==
    /\ \A i, k \in DOMAIN taken :
          i < k /\ taken[i].who = taken[k].who /\ taken[i].life = taken[k].life
             => taken[i].msg.time < taken[k].msg.time
    /\ \A a \in acked : \E i \in DOMAIN taken : taken[i] = a
    /\ \A c \in Members : client[c].role = granted[c]

=============================================================================
