---------------------------- MODULE StoreUpgrade ----------------------------
(***************************************************************************)
(* Opening the database: SQLiteHandler._init_database and _run_migrations  *)
(* of data_acquisition/sqlite_handler.py, by more than one handler and     *)
(* from whatever an earlier version left, and the two things that must     *)
(* outlive both an upgrade and a purge: the lifetime counts of packets and *)
(* the wire times of a room's posts.                                       *)
(*                                                                         *)
(* _init_database commits statement by statement; the migrations are one   *)
(* transaction behind BEGIN IMMEDIATE, so one step here.  Times are in     *)
(* ticks, PerSecond to the second: old posts have fractions, the wire has  *)
(* none.  The migrations that only add tables and columns are one.         *)
(***************************************************************************)
EXTENDS Integers, FiniteSets, FiniteSetsExt, Functions

CONSTANTS
    Handlers,     \* instances of SQLiteHandler
    Packets,      \* each stored at most once
    Sent,         \* those with transmitted = 1
    PerSecond,    \* ticks of a second
    LastTick,     \* bound on the clock
    MaxPosts      \* bound on the posts of the room

Marks == {"columns", "ledger", "rooms"}

VARIABLES
    schema,    \* the table packets: "none", "ancient" (no upstream_hash), "present"
    marks,     \* the table migrations
    log,       \* the rows of packets
    ledger,    \* packet_lifetime_counts; nothing before "ledger" \in marks
    ever,      \* what was ever in packets (history)
    time,      \* [post -> post_timestamp], the rows of room_messages
    last,      \* room_post_cursors; 0 without a row
    cursor,    \* sync_since of the room's one reader
    got,       \* the posts it has received (history)
    used,      \* wire times that were given to posts (history)
    posts,     \* posts made so far (bound)
    handler    \* [Handlers -> how far each is]

vars == <<schema, marks, log, ledger, ever, time, last, cursor, got, used, posts, handler>>

Whole(t) == PerSecond * (t \div PerSecond)
Latest(S) == Max(S \cup {0})
Kept == DOMAIN time

Counts(P) == [received |-> Cardinality(P), transmitted |-> Cardinality(P \cap Sent)]

(* Times of old posts: as the clock gave them, or already as on the wire.  *)
OldTimes == UNION {[1..n -> PerSecond..LastTick] : n \in 0..MaxPosts}
Ascending(f) == \A i, j \in DOMAIN f : i < j => f[i] < f[j]

(* A new database, or one of an earlier version.  The reader has received  *)
(* the posts up to some one; his cursor is its time, from an              *)
(* acknowledgement, or its wire time, from a reconnection.                 *)
Init ==
    /\ schema \in {"none", "ancient", "present"}
    /\ marks \in IF schema = "present" THEN {{}, {"columns"}} ELSE {{}}
    /\ log \in IF schema = "none" THEN {{}} ELSE SUBSET Packets
    /\ ledger = Counts({})
    /\ ever = log
    /\ time \in {f \in OldTimes : Ascending(f) /\ (schema = "none" => f = <<>>)}
    /\ last = 0
    /\ got \in {1..n : n \in {0} \cup DOMAIN time}
    /\ cursor \in LET t == Latest({time[p] : p \in got}) IN {t, Whole(t)}
    /\ used = {}
    /\ posts = Cardinality(DOMAIN time)
    /\ handler = [h \in Handlers |-> "closed"]

-----------------------------------------------------------------------------
(* _init_database.  An index on a column the old table does not have ends  *)
(* it, before the migration that would add the column.                     *)
CreateTables(h) ==
    /\ handler[h] = "closed"
    /\ schema' = IF schema = "none" THEN "present" ELSE schema
    /\ handler' = [handler EXCEPT ![h] = IF schema = "ancient" THEN "failed" ELSE "created"]
    /\ UNCHANGED <<marks, log, ledger, ever, time, last, cursor, got, used, posts>>

(* Fault: the ledger is filled from what is retained at every opening.     *)
SeededAgain == Counts(log)

(* The ledger is created and filled from what is retained, once.           *)
Seeded == IF "ledger" \in marks THEN ledger ELSE Counts(log)

(* Fault: posts of one second share a wire time.                           *)
WireTimesCut == [p \in Kept |-> Whole(time[p])]

(* _migrate_room_timestamps: whole seconds that still ascend, ...          *)
WireTimes ==
    LET wire[p \in Kept] ==
            IF p - 1 \in Kept
            THEN Max({Whole(time[p]), wire[p - 1] + PerSecond})
            ELSE Max({Whole(time[p]), PerSecond})
    IN wire

(* ... and a cursor with a fraction moves to the new time of its post.     *)
WireCursor ==
    IF Kept = {} \/ cursor = Whole(cursor) THEN cursor
    ELSE LET passed == {p \in Kept : time[p] <= cursor}
         IN IF passed = {} THEN Whole(cursor) ELSE Max({WireTimes[p] : p \in passed})

(* _run_migrations as a whole.  Room times are rewritten once; the cursor  *)
(* of the room is brought up to its posts every time.                      *)
Migrate(h) ==
    /\ handler[h] = "created"
    /\ ledger' = Seeded
    /\ time' = IF "rooms" \in marks THEN time ELSE WireTimes
    /\ cursor' = IF "rooms" \in marks THEN cursor ELSE WireCursor
    /\ last' = Latest({time'[p] : p \in Kept} \cup {last})
    /\ used' = used \cup {time'[p] : p \in Kept}
    /\ marks' = Marks
    /\ handler' = [handler EXCEPT ![h] = "open"]
    /\ UNCHANGED <<schema, log, ever, got, posts>>

(* An error, a lock held too long, or the end of the process: rolled back. *)
MigrateFails(h) ==
    /\ handler[h] = "created"
    /\ handler' = [handler EXCEPT ![h] = "closed"]
    /\ UNCHANGED <<schema, marks, log, ledger, ever, time, last, cursor, got, used, posts>>

Close(h) ==
    /\ handler[h] = "open"
    /\ handler' = [handler EXCEPT ![h] = "closed"]
    /\ UNCHANGED <<schema, marks, log, ledger, ever, time, last, cursor, got, used, posts>>

-----------------------------------------------------------------------------
(* Work on an open database; a handler may work while another migrates.    *)
Open == \E h \in Handlers : handler[h] = "open"

(* store_packet; the trigger counts the row in the same transaction.       *)
StorePacket(p) ==
    /\ Open
    /\ p \notin ever
    /\ log' = log \cup {p}
    /\ ever' = ever \cup {p}
    /\ ledger' = [received |-> ledger.received + 1,
                  transmitted |-> ledger.transmitted + IF p \in Sent THEN 1 ELSE 0]
    /\ UNCHANGED <<schema, marks, time, last, cursor, got, used, posts, handler>>

(* cleanup_old_data and purge_table: the counts stay.                      *)
Prune ==
    /\ Open
    /\ log # {}
    /\ \E old \in SUBSET log : log' = log \ old
    /\ UNCHANGED <<schema, marks, ledger, ever, time, last, cursor, got, used, posts, handler>>

(* Fault: the time of a post follows the posts that are left.              *)
NextTimeOfKept(now) ==
    Max({Whole(now), Latest({time[p] : p \in Kept}) + PerSecond})

(* The wire time insert_room_message gives a post.                         *)
NextTime(now) ==
    Max({Whole(now), Latest({time[p] : p \in Kept}) + PerSecond,
         last + PerSecond})

(* The clock of the host may go back.                                      *)
AddPost ==
    /\ Open
    /\ posts < MaxPosts
    /\ \E now \in PerSecond..LastTick :
          LET p == posts + 1
              t == NextTime(now)
          IN /\ time' = [q \in Kept \cup {p} |-> IF q = p THEN t ELSE time[q]]
             /\ last' = t
             /\ used' = used \cup {t}
             /\ posts' = p
    /\ UNCHANGED <<schema, marks, log, ledger, ever, cursor, got, handler>>

(* The reader acknowledges the oldest post he has not got.                 *)
Acknowledge ==
    /\ Open
    /\ \E p \in Kept :
          /\ time[p] > cursor
          /\ \A q \in Kept : time[q] > cursor => time[p] <= time[q]
          /\ cursor' = time[p]
          /\ got' = got \cup {p}
    /\ UNCHANGED <<schema, marks, log, ledger, ever, time, last, used, posts, handler>>

(* clear_room_messages, delete_room_message, cleanup_old_messages, purge.  *)
DropPosts ==
    /\ Open
    /\ Kept # {}
    /\ \E gone \in (SUBSET Kept) \ {{}} : time' = [p \in Kept \ gone |-> time[p]]
    /\ UNCHANGED <<schema, marks, log, ledger, ever, last, cursor, got, used, posts, handler>>

Next ==
    \/ \E h \in Handlers : CreateTables(h) \/ Migrate(h) \/ MigrateFails(h) \/ Close(h)
    \/ \E p \in Packets : StorePacket(p)
    \/ Prune
    \/ AddPost \/ Acknowledge \/ DropPosts

Spec == Init /\ [][Next]_vars

-----------------------------------------------------------------------------
(* What the theorems about upgrades assume.                                *)
UpgradeAssumption ==
    /\ IsFiniteSet(Packets)
    /\ PerSecond \in Nat \ {0}
    /\ {LastTick, MaxPosts} \subseteq Nat

(* The lifetime counts are those of every packet that was in the log when  *)
(* they were seeded or stored since, however often the database is opened  *)
(* and pruned (sqlite_handler.py:481, 919-921).                            *)
LedgerRight == "ledger" \in marks => ledger = Counts(ever)

(* No upgrade, purge or step of the clock makes a reader miss a post:      *)
(* what he has not got is later than his cursor (3380-3382), and so is any *)
(* wire time that is still to be given (273).                              *)
PostsAhead ==
    /\ \A p \in Kept \ got : time[p] > cursor
    /\ "rooms" \in marks => /\ \A p, q \in Kept : p < q => time[p] < time[q]
                            /\ \A now \in PerSecond..LastTick, t \in used \cup {cursor} :
                                  NextTime(now) > t

=============================================================================
