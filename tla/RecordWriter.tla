---------------------------- MODULE RecordWriter ----------------------------
(***************************************************************************)
(* What becomes of the adverts that were let through: the handler asks     *)
(* which neighbours are known (advert.py:589-689), the one writer thread   *)
(* stores them in order (storage_collector.py), readers on other threads   *)
(* keep the list of neighbours for a minute (sqlite_handler.py), and the   *)
(* end of the daemon drains and closes all of it.                          *)
(***************************************************************************)
EXTENDS Integers, Sequences, FiniteSets

CONSTANTS
    Senders,       \* public keys
    Jobs,          \* handlers at work
    None,
    Close,         \* the task that closes the writer's connection
    Slots,         \* records the writer may have waiting (1024)
    TTL,           \* of the list (_hot_cache_ttl_sec)
    MaxAdverts, MaxClock, MaxFaults  \* bounds

VARIABLES
    clock,
    jobs,         \* [stage, key, asked, value] of each handler
    known,        \* _known_neighbors
    rows,         \* the adverts table
    changed,      \* when a sender's row last came or went (history)
    cache,        \* _neighbors_cache: [at, value], or None
    queue,        \* of the executor: senders, and the closing of a connection
    writer,       \* what the thread does: [key, found, stage], or None
    pending,      \* _writes_pending
    life,         \* "open", "closed" to records, "complete"
    closing,      \* where the close() that has the lock is, or None
    executor,     \* "up" or "down"
    connection,   \* the writer's: "open" or "closed"
    errors,       \* _writer_close_error, _caller_close_error
    mqtt,         \* the publisher: "up" or "down"
    faults, adverts \* bounds

vars == <<clock, jobs, known, rows, changed, cache, queue, writer, pending, life,
          closing, executor, connection, errors, mqtt, faults, adverts>>

table == <<rows, changed, cache>>
thread == <<queue, writer, pending>>
ending == <<life, closing, executor, connection, errors, mqtt>>

Idle == [stage |-> "idle", key |-> None, asked |-> 0, value |-> {}]

Init ==
    /\ clock = 1
    /\ jobs = [j \in Jobs |-> Idle]
    /\ known = {} /\ rows \in SUBSET Senders
    /\ changed = [k \in Senders |-> 0]
    /\ cache = None
    /\ queue = <<>> /\ writer = None /\ pending = 0
    /\ life = "open" /\ closing = None /\ executor = "up" /\ connection = "open"
    /\ errors = {} /\ mqtt = "up"
    /\ faults = 0 /\ adverts = 0

MayFail == faults < MaxFaults /\ faults' = faults + 1

-----------------------------------------------------------------------------
(* The handler of an advert.                                               *)

(* Only a sender it does not know makes it look into the table.            *)
Arrive(j, k) ==
    /\ jobs[j] = Idle /\ adverts < MaxAdverts
    /\ adverts' = adverts + 1
    /\ jobs' = [jobs EXCEPT ![j] =
           [Idle EXCEPT !.key = k, !.stage = IF k \in known THEN "store" ELSE "ask"]]
    /\ UNCHANGED <<clock, known, table, thread, ending, faults>>

Fresh == cache # None /\ clock - cache.at < TTL

(* get_neighbors, on a thread of its own: the time is taken first.         *)
Ask(j) ==
    /\ jobs[j].stage = "ask"
    /\ jobs' = [jobs EXCEPT ![j] =
           IF Fresh THEN [@ EXCEPT !.stage = "told", !.value = cache.value]
           ELSE [@ EXCEPT !.stage = "read", !.asked = clock]]
    /\ UNCHANGED <<clock, known, table, thread, ending, faults, adverts>>

(* A read that fails answers that there are none, which is not kept.       *)
Read(j) ==
    /\ jobs[j].stage = "read"
    /\ \/ /\ jobs' = [jobs EXCEPT ![j].stage = "keep", ![j].value = rows]
          /\ UNCHANGED faults
       \/ /\ MayFail
          /\ jobs' = [jobs EXCEPT ![j].stage = "told"]
    /\ UNCHANGED <<clock, known, table, thread, ending, adverts>>

(* Fault: the list is dated when it is put away, not when it was asked.    *)
DatedLate(j) == [at |-> clock, value |-> jobs[j].value]

Dated(j) == [at |-> jobs[j].asked, value |-> jobs[j].value]

Keep(j) ==
    /\ jobs[j].stage = "keep"
    /\ cache' = Dated(j)
    /\ jobs' = [jobs EXCEPT ![j].stage = "told"]
    /\ UNCHANGED <<clock, known, rows, changed, thread, ending, faults, adverts>>

Told(j) ==
    /\ jobs[j].stage = "told"
    /\ known' = IF jobs[j].key \in jobs[j].value THEN known ELSE known \cup {jobs[j].key}
    /\ jobs' = [jobs EXCEPT ![j] = [Idle EXCEPT !.key = jobs[j].key, !.stage = "store"]]
    /\ UNCHANGED <<clock, table, thread, ending, faults, adverts>>

(* A clean-up of the helper keeps half of a set that has become large.     *)
ForgetSome ==
    /\ \E some \in SUBSET known : some # known /\ known' = some
    /\ UNCHANGED <<clock, jobs, table, thread, ending, faults, adverts>>

Admitted == life = "open" /\ pending < Slots

(* _submit_db: under one lock with the flag that close() sets.             *)
Submit(j) ==
    /\ jobs[j].stage = "store"
    /\ IF Admitted
       THEN /\ queue' = Append(queue, jobs[j].key)
            /\ pending' = pending + 1
       ELSE UNCHANGED <<queue, pending>>
    /\ jobs' = [jobs EXCEPT ![j] = Idle]
    /\ UNCHANGED <<clock, known, table, writer, ending, faults, adverts>>

-----------------------------------------------------------------------------
(* The writer thread.                                                      *)

(* store_advert looks for the sender's row, or the connection is closed.   *)
Begin ==
    /\ writer = None /\ queue # <<>>
    /\ queue' = Tail(queue)
    /\ IF Head(queue) = Close
       THEN /\ writer' = [key |-> Close, found |-> FALSE, stage |-> "close"]
            /\ UNCHANGED connection
       ELSE /\ writer' = [key |-> Head(queue), found |-> Head(queue) \in rows, stage |-> "write"]
            /\ connection' = "open"
    /\ UNCHANGED <<clock, jobs, known, table, pending, life, closing, executor, errors,
                   mqtt, faults, adverts>>

(* The kept list is dropped while the change is not yet committed.         *)
Write ==
    /\ writer # None /\ writer.stage = "write"
    /\ cache' = None
    /\ writer' = [writer EXCEPT !.stage = "commit"]
    /\ UNCHANGED <<clock, jobs, known, rows, changed, queue, pending, ending, faults, adverts>>

(* A row that was found is updated, and stays away if it went meanwhile.   *)
(* Or the change fails, which is logged only.                              *)
Commit ==
    /\ writer # None /\ writer.stage = "commit"
    /\ \/ /\ rows' = IF writer.found THEN rows ELSE rows \cup {writer.key}
          /\ changed' = IF writer.found THEN changed ELSE [changed EXCEPT ![writer.key] = clock]
          /\ UNCHANGED faults
       \/ /\ MayFail
          /\ UNCHANGED <<rows, changed>>
    /\ writer' = [writer EXCEPT !.stage = "publish"]
    /\ UNCHANGED <<clock, jobs, known, cache, queue, pending, ending, adverts>>

(* Publishing, and the callback that gives the slot back.                  *)
Publish ==
    /\ writer # None /\ writer.stage = "publish"
    /\ writer' = None
    /\ pending' = pending - 1
    /\ UNCHANGED <<clock, jobs, known, table, queue, ending, faults, adverts>>

(* close() waits for this task; what fails stays failed, for no other      *)
(* thread can close this connection.                                       *)
CloseConnection ==
    /\ writer # None /\ writer.stage = "close"
    /\ writer' = None
    /\ closing' = "shut"
    /\ \/ connection' = "closed" /\ UNCHANGED <<errors, faults>>
       \/ MayFail /\ errors' = errors \cup {"writer"} /\ UNCHANGED connection
    /\ UNCHANGED <<clock, jobs, known, table, queue, pending, life, executor, mqtt, adverts>>

-----------------------------------------------------------------------------
(* The rows go: by the console, which drops the kept list, and by the      *)
(* retention or a purge, which do not.                                     *)
Locked == writer # None /\ writer.stage = "commit"

Delete(k) ==
    /\ k \in rows /\ ~Locked
    /\ rows' = rows \ {k}
    /\ changed' = [changed EXCEPT ![k] = clock]
    /\ cache' \in {None, cache}
    /\ UNCHANGED <<clock, jobs, known, thread, ending, faults, adverts>>

-----------------------------------------------------------------------------
(* The end (close()), again after a failure.                               *)

CloseBegin ==
    /\ life # "complete" /\ closing = None
    /\ life' = "closed"
    /\ closing' = "submit"
    /\ UNCHANGED <<clock, jobs, known, table, thread, executor, connection, errors, mqtt,
                   faults, adverts>>

CloseSubmit ==
    /\ closing = "submit"
    /\ \/ /\ executor = "up"
          /\ queue' = Append(queue, Close) /\ closing' = "wait"
          /\ UNCHANGED <<errors, faults>>
       \/ /\ executor = "up" /\ MayFail
          /\ errors' = errors \cup {"writer"} /\ closing' = "shut"
          /\ UNCHANGED queue
       \/ /\ executor = "down"
          /\ closing' = "end"
          /\ UNCHANGED <<queue, errors, faults>>
    /\ UNCHANGED <<clock, jobs, known, table, writer, pending, life, executor, connection,
                   mqtt, adverts>>

(* Fault: the thread is told to end and not waited for.                    *)
NotWaited == TRUE

Drained == queue = <<>> /\ writer = None

(* The executor is shut down and waited for, or that fails and it stays.   *)
CloseShut ==
    /\ closing = "shut"
    /\ closing' = "end"
    /\ \/ /\ Drained
          /\ executor' = "down"
          /\ UNCHANGED <<errors, faults>>
       \/ /\ MayFail
          /\ errors' = errors \cup {"writer"}
          /\ UNCHANGED executor
    /\ UNCHANGED <<clock, jobs, known, table, thread, life, connection, mqtt, adverts>>

(* Fault: a retry looks only at what failed in it.                         *)
CleanThisTime(errs) == errs \ errors = {}

Clean(errs) == errs = {}

(* The caller's own connection and the publisher.                          *)
CloseEnd ==
    /\ closing = "end"
    /\ closing' = None
    /\ \/ /\ mqtt' = IF executor = "down" THEN "down" ELSE mqtt
          /\ life' = IF Clean(errors) THEN "complete" ELSE life
          /\ UNCHANGED <<errors, faults>>
       \/ /\ MayFail
          /\ errors' = errors \cup {"caller"}
          /\ mqtt' = IF executor = "down" THEN "down" ELSE mqtt
          /\ UNCHANGED life
       \/ /\ executor = "down" /\ mqtt = "up" /\ MayFail
          /\ UNCHANGED <<errors, mqtt, life>>
    /\ UNCHANGED <<clock, jobs, known, table, thread, executor, connection, adverts>>

Tick ==
    /\ clock < MaxClock
    /\ clock' = clock + 1
    /\ UNCHANGED <<jobs, known, table, thread, ending, faults, adverts>>

Next ==
    \/ \E j \in Jobs :
        \/ \E k \in Senders : Arrive(j, k)
        \/ Ask(j) \/ Read(j) \/ Keep(j) \/ Told(j) \/ Submit(j)
    \/ ForgetSome
    \/ Begin \/ Write \/ Commit \/ Publish \/ CloseConnection
    \/ \E k \in Senders : Delete(k)
    \/ CloseBegin \/ CloseSubmit \/ CloseShut \/ CloseEnd
    \/ Tick

Spec == Init /\ [][Next]_vars

-----------------------------------------------------------------------------
(* What the theorems about the records assume: the size and the lifetime   *)
(* are numbers, and what is nothing, or no record, is none of the others.  *)
RecordsApart ==
    /\ Slots \in Nat /\ TTL \in Nat
    /\ Close \notin Senders
    /\ None \notin {"submit", "wait", "shut", "end"}
    /\ None \notin [at : Nat, value : SUBSET Senders]
    /\ None \notin [key : Senders \cup {Close}, found : BOOLEAN,
                    stage : {"write", "commit", "publish", "close"}]

(* Properties.                                                             *)

(* The kept list differs from the table only by what changed since it was  *)
(* asked for, so never by more than its minute, whichever reader put it    *)
(* away and whoever changed the table meanwhile (sqlite_handler.py:2594).  *)
ListRecent ==
    Fresh => \A k \in Senders :
        (k \in cache.value) = (k \in rows) \/ changed[k] >= cache.at

(* Where in the queue there are records.                                   *)
Records == {i \in DOMAIN queue : queue[i] # Close}

(* Every record that was taken is written before its publisher goes and    *)
(* the end is complete, every slot has an owner, and an end is complete    *)
(* only with the writer's connection closed (storage_collector.py:653).    *)
RecordsKept ==
    /\ pending = Cardinality(Records) + (IF writer # None /\ writer.key # Close THEN 1 ELSE 0)
    /\ (mqtt = "down" \/ executor = "down" \/ life = "complete") => pending = 0
    /\ life = "complete" => connection = "closed" /\ mqtt = "down"
=============================================================================
