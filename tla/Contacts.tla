------------------------------ MODULE Contacts ------------------------------
(***************************************************************************)
(* The contacts of a companion: the store in RAM, its copy in SQLite and   *)
(* the list of the one app that synchronises with it.  The mixins of       *)
(* companion/ (advert_persistence, path_persistence, contact_commands,     *)
(* contact_import, contact_notifications, frame_server_lifecycle) and      *)
(* openhop_core/companion/contact_store.py.                                *)
(*                                                                         *)
(* A change is one step: it holds _contact_persistence_lock and does not   *)
(* await between the save and the publication.  An import and the final    *)
(* save do await, and hold the lock over that (`busy').  A contact is its  *)
(* revision (lastmod) and whether it is real; the others are anonymous     *)
(* recipients, which are not kept.  Which contacts are favourites, and what*)
(* the filters for adverts say, is left open.                              *)
(***************************************************************************)
EXTENDS Integers, FiniteSets, FiniteSetsExt

CONSTANTS
    Keys,          \* public keys
    Capacity,      \* max_contacts
    AnonCapacity,  \* MAX_ANON_CONTACTS
    Clocks,        \* readings of the clock, which may go back
    MaxRev,        \* bound on the revisions
    MaxFaults      \* bound on refused saves and restarts

VARIABLES
    ram,        \* [Keys -> contact], ContactStore._contacts
    sql,        \* [Keys -> contact], companion_contacts
    mark,       \* _contact_sync_watermark
    busy,       \* who holds the lock over an await
    dump,       \* the contacts a GET_CONTACTS has still to send, and its END
    notes,      \* keys whose change or removal waits to be announced
    linked,     \* the app is connected
    listed,     \* the keys the app lists (history)
    copy,       \* [Keys -> the revision the app has] (history)
    since,      \* the highest END the app has seen (history)
    fresh,      \* the app has listed everything on this connection (history)
    lost,       \* the latest revision an earlier process knew of (history)
    again,      \* keys whose revision was drawn no later than that (history)
    faults      \* bound

vars == <<ram, sql, mark, busy, dump, notes, linked, listed, copy, since, fresh, lost, again,
          faults>>

Gone == [kind |-> "none", rev |-> 0]
NoDump == [rest |-> {}, end |-> 0, all |-> FALSE, on |-> FALSE]

Here(S) == {k \in Keys : S[k] # Gone}
Real(S) == {k \in Keys : S[k].kind = "real"}
Anon(S) == {k \in Keys : S[k].kind = "anonymous"}
OnlyReal(S) == [k \in Keys |-> IF k \in Real(S) THEN S[k] ELSE Gone]
TopRev(K) == Max({ram[k].rev : k \in K} \cup {0})

Init ==
    /\ ram = [k \in Keys |-> Gone]
    /\ sql = [k \in Keys |-> Gone]
    /\ mark = 0
    /\ busy = "free"
    /\ dump = NoDump
    /\ notes = {}
    /\ linked = FALSE
    /\ listed = {}
    /\ copy = [k \in Keys |-> 0]
    /\ since = 0
    /\ fresh = FALSE
    /\ lost = 0
    /\ again = {}
    /\ faults = 0

-----------------------------------------------------------------------------
(* Revisions.                                                              *)

(* What _contact_pools has seen is not given again by this process, even if*)
(* it is deleted.                                                          *)
Seen == Max({mark, TopRev(Here(ram))})

(* Fault: the revision is the clock's.                                     *)
NextRevByClock(now) == now

(* _next_contact_lastmod.                                                  *)
NextRev(now) == Max({now, TopRev(Real(ram)) + 1, Seen + 1})

(* Which contacts of `new' have a revision that an earlier process may have*)
(* given.                                                                  *)
DrawnAgain(new) ==
    {k \in Keys : IF new[k] = ram[k] THEN k \in again ELSE new[k].rev <= lost}

(* A revision is drawn, then the change is saved and published or neither. *)
Change(rev, new, changed) ==
    /\ rev <= MaxRev
    /\ mark' = Max({Seen, rev})
    /\ \/ /\ ram' = new
          /\ sql' = OnlyReal(new)
          /\ notes' = IF linked THEN notes \cup changed ELSE notes
          /\ again' = DrawnAgain(new)
          /\ UNCHANGED faults
       \/ /\ OnlyReal(new) # OnlyReal(ram)
          /\ faults < MaxFaults
          /\ faults' = faults + 1
          /\ UNCHANGED <<ram, sql, notes, again>>

(* S with contact c under k; what had to make room for it is gone.         *)
Placed(S, k, c) ==
    LET others == [S EXCEPT ![k] = Gone]
        pool == IF c.kind = "real" THEN Real(others) ELSE Anon(others)
        full == Cardinality(pool) >= IF c.kind = "real" THEN Capacity ELSE AnonCapacity
    IN IF full THEN {[others EXCEPT ![k] = c, ![j] = Gone] : j \in pool}
       ELSE {[others EXCEPT ![k] = c]}

-----------------------------------------------------------------------------
(* What the mesh brings.                                                   *)

(* _handle_advert_event, of an advert that is newer than the last.  A      *)
(* recipient that was not kept goes before the filters.                    *)
Advert(k) ==
    /\ busy = "free"
    /\ \E kind \in {"real", "anonymous"}, now \in Clocks :
          LET base == IF k \in Anon(ram) THEN [ram EXCEPT ![k] = Gone] ELSE ram
              c == [kind |-> kind, rev |-> NextRev(now)]
          IN \/ \E new \in Placed(base, k, c) :
                   Change(c.rev, new, {j \in Keys : new[j] # ram[j]})
             \/ /\ ram' = base     \* the filters or a full store refuse it
                /\ mark' = Seen
                /\ UNCHANGED <<sql, notes, again, faults>>
    /\ UNCHANGED <<busy, dump, linked, listed, copy, since, fresh, lost>>

(* _handle_contact_path_update, and the sender of a message (_persist_     *)
(* companion_message), and reset_contact_path: known contacts get a new revision. *)
Touch(k) ==
    /\ busy = "free"
    /\ k \in Here(ram)
    /\ \E now \in Clocks :
          Change(NextRev(now), [ram EXCEPT ![k].rev = NextRev(now)], {})
    /\ UNCHANGED <<busy, dump, linked, listed, copy, since, fresh, lost>>

-----------------------------------------------------------------------------
(* What the app and the web interface ask for.                             *)

(* _cmd_add_update_contact: the app may give the revision itself.  What was*)
(* overwritten is announced before the answer.                             *)
AppUpdate(k) ==
    /\ linked /\ ~dump.on /\ busy = "free"
    /\ \E kind \in {"real", "anonymous"}, now \in Clocks :
       \E rev \in {NextRev(now)} \cup Clocks :
       \E new \in Placed(ram, k, [kind |-> kind, rev |-> rev]) :
          /\ Change(rev, new, {})
          /\ listed' = IF ram' = new THEN Real(new) \cap (listed \cup {k}) ELSE listed
          /\ copy' = IF ram' = new THEN [copy EXCEPT ![k] = rev] ELSE copy
    /\ UNCHANGED <<busy, dump, linked, since, fresh, lost>>

(* _cmd_remove_contact.                                                    *)
AppRemove(k) ==
    /\ linked /\ ~dump.on /\ busy = "free"
    /\ k \in Here(ram)
    /\ Change(0, [ram EXCEPT ![k] = Gone], {})
    /\ listed' = IF ram'[k] = Gone THEN listed \ {k} ELSE listed
    /\ UNCHANGED <<busy, dump, linked, copy, since, fresh, lost>>

(* import_repeater_contacts reads the adverts in a thread, ...             *)
ImportReads ==
    /\ busy = "free"
    /\ busy' = "import"
    /\ UNCHANGED <<ram, sql, mark, dump, notes, linked, listed, copy, since, fresh,
                   lost, again, faults>>

(* ... then merges, promoting recipients; the trim helper chooses.         *)
ImportMerges ==
    /\ busy = "import"
    /\ busy' = "free"
    /\ \E added \in SUBSET (Keys \ Real(ram)), kept \in SUBSET Real(ram), now \in Clocks :
          LET c == [kind |-> "real", rev |-> NextRev(now)]
              new == [k \in Keys |-> IF k \in added THEN c
                                     ELSE IF k \in kept \cup Anon(ram) THEN ram[k] ELSE Gone]
          IN /\ Cardinality(added \cup kept) <= Capacity
             /\ Change(c.rev, new, added \cup (Real(ram) \ kept))
    /\ UNCHANGED <<dump, linked, listed, copy, since, fresh, lost>>

-----------------------------------------------------------------------------
(* The connection.                                                         *)

Connect ==
    /\ ~linked
    /\ linked' = TRUE
    /\ UNCHANGED <<ram, sql, mark, busy, dump, notes, listed, copy, since, fresh,
                   lost, again, faults>>

Disconnect ==
    /\ linked
    /\ linked' = FALSE
    /\ dump' = NoDump
    /\ notes' = {}
    /\ fresh' = FALSE
    /\ UNCHANGED <<ram, sql, mark, busy, listed, copy, since, lost, again, faults>>

(* Fault: the contacts are looked at when they are sent, and END names the *)
(* latest there is then.                                                   *)
EndLive == Max({dump.end, TopRev(Real(ram))})

(* The most recent of the copies that were taken before the first frame.   *)
End == dump.end

(* _cmd_get_contacts: all, or what is newer than the app's last END.       *)
GetContacts ==
    /\ linked /\ ~dump.on
    /\ \E all \in BOOLEAN :
          LET chosen == {k \in Real(ram) : all \/ ram[k].rev > since}
          IN /\ dump' = [rest |-> {[key |-> k, rev |-> ram[k].rev] : k \in chosen},
                         end |-> TopRev(chosen), all |-> all, on |-> TRUE]
             /\ listed' = IF all THEN {} ELSE listed
    /\ UNCHANGED <<ram, sql, mark, busy, notes, linked, copy, since, fresh, lost,
                   again, faults>>

SendContact ==
    /\ dump.on
    /\ \E c \in dump.rest :
          /\ dump' = [dump EXCEPT !.rest = @ \ {c}]
          /\ listed' = listed \cup {c.key}
          /\ copy' = [copy EXCEPT ![c.key] = c.rev]
    /\ UNCHANGED <<ram, sql, mark, busy, notes, linked, since, fresh, lost, again,
                   faults>>

EndDump ==
    /\ dump.on
    /\ dump.rest = {}
    /\ since' = Max({since, End})
    /\ fresh' = (fresh \/ dump.all)
    /\ dump' = NoDump
    /\ UNCHANGED <<ram, sql, mark, busy, notes, linked, listed, copy, lost, again,
                   faults>>

(* Fault: a change is announced while a dump is being sent.                *)
NotifyAtOnce ==
    \E k \in notes :
       /\ notes' = notes \ {k}
       /\ listed' = IF k \in Real(ram) THEN listed \cup {k} ELSE listed \ {k}
       /\ UNCHANGED <<ram, sql, mark, busy, dump, linked, copy, since, fresh, lost,
                      again, faults>>

(* _notify_contact_changes waits for the dump and says what is so then.    *)
Notify ==
    /\ ~dump.on
    /\ \E k \in notes :
          /\ notes' = notes \ {k}
          /\ listed' = IF k \in Real(ram) THEN listed \cup {k} ELSE listed \ {k}
    /\ UNCHANGED <<ram, sql, mark, busy, dump, linked, copy, since, fresh, lost,
                   again, faults>>

-----------------------------------------------------------------------------
(* stop(): the clients are gone, the final snapshot is saved in a thread.  *)
FinalSave ==
    /\ ~linked
    /\ busy = "free"
    /\ sql' = OnlyReal(ram)
    /\ busy' = "stopped"
    /\ UNCHANGED <<ram, mark, dump, notes, linked, listed, copy, since, fresh, lost,
                   again, faults>>

(* Another process, after a stop or without one; only what was saved is    *)
(* loaded.  The watermark is not saved: what it says of contacts that are  *)
(* no longer there is forgotten.                                           *)
Restart ==
    /\ faults < MaxFaults
    /\ faults' = faults + 1
    /\ ram' = sql
    /\ mark' = 0
    /\ busy' = "free"
    /\ dump' = NoDump
    /\ notes' = {}
    /\ linked' = FALSE
    /\ fresh' = FALSE
    /\ lost' = Max({lost, Seen})
    /\ UNCHANGED <<sql, listed, copy, since, again>>

Next ==
    \/ \E k \in Keys : Advert(k) \/ Touch(k) \/ AppUpdate(k) \/ AppRemove(k)
    \/ ImportReads \/ ImportMerges
    \/ Connect \/ Disconnect \/ GetContacts \/ SendContact \/ EndDump \/ Notify
    \/ FinalSave \/ Restart

Spec == Init /\ [][Next]_vars

-----------------------------------------------------------------------------
(* What the theorem about contacts assumes.                                *)
ContactsAssumption == IsFiniteSet(Keys) /\ Clocks \subseteq Nat

(* The three agree.  What SQLite has is what RAM has, whatever save was    *)
(* refused.  A contact that is not as the app has it is newer than its last*)
(* END, so the next synchronisation brings it, in spite of changes during  *)
(* the dump and a clock that goes back (contact_import.py:77,              *)
(* frame_server_lifecycle.py:227); only one whose revision was drawn after *)
(* a restart, and no later than the process before had given, may be missed*)
(* (contact_commands.py:66-68, 81).  An app that has listed everything and *)
(* has no announcement to come lists what is there (224).                  *)
ContactsAgree ==
    /\ sql = OnlyReal(ram)
    /\ \A k \in Real(ram) \ again : copy[k] # ram[k].rev => ram[k].rev > since
    /\ fresh /\ ~dump.on /\ notes = {} => listed = Real(ram)

=============================================================================
