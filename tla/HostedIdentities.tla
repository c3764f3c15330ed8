-------------------------- MODULE HostedIdentities --------------------------
(***************************************************************************)
(* The rooms and companions a repeater hosts: how they are saved in the    *)
(* configuration file and how they come to life and end.                   *)
(*                                                                         *)
(* Threads of the web server edit the file under CONFIG_WRITE_LOCK         *)
(* (config_manager.py, atomic_file.py, api_endpoints.py); the event loop   *)
(* activates what was created (room_lifecycle.py, main.py) while further   *)
(* edits, failures and the shutdown go on, and the host may lose power.    *)
(*                                                                         *)
(* Of an identity's entry only the key, whose first byte routes its        *)
(* packets, and the number of its last edit are kept; of the rest of the   *)
(* file only the number of the last edit.                                  *)
(***************************************************************************)
EXTENDS Naturals, FiniteSets

CONSTANTS
    Names,       \* of identities
    Companions,  \* the companions among them; the others are rooms
    Keys,        \* identity keys with different hashes
    Writers,     \* threads that edit
    Slots,       \* identities being activated or alive at a time (bound)
    Absent,      \* no entry, no key, nobody
    MaxEdits,    \* bound on the edits of a behaviour
    MaxFaults    \* bound on failures, restarts and losses of power

VARIABLES
    file,    \* the configuration as read from the file system
    disk,    \* the one that may be there after a loss of power
    live,    \* the configuration in memory (ConfigManager.config)
    acked,   \* the edits that were reported saved, applied in turn (history)
    dirty,   \* the last replacement's directory was not flushed (history)
    holder,  \* the writer in CONFIG_WRITE_LOCK or Absent
    writer,  \* [Writers -> what the writer is doing]
    slot,    \* [Slots -> the activation or identity there]
    phase,   \* of the daemon
    edits,   \* edits so far (bound)
    faults   \* faults so far (bound)

config == <<file, disk, live, acked, dirty, holder, writer, edits>>
vars == <<config, slot, phase, faults>>

Entries == [key : Keys, edit : 0..MaxEdits]
Configs == [ids : [Names -> Entries \cup {Absent}], other : 0..MaxEdits]
Kinds   == {"create", "update", "setting", "delete", "other"}
Empty == [ids |-> [n \in Names |-> Absent], other |-> 0]
Quiet == [stage |-> "idle", kind |-> "other", name |-> Absent, key |-> Absent,
          number |-> 0, candidate |-> Empty]
Free  == [stage |-> "free", name |-> Absent, entry |-> Absent, work |-> "none",
          asSaved |-> FALSE]

Init ==
    /\ file = Empty
    /\ disk = Empty
    /\ live = Empty
    /\ acked = Empty
    /\ dirty = FALSE
    /\ holder = Absent
    /\ writer = [w \in Writers |-> Quiet]
    /\ slot = [s \in Slots |-> Free]
    /\ phase = "down"
    /\ edits = 0
    /\ faults = 0

Fault == faults < MaxFaults /\ faults' = faults + 1

-----------------------------------------------------------------------------
(* Edits of the file.                                                      *)

(* What create_identity, update_identity, a room's own CLI, delete_identity*)
(* or any other save makes of a configuration.                             *)
Edited(c, kind, name, key, number) ==
    IF kind = "other" THEN [c EXCEPT !.other = number]
    ELSE [c EXCEPT !.ids[name] =
             CASE kind \in {"create", "update"} -> [key |-> key, edit |-> number]
               [] kind = "setting" -> [key |-> @.key, edit |-> number]
               [] kind = "delete"  -> Absent]

(* No two identities of the file share a hash.                             *)
Distinct(c) ==
    \A m, n \in Names :
        c.ids[m] # Absent /\ c.ids[n] # Absent /\ m # n => c.ids[m].key # c.ids[n].key

(* Nothing keeps writers apart.                                            *)
LockFreeAlways == TRUE

(* The lock is free for another thread.                                    *)
LockFree == holder = Absent

(* In the lock a thread reads the file afresh, edits that and writes it to *)
(* a temporary file.  The web server serves until it is closed.            *)
BeginEdit(w, kind, name, key) ==
    /\ phase \in {"running", "stopping", "rooms_stopped"}
    /\ edits < MaxEdits
    /\ writer[w].stage = "idle"
    /\ LockFree
    /\ CASE kind = "create" -> file.ids[name] = Absent
         [] kind \in {"update", "delete"} -> file.ids[name] # Absent
         [] kind = "setting" -> file.ids[name] # Absent /\ name \notin Companions
         [] kind = "other" -> TRUE
    /\ LET candidate == Edited(file, kind, name, key, edits + 1)
       IN /\ Distinct(candidate)
          /\ writer' = [writer EXCEPT ![w] =
                [stage |-> "written", kind |-> kind, name |-> name, key |-> key,
                 number |-> edits + 1, candidate |-> candidate]]
    /\ holder' = w
    /\ edits' = edits + 1
    /\ UNCHANGED <<file, disk, live, acked, dirty, slot, phase, faults>>

(* os.replace; whatever fails before it leaves the file and memory alone.  *)
Replace(w) ==
    /\ writer[w].stage = "written"
    /\ \/ /\ file' = writer[w].candidate
          /\ writer' = [writer EXCEPT ![w].stage = "replaced"]
          /\ UNCHANGED <<holder, faults>>
       \/ /\ Fault
          /\ writer' = [writer EXCEPT ![w] = Quiet]
          /\ holder' = Absent
          /\ UNCHANGED file
    /\ UNCHANGED <<disk, live, acked, dirty, edits, slot, phase>>

(* The replaced file is taken for saved at once.                           *)
FlushDirectorySkipped(w) ==
    /\ writer[w].stage = "replaced"
    /\ writer' = [writer EXCEPT ![w].stage = "flushed"]
    /\ UNCHANGED <<file, disk, live, acked, dirty, holder, edits, slot, phase, faults>>

(* The directory is flushed; a failure is logged and no more.              *)
FlushDirectory(w) ==
    /\ writer[w].stage = "replaced"
    /\ writer' = [writer EXCEPT ![w].stage = "flushed"]
    /\ \/ disk' = file /\ dirty' = FALSE /\ UNCHANGED faults
       \/ Fault /\ dirty' = TRUE /\ UNCHANGED disk
    /\ UNCHANGED <<file, live, acked, holder, edits, slot, phase>>

(* The edited section goes to memory (a room's CLI leaves that to the next *)
(* start), the lock is released and the save reported; for a new identity  *)
(* the event loop is asked to activate it.                                 *)
Publish(w) ==
    LET e == writer[w]
        unused == {s \in Slots : slot[s] = Free}
    IN /\ e.stage = "flushed"
       /\ live' = CASE e.kind = "other"   -> [live EXCEPT !.other = e.candidate.other]
                    [] e.kind = "setting" -> live
                    [] OTHER -> [live EXCEPT !.ids = e.candidate.ids]
       /\ acked' = Edited(acked, e.kind, e.name, e.key, e.number)
       /\ holder' = Absent
       /\ writer' = [writer EXCEPT ![w] = Quiet]
       /\ IF e.kind = "create" /\ unused # {}
          THEN \E s \in unused : slot' = [slot EXCEPT ![s] =
                  [Free EXCEPT !.stage = "asked", !.name = e.name,
                               !.entry = e.candidate.ids[e.name]]]
          ELSE UNCHANGED slot
       /\ UNCHANGED <<file, disk, dirty, edits, phase, faults>>

-----------------------------------------------------------------------------
(* Activation.                                                             *)

Room(s) == slot[s].name \notin Companions
Active == {s \in Slots : slot[s].stage = "published"}
Closing == phase \notin {"booting", "running"}  \* _shutdown_started
Conflict(s) ==
    \E t \in Active \ {s} : \/ slot[t].name = slot[s].name
                            \/ slot[t].entry.key = slot[s].entry.key

(* _check_saved_room_spec, in the lock: the room is saved as it is to be   *)
(* activated.                                                              *)
StillSaved(s) == Room(s) => LockFree /\ file.ids[slot[s].name] = slot[s].entry

(* add_room_from_config starts a task of its own, unless the daemon stops. *)
Admit(s) ==
    /\ slot[s].stage = "asked"
    /\ slot' = [slot EXCEPT ![s] = IF Room(s) /\ Closing THEN Free
                                   ELSE [@ EXCEPT !.stage = "waiting"]]
    /\ UNCHANGED <<config, phase, faults>>

(* In the activation lock, which keeps activations apart: everything is    *)
(* built, out of sight of the packets, and started.                        *)
Enter(s) ==
    /\ slot[s].stage = "waiting"
    /\ \A t \in Slots : slot[t].stage \notin {"starting", "undoing"}
    /\ Room(s) => LockFree
    /\ slot' = [slot EXCEPT ![s] =
          IF ~Closing /\ ~Conflict(s) /\ (Room(s) => file.ids[@.name] = @.entry)
          THEN [@ EXCEPT !.stage = "starting"] ELSE Free]
    /\ UNCHANGED <<config, phase, faults>>

(* The room's sync task, or the companion's bridge and server, start or    *)
(* fail to.                                                                *)
StartWork(s) ==
    /\ slot[s].stage = "starting"
    /\ slot[s].work = "none"
    /\ \/ slot' = [slot EXCEPT ![s].work = "running"] /\ UNCHANGED faults
       \/ Fault /\ slot' = [slot EXCEPT ![s].work = "failed"]
    /\ UNCHANGED <<config, phase>>

(* A room's sync task ends by itself.                                      *)
WorkFails(s) ==
    /\ Fault
    /\ slot[s].work = "running"
    /\ Room(s)
    /\ slot' = [slot EXCEPT ![s].work = "failed"]
    /\ UNCHANGED <<config, phase>>

(* Ready, and nothing has changed meanwhile: all helpers get it at once.   *)
Complete(s) ==
    /\ slot[s].stage = "starting"
    /\ slot[s].work = "running"
    /\ ~Closing
    /\ ~Conflict(s)
    /\ StillSaved(s)
    /\ slot' = [slot EXCEPT ![s].stage = "published",
                            ![s].asSaved = file.ids[slot[s].name] = slot[s].entry]
    /\ UNCHANGED <<config, phase, faults>>

(* Otherwise, and when the web server gives up on a companion after 15     *)
(* seconds, it is taken down again.                                        *)
GiveUp(s) ==
    /\ \/ /\ slot[s].stage = "starting"
          /\ \/ slot[s].work = "failed"
             \/ slot[s].work = "running" /\ (Closing \/ Conflict(s))
             \/ /\ slot[s].work = "running" /\ Room(s) /\ LockFree
                /\ file.ids[slot[s].name] # slot[s].entry
             \/ ~Room(s)
          /\ slot' = [slot EXCEPT ![s].stage = "undoing"]
       \/ /\ slot[s].stage \in {"asked", "waiting"}
          /\ ~Room(s)
          /\ slot' = [slot EXCEPT ![s] = Free]
    /\ UNCHANGED <<config, phase, faults>>

(* A start that was not awaited to its end goes on.                        *)
UndoneHalf(s) ==
    /\ slot[s].stage = "undoing"
    /\ slot' = [slot EXCEPT ![s] = [Free EXCEPT !.work = slot[s].work]]
    /\ UNCHANGED <<config, phase, faults>>

Undone(s) ==
    /\ slot[s].stage = "undoing"
    /\ slot' = [slot EXCEPT ![s] = Free]
    /\ UNCHANGED <<config, phase, faults>>

-----------------------------------------------------------------------------
(* The daemon.                                                             *)

Start ==
    /\ phase = "down"
    /\ phase' = "booting"
    /\ live' = file
    /\ UNCHANGED <<file, disk, acked, dirty, holder, writer, edits, slot, faults>>

Unloaded == {n \in Names : live.ids[n] # Absent /\ \A s \in Active : slot[s].name # n}

(* Each configured identity; a room that does not start ends the daemon, a *)
(* companion is passed over.                                               *)
Load(s, n) ==
    /\ phase = "booting"
    /\ slot[s] = Free
    /\ n \in Unloaded
    /\ \/ /\ slot' = [slot EXCEPT ![s] = [stage |-> "published", name |-> n,
                         entry |-> live.ids[n], work |-> "running", asSaved |-> TRUE]]
          /\ UNCHANGED <<phase, faults>>
       \/ Fault /\ n \notin Companions /\ phase' = "stopping" /\ UNCHANGED slot
    /\ UNCHANGED config

Loaded ==
    /\ phase = "booting"
    /\ phase' = "running"
    /\ \/ Unloaded = {} /\ UNCHANGED faults
       \/ Unloaded \subseteq Companions /\ Fault
    /\ UNCHANGED <<config, slot>>

(* SIGTERM, or the supervisor noticed that a room's sync task has ended.   *)
Shutdown ==
    /\ phase = "running"
    /\ phase' = "stopping"
    /\ UNCHANGED <<config, slot, faults>>

Notice(s) ==
    /\ s \in Active
    /\ slot[s].work = "failed"
    /\ Shutdown

(* Rooms first, one after the other ...                                    *)
StopRoom(s) ==
    /\ phase = "stopping"
    /\ s \in Active
    /\ Room(s)
    /\ slot' = [slot EXCEPT ![s].work = "none"]
    /\ UNCHANGED <<config, phase, faults>>

RoomsStopped ==
    /\ phase = "stopping"
    /\ \A s \in Active : Room(s) => slot[s].work = "none"
    /\ phase' = "rooms_stopped"
    /\ UNCHANGED <<config, slot, faults>>

(* ... then the web server with its requests ...                           *)
CloseHttp ==
    /\ phase = "rooms_stopped"
    /\ \A w \in Writers : writer[w].stage = "idle"
    /\ phase' = "http_closed"
    /\ UNCHANGED <<config, slot, faults>>

(* Activations are left to themselves.                                     *)
JoinNobody ==
    /\ phase = "http_closed"
    /\ phase' = "joined"
    /\ UNCHANGED <<config, slot, faults>>

(* ... the activations under way ...                                       *)
JoinActivations ==
    /\ phase = "http_closed"
    /\ \A s \in Slots : slot[s].stage \notin {"waiting", "starting", "undoing"}
    /\ phase' = "joined"
    /\ UNCHANGED <<config, slot, faults>>

(* ... and the companions.                                                 *)
StopCompanion(s) ==
    /\ phase = "joined"
    /\ s \in Active
    /\ ~Room(s)
    /\ slot' = [slot EXCEPT ![s].work = "none"]
    /\ UNCHANGED <<config, phase, faults>>

Stopped ==
    /\ phase = "joined"
    /\ \A s \in Active : slot[s].work = "none"
    /\ phase' = "stopped"
    /\ UNCHANGED <<config, slot, faults>>

Exit ==
    /\ phase = "stopped"
    /\ phase' = "down"
    /\ slot' = [s \in Slots |-> Free]
    /\ UNCHANGED <<config, faults>>

(* The host loses power.  An edit in progress may or may not be there      *)
(* afterwards, as may those since a directory could not be flushed.        *)
PowerLoss(f) ==
    /\ phase # "down"
    /\ Fault
    /\ file' = f
    /\ disk' = f
    /\ acked' = IF dirty \/ \E w \in Writers : writer[w].stage \in {"replaced", "flushed"}
                THEN f ELSE acked
    /\ dirty' = FALSE
    /\ holder' = Absent
    /\ writer' = [w \in Writers |-> Quiet]
    /\ slot' = [s \in Slots |-> Free]
    /\ phase' = "down"
    /\ UNCHANGED <<live, edits>>

-----------------------------------------------------------------------------
Editing(w) ==
    \/ \E n \in Names :
          \/ \E k \in Keys, kind \in {"create", "update"} : BeginEdit(w, kind, n, k)
          \/ \E kind \in {"setting", "delete"} : BeginEdit(w, kind, n, Absent)
    \/ BeginEdit(w, "other", Absent, Absent)
    \/ Replace(w)
    \/ FlushDirectory(w)
    \/ Publish(w)

Activating(s) ==
    \/ Admit(s)
    \/ Enter(s)
    \/ StartWork(s)
    \/ WorkFails(s)
    \/ Complete(s)
    \/ GiveUp(s)
    \/ Undone(s)
    \/ \E n \in Names : Load(s, n)
    \/ Notice(s)
    \/ StopRoom(s)
    \/ StopCompanion(s)

Next ==
    \/ \E w \in Writers : Editing(w)
    \/ \E s \in Slots : Activating(s)
    \/ Start
    \/ Loaded
    \/ Shutdown
    \/ RoomsStopped
    \/ CloseHttp
    \/ JoinActivations
    \/ Stopped
    \/ Exit
    \/ \E f \in {file, disk} : PowerLoss(f)

Spec == Init /\ [][Next]_vars

-----------------------------------------------------------------------------
(* What the theorems about identities assume: a name, a key, a writer and  *)
(* an entry are never nothing.                                             *)
IdentitiesApart ==
    Absent \notin Names \cup Keys \cup Writers \cup Entries /\ MaxEdits \in Nat

Writing == {w \in Writers : writer[w].stage \in {"replaced", "flushed"}}

(* "Preserve Manager/manual settings staged since startup"                 *)
(* (config_manager.py:379) and "must also be used in memory"               *)
(* (atomic_file.py:19-20): no reported edit is lost to another thread, to a*)
(* failed save or to a loss of power, unless the directory could not be    *)
(* flushed; and memory is never ahead of the file.                         *)
EditsSurvive ==
    /\ Writing = {} => file = acked
    /\ \A w \in Writing : LET e == writer[w] IN
          file = Edited(acked, e.kind, e.name, e.key, e.number)
    /\ ~dirty /\ Writing = {} => disk = file
    /\ phase # "down" =>
          /\ live.other = acked.other
          /\ \A n \in Names : acked.ids[n] # live.ids[n] =>
                acked.ids[n] # Absent /\ live.ids[n] # Absent
                    /\ live.ids[n].edit < acked.ids[n].edit

(* Whatever fails or is edited while an identity starts, nothing that was  *)
(* started is left without an owner, no two active identities share a name *)
(* or a hash, a room is active only as it was saved at that moment, and    *)
(* when the daemon has stopped nothing runs                                *)
(* (room_lifecycle.py:92-217; main.py:657-832, 1761-1814).                 *)
IdentitiesOwned ==
    /\ \A s \in Slots : slot[s].work # "none" =>
          slot[s].stage \in {"starting", "undoing", "published"}
    /\ \A s \in Active : ~Conflict(s) /\ (Room(s) => slot[s].asSaved)
    /\ phase \in {"joined", "stopped"} =>
          \A s \in Slots : slot[s].stage \notin {"starting", "undoing"}
    /\ phase = "stopped" => \A s \in Slots : slot[s].work = "none"
=============================================================================
