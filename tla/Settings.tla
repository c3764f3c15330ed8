------------------------------ MODULE Settings ------------------------------
(***************************************************************************)
(* How a setting reaches the part that uses it.  Whoever changes settings  *)
(* (web requests, commands over the mesh, the remote manager) saves the    *)
(* file first, under one lock, then the configuration in memory, then has  *)
(* the parts that keep a copy read it again (config_manager.py), and       *)
(* answers that it applies now or after a restart.  The file is also       *)
(* edited by hand.                                                         *)
(*                                                                         *)
(* A setting stands for those of its section that reach their consumer the *)
(* same way.  A value is the number of the edit that asked for it, so that *)
(* every edit asks for something new.                                      *)
(***************************************************************************)
EXTENDS Naturals, FiniteSets

CONSTANTS
    Savers,      \* requests that set detection thresholds
    Excused,     \* who may answer "applied" of what is not: see Kept
    MaxEdits,    \* bound on edits
    MaxFaults    \* bound on failing saves and reloads

VARIABLES
    asked,     \* [Setting -> the last edit that was saved] (history)
    file,      \* [Setting -> edit]: config.yaml
    live,      \* [Setting -> edit]: the configuration in memory
    used,      \* [Setting -> edit]: what its consumer works with
    told,      \* [Setting -> [say, by]]: the last answer about it
    saver,     \* [Savers -> edit saved and not yet on the radio, or 0]
    gone,      \* certificate sets that were removed
    edits,     \* edits so far
    faults     \* bound

vars == <<asked, file, live, used, told, saver, gone, edits, faults>>

Section ==
    [mode |-> "repeater", password |-> "repeater", adverts |-> "repeater",
     hops |-> "repeater", discovery |-> "repeater", identity |-> "repeater",
     delays |-> "delays", route |-> "mesh", loop |-> "mesh", scope |-> "mesh",
     airtime |-> "duty_cycle", enforced |-> "duty_cycle", modem |-> "radio",
     cad |-> "radio", inform |-> "glass", certs |-> "glass", port |-> "kiss",
     backend |-> "radio_type", web |-> "web", brokers |-> "mqtt_brokers",
     rooms |-> "identities"]
Setting == DOMAIN Section
Of(sections) == {s \in Setting : Section[s] \in sections}
Sections(wanted) == {Section[s] : s \in wanted}

(* One of them, or all at once.                                            *)
Batches(S) == {{s} : s \in S} \cup ({S} \ {{}})

(* Looked up in the configuration at every use.                            *)
Direct == {"mode", "scope", "enforced"}

(* Fault: the mesh section is taken for nobody's.                          *)
RefreshedNotMesh(sections) ==
    (IF "repeater" \in sections THEN {"password", "adverts"} ELSE {})
    \cup (IF sections \cap {"delays", "repeater"} # {}
             THEN {"delays", "hops", "loop"} ELSE {})
    \cup (IF "mesh" \in sections THEN {"route"} ELSE {})
    \cup (IF "duty_cycle" \in sections THEN {"airtime"} ELSE {})
    \cup (IF "radio" \in sections THEN {"modem"} ELSE {})
    \cup (IF "glass" \in sections THEN {"inform", "certs"} ELSE {})

(* Who reads the configuration again when these sections are published; the*)
(* engine's copies are read together.                                      *)
Refreshed(sections) ==
    (IF "repeater" \in sections THEN {"password", "adverts"} ELSE {})
    \cup (IF sections \cap {"delays", "repeater", "mesh"} # {}
             THEN {"delays", "hops", "loop"} ELSE {})
    \cup (IF "mesh" \in sections THEN {"route"} ELSE {})
    \cup (IF "duty_cycle" \in sections THEN {"airtime"} ELSE {})
    \cup (IF "radio" \in sections THEN {"modem"} ELSE {})
    \cup (IF "glass" \in sections THEN {"inform", "certs"} ELSE {})

Init ==
    /\ asked = [s \in Setting |-> 0]
    /\ file = asked
    /\ live = asked
    /\ used = asked
    /\ told = [s \in Setting |-> [say |-> "applied", by |-> "start"]]
    /\ saver = [r \in Savers |-> 0]
    /\ gone = {}
    /\ edits = 0
    /\ faults = 0

Fault == faults < MaxFaults /\ faults' = faults + 1

-----------------------------------------------------------------------------
(* One transaction.                                                        *)

With(values, wanted) == [s \in Setting |-> IF s \in wanted THEN edits + 1 ELSE values[s]]

(* Fault: what is in memory is saved, and not what is in the file.         *)
FromMemory(wanted) == With(live, wanted)

(* What is saved is what the file had, with what is wanted.                *)
FromFile(wanted) == With(file, wanted)

Save(wanted) ==
    /\ edits < MaxEdits
    /\ edits' = edits + 1
    /\ asked' = With(asked, wanted)
    /\ file' = FromFile(wanted)
    /\ live' = With(live, wanted)

(* Fault: it is published and then saved.                                  *)
PublishedFirst(wanted) == edits < MaxEdits /\ live' = With(live, wanted)

(* The answer is an error, and nothing happened.                           *)
NotSaved(wanted) == edits < MaxEdits /\ UNCHANGED live

Fails(wanted) ==
    /\ Fault
    /\ NotSaved(wanted)
    /\ UNCHANGED <<asked, file, used, told, saver, gone, edits>>

(* Fault: what exists from the start only is not looked at.                *)
StartedAsNowFor(sections) == TRUE

(* The discovery handler and the transport exist from the start only: a    *)
(* difference needs a restart, as does another radio.                      *)
StartedAsNow(sections) ==
    /\ "repeater" \in sections => live'["discovery"] = used["discovery"]
    /\ "kiss" \in sections => live'["port"] = used["port"]
    /\ "radio_type" \notin sections

(* The consumers of the sections follow, except those that fail.           *)
Publish(sections, failed) ==
    /\ IF failed = {} THEN UNCHANGED faults ELSE Fault
    /\ used' = [s \in Setting |-> IF s \in Direct \cup (Refreshed(sections) \ failed)
                                    THEN live'[s] ELSE used[s]]

Tell(wanted, say, by) ==
    told' = [s \in Setting |-> IF s \in wanted THEN [say |-> say, by |-> by] ELSE told[s]]

(* Saves what is wanted, publishes these sections, and answers.            *)
Update(by, wanted, sections, restart) ==
    \/ /\ Save(wanted)
       /\ \E failed \in {{}} \cup Batches(Refreshed(sections)) :
             /\ Publish(sections, failed)
             /\ Tell(wanted,
                     IF sections # {} /\ failed = {} /\ StartedAsNow(sections) /\ ~restart
                        THEN "applied" ELSE "restart", by)
       /\ UNCHANGED <<saver, gone>>
    \/ Fails(wanted)

-----------------------------------------------------------------------------
(* The web interface.                                                      *)

SetMode == Update("web", {"mode"}, {"repeater"}, FALSE)
SetDutyCycle == Update("web", {"enforced"}, {"duty_cycle"}, FALSE)
UpdateDutyCycle(wanted) == Update("web", wanted, {"duty_cycle"}, FALSE)
UpdateAdvertLimits == Update("web", {"adverts"}, {"repeater"}, FALSE)
UpdateRadio(wanted) == Update("web", wanted, Sections(wanted), FALSE)
DefaultRegion == Update("web", {"scope"}, {"mesh"}, FALSE)
UnscopedFlood == Update("web", {"scope"}, {"mesh"}, FALSE)
ChangePassword == Update("web", {"password"}, {"repeater"}, FALSE)
GuestPassword == Update("web", {"password"}, {"repeater"}, FALSE)
UpdateWeb == Update("web", {"web"}, {}, TRUE)
UpdateBrokers == Update("web", {"brokers"}, {}, TRUE)
VanityKey == Update("web", {"identity"}, {}, TRUE)
Setup == Update("web", {"mode", "password", "modem", "backend"}, {"repeater"}, TRUE)

(* What can be read again is, the rest waits for a restart.                *)
Import(wanted) ==
    LET now == Sections(wanted) \cap {"repeater", "mesh", "delays"}
    IN Update("web", wanted, now, Sections(wanted) # now \/ "identity" \in wanted)

(* The radio gets its thresholds after the lock was released.              *)
SaveCad(r) ==
    /\ saver[r] = 0
    /\ \/ /\ Save({"cad"})
          /\ saver' = [saver EXCEPT ![r] = edits + 1]
          /\ used' = [s \in Setting |-> IF s \in Direct THEN live'[s] ELSE used[s]]
          /\ Tell({"cad"}, "nothing yet", "cad")
          /\ UNCHANGED <<gone, faults>>
       \/ Fails({"cad"})

ApplyCad(r) ==
    /\ saver[r] # 0
    /\ \/ /\ used' = [used EXCEPT !["cad"] = saver[r]]
          /\ Tell({"cad"}, "applied", "cad")
          /\ UNCHANGED faults
       \/ Fault /\ Tell({"cad"}, "restart", "cad") /\ UNCHANGED used
    /\ saver' = [saver EXCEPT ![r] = 0]
    /\ UNCHANGED <<asked, file, live, gone, edits>>

-----------------------------------------------------------------------------
(* The first fix of the position, commands over the mesh, and the remote   *)
(* manager.                                                                *)

(* The position is read at every use, as the mode is.                      *)
GpsFix == Update("gps", {"mode"}, {"repeater"}, FALSE)

(* The answer is the same when a consumer could not follow.                *)
CommandSet(s) ==
    LET sections == IF s = "modem" THEN {} ELSE {Section[s]}
    IN \/ /\ Save({s})
          /\ \E failed \in {{}} \cup Batches(Refreshed(sections)) : Publish(sections, failed)
          /\ Tell({s}, IF s = "modem" THEN "restart" ELSE "applied", "cli")
          /\ UNCHANGED <<saver, gone>>
       \/ Fails({s})

(* Replaced sections lose what is not mentioned; the node's own key has to *)
(* be mentioned and may not change.                                        *)
ManagerUpdate(wanted, replace) ==
    LET sections == Sections(wanted)
        now == sections \cap {"repeater", "mesh", "delays", "duty_cycle", "glass"}
    IN Update("manager", IF replace THEN Of(sections) \ {"identity"} ELSE wanted, now,
              sections # now \/ (replace /\ "repeater" \in sections))

(* Fault: the new certificates are removed if a consumer fails, too.       *)
RemoveUnlessInUse(failed) == IF failed = {} THEN gone ELSE gone \cup {edits + 1}

(* Once the file names them the new certificates stay.                     *)
RemoveUnlessSaved(failed) == gone

(* Certificates get names of their own, and the file refers to them.       *)
RenewCertificates ==
    \/ /\ Save({"certs"})
       /\ \E failed \in {{}, {"inform", "certs"}} :
             /\ Publish({"glass"}, failed)
             /\ Tell({"certs"}, IF failed = {} THEN "applied" ELSE "restart", "manager")
             /\ gone' = RemoveUnlessSaved(failed)
       /\ UNCHANGED saver
    \/ Fails({"certs"})

-----------------------------------------------------------------------------
(* Only the file changes.                                                  *)
ForLater(s, by) ==
    /\ edits < MaxEdits
    /\ edits' = edits + 1
    /\ asked' = With(asked, {s})
    /\ file' = FromFile({s})
    /\ Tell({s}, "restart", by)
    /\ UNCHANGED <<live, used, saver, gone, faults>>

(* A room's own commands, over the mesh, are for the next start.           *)
RoomCommand == ForLater("rooms", "cli") \/ Fails({"rooms"})

(* The file is edited by hand.                                             *)
Stage(s) == ForLater(s, "hand")

(* All parts are built from the file.                                      *)
Restart ==
    /\ live' = file
    /\ used' = file
    /\ told' = [s \in Setting |-> [say |-> "applied", by |-> "start"]]
    /\ saver' = [r \in Savers |-> 0]
    /\ UNCHANGED <<asked, file, gone, edits, faults>>

Next ==
    \/ SetMode \/ SetDutyCycle \/ UpdateAdvertLimits \/ DefaultRegion \/ UnscopedFlood
    \/ ChangePassword \/ GuestPassword \/ GpsFix \/ RoomCommand \/ UpdateWeb \/ UpdateBrokers
    \/ VanityKey \/ Setup
    \/ \E wanted \in Batches({"airtime", "enforced"}) : UpdateDutyCycle(wanted)
    \/ \E wanted \in Batches({"modem", "delays", "mode", "hops", "route", "loop", "port"}) :
           UpdateRadio(wanted)
    \/ \E wanted \in Batches(Of({"repeater", "mesh", "radio", "delays", "web", "glass",
                                 "radio_type"})) : Import(wanted)
    \/ \E r \in Savers : SaveCad(r) \/ ApplyCad(r)
    \/ \E s \in {"mode", "password", "adverts", "hops", "delays", "route", "loop", "modem"} :
           CommandSet(s)
    \/ \E wanted \in Batches(Of({"repeater", "mesh", "delays", "duty_cycle", "glass",
                                 "web"}) \ {"identity"}), replace \in BOOLEAN :
           ManagerUpdate(wanted, replace)
    \/ RenewCertificates
    \/ \E s \in Setting : Stage(s)
    \/ Restart

Spec == Init /\ [][Next]_vars

-----------------------------------------------------------------------------
(* What the theorem about settings assumes.                                *)
AuthorsExcused == {"cli", "cad"} \subseteq Excused

(* The file has what was last asked for, whoever saved something else in   *)
(* between; what the answer says applies is in the file, in memory and in  *)
(* its consumer, unless its author is excused (mesh_cli.py:660-666 ignores *)
(* a failed reload, api_endpoints.py:2896-2903 applies outside the lock);  *)
(* no configuration names certificates that were removed.                  *)
Kept ==
    /\ file = asked
    /\ \A s \in Setting : told[s].say = "applied" /\ told[s].by \notin Excused
                            => live[s] = asked[s] /\ used[s] = asked[s]
    /\ \A values \in {file, live} : values["certs"] \notin gone

=============================================================================
