---------------------------- MODULE PacketPolicy ----------------------------
(***************************************************************************)
(* The policy that received packets are subject to: a document with rules  *)
(* and groups of channels, which the console edits while it is in force    *)
(* (policy_service.py, policy_engine.py), and the consumers that ask it    *)
(* about a packet, one after another, with awaits in between               *)
(* (policy_runtime.py).                                                    *)
(*                                                                         *)
(* The rules of a document drop the channels of some groups, and may admit *)
(* only packets heard below a level.  A measurement is in whole units for  *)
(* the later consumers, so a packet just below the level is not below it.  *)
(***************************************************************************)
EXTENDS Naturals

CONSTANTS
    Packets,       \* received packets
    Channels,      \* what a group has entries for
    Groups,        \* ids of groups
    Objects,       \* what an engine object may be called (id())
    None,          \* no group, no packet, no receipt
    Malformed,     \* a file that does not compile
    Signals,       \* "below" the level, at its "edge" or "above" it
    MaxVersions,   \* bound on installed documents
    MaxFaults      \* bound on failing writes

VARIABLES
    file,        \* policy.yaml
    edited,      \* the file was changed by hand since it was saved or read
    running,     \* the document of the engine
    engine,      \* the engine object
    version,     \* its number
    installed,   \* the last document that was accepted (history)
    chain,       \* [Packets -> [channel, signal, at, receipt] or None]
    decisions,   \* what the consumers were told (history)
    faults       \* bound

vars == <<file, edited, running, engine, version, installed, chain, decisions, faults>>

Default == [on |-> FALSE, far |-> FALSE, drops |-> {}, groups |-> [g \in Groups |-> None]]

(* Fault: rules may name groups that are not there.                        *)
CompilesAnyhow(d) == TRUE

(* A rule names groups that exist, or nothing of the document is accepted. *)
Compiles(d) == \A g \in d.drops : d.groups[g] # None

Init ==
    /\ file \in {Default, [Default EXCEPT !.on = TRUE]}
    /\ edited = FALSE
    /\ running = file
    /\ engine = CHOOSE o \in Objects : TRUE
    /\ version = 1
    /\ installed = file
    /\ chain = [p \in Packets |-> None]
    /\ decisions = {}
    /\ faults = 0

-----------------------------------------------------------------------------
(* Documents.                                                              *)

(* Fault: a receipt has the engine's number and lets the engine go.        *)
HeldByService == {engine}

(* A receipt keeps its engine, whose number is not given to another.       *)
Held == {engine} \cup {chain[p].receipt.engine :
                          p \in {q \in Packets : chain[q] # None /\ chain[q].receipt # None}}

Activate(d) ==
    /\ running' = d
    /\ engine' \in Objects \ Held
    /\ version' = version + 1

(* Fault: it takes effect, and is then written.                            *)
ActivatedFirst(d) == Activate(d)

(* The file could not be written.                                          *)
NotPersisted(d) == UNCHANGED <<running, engine, version>>

(* A file that does not compile is left alone, and the engine runs on.     *)
Readable == file # Malformed /\ Compiles(file)

Save(d) ==
    /\ version < MaxVersions
    /\ Compiles(d)
    /\ \/ /\ file' = d
          /\ edited' = FALSE
          /\ Activate(d)
          /\ installed' = d
          /\ UNCHANGED faults
       \/ /\ faults < MaxFaults
          /\ faults' = faults + 1
          /\ NotPersisted(d)
          /\ UNCHANGED <<file, edited, installed>>
    /\ UNCHANGED <<chain, decisions>>

(* New rules, with the groups of the request or else those of the file.    *)
Update(on, far, drops, groups) ==
    /\ Readable
    /\ Save([on |-> on, far |-> far, drops |-> drops,
             groups |-> IF groups = None THEN file.groups ELSE groups])

(* The rest of the document comes from the file, edited or not.            *)
WithGroup(g, members) == [file EXCEPT !.groups[g] = members]

AddGroup(g) ==
    /\ Readable
    /\ file.groups[g] = None
    /\ Save(WithGroup(g, {}))

DeleteGroup(g) ==
    /\ Readable
    /\ file.groups[g] # None
    /\ Save(WithGroup(g, None))

AddEntry(g, c) ==
    /\ Readable
    /\ file.groups[g] # None
    /\ c \notin file.groups[g]
    /\ Save(WithGroup(g, file.groups[g] \cup {c}))

DeleteEntry(g, c) ==
    /\ Readable
    /\ file.groups[g] # None
    /\ c \in file.groups[g]
    /\ Save(WithGroup(g, file.groups[g] \ {c}))

(* By hand: another document, or the rules that run with one for each group*)
(* that there might be.                                                    *)
Edit ==
    /\ file' \in {Malformed, Default, [running EXCEPT !.drops = Groups]}
    /\ edited' = TRUE
    /\ UNCHANGED <<running, engine, version, installed, chain, decisions, faults>>

(* With a file that does not compile the daemon would not start.           *)
Restart ==
    /\ version < MaxVersions
    /\ Readable
    /\ edited' = FALSE
    /\ running' = file
    /\ engine' \in Objects
    /\ version' = version + 1
    /\ installed' = file
    /\ chain' = [p \in Packets |-> None]
    /\ decisions' = {}
    /\ UNCHANGED <<file, faults>>

-----------------------------------------------------------------------------
(* Packets.                                                                *)

Stages == <<"bridge", "handler", "router", "engine">>

(* What the rules say of a packet, as this consumer knows it.              *)
Below(p, at) == chain[p].signal = "below" \/ (chain[p].signal = "edge" /\ at <= 2)
Drops(d, p, at) ==
    \/ \E g \in d.drops : chain[p].channel \in d.groups[g]
    \/ d.far /\ ~Below(p, at)

Arrive(p, channel, signal) ==
    /\ chain[p] = None
    /\ chain' = [chain EXCEPT ![p] = [channel |-> channel, signal |-> signal, at |-> 1,
                                      receipt |-> None]]
    /\ decisions' = {d \in decisions : d.packet # p}
    /\ UNCHANGED <<file, edited, running, engine, version, installed, faults>>

(* Fault: every consumer asks anew.                                        *)
Anew(p) == FALSE

(* The receipt of this engine is good for every consumer of the packet.    *)
Reusable(p) == chain[p].receipt # None /\ chain[p].receipt.engine = engine

Receipt(p) ==
    IF Reusable(p) THEN chain[p].receipt
    ELSE [engine |-> engine, by |-> version, drop |-> Drops(running, p, chain[p].at)]

Proceed(p, receipt) ==
    chain' = [chain EXCEPT ![p] = IF @.at = 4 THEN None
                                  ELSE [@ EXCEPT !.at = chain[p].at + 1, !.receipt = receipt]]

(* An engine that is off is not asked.                                     *)
Pass(p) ==
    /\ chain[p] # None
    /\ ~running.on
    /\ Proceed(p, chain[p].receipt)
    /\ UNCHANGED <<file, edited, running, engine, version, installed, decisions, faults>>

(* The next consumer asks: on from there, or the end of the packet.        *)
Ask(p) ==
    /\ chain[p] # None
    /\ running.on
    /\ decisions' = decisions \cup {[packet |-> p, at |-> Stages[chain[p].at], now |-> version,
                                     by |-> Receipt(p).by, drop |-> Receipt(p).drop]}
    /\ IF Receipt(p).drop THEN chain' = [chain EXCEPT ![p] = None]
                          ELSE Proceed(p, Receipt(p))
    /\ UNCHANGED <<file, edited, running, engine, version, installed, faults>>

Next ==
    \/ \E on, far \in BOOLEAN, drops \in SUBSET Groups,
          groups \in [Groups -> SUBSET Channels \cup {None}] \cup {None} :
              Update(on, far, drops, groups)
    \/ \E g \in Groups :
        \/ AddGroup(g) \/ DeleteGroup(g)
        \/ \E c \in Channels : AddEntry(g, c) \/ DeleteEntry(g, c)
    \/ Edit
    \/ Restart
    \/ \E p \in Packets :
        \/ \E c \in Channels, signal \in Signals : Arrive(p, c, signal)
        \/ Pass(p) \/ Ask(p)

Spec == Init /\ [][Next]_vars

-----------------------------------------------------------------------------
(* What the theorem about the policy assumes.                              *)
ReceiptsApart ==
    /\ Objects # {}
    /\ None \notin [engine : Objects, by : Nat, drop : BOOLEAN]

(* What runs is what was last accepted and, unless edited since, what the  *)
(* file says, with every group there (policy_service.py:366-376); whoever  *)
(* asks is told the decision of the engine that runs, and all consumers of *)
(* a packet the same one of the same engine (policy_runtime.py:55-58).     *)
OnePolicy ==
    /\ running = installed
    /\ edited \/ file = installed
    /\ \A g \in running.drops : running.groups[g] # None
    /\ \A d \in decisions : d.by = d.now
    /\ \A a, b \in decisions : a.packet = b.packet /\ a.by = b.by => a.drop = b.drop

=============================================================================
