--------------------------- MODULE RadioSettings ---------------------------
(***************************************************************************)
(* Saved radio settings and the ones that run.  Web requests change        *)
(* wm1303_ui.json under one lock and publish what follows from it          *)
(* (web/wm1303_api.py); the backend takes one snapshot when it begins, and *)
(* the forwarder, the queues, the caches and the live pages keep to it     *)
(* until the service is started again (wm1303_backend.py).                 *)
(*                                                                         *)
(* Files are replaced atomically; a write may fail and the service may die *)
(* between any two of them.  The file under /tmp is out of the program's   *)
(* hands and can disappear or be damaged at any time.                      *)
(***************************************************************************)
EXTENDS ChannelPlan, Functions

CONSTANTS
    Threads,      \* web requests, each made once
    Stored,       \* the settings there are before
    Wishes,       \* request -> field -> the values it may give it
    MaxFaults     \* bound on failed writes and damages

Channel == [typed : BOOLEAN, active : BOOLEAN, frequency : Nat, bandwidth : Nat,
            sf : Nat, sound : BOOLEAN, tx : BOOLEAN, lbt : BOOLEAN, threshold : Int]
Region  == [code : STRING, lower : Int \cup {None}, upper : Int \cup {None}]
Fields  == {"channels", "e", "f", "center", "region", "word", "scan", "hal",
            "queue", "gpio", "other"}
Values(field) ==
    CASE field = "channels" -> Seq(Channel)
      [] field \in {"e", "f"} -> Channel
      [] field = "region" -> Region
      [] field = "scan" -> BOOLEAN
      [] OTHER -> Nat
Settings == [channels : Seq(Channel), e : Channel, f : Channel, center : Nat,
             region : Region, word : Nat, scan : BOOLEAN, hal : Nat,
             queue : Nat, gpio : Nat, other : Nat]

(* What _region_post lets through: CUSTOM has both bounds, the others none.*)
Postable == {r \in Region : IF r.code = "CUSTOM" THEN None \notin {r.lower, r.upper}
                            ELSE r.code \in DOMAIN Bands /\ {r.lower, r.upper} = {None}}

(* What the constants have to be: settings with fields of their types.     *)
SettingsAssumption ==
    /\ Stored \subseteq Settings
    /\ \A t \in Threads : \A f \in DOMAIN Wishes[t] :
          f \in Fields /\ Wishes[t][f] \subseteq Values(f)
    /\ \A t \in Threads : "region" \in DOMAIN Wishes[t] =>
          Wishes[t]["region"] \subseteq Postable
    /\ \A b \in DOMAIN Bands : /\ Bands[b].lower \in Nat
                              /\ Bands[b].upper \in Nat
                              /\ Bands[b].center \in Nat
                              /\ Bands[b].lower < Bands[b].upper
    /\ "EU868" \in DOMAIN Bands
    /\ None \notin Settings /\ None \notin Int
    /\ MaxFaults \in Nat

VARIABLES
    ui,         \* wm1303_ui.json
    config,     \* wm1303.channels and wm1303.tx_queue of config.yaml
    scripts,    \* the pins in reset_lgw.sh and power_cycle_lgw.sh
    bridge,     \* bridge_conf.json
    global,     \* global_conf.json
    published,  \* the file the forwarder reads: a plan, or None when absent or damaged
    request,    \* [Threads -> [field, at, copy]], at: its write at hand, or 0
    state,      \* the service: "down", "idle" or "up"
    runtime,    \* _runtime_radio_config, or None
    text,       \* _active_pktfwd_config, or None
    queues,     \* endpoint -> its carrier and bandwidth
    cached,     \* what the caches hold of the endpoints, or None
    spawning,   \* the published file was looked at, the forwarder is not up
    hal,        \* the plan the forwarder runs, or None
    written,    \* field -> what the last request to write it wrote (history)
    stale,      \* what a request left behind (history)
    asked,      \* the requests made
    faults

files   == <<ui, config, scripts, bridge, global>>
process == <<state, runtime, text, queues, cached, spawning, hal>>
vars == <<files, published, request, process, written, stale, asked, faults>>

(* What a request that changes this field writes, in order.                *)
Steps(field) ==
    CASE field = "channels" -> <<"ui", "channels", "bridge", "global">>
      [] field = "queue" -> <<"ui", "queue">>
      [] field = "gpio"  -> <<"reset", "power", "ui">>
      [] field = "other" -> <<"ui">>
      [] OTHER           -> <<"ui", "bridge", "global">>

Resting == [field |-> "other", at |-> 0, copy |-> None]

(* The active ones, by their letter.                                       *)
ChannelsOf(s) == [i \in Letters(s) |-> s.channels[i]]

Init ==
    /\ ui \in Stored
    /\ config = [channels |-> ChannelsOf(ui), queue |-> ui.queue]
    /\ scripts = [reset |-> ui.gpio, power |-> ui.gpio]
    /\ bridge = None /\ global = None /\ published = None
    /\ request = [t \in Threads |-> Resting]
    /\ state = "down"
    /\ runtime = None /\ text = None /\ queues = <<>> /\ cached = None
    /\ spawning = FALSE
    /\ hal = None
    /\ written = ui
    /\ stale = {"conf"}
    /\ asked = {}
    /\ faults = 0

-----------------------------------------------------------------------------
(* A request holds the lock from its look at the file until its answer.    *)

(* CONFIG_WRITE_LOCK and _UI_LOCK.                                         *)
LockFree == \A t \in Threads : request[t].at = 0

(* _load_ui, the change, and where settings of the radio are concerned     *)
(* _validate_radio_config; a refusal changes nothing.                      *)
Begins(t, field) ==
    /\ field \in DOMAIN Wishes[t]
    /\ \E value \in Wishes[t][field] :
          LET copy == [ui EXCEPT ![field] = value]
          IN  /\ "bridge" \in Range(Steps(field)) => Accepted(copy)
              /\ request' = [request EXCEPT
                               ![t] = [field |-> field, at |-> 1, copy |-> copy]]

ChannelsPost(t) == Begins(t, "channels")
AuxPost(t)      == Begins(t, "e") \/ Begins(t, "f")
RfChainsPost(t) == Begins(t, "center")
RegionPost(t)   == Begins(t, "region")
SyncWordPost(t) == Begins(t, "word")
ToggleScan(t)   == Begins(t, "scan")

(* By group: devices and gains, queue settings, pins, and the rest.        *)
AdvancedPost(t) ==
    Begins(t, "hal") \/ Begins(t, "queue") \/ Begins(t, "gpio") \/ Begins(t, "other")

(* Bridge rules, the repeater's place, the filter of neighbours.           *)
BridgePost(t)   == Begins(t, "other")
LocationPost(t) == Begins(t, "other")
FilterPost(t)   == Begins(t, "other")

Request(t) ==
    /\ state # "down"
    /\ LockFree
    /\ t \notin asked
    /\ asked' = asked \cup {t}
    /\ \/ ChannelsPost(t) \/ AuxPost(t) \/ RfChainsPost(t) \/ RegionPost(t)
       \/ SyncWordPost(t) \/ ToggleScan(t) \/ AdvancedPost(t)
       \/ BridgePost(t) \/ LocationPost(t) \/ FilterPost(t)
    /\ UNCHANGED <<files, published, process, written, stale, faults>>

(* The write at hand is `step'; the next one follows, or the answer.       *)
Following(r) ==
    IF r.at = Len(Steps(r.field)) THEN Resting ELSE [r EXCEPT !.at = r.at + 1]
Does(t, step) ==
    /\ request[t].at # 0
    /\ Steps(request[t].field)[request[t].at] = step
    /\ request' = [request EXCEPT ![t] = Following(request[t])]
    /\ UNCHANGED <<published, process, asked, faults>>

SaveUi(t) ==
    /\ Does(t, "ui")
    /\ ui' = request[t].copy
    /\ written' = [written EXCEPT ![request[t].field] = request[t].copy[request[t].field]]
    /\ stale' = IF request[t].field = "gpio" THEN stale \ {"gpio"} ELSE stale
    /\ UNCHANGED <<config, scripts, bridge, global>>

(* _sync_config_yaml_channels.                                             *)
SyncChannels(t) ==
    /\ Does(t, "channels")
    /\ config' = [config EXCEPT !.channels = ChannelsOf(request[t].copy)]
    /\ stale' = stale \ {"channels"}
    /\ UNCHANGED <<ui, scripts, bridge, global, written>>

SaveQueue(t) ==
    /\ Does(t, "queue")
    /\ config' = [config EXCEPT !.queue = request[t].copy.queue]
    /\ stale' = stale \ {"queue"}
    /\ UNCHANGED <<ui, scripts, bridge, global, written>>

(* _regenerate_gpio_scripts: one script after the other.                   *)
WriteScript(t, name) ==
    /\ Does(t, name)
    /\ scripts' = [scripts EXCEPT ![name] = request[t].copy.gpio]
    /\ UNCHANGED <<ui, config, bridge, global, written, stale>>

(* sync_global_conf generates from the file, not from the request's copy,  *)
(* and writes twice.                                                       *)
SyncBridge(t) ==
    /\ Does(t, "bridge")
    /\ Accepted(ui)
    /\ bridge' = Plan(ui)
    /\ UNCHANGED <<ui, config, scripts, global, written, stale>>

SyncGlobal(t) ==
    /\ Does(t, "global")
    /\ global' = Plan(ui)
    /\ stale' = stale \ {"conf"}
    /\ UNCHANGED <<ui, config, scripts, bridge, written>>

(* What a step that is not taken leaves behind, once the first was taken:  *)
(* only the pins are saved after the rest.                                 *)
Aspect(step) ==
    CASE step \in {"bridge", "global"} -> "conf"
      [] step \in {"power", "ui"}      -> "gpio"
      [] OTHER                         -> step
LeftBehind(r) ==
    IF r.at <= 1 THEN {} ELSE {Aspect(Steps(r.field)[i]) : i \in r.at..Len(Steps(r.field))}

(* A write fails: the request is answered with an error and stops there.   *)
WriteFails(t) ==
    /\ request[t].at # 0
    /\ faults < MaxFaults
    /\ faults' = faults + 1
    /\ request' = [request EXCEPT ![t] = Resting]
    /\ stale' = stale \cup LeftBehind(request[t])
    /\ UNCHANGED <<files, published, process, written, asked>>

-----------------------------------------------------------------------------
(* The backend.                                                            *)

Endpoints(s) ==
    [x \in {y \in 1..6 : y <= Len(s.channels) \/ y > 4} |->
       CASE x = 5 -> s.e [] x = 6 -> s.f [] OTHER -> s.channels[x]]

(* A queue for each enabled endpoint that may transmit.                    *)
QueuesFor(s) ==
    [x \in {y \in DOMAIN Endpoints(s) : Endpoints(s)[y].active /\ Endpoints(s)[y].tx} |->
       Place(Endpoints(s)[x])]

(* Fault: what was saved last.                                             *)
ReadSavedUi == ui

ReadActiveUi == IF runtime # None THEN runtime ELSE ui

(* begin raises: a file cannot be written, or what follows fails, with the *)
(* first n files replaced.                                                 *)
BeginFails ==
    /\ state = "down"
    /\ Accepted(ui)
    /\ faults < MaxFaults
    /\ faults' = faults + 1
    /\ \E n \in 0..3 :
          /\ bridge'    = IF n >= 1 THEN Plan(ui) ELSE bridge
          /\ global'    = IF n >= 2 THEN Plan(ui) ELSE global
          /\ published' = IF n = 3 THEN Plan(ui) ELSE published
    /\ UNCHANGED <<ui, config, scripts, request, process, written, stale, asked>>

(* One snapshot for the configuration, the queues and the caches.  Nothing *)
(* active: the service idles, so that channels can be set up.              *)
Begin ==
    /\ state = "down"
    /\ Accepted(ui)
    /\ bridge' = Plan(ui) /\ global' = Plan(ui) /\ published' = Plan(ui)
    /\ text' = Plan(ui)
    /\ runtime' = ui
    /\ cached' = None
    /\ IF Active(ui) = {}
         THEN state' = "idle" /\ queues' = <<>>
         ELSE state' = "up" /\ queues' = QueuesFor(ui)
    /\ stale' = stale \ {"conf"}
    /\ UNCHANGED <<ui, config, scripts, request, spawning, hal, written, asked, faults>>

(* _ensure_active_pktfwd_config, before each start of the forwarder.       *)
Ensure ==
    /\ state = "up" /\ hal = None /\ ~spawning
    /\ spawning' = TRUE
    /\ published' = text
    /\ UNCHANGED <<files, request, state, runtime, text, queues, cached, hal,
                   written, stale, asked, faults>>

(* The forwarder reads the file; without one it exits.                     *)
Spawn ==
    /\ spawning
    /\ spawning' = FALSE
    /\ hal' = published
    /\ UNCHANGED <<files, published, request, state, runtime, text, queues, cached,
                   written, stale, asked, faults>>

ForwarderDies ==
    /\ hal # None
    /\ hal' = None
    /\ UNCHANGED <<files, published, request, state, runtime, text, queues, cached,
                   spawning, written, stale, asked, faults>>

Damage ==
    /\ published # None
    /\ faults < MaxFaults
    /\ faults' = faults + 1
    /\ published' = None
    /\ UNCHANGED <<files, request, process, written, stale, asked>>

(* The caches of E, of F and of what listens before it talks: one has      *)
(* expired and is asked for.                                               *)
Refresh ==
    /\ state # "down"
    /\ cached' = Endpoints(ReadActiveUi)
    /\ UNCHANGED <<files, published, request, state, runtime, text, queues, spawning,
                   hal, written, stale, asked, faults>>

(* systemctl restart, or a crash, at any point of a request.               *)
Down ==
    /\ state # "down"
    /\ state' = "down"
    /\ runtime' = None /\ text' = None /\ queues' = <<>> /\ cached' = None
    /\ spawning' = FALSE
    /\ hal' = None
    /\ request' = [t \in Threads |-> Resting]
    /\ stale' = stale \cup UNION {LeftBehind(request[t]) : t \in Threads}
    /\ UNCHANGED <<files, published, written, asked, faults>>

Next ==
    \/ \E t \in Threads :
          \/ Request(t) \/ SaveUi(t) \/ SyncChannels(t) \/ SaveQueue(t)
          \/ \E name \in {"reset", "power"} : WriteScript(t, name)
          \/ SyncBridge(t) \/ SyncGlobal(t) \/ WriteFails(t)
    \/ BeginFails \/ Begin \/ Ensure \/ Spawn \/ ForwarderDies \/ Damage
    \/ Refresh \/ Down

Spec == Init /\ [][Next]_vars

-----------------------------------------------------------------------------
(* What the pages show.  Those of the chains, of the radio and of the      *)
(* spectrum read the first readable of three files, the live page the      *)
(* running settings, the page of the queues the queues, or where a channel *)
(* has none the saved settings.                                            *)
ShownConf   == IF published # None THEN published ELSE IF bridge # None THEN bridge ELSE global
ShownChains ==
    [k \in 0..8 |->
       LET chain == IF k = 8 THEN ShownConf.wide ELSE ShownConf.chains[k]
       IN  IF chain.enable THEN ShownConf.center + chain.offset ELSE 0]
ShownRadio  == [center |-> ShownConf.center,
                chains |-> {k \in Slots : ShownConf.chains[k].enable}]
ShownSpectrum == [center |-> ShownConf.center, scan |-> ShownConf.scan.enable,
                  lbt |-> {l.place : l \in ShownConf.lbt}]
ShownLive   ==
    [x \in {y \in DOMAIN Endpoints(ReadActiveUi) : Endpoints(ReadActiveUi)[y].active} |->
       Endpoints(ReadActiveUi)[x].frequency]
ShownQueues ==
    [x \in DOMAIN queues \cup {y \in DOMAIN Endpoints(ui) : Endpoints(ui)[y].active} |->
       IF x \in DOMAIN queues THEN queues[x][1] ELSE Endpoints(ui)[x].frequency]

(* The pages tell one story of what runs.                                  *)
PagesAgree ==
    /\ \A x \in DOMAIN ShownLive \ {5} :
          ShownChains[IF x = 6 THEN 8 ELSE x - 1] = ShownLive[x]
    /\ \A x \in DOMAIN queues : x \in DOMAIN ShownLive /\ ShownQueues[x] = ShownLive[x]
    /\ ShownRadio.center = ShownSpectrum.center
    /\ \A k \in ShownRadio.chains : k + 1 \in DOMAIN ShownLive
    /\ ShownSpectrum.lbt # {} => \A x \in DOMAIN queues : queues[x] \in ShownSpectrum.lbt

(* What runs is one set of settings, whatever was saved, damaged or        *)
(* started again since: the forwarder has the snapshot's plan, every queue *)
(* sends where that plan listens before it talks, the caches and the pages *)
(* tell the same.                                                          *)
RunsAsStarted ==
    state # "down" =>
       /\ text = Plan(runtime)
       /\ hal # None => hal = Plan(runtime)
       /\ published \in {None, text}
       /\ queues = IF state = "up" THEN QueuesFor(runtime) ELSE <<>>
       /\ text.lbt # {} => \A x \in DOMAIN queues : \E l \in text.lbt : l.place = queues[x]
       /\ cached # None => cached = Endpoints(runtime)
       /\ published # None => PagesAgree

(* Whatever is saved can be started with, and no request undoes another's  *)
(* change.                                                                 *)
SavedIsStartable ==
    /\ ui = written
    /\ state = "down" =>
          \A t \in Threads : \A f \in DOMAIN Wishes[t] : \A v \in Wishes[t][f] :
             PlanRight([ui EXCEPT ![f] = v])
    /\ ui \notin Stored => Accepted(ui)

(* When no request is under way the files agree, but for what one left     *)
(* behind that was answered with an error or cut short.                    *)
PublishedAgree ==
    LockFree =>
       /\ "conf" \notin stale => bridge = Plan(ui) /\ global = bridge
       /\ "channels" \notin stale => config.channels = ChannelsOf(ui)
       /\ "queue" \notin stale => config.queue = ui.queue
       /\ "gpio" \notin stale => scripts = [reset |-> ui.gpio, power |-> ui.gpio]

SettingsAgree == RunsAsStarted /\ SavedIsStartable /\ PublishedAgree

=============================================================================
