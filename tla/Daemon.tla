------------------------------- MODULE Daemon -------------------------------
(***************************************************************************)
(* The life of the repeater's process: RepeaterDaemon.run, initialize and  *)
(* _finish_shutdown of main.py.  Parts are started one after another, any  *)
(* start may fail, any of the tasks the daemon cannot do without may end,  *)
(* signals ask for a stop and the main task may be cancelled at any await. *)
(* Whatever happens, what was started is to be stopped, producers first.   *)
(*                                                                         *)
(* What the parts do is the subject of the other modules.                  *)
(***************************************************************************)
EXTENDS FiniteSets, Sequences, Naturals

CONSTANTS
    Optional,    \* parts the configuration may leave out
    MaxFaults    \* bound on stops that fail and cancellations

Parts == {"radio", "storage", "router", "gps", "rooms", "companions", "glass",
          "bridge", "channels", "dispatcher", "http", "retention"}

VARIABLES
    wanted,    \* the parts the configuration asks for
    up,        \* the parts that run
    closed,    \* the parts that were stopped (history)
    broken,    \* the parts whose stop raised (history)
    pc,        \* where run() is
    asked,     \* _stop_event
    ended,     \* a required task has ended by itself
    outcome,   \* what run() ends with: run_error
    cleanup,   \* cleanup_error is set
    ready,     \* systemd was told READY=1
    left,      \* the parts _finish_shutdown has still to stop, in order
    faults     \* faults so far (bound)

vars == <<wanted, up, closed, broken, pc, asked, ended, outcome, cleanup, ready,
          left, faults>>

(* Rooms, scheduler, bridge, channels and dispatcher run required tasks.   *)
Required == {"radio", "rooms", "bridge", "channels", "dispatcher"}

(* The order of _finish_shutdown, and which failures it reports.           *)
StopOrder == <<"rooms", "http", "dispatcher", "channels", "radio", "bridge", "retention",
               "gps", "router", "companions", "storage", "glass">>
Reported == {"rooms", "http", "storage"}

(* Who hands packets, rows or messages to whom.                            *)
Feeds == {<<"rooms", "radio">>, <<"http", "radio">>, <<"http", "router">>,
          <<"http", "companions">>, <<"channels", "bridge">>, <<"radio", "bridge">>,
          <<"dispatcher", "router">>, <<"bridge", "router">>, <<"router", "companions">>,
          <<"rooms", "storage">>, <<"http", "storage">>, <<"radio", "storage">>,
          <<"bridge", "storage">>, <<"retention", "storage">>,
          <<"router", "storage">>, <<"companions", "storage">>, <<"storage", "glass">>}

Init ==
    /\ wanted \in {Parts \ out : out \in SUBSET Optional}
    /\ up = {}
    /\ closed = {}
    /\ broken = {}
    /\ pc = "radio"
    /\ asked = FALSE
    /\ ended = FALSE
    /\ outcome = "none"
    /\ cleanup = FALSE
    /\ ready = FALSE
    /\ left = StopOrder
    /\ faults = 0

-----------------------------------------------------------------------------
(* The start.                                                              *)

(* One stretch of initialize() or run(): its parts are up and the next     *)
(* stretch follows, or an exception ends the start with some of them up.   *)
Starts(parts, next) ==
    /\ \/ /\ up' = up \cup (parts \cap wanted)
          /\ pc' = next
          /\ UNCHANGED outcome
       \/ /\ \E some \in SUBSET (parts \cap wanted) : up' = up \cup some
          /\ outcome' = "error"
          /\ pc' = "stop"
    /\ UNCHANGED <<wanted, closed, broken, asked, ended, cleanup, ready, left, faults>>

StartRadio      == pc = "radio"      /\ Starts({"radio"}, "core")
StartCore       == pc = "core"       /\ Starts({"storage", "router"}, "helpers")
StartHelpers    == pc = "helpers"    /\ Starts({"gps"}, "rooms")
StartRooms      == pc = "rooms"      /\ Starts({"rooms"}, "companions")
StartCompanions == pc = "companions" /\ Starts({"companions"}, "glass")
StartGlass      == pc = "glass"      /\ Starts({"glass"}, "bridge")
StartBridge     == pc = "bridge"     /\ Starts({"bridge"}, "channels")
StartChannels   == pc = "channels"   /\ Starts({"channels"}, "dispatcher")

(* The dispatcher receives where no bridge does.                           *)
StartDispatcher ==
    pc = "dispatcher" /\ Starts(IF "bridge" \in up THEN {} ELSE {"dispatcher"}, "check1")

(* The required tasks are looked at after a turn of the event loop.        *)
Check(at, next) ==
    /\ pc = at
    /\ pc' = IF ended THEN "stop" ELSE next
    /\ outcome' = IF ended THEN "error" ELSE outcome
    /\ UNCHANGED <<wanted, up, closed, broken, asked, ended, cleanup, ready, left, faults>>

FirstCheck == Check("check1", "http")

(* HTTPStatsServer.start cleans up after itself when it fails.             *)
StartHttp ==
    /\ pc = "http"
    /\ \/ up' = up \cup ({"http"} \cap wanted) /\ pc' = "retention" /\ UNCHANGED outcome
       \/ outcome' = "error" /\ pc' = "stop" /\ UNCHANGED up
    /\ UNCHANGED <<wanted, closed, broken, asked, ended, cleanup, ready, left, faults>>

(* The daemon goes on without the retention of metrics.                    *)
StartRetention ==
    /\ pc = "retention"
    /\ \E some \in SUBSET ({"retention"} \cap wanted) : up' = up \cup some
    /\ pc' = "check2"
    /\ UNCHANGED <<wanted, closed, broken, asked, ended, outcome, cleanup, ready, left,
                   faults>>

SecondCheck == Check("check2", "notify")

Notify ==
    /\ pc = "notify"
    /\ ready' = TRUE
    /\ pc' = "wait"
    /\ UNCHANGED <<wanted, up, closed, broken, asked, ended, outcome, cleanup, left,
                   faults>>

-----------------------------------------------------------------------------
(* What may happen to it.                                                  *)

(* SIGTERM or SIGINT.                                                      *)
Signal ==
    /\ pc \notin {"stop", "exited"}
    /\ ~asked
    /\ asked' = TRUE
    /\ UNCHANGED <<wanted, up, closed, broken, pc, ended, outcome, cleanup, ready, left,
                   faults>>

RequiredTaskEnds ==
    /\ pc # "exited"
    /\ Required \cap up # {}
    /\ ~ended
    /\ ended' = TRUE
    /\ UNCHANGED <<wanted, up, closed, broken, pc, asked, outcome, cleanup, ready, left,
                   faults>>

(* A stop that was asked for comes before a task that ended.               *)
Wait ==
    /\ pc = "wait"
    /\ asked \/ ended
    /\ outcome' = IF asked THEN outcome ELSE "error"
    /\ pc' = "stop"
    /\ UNCHANGED <<wanted, up, closed, broken, asked, ended, cleanup, ready, left, faults>>

(* Fault: the main task awaits the shutdown itself.                        *)
CancelUnshielded ==
    /\ faults < MaxFaults
    /\ faults' = faults + 1
    /\ pc # "exited"
    /\ outcome' = IF outcome = "none" THEN "cancelled" ELSE outcome
    /\ pc' = IF pc = "stop" THEN "exited" ELSE "stop"
    /\ UNCHANGED <<wanted, up, closed, broken, asked, ended, cleanup, ready, left>>

(* The main task is cancelled.  _join_shutdown shields the shutdown from   *)
(* that and lets it finish.                                                *)
Cancel ==
    /\ faults < MaxFaults
    /\ faults' = faults + 1
    /\ pc # "exited"
    /\ outcome' = IF outcome = "none" THEN "cancelled" ELSE outcome
    /\ pc' = "stop"
    /\ UNCHANGED <<wanted, up, closed, broken, asked, ended, cleanup, ready, left>>

-----------------------------------------------------------------------------
(* The shutdown.                                                           *)

(* What is in no try (main.py:1807-1836) is taken not to raise.            *)
StopNext ==
    /\ pc = "stop"
    /\ left # <<>>
    /\ LET p == Head(left)
       IN \/ /\ up' = up \ {p}
             /\ closed' = IF p \in up THEN closed \cup {p} ELSE closed
             /\ UNCHANGED <<broken, cleanup, faults>>
          \/ /\ p \in up
             /\ faults < MaxFaults
             /\ faults' = faults + 1
             /\ broken' = broken \cup {p}
             /\ cleanup' = (cleanup \/ p \in Reported)
             /\ UNCHANGED <<up, closed>>
    /\ left' = Tail(left)
    /\ UNCHANGED <<wanted, pc, asked, ended, outcome, ready>>

(* run() returns, or raises what ended it or what the cleanup reported.    *)
Exit ==
    /\ pc = "stop"
    /\ left = <<>>
    /\ outcome' = IF cleanup /\ outcome \in {"none", "cancelled"} THEN "error" ELSE outcome
    /\ pc' = "exited"
    /\ UNCHANGED <<wanted, up, closed, broken, asked, ended, cleanup, ready, left, faults>>

Next ==
    \/ StartRadio \/ StartCore \/ StartHelpers \/ StartRooms \/ StartCompanions
    \/ StartGlass \/ StartBridge \/ StartChannels \/ StartDispatcher
    \/ FirstCheck \/ StartHttp \/ StartRetention \/ SecondCheck \/ Notify
    \/ Signal \/ RequiredTaskEnds \/ Wait \/ Cancel
    \/ StopNext \/ Exit

Spec == Init /\ [][Next]_vars

-----------------------------------------------------------------------------
(* Whether the start fails half way, a task ends, or the main task is      *)
(* cancelled in the middle of the shutdown: at the end of the process      *)
(* nothing runs but what could not be stopped, nothing was closed before   *)
(* those that hand it work (the comments of _finish_shutdown), and an end  *)
(* nobody asked for is not reported as a normal one.                       *)
EndsInOrder ==
    /\ pc = "exited" => up \subseteq broken
    /\ \A f \in Feeds : f[2] \in closed /\ f[1] \in up => f[1] \in broken
    /\ pc = "exited" /\ outcome = "none" => asked /\ ~cleanup

=============================================================================
