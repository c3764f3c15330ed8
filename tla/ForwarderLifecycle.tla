------------------------- MODULE ForwarderLifecycle -------------------------
(***************************************************************************)
(* Who starts and stops the packet forwarder.  Three threads of            *)
(* WM1303Backend share its process handle and its UDP socket:              *)
(*                                                                         *)
(*   main    begin() and stop();                                           *)
(*   dog     _watchdog_loop, which restarts a forwarder it takes for dead; *)
(*   reader  _udp_loop, which owns no process but reopens the socket.      *)
(*                                                                         *)
(* The forwarder runs as a group of two operating system processes, the    *)
(* sudo wrapper the backend can poll and the radio process that drives the *)
(* concentrator.  Each can die by itself, signals can fail and Popen can   *)
(* fail.                                                                   *)
(*                                                                         *)
(* _stop_pktfwd_process and _start_pktfwd are called from main and from    *)
(* dog: "pc" says where a thread is in them, "goal" on whose behalf.       *)
(***************************************************************************)
EXTENDS Naturals, FiniteSets

CONSTANTS
    Groups,    \* process groups; a group that is gone can be used again
    None       \* no group, no thread

ASSUME GroupAssumption == None \notin Groups \cup {"main", "dog"}

Threads == {"main", "dog"}

VARIABLES
    running,     \* _running; _stop_event is set when it is cleared
    watching,    \* _watchdog_running
    scheduler,   \* _global_tx_scheduler is not None
    proc,        \* _proc and _pktfwd_pgid
    lock,        \* the holder of _pktfwd_lock
    sock,        \* _sock: None, open, or broken
    pullAddr,    \* the group whose address _pull_addr is
    pc, goal,    \* of main and dog
    reader,      \* where _udp_loop is
    failed,      \* stop_error: this stop() will raise
    wrapper,     \* groups whose wrapper runs
    radio,       \* groups whose radio process runs
    pulls        \* PULL_DATA in the socket's buffer, by sending group

ctlVars == <<pc, goal, failed>>
osVars  == <<wrapper, radio>>
netVars == <<sock, pullAddr, reader, pulls>>
vars == <<running, watching, scheduler, proc, lock, ctlVars, osVars, netVars>>

Init ==
    /\ running = FALSE
    /\ watching = FALSE
    /\ scheduler = FALSE
    /\ proc = None
    /\ lock = None
    /\ sock = "none"
    /\ pullAddr = None
    /\ pc = [th \in Threads |-> "off"]
    /\ goal = [th \in Threads |-> "none"]
    /\ reader = "off"
    /\ failed = FALSE
    /\ wrapper = {}
    /\ radio = {}
    /\ pulls = {}

At(th, label) == pc[th] = label
Go(th, label) == pc' = [pc EXCEPT ![th] = label]

Polled(g) == g \notin wrapper       \* process.poll() is not None

-----------------------------------------------------------------------------
(* _stop_pktfwd_process, called by thread th.                              *)

(* It raises: the dog logs and sleeps, main goes on to close the rest.     *)
HaltRaises(th) ==
    /\ lock' = None
    /\ Go(th, IF th = "main" THEN "close" ELSE "sleep")
    /\ failed' = (failed \/ th = "main")

Halt(th) ==
    /\ At(th, "halt")
    /\ lock = None
    /\ IF proc = None
         THEN Go(th, "forget") /\ UNCHANGED lock
         ELSE Go(th, "term") /\ lock' = th
    /\ UNCHANGED <<running, watching, scheduler, proc, goal, failed, osVars,
                   netVars>>

(* SIGTERM; what the group makes of it is up to the group.                 *)
Term(th) ==
    /\ At(th, "term")
    /\ Go(th, "wait")
    /\ UNCHANGED <<running, watching, scheduler, proc, lock, goal, failed,
                   osVars, netVars>>

TermRaises(th) ==
    /\ At(th, "term")
    /\ proc \in wrapper \cup radio
    /\ HaltRaises(th)
    /\ UNCHANGED <<running, watching, scheduler, proc, goal, osVars, netVars>>

(* wait(5) returns when the wrapper is gone, or gives up: SIGKILL either   *)
(* way, in the first case for a radio process the wrapper left behind.     *)
Wait(th) ==
    /\ At(th, "wait")
    /\ Go(th, "kill")
    /\ UNCHANGED <<running, watching, scheduler, proc, lock, goal, failed,
                   osVars, netVars>>

(* Fault: the group is only killed when the wrapper outlived wait(5).      *)
KillStubborn(th) ==
    /\ At(th, "kill")
    /\ wrapper' = wrapper \ {proc}
    /\ radio' = IF Polled(proc) THEN radio ELSE radio \ {proc}
    /\ proc' = None
    /\ lock' = None
    /\ Go(th, "forget")
    /\ UNCHANGED <<running, watching, scheduler, goal, failed, netVars>>

Kill(th) ==
    /\ At(th, "kill")
    /\ wrapper' = wrapper \ {proc}
    /\ radio' = radio \ {proc}
    /\ proc' = None
    /\ lock' = None
    /\ Go(th, "forget")
    /\ UNCHANGED <<running, watching, scheduler, goal, failed, netVars>>

(* Fault: the handle is given up although the group could not be killed.   *)
KillRaisesDisowns(th) ==
    /\ At(th, "kill")
    /\ proc \in wrapper \cup radio
    /\ proc' = None
    /\ HaltRaises(th)
    /\ UNCHANGED <<running, watching, scheduler, goal, osVars, netVars>>

(* Fault: tries again until the group is gone.                             *)
KillRaisesRetries(th) ==
    /\ At(th, "kill")
    /\ proc \in wrapper \cup radio
    /\ Go(th, "term")
    /\ UNCHANGED <<running, watching, scheduler, proc, lock, goal, failed,
                   osVars, netVars>>

(* The signal fails or wait(3) times out: the handle is kept.              *)
KillRaises(th) ==
    /\ At(th, "kill")
    /\ proc \in wrapper \cup radio
    /\ HaltRaises(th)
    /\ UNCHANGED <<running, watching, scheduler, proc, goal, osVars, netVars>>

(* The address is forgotten, and the caller goes on: the watchdog with the *)
(* power cycle, and after its second call with the start of a new process. *)
Forget(th) ==
    /\ At(th, "forget")
    /\ pullAddr' = None
    /\ Go(th, IF goal[th] = "stop" THEN "close"
              ELSE IF ~running THEN "sleep"
              ELSE IF goal[th] = "cycle" THEN "cycle" ELSE "reset")
    /\ UNCHANGED <<running, watching, scheduler, proc, lock, goal, failed,
                   osVars, sock, reader, pulls>>

-----------------------------------------------------------------------------
(* _start_pktfwd, called by thread th.                                     *)

(* It raises: begin() calls stop(), the dog logs and sleeps.               *)
StartRaises(th) ==
    IF th = "main"
      THEN /\ running' = FALSE
           /\ watching' = FALSE
           /\ Go(th, "halt")
           /\ goal' = [goal EXCEPT ![th] = "stop"]
           /\ failed' = FALSE
      ELSE Go(th, "sleep") /\ UNCHANGED <<running, watching, goal, failed>>

(* The GPIO reset takes its time.                                          *)
Reset(th) ==
    /\ At(th, "reset")
    /\ Go(th, "spawn")
    /\ UNCHANGED <<running, watching, scheduler, proc, lock, goal, failed,
                   osVars, netVars>>

(* Fault: does not look at _running again after the reset.                 *)
SpawnUnchecked(th) ==
    /\ At(th, "spawn")
    /\ lock = None
    /\ proc = None
    /\ \E g \in Groups \ (wrapper \cup radio \cup pulls \cup {pullAddr}) :
          /\ proc' = g
          /\ wrapper' = wrapper \cup {g}
          /\ radio' = radio \cup {g}
    /\ Go(th, "ready")
    /\ UNCHANGED <<running, watching, scheduler, lock, goal, failed, netVars>>

Spawn(th) ==
    /\ At(th, "spawn")
    /\ lock = None
    /\ running
    /\ proc = None
    /\ \E g \in Groups \ (wrapper \cup radio \cup pulls \cup {pullAddr}) :
          /\ proc' = g
          /\ wrapper' = wrapper \cup {g}
          /\ radio' = radio \cup {g}
    /\ Go(th, "ready")
    /\ UNCHANGED <<running, watching, scheduler, lock, goal, failed, netVars>>

(* Shutdown arrived during the reset.                                      *)
SpawnCalledOff ==
    /\ At("dog", "spawn")
    /\ lock = None
    /\ ~running
    /\ Go("dog", "sleep")
    /\ UNCHANGED <<running, watching, scheduler, proc, lock, goal, failed,
                   osVars, netVars>>

(* Popen fails, or another process is still owned.                         *)
SpawnRaises(th) ==
    /\ At(th, "spawn")
    /\ lock = None
    /\ running
    /\ StartRaises(th)
    /\ UNCHANGED <<scheduler, proc, lock, osVars, netVars>>

(* After at most 5 s of waiting for PULL_DATA, come or not.                *)
Started(th) ==
    /\ At(th, "ready")
    /\ proc # None
    /\ ~Polled(proc)
    /\ IF th = "main"
         THEN /\ Go(th, "up")
              /\ watching' = TRUE
         ELSE Go(th, "sleep") /\ UNCHANGED watching
    /\ UNCHANGED <<running, scheduler, proc, lock, goal, failed, osVars, netVars>>

(* It exited prematurely, or was stopped by a shutdown meanwhile.          *)
StartedInVain(th) ==
    /\ At(th, "ready")
    /\ proc = None \/ Polled(proc)
    /\ StartRaises(th)
    /\ UNCHANGED <<scheduler, proc, lock, osVars, netVars>>

Routine(th) ==
    \/ Halt(th) \/ Term(th) \/ TermRaises(th) \/ Wait(th)
    \/ Kill(th) \/ KillRaises(th) \/ Forget(th)
    \/ Reset(th) \/ Spawn(th) \/ SpawnRaises(th)
    \/ Started(th) \/ StartedInVain(th)

-----------------------------------------------------------------------------
(* main: begin() and stop().                                               *)

MayBegin ==
    /\ At("main", "off")
    /\ ~scheduler
    /\ proc = None
    /\ reader = "off"
    /\ At("dog", "off")

BeginRadio ==
    /\ MayBegin
    /\ running' = TRUE
    /\ sock' = "open"
    /\ pulls' = {}
    /\ reader' = "recv"
    /\ pc' = [pc EXCEPT !["main"] = "reset"]
    /\ goal' = [goal EXCEPT !["main"] = "begin"]
    /\ failed' = FALSE
    /\ UNCHANGED <<watching, scheduler, proc, lock, osVars, pullAddr>>

(* No active channel: no radio, only the keepalive of the service.         *)
BeginIdle ==
    /\ MayBegin
    /\ running' = TRUE
    /\ watching' = TRUE
    /\ pc' = [pc EXCEPT !["main"] = "up", !["dog"] = "idle"]
    /\ goal' = [goal EXCEPT !["main"] = "begin"]
    /\ UNCHANGED <<scheduler, proc, lock, failed, osVars, netVars>>

(* The socket cannot be bound.                                             *)
BeginFails ==
    /\ MayBegin
    /\ goal' = [goal EXCEPT !["main"] = "stop"]
    /\ failed' = FALSE
    /\ Go("main", "halt")
    /\ UNCHANGED <<running, watching, scheduler, proc, lock, osVars, netVars>>

(* The last statement of begin().                                          *)
StartWatchdog ==
    /\ At("main", "up")
    /\ watching
    /\ At("dog", "off")
    /\ Go("dog", "sleep")
    /\ UNCHANGED <<running, watching, scheduler, proc, lock, goal, failed,
                   osVars, netVars>>

(* ensure_tx_queues_started, on the event loop.                            *)
StartScheduler ==
    /\ At("main", "up")
    /\ ~At("dog", "idle")
    /\ running
    /\ ~scheduler
    /\ scheduler' = TRUE
    /\ UNCHANGED <<running, watching, proc, lock, ctlVars, osVars, netVars>>

(* stop(), also called again after one that raised.                        *)
Stop ==
    /\ \/ At("main", "up") /\ ~At("dog", "off")
       \/ At("main", "off") /\ (scheduler \/ proc # None)
    /\ running' = FALSE
    /\ watching' = FALSE
    /\ failed' = FALSE
    /\ goal' = [goal EXCEPT !["main"] = "stop"]
    /\ Go("main", IF scheduler THEN "drain" ELSE "halt")
    /\ UNCHANGED <<scheduler, proc, lock, osVars, netVars>>

Drain ==
    /\ At("main", "drain")
    /\ \/ scheduler' = FALSE /\ UNCHANGED failed
       \/ failed' = TRUE /\ UNCHANGED scheduler
    /\ Go("main", "halt")
    /\ UNCHANGED <<running, watching, proc, lock, goal, osVars, netVars>>

Close ==
    /\ At("main", "close")
    /\ sock' = "none"
    /\ pulls' = {}
    /\ Go("main", "join")
    /\ UNCHANGED <<running, watching, scheduler, proc, lock, goal, failed,
                   osVars, pullAddr, reader>>

(* Fault: the watchdog is not waited for.                                  *)
JoinReader ==
    /\ At("main", "join")
    /\ reader = "off"
    /\ Go("main", "off")
    /\ UNCHANGED <<running, watching, scheduler, proc, lock, goal, failed,
                   osVars, netVars>>

Join ==
    /\ At("main", "join")
    /\ reader = "off"
    /\ At("dog", "off")
    /\ Go("main", "off")
    /\ UNCHANGED <<running, watching, scheduler, proc, lock, goal, failed,
                   osVars, netVars>>

-----------------------------------------------------------------------------
(* dog: the watchdog thread.                                               *)

Restart ==
    /\ At("dog", "sleep")
    /\ watching
    /\ running
    /\ Go("dog", "halt")
    /\ goal' = [goal EXCEPT !["dog"] = "cycle"]
    /\ UNCHANGED <<running, watching, scheduler, proc, lock, failed, osVars,
                   netVars>>

(* Detection 4: the process has exited.                                    *)
ProcessExit == proc # None /\ Polled(proc) /\ Restart

(* Fault: silence is no reason to restart.                                 *)
SilenceIgnored == FALSE /\ UNCHANGED vars

(* The other detections: acknowledgement timeouts, no reception.           *)
Silence == Restart

(* After the power cycle: _restart_pkt_fwd, which stops "again" first.     *)
PowerCycled ==
    /\ At("dog", "cycle")
    /\ IF running
         THEN Go("dog", "halt") /\ goal' = [goal EXCEPT !["dog"] = "restart"]
         ELSE Go("dog", "sleep") /\ UNCHANGED goal
    /\ UNCHANGED <<running, watching, scheduler, proc, lock, failed, osVars,
                   netVars>>

DogEnds ==
    /\ pc["dog"] \in {"sleep", "idle"}
    /\ ~watching
    /\ Go("dog", "off")
    /\ UNCHANGED <<running, watching, scheduler, proc, lock, goal, failed,
                   osVars, netVars>>

-----------------------------------------------------------------------------
(* reader: _udp_loop and _recreate_socket.                                 *)

Loop == reader' = IF running THEN "recv" ELSE "off"

ReaderTimeout ==
    /\ reader = "recv"
    /\ Loop
    /\ UNCHANGED <<running, watching, scheduler, proc, lock, ctlVars, osVars,
                   sock, pullAddr, pulls>>

(* Fault: an address that is known is kept.                                *)
PullDataOnce ==
    /\ reader = "recv"
    /\ sock = "open"
    /\ \E g \in pulls :
          /\ pullAddr' = IF pullAddr = None THEN g ELSE pullAddr
          /\ pulls' = pulls \ {g}
    /\ Loop
    /\ UNCHANGED <<running, watching, scheduler, proc, lock, ctlVars, osVars, sock>>

PullData ==
    /\ reader = "recv"
    /\ sock = "open"
    /\ \E g \in pulls :
          /\ pullAddr' = g
          /\ pulls' = pulls \ {g}
    /\ Loop
    /\ UNCHANGED <<running, watching, scheduler, proc, lock, ctlVars, osVars, sock>>

ReaderError ==
    /\ reader = "recv"
    /\ sock # "open"
    /\ reader' = IF running THEN "mend" ELSE "off"
    /\ UNCHANGED <<running, watching, scheduler, proc, lock, ctlVars, osVars,
                   sock, pullAddr, pulls>>

(* Fault: does not look at _running under the lock.                        *)
RecreateUnchecked(s) ==
    /\ s \in {"open", "none"}
    /\ sock' = s
    /\ pulls' = {}

(* Under _sock_lock.  What the old socket had received is gone.            *)
Recreate(s) ==
    IF running
      THEN s \in {"open", "none"} /\ sock' = s /\ pulls' = {}
      ELSE s = sock /\ UNCHANGED <<sock, pulls>>

ReaderMends ==
    /\ reader = "mend"
    /\ \E s \in {"open", "none", "broken"} :
          /\ Recreate(s)
          /\ reader' = IF sock' = "open" /\ running THEN "recv" ELSE "nap"
    /\ UNCHANGED <<running, watching, scheduler, proc, lock, ctlVars, osVars,
                   pullAddr>>

ReaderWakes ==
    /\ reader = "nap"
    /\ Loop
    /\ UNCHANGED <<running, watching, scheduler, proc, lock, ctlVars, osVars,
                   sock, pullAddr, pulls>>

(* A sender on the event loop met the broken socket first.                 *)
SenderMends ==
    /\ scheduler
    /\ sock # "open"
    /\ \E s \in {"open", "none", "broken"} : Recreate(s)
    /\ UNCHANGED <<running, watching, scheduler, proc, lock, ctlVars, osVars,
                   reader, pullAddr>>

Reader == ReaderTimeout \/ PullData \/ ReaderError \/ ReaderMends \/ ReaderWakes

-----------------------------------------------------------------------------
(* The operating system.                                                   *)

SockBreaks ==
    /\ sock = "open"
    /\ sock' = "broken"
    /\ UNCHANGED <<running, watching, scheduler, proc, lock, ctlVars, osVars,
                   pullAddr, reader, pulls>>

(* A radio process that runs polls its server.                             *)
RadioPolls ==
    /\ sock = "open"
    /\ \E g \in radio : pulls' = pulls \cup {g}
    /\ UNCHANGED <<running, watching, scheduler, proc, lock, ctlVars, osVars,
                   sock, pullAddr, reader>>

RadioExits ==
    /\ \E g \in radio : radio' = radio \ {g}
    /\ UNCHANGED <<running, watching, scheduler, proc, lock, ctlVars, wrapper,
                   netVars>>

(* With its child, or without it.                                          *)
WrapperExits ==
    /\ \E g \in wrapper : wrapper' = wrapper \ {g}
    /\ UNCHANGED <<running, watching, scheduler, proc, lock, ctlVars, radio,
                   netVars>>

OperatingSystem == SockBreaks \/ RadioPolls \/ RadioExits \/ WrapperExits

Main ==
    \/ BeginRadio \/ BeginIdle \/ BeginFails
    \/ StartWatchdog \/ StartScheduler \/ Stop \/ Drain \/ Close \/ Join

Dog == ProcessExit \/ Silence \/ PowerCycled \/ SpawnCalledOff \/ DogEnds

Next ==
    \/ \E th \in Threads : Routine(th)
    \/ Main \/ Dog \/ Reader \/ SenderMends \/ OperatingSystem

(* Threads are scheduled and their waits are bounded (5 s, 3 s, the 2 s    *)
(* socket timeout).                                                        *)
MainSteps ==
    Routine("main") \/ StartWatchdog \/ Drain \/ Close \/ Join

DogSteps == Routine("dog") \/ PowerCycled \/ SpawnCalledOff \/ DogEnds

ThreadFairness == WF_vars(MainSteps) /\ WF_vars(DogSteps) /\ WF_vars(Reader)

(* What the watchdog tries over and over succeeds in the end: to signal    *)
(* and reap a group and to start one.  That no radio is left is noticed,   *)
(* by the exit of the wrapper or by the silence.                           *)
DogPersists ==
    /\ WF_vars(radio = {} /\ Silence)
    /\ SF_vars(Term("dog")) /\ SF_vars(Kill("dog")) /\ SF_vars(Spawn("dog"))

(* The forwarder polls forever, and what it sends is received.             *)
PollFairness == WF_vars(RadioPolls) /\ WF_vars(PullData)

Spec == Init /\ [][Next]_vars

FairSpec == Spec /\ ThreadFairness /\ DogPersists /\ PollFairness

-----------------------------------------------------------------------------
(* Properties.                                                             *)

Labels == {"off", "up", "drain", "close", "join", "sleep", "idle", "cycle",
           "halt", "term", "wait", "kill", "forget", "reset", "spawn", "ready"}

(* Every variable keeps to the values the code can give it.                *)
TypeOK ==
    /\ running \in BOOLEAN
    /\ watching \in BOOLEAN
    /\ scheduler \in BOOLEAN
    /\ proc \in Groups \cup {None}
    /\ lock \in Threads \cup {None}
    /\ sock \in {"none", "open", "broken"}
    /\ pullAddr \in Groups \cup {None}
    /\ pc \in [Threads -> Labels]
    /\ goal \in [Threads -> {"none", "begin", "stop", "cycle", "restart"}]
    /\ reader \in {"off", "recv", "mend", "nap"}
    /\ failed \in BOOLEAN
    /\ wrapper \subseteq Groups
    /\ radio \subseteq Groups
    /\ pulls \subseteq Groups

(* _stop_pktfwd_process, 2609-2611: recovery cannot start a second process *)
(* against the same hardware.  Whatever radio process runs, the backend    *)
(* holds its handle, so there is one at most and none is orphaned: not by  *)
(* a wrapper that dies before its child, a signal that fails, a restart    *)
(* that meets a shutdown.                                                  *)
OwnsEveryProcess == wrapper \cup radio \subseteq {proc}

(* The docstring of stop(): stop owned producers.  When stop() returns, no *)
(* thread runs and the socket is closed, and unless it raised no process   *)
(* is left either, however a restart or a socket recovery overlapped it.   *)
StoppedMeansStopped ==
    At("main", "off") =>
       /\ ~running
       /\ lock = None
       /\ sock = "none"
       /\ reader = "off"
       /\ At("dog", "off")
       /\ ~failed => proc = None /\ wrapper \cup radio = {}

(* stop() comes back: the lock is released on every path and the threads   *)
(* it joins see the shutdown (2535-2552).                                  *)
StopReturns == goal["main"] = "stop" ~> At("main", "off")

(* _watchdog_loop: a radio process that died is replaced, after failed     *)
(* kills and failed starts too, unless the backend is stopped.             *)
DeadRadioReplaced ==
    (At("main", "up") /\ ~At("dog", "idle") /\ radio = {})
        ~> (radio # {} \/ ~running)

(* _handle_udp, PULL_DATA: while one forwarder keeps running, its address  *)
(* ends up in _pull_addr, even after a datagram of its predecessor was     *)
(* read late.                                                              *)
AddressSettles ==
    \A g \in Groups :
       <>[](running /\ g \in radio /\ pc["main"] = "up" /\ pc["dog"] = "sleep"
               /\ sock = "open")
          => <>[](pullAddr = g)

=============================================================================
