--------------------------- MODULE ForwarderProofs ---------------------------
(***************************************************************************)
(* Theorems about what a stop() or close() leaves behind.                  *)
(*                                                                         *)
(* Of ForwarderLifecycle: every radio process has an owner, and a stop()   *)
(* that succeeds leaves nothing running.  Neither is inductive.  What      *)
(* carries them is who may run when: the lock is held by the thread inside *)
(* the signalling (LockInv), stop() has cleared _running before it touches *)
(* anything (MainInv), no thread outlives the join (DoneInv), and from the *)
(* kill on a process handle that is still there has made stop() fail       *)
(* (GoneInv).                                                              *)
(*                                                                         *)
(* Of RecordWriter: every record that was taken is written before the end, *)
(* and the list of neighbours is recent.  The closing of the connection    *)
(* stands behind all records (CloseInv), and an end that is complete was   *)
(* waited for at each of its steps, in whichever call of close() (EndInv). *)
(*                                                                         *)
(* Of HostedIdentities: no reported edit of the file is lost, and whatever *)
(* was started for an identity has an owner.  The writer in the lock has   *)
(* read what was reported and works on that alone (CopiesRight); memory    *)
(* lags behind by a room's own settings at most (LiveRight).  A place      *)
(* where something runs is being started, undone or published, and no two  *)
(* published ones clash, those loaded at the start because the file has no *)
(* two names with a key (SlotInv).                                         *)
(*                                                                         *)
(* Of Calibration: the measurement that goes on is the one waited for, one *)
(* that puts the radio back may be left by a worker that gave up, and the  *)
(* next session waits for it (OneOnRadio).  Of Daemon: the steps of the    *)
(* shutdown that are done leave nothing running but what could not be      *)
(* stopped, and the others have closed nothing (StepsDone).                *)
(***************************************************************************)
EXTENDS ForwarderLifecycle, Integers, Sequences, FiniteSetTheorems, TLAPS

Locked   == {"term", "wait", "kill"}
Starting == {"reset", "spawn", "ready"}
Stopping == Locked \cup {"drain", "halt", "forget", "close", "join"}

(* _pktfwd_lock is held by exactly the thread that signals the group.      *)
LockInv == \A th \in Threads : lock = th <=> pc[th] \in Locked

(* main is in begin() with _running set or in stop() with it cleared.      *)
MainInv ==
    /\ pc["main"] \in Starting \cup Stopping \cup {"off", "up"}
    /\ pc["main"] \in Starting \cup {"up"} => running
    /\ running => pc["main"] \in Starting \cup {"up"}
    /\ pc["main"] \in Stopping => goal["main"] = "stop"

(* dog never runs main's part.                                             *)
DogInv ==
    /\ pc["dog"] \in Locked \cup Starting
                     \cup {"off", "sleep", "idle", "cycle", "halt", "forget"}
    /\ goal["dog"] # "stop"

(* What stop() has closed and joined stays so until begin().               *)
DoneInv ==
    /\ pc["main"] \in {"join", "off"} => sock = "none"
    /\ pc["main"] = "off" => reader = "off" /\ pc["dog"] = "off"

(* Past the kill, stop() has no handle left or has failed.                 *)
GoneInv ==
    /\ pc["main"] = "forget" => proc = None
    /\ pc["main"] \in {"close", "join", "off"} => failed \/ proc = None

(* SMT does not see that a formula is a Boolean: this part of TypeOK is    *)
(* left to Zenon.                                                          *)
Booleans ==
    /\ running \in BOOLEAN
    /\ watching \in BOOLEAN
    /\ scheduler \in BOOLEAN
    /\ failed \in BOOLEAN

IInv ==
    /\ TypeOK
    /\ OwnsEveryProcess
    /\ LockInv
    /\ MainInv
    /\ DogInv
    /\ DoneInv
    /\ GoneInv

-----------------------------------------------------------------------------
(* The invariant holds before the first begin().                           *)
LEMMA InitIInv == Init => IInv
<1>1. Init => Booleans
  BY Zenon DEF Init, Booleans
<1> QED
  BY <1>1, GroupAssumption, SMT
  DEF Booleans, Init, IInv, TypeOK, OwnsEveryProcess, LockInv, MainInv, DogInv,
      DoneInv, GoneInv, Threads, Labels, Locked, Starting, Stopping

(* Stopping the process group, on either thread's behalf.                  *)
LEMMA StopRoutineIInv ==
  ASSUME IInv, NEW th \in Threads,
         Halt(th) \/ Term(th) \/ TermRaises(th) \/ Wait(th)
           \/ Kill(th) \/ KillRaises(th) \/ Forget(th)
  PROVE  IInv'
<1> USE GroupAssumption
    DEF IInv, TypeOK, OwnsEveryProcess, LockInv, MainInv, DogInv, DoneInv,
        GoneInv, Threads, Labels, Locked, Starting, Stopping, At, Go, ctlVars,
        osVars, netVars
<1>1. CASE Halt(th)
  BY <1>1, SMT DEF Halt
<1>2. CASE Term(th)
  BY <1>2, SMT DEF Term
<1>3. CASE TermRaises(th)
  <2>1. Booleans'
    BY <1>3, Zenon DEF TermRaises, HaltRaises, Booleans
  <2>2. CASE th = "main"
    <3>1. failed'
      BY <1>3, <2>2, Zenon DEF TermRaises, HaltRaises
    <3> QED
      BY <1>3, <2>1, <2>2, <3>1, SMT DEF TermRaises, HaltRaises, Booleans
  <2>3. CASE th = "dog"
    BY <1>3, <2>1, <2>3, SMT DEF TermRaises, HaltRaises, Booleans
  <2> QED
    BY <2>2, <2>3
<1>4. CASE Wait(th)
  BY <1>4, SMT DEF Wait
<1>5. CASE Kill(th)
  BY <1>5, SMT DEF Kill
<1>6. CASE KillRaises(th)
  <2>1. Booleans'
    BY <1>6, Zenon DEF KillRaises, HaltRaises, Booleans
  <2>2. CASE th = "main"
    <3>1. failed'
      BY <1>6, <2>2, Zenon DEF KillRaises, HaltRaises
    <3> QED
      BY <1>6, <2>1, <2>2, <3>1, SMT DEF KillRaises, HaltRaises, Booleans
  <2>3. CASE th = "dog"
    BY <1>6, <2>1, <2>3, SMT DEF KillRaises, HaltRaises, Booleans
  <2> QED
    BY <2>2, <2>3
<1>7. CASE Forget(th)
  <2>1. Booleans'
    BY <1>7, Zenon DEF Forget, Booleans
  <2>2. CASE th = "main"
    BY <1>7, <2>1, <2>2, SMT DEF Forget, Booleans
  <2>3. CASE th = "dog"
    BY <1>7, <2>1, <2>3, SMT DEF Forget, Booleans
  <2> QED
    BY <2>2, <2>3
<1> QED
  BY <1>1, <1>2, <1>3, <1>4, <1>5, <1>6, <1>7

(* Starting it, on either thread's behalf.                                 *)
LEMMA StartRoutineIInv ==
  ASSUME IInv, NEW th \in Threads,
         Reset(th) \/ Spawn(th) \/ SpawnRaises(th)
           \/ Started(th) \/ StartedInVain(th)
  PROVE  IInv'
<1> USE GroupAssumption
    DEF IInv, TypeOK, OwnsEveryProcess, LockInv, MainInv, DogInv, DoneInv,
        GoneInv, Threads, Labels, Locked, Starting, Stopping, At, Go, ctlVars,
        osVars, netVars
<1>1. CASE Reset(th)
  BY <1>1, SMT DEF Reset
<1>2. CASE Spawn(th)
  BY <1>2, SMT DEF Spawn
<1>3. CASE SpawnRaises(th)
  <2>1. Booleans'
    BY <1>3, Zenon DEF SpawnRaises, StartRaises, Booleans
  <2>2. CASE th = "main"
    BY <1>3, <2>1, <2>2, SMT DEF SpawnRaises, StartRaises, Booleans
  <2>3. CASE th = "dog"
    BY <1>3, <2>1, <2>3, SMT DEF SpawnRaises, StartRaises, Booleans
  <2> QED
    BY <2>2, <2>3
<1>4. CASE Started(th)
  <2>1. Booleans'
    BY <1>4, Zenon DEF Started, Booleans
  <2> QED
    BY <1>4, <2>1, SMT DEF Started, Booleans
<1>5. CASE StartedInVain(th)
  <2>1. Booleans'
    BY <1>5, Zenon DEF StartedInVain, StartRaises, Booleans
  <2> QED
    BY <1>5, <2>1, SMT DEF StartedInVain, StartRaises, Booleans
<1> QED
  BY <1>1, <1>2, <1>3, <1>4, <1>5

(* begin() and stop().                                                     *)
LEMMA MainIInv ==
  ASSUME IInv, Main
  PROVE  IInv'
<1> USE GroupAssumption
    DEF IInv, TypeOK, OwnsEveryProcess, LockInv, MainInv, DogInv, DoneInv,
        GoneInv, Threads, Labels, Locked, Starting, Stopping, At, Go, ctlVars,
        osVars, netVars
<1>1. CASE BeginRadio
  <2>1. Booleans'
    BY <1>1, Zenon DEF BeginRadio, MayBegin, Booleans
  <2> QED
    BY <1>1, <2>1, SMT DEF BeginRadio, MayBegin, Booleans
<1>2. CASE BeginIdle
  BY <1>2, SMT DEF BeginIdle, MayBegin
<1>3. CASE BeginFails
  <2>1. Booleans'
    BY <1>3, Zenon DEF BeginFails, MayBegin, Booleans
  <2> QED
    BY <1>3, <2>1, SMT DEF BeginFails, MayBegin, Booleans
<1>4. CASE StartWatchdog
  BY <1>4, SMT DEF StartWatchdog
<1>5. CASE StartScheduler
  BY <1>5, SMT DEF StartScheduler
<1>6. CASE Stop
  <2>1. Booleans'
    BY <1>6, Zenon DEF Stop, Booleans
  <2> QED
    BY <1>6, <2>1, SMT DEF Stop, Booleans
<1>7. CASE Drain
  <2>1. Booleans'
    BY <1>7, Zenon DEF Drain, Booleans
  <2> QED
    BY <1>7, <2>1, SMT DEF Drain, Booleans
<1>8. CASE Close
  BY <1>8, SMT DEF Close
<1>9. CASE Join
  BY <1>9, SMT DEF Join
<1> QED
  BY <1>1, <1>2, <1>3, <1>4, <1>5, <1>6, <1>7, <1>8, <1>9 DEF Main

(* The watchdog.                                                           *)
LEMMA DogIInv ==
  ASSUME IInv, Dog
  PROVE  IInv'
<1> USE GroupAssumption
    DEF IInv, TypeOK, OwnsEveryProcess, LockInv, MainInv, DogInv, DoneInv,
        GoneInv, Threads, Labels, Locked, Starting, Stopping, At, Go, ctlVars,
        osVars, netVars
<1>1. CASE ProcessExit \/ Silence
  BY <1>1, SMT DEF ProcessExit, Silence, Restart
<1>2. CASE PowerCycled
  BY <1>2, SMT DEF PowerCycled
<1>3. CASE SpawnCalledOff
  BY <1>3, SMT DEF SpawnCalledOff
<1>4. CASE DogEnds
  BY <1>4, SMT DEF DogEnds
<1> QED
  BY <1>1, <1>2, <1>3, <1>4 DEF Dog

(* The reader, the senders and the operating system.                       *)
LEMMA OthersIInv ==
  ASSUME IInv, Reader \/ SenderMends \/ OperatingSystem
  PROVE  IInv'
<1> USE GroupAssumption
    DEF IInv, TypeOK, OwnsEveryProcess, LockInv, MainInv, DogInv, DoneInv,
        GoneInv, Threads, Labels, Locked, Starting, Stopping, At, Go, ctlVars,
        osVars, netVars
<1>1. CASE ReaderTimeout
  BY <1>1, SMT DEF ReaderTimeout, Loop
<1>2. CASE PullData
  BY <1>2, SMT DEF PullData, Loop
<1>3. CASE ReaderError
  BY <1>3, SMT DEF ReaderError
<1>4. CASE ReaderMends
  BY <1>4, SMT DEF ReaderMends, Recreate
<1>5. CASE ReaderWakes
  BY <1>5, SMT DEF ReaderWakes, Loop
<1>6. CASE SenderMends
  BY <1>6, SMT DEF SenderMends, Recreate
<1>7. CASE SockBreaks
  BY <1>7, SMT DEF SockBreaks
<1>8. CASE RadioPolls
  BY <1>8, SMT DEF RadioPolls
<1>9. CASE RadioExits
  BY <1>9, SMT DEF RadioExits
<1>10. CASE WrapperExits
  BY <1>10, SMT DEF WrapperExits
<1> QED
  BY <1>1, <1>2, <1>3, <1>4, <1>5, <1>6, <1>7, <1>8, <1>9, <1>10
  DEF Reader, OperatingSystem

(* The inductive invariant.                                                *)
THEOREM ForwarderInvariance == Spec => []IInv
<1>1. ASSUME IInv, [Next]_vars
      PROVE  IInv'
  <2>1. CASE \E th \in Threads : Routine(th)
    BY <1>1, <2>1, StopRoutineIInv, StartRoutineIInv DEF Routine
  <2>2. CASE Main
    BY <1>1, <2>2, MainIInv
  <2>3. CASE Dog
    BY <1>1, <2>3, DogIInv
  <2>4. CASE Reader \/ SenderMends \/ OperatingSystem
    BY <1>1, <2>4, OthersIInv
  <2>5. CASE UNCHANGED vars
    BY <1>1, <2>5
    DEF vars, ctlVars, osVars, netVars, IInv, TypeOK, OwnsEveryProcess, LockInv,
        MainInv, DogInv, DoneInv, GoneInv, At
  <2> QED
    BY <1>1, <2>1, <2>2, <2>3, <2>4, <2>5 DEF Next
<1> QED
  BY <1>1, InitIInv, PTL DEF Spec

(* Recovery never runs two processes against the same hardware, and no     *)
(* radio process is orphaned, for any number of process groups.            *)
THEOREM EveryProcessOwned == Spec => []OwnsEveryProcess
<1>1. IInv => OwnsEveryProcess
  BY DEF IInv
<1> QED
  BY <1>1, ForwarderInvariance, PTL

(* When stop() returns nothing runs and, unless it raised, no process is   *)
(* left.                                                                   *)
THEOREM NothingOutlivesStop == Spec => []StoppedMeansStopped
<1>1. IInv => StoppedMeansStopped
  <2> SUFFICES ASSUME IInv, At("main", "off")
               PROVE  /\ ~running
                      /\ lock = None
                      /\ sock = "none"
                      /\ reader = "off"
                      /\ At("dog", "off")
                      /\ ~failed => proc = None /\ wrapper \cup radio = {}
    BY DEF StoppedMeansStopped
  <2>1. ~running /\ sock = "none" /\ reader = "off" /\ At("dog", "off")
    BY DEF IInv, MainInv, DoneInv, At, Starting
  <2>2. lock = None
    BY <2>1 DEF IInv, TypeOK, LockInv, Locked, Threads, At
  <2>3. ~failed => proc = None
    BY DEF IInv, GoneInv, At
  <2>4. proc = None => wrapper \cup radio = {}
    BY GroupAssumption DEF IInv, TypeOK, OwnsEveryProcess
  <2> QED
    BY <2>1, <2>2, <2>3, <2>4
<1> QED
  BY <1>1, ForwarderInvariance, PTL

-----------------------------------------------------------------------------
(* What the storage takes is kept: RecordWriter.                           *)
CONSTANTS Senders, Jobs, Missing, CloseTask, Slots, TTL, MaxAdverts, MaxClock, MaxFaults
VARIABLES clock, jobs, known, rows, changed, cache, queue, writer, pending, life, closing,
          executor, connection, errors, mqtt, faults, adverts

Log == INSTANCE RecordWriter WITH None <- Missing, Close <- CloseTask

(* What a handler, the list and the thread may be.                         *)
AdvertType == [stage : {"idle", "ask", "read", "keep", "told", "store"},
               key : Senders \cup {Missing}, asked : Nat, value : SUBSET Senders]
ListType == [at : Nat, value : SUBSET Senders]
WorkType == [key : Senders \cup {CloseTask}, found : BOOLEAN,
             stage : {"write", "commit", "publish", "close"}]

(* Types, and that only handlers at work have a sender.                    *)
LogType ==
    /\ clock \in Nat
    /\ jobs \in [Jobs -> AdvertType]
    /\ \A j \in Jobs : jobs[j].stage # "idle" => jobs[j].key \in Senders
    /\ rows \in SUBSET Senders
    /\ changed \in [Senders -> Nat]
    /\ cache \in ListType \cup {Missing}
    /\ queue \in Seq(Senders \cup {CloseTask})
    /\ writer \in WorkType \cup {Missing}
    /\ writer # Missing => (writer.key = CloseTask <=> writer.stage = "close")
    /\ pending \in Nat

(* A list differs from the table only by what changed since it was asked for. *)
RecentList(value, at) ==
    \A k \in Senders : (k \in value) = (k \in rows) \/ changed[k] >= at

(* Lists that were put away or will be are recent.                         *)
ListInv ==
    /\ cache # Missing => cache.at <= clock /\ RecentList(cache.value, cache.at)
    /\ \A j \in Jobs : jobs[j].stage \in {"read", "keep"} => jobs[j].asked <= clock
    /\ \A j \in Jobs : jobs[j].stage = "keep" => RecentList(jobs[j].value, jobs[j].asked)

(* A task waits in the queue.                                              *)
Queued(x) == \E i \in DOMAIN queue : queue[i] = x

(* Records in the queue; the closing of the connection is behind them.     *)
Ahead(q) == IF q # <<>> /\ q[Len(q)] = CloseTask THEN Len(q) - 1 ELSE Len(q)
(* A record that the thread has begun.                                     *)
AtWork == IF writer # Missing /\ writer.key # CloseTask THEN 1 ELSE 0

(* The connection is closed behind every record, once for the close() that *)
(* waits for it, and each slot is of one record.                           *)
CloseInv ==
    /\ \A i \in DOMAIN queue : queue[i] = CloseTask => i = Len(queue)
    /\ closing = "wait" <=> Queued(CloseTask) \/ (writer # Missing /\ writer.stage = "close")
    /\ writer # Missing /\ writer.stage = "close" => queue = <<>>
    /\ pending = Ahead(queue) + AtWork

(* How far the end has come: nothing begins once it is closed, and what    *)
(* has not failed was done.                                                *)
EndInv ==
    /\ closing \in {Missing, "submit", "wait", "shut", "end"}
    /\ life \in {"open", "closed", "complete"}
    /\ closing # Missing => life = "closed"
    /\ life = "open" => executor = "up" /\ mqtt = "up"
    /\ executor = "down" => queue = <<>> /\ writer = Missing
    /\ executor = "down" /\ "writer" \notin errors => connection = "closed"
    /\ closing = "wait" => executor = "up"
    /\ closing = "shut" /\ "writer" \notin errors =>
          queue = <<>> /\ writer = Missing /\ connection = "closed"
    /\ closing = "end" /\ "writer" \notin errors => executor = "down"
    /\ mqtt = "down" => executor = "down"
    /\ executor \in {"up", "down"} /\ mqtt \in {"up", "down"}
    /\ life = "complete" => executor = "down" /\ connection = "closed" /\ mqtt = "down"

(* The inductive invariant.                                                *)
LogInv == LogType /\ ListInv /\ CloseInv /\ EndInv

-----------------------------------------------------------------------------
(* It holds at the start.                                                  *)
LEMMA LogInit == Log!RecordsApart /\ Log!Init => LogInv
<1> SUFFICES ASSUME Log!RecordsApart, Log!Init PROVE LogInv
  OBVIOUS
<1> USE DEF Log!Init, Log!Idle, Log!RecordsApart
<1>1. LogType
  BY DEF LogType, AdvertType, ListType, WorkType
<1>2. ListInv
  BY DEF ListInv
<1>3. CloseInv
  BY DEF CloseInv, Queued, Ahead, AtWork
<1>4. EndInv
  BY DEF EndInv
<1>5. QED
  BY <1>1, <1>2, <1>3, <1>4 DEF LogInv

(* One more in the queue, or one less.                                     *)
LEMMA OneMoreTask ==
    ASSUME NEW s \in Seq(Senders \cup {CloseTask}), NEW x \in Senders \cup {CloseTask},
           \A i \in DOMAIN s : s[i] # CloseTask, CloseTask \notin Senders
    PROVE  LET q == Append(s, x)
           IN  /\ q \in Seq(Senders \cup {CloseTask}) /\ q # <<>>
               /\ \A i \in DOMAIN q : q[i] = CloseTask => i = Len(q)
               /\ Ahead(q) = IF x = CloseTask THEN Ahead(s) ELSE Ahead(s) + 1
               /\ (\E i \in DOMAIN q : q[i] = CloseTask) <=> x = CloseTask
<1> DEFINE q == Append(s, x)
<1>1. /\ q \in Seq(Senders \cup {CloseTask}) /\ Len(q) = Len(s) + 1 /\ q[Len(s) + 1] = x
      /\ \A i \in 1..Len(s) : q[i] = s[i]
      /\ Len(s) \in Nat /\ DOMAIN s = 1..Len(s) /\ DOMAIN q = 1..(Len(s) + 1)
      /\ s = <<>> <=> Len(s) = 0
      /\ q # <<>>
  OBVIOUS
<1> HIDE DEF q
<1>2. Ahead(s) = Len(s)
  <2>1. s # <<>> => s[Len(s)] # CloseTask
    BY <1>1
  <2>2. QED
    BY <2>1 DEF Ahead
<1>3. Ahead(q) = IF x = CloseTask THEN Ahead(s) ELSE Ahead(s) + 1
  <2>1. q[Len(q)] = x
    BY <1>1
  <2>2. Len(q) - 1 = Len(s)
    BY <1>1
  <2>3. CASE x = CloseTask
    BY <1>1, <1>2, <2>1, <2>2, <2>3 DEF Ahead
  <2>4. CASE x # CloseTask
    BY <1>1, <1>2, <2>1, <2>4 DEF Ahead
  <2>5. QED
    BY <2>3, <2>4
<1>4. QED
  BY <1>1, <1>3 DEF q

(* The thread takes the next task.                                         *)
LEMMA OneTaskLess ==
    ASSUME NEW s \in Seq(Senders \cup {CloseTask}), s # <<>>,
           \A i \in DOMAIN s : s[i] = CloseTask => i = Len(s)
    PROVE  LET q == Tail(s)
           IN  /\ Head(s) \in Senders \cup {CloseTask}
               /\ q \in Seq(Senders \cup {CloseTask})
               /\ \A i \in DOMAIN q : q[i] = CloseTask => i = Len(q)
               /\ Head(s) = CloseTask => q = <<>> /\ Ahead(s) = 0
               /\ Head(s) # CloseTask => /\ Ahead(s) = Ahead(q) + 1
                                         /\ (\E i \in DOMAIN q : q[i] = CloseTask)
                                               <=> \E i \in DOMAIN s : s[i] = CloseTask
<1> DEFINE q == Tail(s)
<1>1. /\ q \in Seq(Senders \cup {CloseTask}) /\ Len(q) = Len(s) - 1
      /\ \A i \in 1..(Len(s) - 1) : q[i] = s[i + 1]
      /\ Len(s) \in Nat /\ Len(s) >= 1 /\ DOMAIN s = 1..Len(s) /\ DOMAIN q = 1..(Len(s) - 1)
      /\ q = <<>> <=> Len(q) = 0
      /\ Head(s) = s[1]
  <2>1. Len(s) \in Nat /\ Len(s) >= 1 /\ DOMAIN s = 1..Len(s) /\ Head(s) = s[1]
    OBVIOUS
  <2>2. /\ q \in Seq(Senders \cup {CloseTask}) /\ Len(q) = Len(s) - 1
        /\ \A i \in 1..(Len(s) - 1) : q[i] = s[i + 1]
    BY <2>1
  <2>3. DOMAIN q = 1..Len(q) /\ (q = <<>> <=> Len(q) = 0)
    <3> HIDE DEF q
    <3>1. QED
      BY <2>2
  <2>4. QED
    BY <2>1, <2>2, <2>3
<1> HIDE DEF q
<1>2. s[1] \in Senders \cup {CloseTask}
  BY <1>1
<1>3. \A i \in DOMAIN q : q[i] = CloseTask => i = Len(q)
  BY <1>1
<1>4. s[1] = CloseTask => q = <<>> /\ Ahead(s) = 0
  BY <1>1 DEF Ahead
<1>5. ASSUME s[1] # CloseTask PROVE Ahead(s) = Ahead(q) + 1
  <2>1. CASE Len(s) = 1
    BY <1>1, <1>5, <2>1 DEF Ahead
  <2>2. CASE Len(s) > 1
    <3>1. q[Len(q)] = s[Len(s)]
      BY <1>1, <2>2
    <3>2. QED
      BY <1>1, <2>2, <3>1 DEF Ahead
  <2>3. QED
    BY <1>1, <2>1, <2>2
<1>6. ASSUME s[1] # CloseTask
      PROVE  (\E i \in DOMAIN q : q[i] = CloseTask) <=> \E i \in DOMAIN s : s[i] = CloseTask
  <2>1. ASSUME NEW i \in DOMAIN q, q[i] = CloseTask PROVE \E k \in DOMAIN s : s[k] = CloseTask
    BY <1>1, <2>1
  <2>2. ASSUME NEW i \in DOMAIN s, s[i] = CloseTask PROVE \E k \in DOMAIN q : q[k] = CloseTask
    <3>1. i - 1 \in 1..(Len(s) - 1) /\ (i - 1) + 1 = i
      BY <1>1, <1>6, <2>2
    <3>2. QED
      BY <1>1, <2>2, <3>1
  <2>3. QED
    BY <2>1, <2>2
<1>7. QED
  BY <1>1, <1>2, <1>3, <1>4, <1>5, <1>6 DEF q
-----------------------------------------------------------------------------
(* A step of handlers or rows leaves the thread and the end as they are.   *)
LEMMA SameThread ==
    ASSUME CloseInv, EndInv, UNCHANGED <<Log!thread, Log!ending>>
    PROVE  CloseInv' /\ EndInv'
<1> USE DEF Log!thread, Log!ending
<1>1. CloseInv'
  BY DEF CloseInv, Queued, Ahead, AtWork
<1>2. EndInv'
  BY DEF EndInv
<1>3. QED
  BY <1>1, <1>2

(* A handler goes on with this.                                            *)
Goes(j, task) ==
    /\ jobs' = [jobs EXCEPT ![j] = task]
    /\ task.stage # "idle" => task.key \in Senders
    /\ task.stage \in {"read", "keep"} => task.asked <= clock
    /\ task.stage = "keep" => RecentList(task.value, task.asked)

(* A task goes on, and nothing else changes but the list it puts away.     *)
LEMMA TaskKeeps ==
    ASSUME LogInv, NEW j \in Jobs, NEW task \in AdvertType, Goes(j, task),
           UNCHANGED <<clock, rows, changed>>
    PROVE  /\ jobs' \in [Jobs -> AdvertType]
           /\ \A i \in Jobs : jobs'[i].stage # "idle" => jobs'[i].key \in Senders
           /\ \A i \in Jobs : jobs'[i].stage \in {"read", "keep"} => jobs'[i].asked <= clock'
           /\ \A i \in Jobs : jobs'[i].stage = "keep" =>
                                 RecentList(jobs[i].value, jobs[i].asked)'
<1> USE DEF Goes
<1>1. \A i \in Jobs : jobs'[i] = IF i = j THEN task ELSE jobs[i]
  BY DEF LogInv, LogType
<1>2. jobs' \in [Jobs -> AdvertType]
  BY DEF LogInv, LogType
<1>3. ASSUME NEW i \in Jobs, jobs'[i].stage = "keep"
      PROVE  RecentList(jobs[i].value, jobs[i].asked)'
  <2>1. CASE i = j
    BY <1>1, <1>3, <2>1 DEF RecentList
  <2>2. CASE i # j
    BY <1>1, <1>3, <2>2 DEF LogInv, ListInv, RecentList
  <2>3. QED
    BY <2>1, <2>2
<1>4. QED
  BY <1>1, <1>2, <1>3 DEF LogInv, LogType, ListInv

(* A list stays recent or is dropped.                                      *)
LEMMA SameList ==
    ASSUME LogInv, cache' \in {cache, Missing}, UNCHANGED <<clock, rows, changed>>
    PROVE  /\ cache' \in ListType \cup {Missing}
           /\ cache' # Missing => cache'.at <= clock' /\ RecentList(cache.value, cache.at)'
BY DEF LogInv, LogType, ListInv, RecentList

(* The handlers of adverts.                                                *)
LEMMA HandlersKeep ==
    ASSUME Log!RecordsApart, LogInv,
           \E j \in Jobs : \/ \E k \in Senders : Log!Arrive(j, k)
                           \/ Log!Ask(j) \/ Log!Read(j) \/ Log!Keep(j) \/ Log!Told(j)
    PROVE  LogInv'
<1> PICK j \in Jobs : \/ \E k \in Senders : Log!Arrive(j, k)
                      \/ Log!Ask(j) \/ Log!Read(j) \/ Log!Keep(j) \/ Log!Told(j)
  OBVIOUS
<1>0. /\ jobs[j] \in AdvertType /\ clock \in Nat /\ rows \in SUBSET Senders
      /\ jobs[j].stage # "idle" => jobs[j].key \in Senders
  BY DEF LogInv, LogType
<1>1. UNCHANGED <<clock, rows, changed, Log!thread, Log!ending>>
  BY DEF Log!Arrive, Log!Ask, Log!Read, Log!Keep, Log!Told, Log!table
<1>2. CloseInv' /\ EndInv'
  BY <1>1, SameThread DEF LogInv
<1>3. \E task \in AdvertType : Goes(j, task)
  <2>1. ASSUME NEW k \in Senders, Log!Arrive(j, k)
        PROVE  \E task \in AdvertType : Goes(j, task)
    <3> DEFINE task == [Log!Idle EXCEPT !.key = k, !.stage = IF k \in known THEN "store" ELSE "ask"]
    <3>1. task \in AdvertType /\ task.stage \in {"ask", "store"} /\ task.key = k
      BY DEF AdvertType, Log!Idle
    <3>2. jobs' = [jobs EXCEPT ![j] = task]
      BY <2>1 DEF Log!Arrive
    <3> HIDE DEF task
    <3>3. QED
      BY <3>1, <3>2 DEF Goes
  <2>2. CASE Log!Ask(j)
    <3>1. CASE Log!Fresh
      <4> DEFINE task == [jobs[j] EXCEPT !.stage = "told", !.value = cache.value]
      <4>1. cache \in ListType
        BY <3>1 DEF Log!Fresh, LogInv, LogType
      <4>2. task \in AdvertType /\ task.stage = "told" /\ task.key = jobs[j].key
        BY <1>0, <4>1 DEF AdvertType, ListType
      <4>3. jobs' = [jobs EXCEPT ![j] = task]
        BY <2>2, <3>1 DEF Log!Ask
      <4>4. jobs[j].key \in Senders
        BY <1>0, <2>2 DEF Log!Ask
      <4> HIDE DEF task
      <4>5. QED
        BY <4>2, <4>3, <4>4 DEF Goes
    <3>2. CASE ~Log!Fresh
      <4> DEFINE task == [jobs[j] EXCEPT !.stage = "read", !.asked = clock]
      <4>1. /\ task \in AdvertType /\ task.stage = "read" /\ task.key = jobs[j].key
            /\ task.asked = clock
        BY <1>0 DEF AdvertType
      <4>2. jobs' = [jobs EXCEPT ![j] = task]
        BY <2>2, <3>2 DEF Log!Ask
      <4>3. jobs[j].key \in Senders /\ clock <= clock
        BY <1>0, <2>2 DEF Log!Ask
      <4> HIDE DEF task
      <4>4. QED
        BY <4>1, <4>2, <4>3 DEF Goes
    <3>3. QED
      BY <3>1, <3>2
  <2>3. CASE Log!Read(j)
    <3>1. jobs[j].asked <= clock /\ jobs[j].key \in Senders
      BY <1>0, <2>3 DEF LogInv, ListInv, Log!Read
    <3>2. CASE jobs' = [jobs EXCEPT ![j].stage = "keep", ![j].value = rows]
      <4> DEFINE task == [jobs[j] EXCEPT !.stage = "keep", !.value = rows]
      <4>1. /\ task \in AdvertType /\ task.stage = "keep" /\ task.key = jobs[j].key
            /\ task.asked = jobs[j].asked /\ task.value = rows
        BY <1>0 DEF AdvertType
      <4>2. jobs' = [jobs EXCEPT ![j] = task]
        BY <3>2 DEF LogInv, LogType
      <4> HIDE DEF task
      <4>3. QED
        BY <3>1, <4>1, <4>2 DEF Goes, RecentList
    <3>3. CASE jobs' = [jobs EXCEPT ![j].stage = "told"]
      <4> DEFINE task == [jobs[j] EXCEPT !.stage = "told"]
      <4>1. task \in AdvertType /\ task.stage = "told" /\ task.key = jobs[j].key
        BY <1>0 DEF AdvertType
      <4>2. jobs' = [jobs EXCEPT ![j] = task]
        BY <3>3
      <4> HIDE DEF task
      <4>3. QED
        BY <3>1, <4>1, <4>2 DEF Goes
    <3>4. QED
      BY <2>3, <3>2, <3>3 DEF Log!Read
  <2>4. CASE Log!Keep(j)
    <3> DEFINE task == [jobs[j] EXCEPT !.stage = "told"]
    <3>1. task \in AdvertType /\ task.stage = "told" /\ task.key = jobs[j].key
      BY <1>0 DEF AdvertType
    <3>2. jobs' = [jobs EXCEPT ![j] = task] /\ jobs[j].key \in Senders
      BY <1>0, <2>4 DEF Log!Keep
    <3> HIDE DEF task
    <3>3. QED
      BY <3>1, <3>2 DEF Goes
  <2>5. CASE Log!Told(j)
    <3> DEFINE task == [Log!Idle EXCEPT !.key = jobs[j].key, !.stage = "store"]
    <3>1. task \in AdvertType /\ task.stage = "store" /\ task.key = jobs[j].key
      BY <1>0 DEF AdvertType, Log!Idle
    <3>2. jobs' = [jobs EXCEPT ![j] = task] /\ jobs[j].key \in Senders
      BY <1>0, <2>5 DEF Log!Told
    <3> HIDE DEF task
    <3>3. QED
      BY <3>1, <3>2 DEF Goes
  <2>6. QED
    BY <2>1, <2>2, <2>3, <2>4, <2>5
<1>4. /\ cache' \in ListType \cup {Missing}
      /\ cache' # Missing => cache'.at <= clock' /\ RecentList(cache.value, cache.at)'
  <2>1. CASE Log!Keep(j)
    <3>1. /\ cache' = [at |-> jobs[j].asked, value |-> jobs[j].value]
          /\ jobs[j].asked <= clock /\ RecentList(jobs[j].value, jobs[j].asked)
      BY <2>1 DEF Log!Keep, Log!Dated, LogInv, ListInv
    <3>2. cache' \in ListType /\ cache'.at = jobs[j].asked /\ cache'.value = jobs[j].value
      BY <1>0, <3>1 DEF AdvertType, ListType
    <3>3. QED
      BY <1>1, <3>1, <3>2 DEF RecentList
  <2>2. CASE cache' = cache
    BY <1>1, <2>2, SameList
  <2>3. QED
    BY <2>1, <2>2 DEF Log!Arrive, Log!Ask, Log!Read, Log!Told, Log!table
<1>5. LogType'
  BY <1>1, <1>3, <1>4, TaskKeeps DEF LogInv, LogType, Log!thread
<1>6. ListInv'
  BY <1>1, <1>3, <1>4, TaskKeeps DEF ListInv
<1>7. QED
  BY <1>2, <1>5, <1>6 DEF LogInv
(* Nothing but the list and the time changes.                              *)
LEMMA ListStays ==
    ASSUME LogInv, cache' \in {cache, Missing}, clock' \in Nat, clock' >= clock,
           UNCHANGED <<jobs, rows, changed>>
    PROVE  ListInv' /\ cache' \in ListType \cup {Missing}
<1>0. /\ jobs \in [Jobs -> AdvertType] /\ clock \in Nat /\ cache \in ListType \cup {Missing}
      /\ ListInv
  BY DEF LogInv, LogType
<1>1. cache' # Missing => cache'.at <= clock' /\ RecentList(cache.value, cache.at)'
  BY <1>0 DEF ListInv, RecentList, ListType
<1>2. ASSUME NEW j \in Jobs, jobs[j].stage \in {"read", "keep"} PROVE jobs[j].asked <= clock'
  BY <1>0, <1>2 DEF ListInv, AdvertType
<1>3. ASSUME NEW j \in Jobs, jobs[j].stage = "keep"
      PROVE  RecentList(jobs[j].value, jobs[j].asked)'
  BY <1>0, <1>3 DEF ListInv, RecentList
<1>4. QED
  BY <1>0, <1>1, <1>2, <1>3 DEF ListInv

(* The row of a sender comes or goes.                                      *)
LEMMA RowChanges ==
    ASSUME LogInv, NEW k \in Senders, rows' \in SUBSET Senders,
           \A x \in Senders : x # k => (x \in rows' <=> x \in rows),
           changed' = [changed EXCEPT ![k] = clock], cache' \in {cache, Missing},
           UNCHANGED <<clock, jobs>>
    PROVE  /\ ListInv' /\ cache' \in ListType \cup {Missing}
           /\ changed' \in [Senders -> Nat]
<1>0. /\ jobs \in [Jobs -> AdvertType] /\ clock \in Nat /\ cache \in ListType \cup {Missing}
      /\ ListInv /\ changed \in [Senders -> Nat]
  BY DEF LogInv, LogType
<1>1. ASSUME NEW value, NEW at \in Nat, at <= clock, RecentList(value, at)
      PROVE  \A x \in Senders : (x \in value) = (x \in rows') \/ changed'[x] >= at
  <2> SUFFICES ASSUME NEW x \in Senders PROVE (x \in value) = (x \in rows') \/ changed'[x] >= at
    OBVIOUS
  <2>1. CASE x = k
    BY <1>0, <1>1, <2>1
  <2>2. CASE x # k
    BY <1>0, <1>1, <2>2 DEF RecentList
  <2>3. QED
    BY <2>1, <2>2
<1>2. cache' # Missing => cache'.at <= clock' /\ RecentList(cache.value, cache.at)'
  <2> SUFFICES ASSUME cache' # Missing
               PROVE  cache'.at <= clock' /\ RecentList(cache.value, cache.at)'
    OBVIOUS
  <2>1. cache' = cache /\ cache \in ListType /\ cache.at <= clock
        /\ RecentList(cache.value, cache.at)
    BY <1>0 DEF ListInv
  <2>2. cache.at \in Nat
    BY <2>1 DEF ListType
  <2>3. \A x \in Senders : (x \in cache.value) = (x \in rows') \/ changed'[x] >= cache.at
    BY <1>1, <2>1, <2>2
  <2>4. QED
    BY <2>1, <2>3 DEF RecentList
<1>3. ASSUME NEW j \in Jobs, jobs[j].stage = "keep"
      PROVE  RecentList(jobs[j].value, jobs[j].asked)'
  <2>1. jobs[j].asked \in Nat /\ jobs[j].asked <= clock /\ RecentList(jobs[j].value, jobs[j].asked)
    BY <1>0, <1>3 DEF ListInv, AdvertType
  <2>2. \A x \in Senders : (x \in jobs[j].value) = (x \in rows') \/ changed'[x] >= jobs[j].asked
    BY <1>1, <2>1
  <2>3. QED
    BY <2>2 DEF RecentList
<1>4. QED
  BY <1>0, <1>2, <1>3 DEF ListInv

(* Rows come and go, and time passes.                                      *)
LEMMA TableKeeps ==
    ASSUME Log!RecordsApart, LogInv,
           \/ Log!ForgetSome \/ Log!Tick \/ Log!Write \/ Log!Commit
           \/ \E k \in Senders : Log!Delete(k)
    PROVE  LogInv'
<1>0. LogType /\ ListInv /\ CloseInv /\ EndInv
  BY DEF LogInv
<1>1. CASE Log!ForgetSome
  <2>1. UNCHANGED <<clock, jobs, rows, changed, cache, queue, writer, pending, Log!thread,
                    Log!ending>>
    BY <1>1 DEF Log!ForgetSome, Log!table, Log!thread
  <2>2. LogType' /\ ListInv'
    BY <1>0, <2>1, ListStays DEF LogType
  <2>3. QED
    BY <1>0, <2>1, <2>2, SameThread DEF LogInv
<1>2. CASE Log!Tick
  <2>1. /\ UNCHANGED <<jobs, rows, changed, cache, queue, writer, pending, Log!thread,
                       Log!ending>>
        /\ clock' \in Nat /\ clock' >= clock
    BY <1>0, <1>2 DEF Log!Tick, Log!table, Log!thread, LogType
  <2>2. LogType' /\ ListInv'
    BY <1>0, <2>1, ListStays DEF LogType
  <2>3. QED
    BY <1>0, <2>1, <2>2, SameThread DEF LogInv
<1>3. CASE Log!Write
  <2>1. /\ UNCHANGED <<clock, jobs, rows, changed, queue, pending, Log!ending>>
        /\ writer \in WorkType /\ writer.stage = "write" /\ cache' = Missing
        /\ writer' = [writer EXCEPT !.stage = "commit"]
    BY <1>0, <1>3 DEF Log!Write, LogType
  <2>2. /\ writer' \in WorkType /\ writer'.stage = "commit" /\ writer'.key = writer.key
        /\ writer' # Missing /\ writer # Missing
    BY <2>1 DEF WorkType, Log!RecordsApart
  <2>3. LogType' /\ ListInv'
    BY <1>0, <2>1, <2>2, ListStays DEF LogType
  <2>4. CloseInv'
    BY <1>0, <2>1, <2>2 DEF CloseInv, Queued, Ahead, AtWork, Log!ending
  <2>5. EndInv'
    BY <1>0, <2>1, <2>2 DEF EndInv, Log!ending
  <2>6. QED
    BY <2>3, <2>4, <2>5 DEF LogInv
<1>4. CASE Log!Commit
  <2>1. /\ UNCHANGED <<clock, jobs, cache, queue, pending, Log!ending>>
        /\ writer \in WorkType /\ writer.stage = "commit" /\ writer.key \in Senders
        /\ writer' = [writer EXCEPT !.stage = "publish"]
    BY <1>0, <1>4 DEF Log!Commit, LogType, WorkType
  <2>2. /\ writer' \in WorkType /\ writer'.stage = "publish" /\ writer'.key = writer.key
        /\ writer' # Missing /\ writer # Missing
    BY <2>1 DEF WorkType, Log!RecordsApart
  <2>3. CASE UNCHANGED <<rows, changed>>
    <3>1. LogType' /\ ListInv'
      BY <1>0, <2>1, <2>2, <2>3, ListStays DEF LogType
    <3>2. CloseInv'
      BY <1>0, <2>1, <2>2 DEF CloseInv, Queued, Ahead, AtWork, Log!ending
    <3>3. EndInv'
      BY <1>0, <2>1, <2>2 DEF EndInv, Log!ending
    <3>4. QED
      BY <3>1, <3>2, <3>3 DEF LogInv
  <2>4. CASE /\ rows' = rows \cup {writer.key}
             /\ changed' = [changed EXCEPT ![writer.key] = clock]
    <3>1. rows' \in SUBSET Senders
      BY <1>0, <2>1, <2>4 DEF LogType
    <3>2. ListInv' /\ cache' \in ListType \cup {Missing} /\ changed' \in [Senders -> Nat]
      BY <2>1, <2>4, <3>1, RowChanges
    <3>3. LogType'
      BY <1>0, <2>1, <2>2, <3>1, <3>2 DEF LogType
    <3>4. CloseInv'
      BY <1>0, <2>1, <2>2 DEF CloseInv, Queued, Ahead, AtWork, Log!ending
    <3>5. EndInv'
      BY <1>0, <2>1, <2>2 DEF EndInv, Log!ending
    <3>6. QED
      BY <3>2, <3>3, <3>4, <3>5 DEF LogInv
  <2>5. QED
    BY <1>4, <2>3, <2>4 DEF Log!Commit
<1>5. ASSUME NEW k \in Senders, Log!Delete(k) PROVE LogInv'
  <2>1. /\ UNCHANGED <<clock, jobs, queue, writer, pending, Log!thread, Log!ending>>
        /\ rows' = rows \ {k} /\ changed' = [changed EXCEPT ![k] = clock]
        /\ cache' \in {cache, Missing}
    BY <1>5 DEF Log!Delete, Log!thread
  <2>2. rows' \in SUBSET Senders
    BY <1>0, <2>1 DEF LogType
  <2>3. ListInv' /\ cache' \in ListType \cup {Missing} /\ changed' \in [Senders -> Nat]
    BY <2>1, <2>2, RowChanges
  <2>4. LogType'
    BY <1>0, <2>1, <2>2, <2>3 DEF LogType
  <2>5. QED
    BY <1>0, <2>1, <2>3, <2>4, SameThread DEF LogInv
<1>6. QED
  BY <1>1, <1>2, <1>3, <1>4, <1>5

-----------------------------------------------------------------------------
(* A record is taken, or refused.                                          *)
LEMMA SubmitKeeps ==
    ASSUME Log!RecordsApart, LogInv, NEW j \in Jobs, Log!Submit(j)
    PROVE  LogInv'
<1>0. LogType /\ ListInv /\ CloseInv /\ EndInv
  BY DEF LogInv
<1>1. /\ jobs[j] \in AdvertType /\ jobs[j].key \in Senders
      /\ UNCHANGED <<clock, rows, changed, cache, writer, Log!ending>>
  BY <1>0 DEF LogType, Log!Submit, Log!table
<1>2. Log!Idle \in AdvertType /\ Goes(j, Log!Idle)
  BY DEF Log!Submit, Log!Idle, AdvertType, Goes
<1>3. ListInv'
  BY <1>0, <1>1, <1>2, TaskKeeps, SameList DEF ListInv
<1>4. CASE Log!Admitted
  <2>1. /\ queue' = Append(queue, jobs[j].key) /\ pending' = pending + 1
        /\ life = "open" /\ executor = "up" /\ closing = Missing
    BY <1>0, <1>4 DEF Log!Submit, Log!Admitted, EndInv
  <2>2. closing # "wait"
    BY <2>1 DEF Log!RecordsApart
  <2>3. /\ \A i \in DOMAIN queue : queue[i] # CloseTask
        /\ ~(writer # Missing /\ writer.stage = "close")
    BY <1>0, <2>2 DEF CloseInv, Queued
  <2>4. /\ queue' \in Seq(Senders \cup {CloseTask})
        /\ \A i \in DOMAIN queue' : queue'[i] = CloseTask => i = Len(queue')
        /\ Ahead(queue') = Ahead(queue) + 1
        /\ ~\E i \in DOMAIN queue' : queue'[i] = CloseTask
    <3>1. jobs[j].key # CloseTask /\ CloseTask \notin Senders
      BY <1>1 DEF Log!RecordsApart
    <3>2. queue \in Seq(Senders \cup {CloseTask})
      BY <1>0 DEF LogType
    <3>3. QED
      BY <1>1, <2>1, <2>3, <3>1, <3>2, OneMoreTask
  <2>5. LogType'
    BY <1>0, <1>1, <1>2, <2>1, <2>4, TaskKeeps, SameList DEF LogType
  <2>6. CloseInv'
    <3>1. Ahead(queue)' = Ahead(queue) + 1 /\ AtWork' = AtWork /\ Ahead(queue) \in Int
          /\ AtWork \in Int
      <4>1. Len(queue) \in Int
        BY <1>0 DEF LogType
      <4>2. QED
        BY <1>1, <2>4, <4>1 DEF Ahead, AtWork
    <3>2. closing' = closing /\ writer' = writer
      BY <1>1 DEF Log!ending
    <3>3. pending' = Ahead(queue)' + AtWork'
      BY <1>0, <2>1, <3>1 DEF CloseInv
    <3>4. QED
      BY <2>1, <2>2, <2>3, <2>4, <3>2, <3>3 DEF CloseInv, Queued
  <2>7. EndInv'
    BY <1>0, <1>1, <2>1 DEF EndInv, Log!ending, Log!RecordsApart
  <2>8. QED
    BY <1>3, <2>5, <2>6, <2>7 DEF LogInv
<1>5. CASE ~Log!Admitted
  <2>1. UNCHANGED <<queue, writer, pending, Log!thread, Log!ending>>
    BY <1>5 DEF Log!Submit, Log!thread
  <2>2. LogType'
    BY <1>0, <1>1, <1>2, <2>1, TaskKeeps, SameList DEF LogType
  <2>3. QED
    BY <1>0, <1>3, <2>1, <2>2, SameThread DEF LogInv
<1>6. QED
  BY <1>4, <1>5
(* The thread begins a record or the closing of its connection.            *)
LEMMA BeginKeeps ==
    ASSUME Log!RecordsApart, LogInv, Log!Begin
    PROVE  LogInv'
<1>0. LogType /\ ListInv /\ CloseInv /\ EndInv
  BY DEF LogInv
<1>1. /\ queue \in Seq(Senders \cup {CloseTask}) /\ queue # <<>> /\ writer = Missing
      /\ queue' = Tail(queue)
      /\ UNCHANGED <<clock, jobs, rows, changed, cache, pending, life, closing, executor,
                     errors, mqtt>>
  BY <1>0 DEF LogType, Log!Begin, Log!table
<1>2. ListInv' /\ cache' \in ListType \cup {Missing}
  BY <1>0, <1>1, ListStays DEF LogType
<1>3. /\ Head(queue) \in Senders \cup {CloseTask}
      /\ queue' \in Seq(Senders \cup {CloseTask})
      /\ \A i \in DOMAIN queue' : queue'[i] = CloseTask => i = Len(queue')
      /\ Head(queue) = CloseTask => queue' = <<>> /\ Ahead(queue) = 0
      /\ Head(queue) # CloseTask => /\ Ahead(queue) = Ahead(queue') + 1
                                    /\ (\E i \in DOMAIN queue' : queue'[i] = CloseTask)
                                          <=> Queued(CloseTask)
  BY <1>0, <1>1, OneTaskLess DEF CloseInv, Queued
<1>4. AtWork = 0
  BY <1>1 DEF AtWork
<1>5. CASE Head(queue) = CloseTask
  <2>1. /\ writer' = [key |-> CloseTask, found |-> FALSE, stage |-> "close"]
        /\ connection' = connection /\ queue' = <<>>
    BY <1>3, <1>5 DEF Log!Begin
  <2>2. writer' \in WorkType /\ writer'.key = CloseTask /\ writer'.stage = "close"
    BY <2>1 DEF WorkType
  <2>3. writer' # Missing
    BY <2>2 DEF Log!RecordsApart, WorkType
  <2>4. Queued(CloseTask)
    BY <1>1, <1>5 DEF Queued
  <2>5. LogType'
    BY <1>0, <1>1, <1>2, <1>3, <2>2 DEF LogType
  <2>6. CloseInv'
    BY <1>0, <1>1, <1>3, <1>4, <1>5, <2>1, <2>2, <2>3, <2>4 DEF CloseInv, Queued, AtWork, Ahead
  <2>7. EndInv'
    <3>1. closing = "wait" /\ "wait" # "shut"
      BY <1>0, <2>4 DEF CloseInv
    <3>2. QED
      BY <1>0, <1>1, <2>1, <3>1 DEF EndInv
  <2>8. QED
    BY <1>2, <2>5, <2>6, <2>7 DEF LogInv
<1>6. CASE Head(queue) # CloseTask
  <2>1. /\ writer' = [key |-> Head(queue), found |-> Head(queue) \in rows, stage |-> "write"]
        /\ Head(queue) \in Senders
    BY <1>3, <1>6 DEF Log!Begin
  <2>2. writer' \in WorkType /\ writer'.key \in Senders /\ writer'.stage = "write"
    BY <2>1 DEF WorkType
  <2>3. writer' # Missing /\ writer'.key # CloseTask
    BY <2>2 DEF Log!RecordsApart, WorkType
  <2>4. AtWork' = 1
    BY <2>3 DEF AtWork
  <2>5. LogType'
    BY <1>0, <1>1, <1>2, <1>3, <2>2, <2>3 DEF LogType
  <2>6. CloseInv'
    <3>1. Len(queue') \in Nat
      BY <1>3
    <3>2. pending' = Ahead(queue') + 1
      BY <1>0, <1>1, <1>3, <1>4, <1>6, <3>1 DEF CloseInv, Ahead
    <3>3. Queued(CloseTask)' <=> Queued(CloseTask)
      BY <1>3, <1>6 DEF Queued
    <3>4. pending' = Ahead(queue)' + AtWork'
      BY <2>4, <3>2 DEF Ahead
    <3>5. QED
      BY <1>0, <1>1, <1>3, <2>2, <3>3, <3>4 DEF CloseInv
  <2>7. EndInv'
    BY <1>0, <1>1 DEF EndInv
  <2>8. QED
    BY <1>2, <2>5, <2>6, <2>7 DEF LogInv
<1>7. QED
  BY <1>5, <1>6

(* A record is over and its slot free.                                     *)
LEMMA PublishKeeps ==
    ASSUME Log!RecordsApart, LogInv, Log!Publish
    PROVE  LogInv'
<1>0. LogType /\ ListInv /\ CloseInv /\ EndInv
  BY DEF LogInv
<1>1. /\ writer \in WorkType /\ writer # Missing /\ writer.stage = "publish"
      /\ writer.key # CloseTask /\ writer' = Missing /\ pending' = pending - 1
      /\ UNCHANGED <<clock, jobs, rows, changed, cache, queue, Log!ending>>
  BY <1>0 DEF LogType, Log!Publish, Log!table
<1>2. ListInv' /\ cache' \in ListType \cup {Missing}
  BY <1>0, <1>1, ListStays DEF LogType
<1>3. Ahead(queue) \in Nat
  BY <1>0 DEF LogType, Ahead
<1>4. AtWork = 1 /\ AtWork' = 0
  BY <1>1 DEF AtWork
<1>5. pending' \in Nat /\ pending' = Ahead(queue)' + AtWork'
  BY <1>0, <1>1, <1>3, <1>4 DEF CloseInv, Ahead
<1>6. LogType'
  BY <1>0, <1>1, <1>2, <1>5 DEF LogType
<1>7. CloseInv'
  BY <1>0, <1>1, <1>5 DEF CloseInv, Queued, Log!ending
<1>8. EndInv'
  BY <1>0, <1>1 DEF EndInv, Log!ending
<1>9. QED
  BY <1>2, <1>6, <1>7, <1>8 DEF LogInv

(* The connection is closed, or that fails.                                *)
LEMMA CloseConnectionKeeps ==
    ASSUME Log!RecordsApart, LogInv, Log!CloseConnection
    PROVE  LogInv'
<1>0. LogType /\ ListInv /\ CloseInv /\ EndInv
  BY DEF LogInv
<1>1. /\ writer # Missing /\ writer.stage = "close" /\ writer.key = CloseTask
      /\ writer' = Missing /\ closing' = "shut"
      /\ UNCHANGED <<clock, jobs, rows, changed, cache, queue, pending, life, executor, mqtt>>
      /\ \/ connection' = "closed" /\ errors' = errors
         \/ errors' = errors \cup {"writer"} /\ connection' = connection
  BY <1>0 DEF LogType, Log!CloseConnection, Log!table
<1>2. ListInv' /\ cache' \in ListType \cup {Missing}
  BY <1>0, <1>1, ListStays DEF LogType
<1>3. queue = <<>> /\ closing = "wait" /\ life = "closed" /\ executor = "up"
  BY <1>0, <1>1 DEF CloseInv, EndInv, Log!RecordsApart
<1>4. AtWork = 0 /\ AtWork' = 0
  BY <1>1 DEF AtWork
<1>5. LogType'
  BY <1>0, <1>1, <1>2 DEF LogType
<1>6. CloseInv'
  BY <1>0, <1>1, <1>3, <1>4 DEF CloseInv, Queued, Ahead
<1>7. EndInv'
  BY <1>0, <1>1, <1>3 DEF EndInv
<1>8. QED
  BY <1>2, <1>5, <1>6, <1>7 DEF LogInv

(* The steps of close().                                                   *)
LEMMA CloseKeeps ==
    ASSUME Log!RecordsApart, LogInv,
           Log!CloseBegin \/ Log!CloseSubmit \/ Log!CloseShut \/ Log!CloseEnd
    PROVE  LogInv'
<1>0. LogType /\ ListInv /\ CloseInv /\ EndInv
  BY DEF LogInv
<1>1. UNCHANGED <<clock, jobs, rows, changed, cache, writer, pending>>
  BY DEF Log!CloseBegin, Log!CloseSubmit, Log!CloseShut, Log!CloseEnd, Log!table, Log!thread
<1>2. ListInv' /\ cache' \in ListType \cup {Missing}
  BY <1>0, <1>1, ListStays DEF LogType
<1>3. CASE queue' = queue /\ (closing = "wait" <=> closing' = "wait") /\ EndInv'
  <2>1. LogType'
    BY <1>0, <1>1, <1>2, <1>3 DEF LogType
  <2>2. CloseInv'
    BY <1>0, <1>1, <1>3 DEF CloseInv, Queued, Ahead, AtWork
  <2>3. QED
    BY <1>2, <1>3, <2>1, <2>2 DEF LogInv
<1>4. CASE Log!CloseBegin
  BY <1>0, <1>3, <1>4 DEF Log!CloseBegin, EndInv, Log!thread, Log!RecordsApart
<1>5. CASE Log!CloseShut
  <2>1. /\ closing = "shut" /\ closing' = "end" /\ queue' = queue
        /\ UNCHANGED <<life, connection, mqtt>>
        /\ \/ /\ queue = <<>> /\ writer = Missing /\ executor' = "down" /\ errors' = errors
           \/ errors' = errors \cup {"writer"} /\ executor' = executor
    BY <1>5 DEF Log!CloseShut, Log!thread, Log!Drained
  <2>2. closing # Missing /\ life = "closed"
    BY <1>0, <2>1 DEF EndInv, Log!RecordsApart
  <2>3. EndInv'
    BY <1>0, <1>1, <2>1, <2>2 DEF EndInv
  <2>4. QED
    BY <1>3, <2>1, <2>3
<1>6. CASE Log!CloseEnd
  <2>1. /\ closing = "end" /\ closing' = Missing /\ queue' = queue
        /\ UNCHANGED <<executor, connection>>
        /\ \/ /\ mqtt' = IF executor = "down" THEN "down" ELSE mqtt
              /\ life' = IF errors = {} THEN "complete" ELSE life
              /\ errors' = errors
           \/ /\ mqtt' = IF executor = "down" THEN "down" ELSE mqtt
              /\ errors' = errors \cup {"caller"} /\ life' = life
           \/ UNCHANGED <<errors, mqtt, life>>
    BY <1>6 DEF Log!CloseEnd, Log!thread, Log!Clean
  <2>2. life = "closed" /\ Missing \notin {"submit", "wait", "shut", "end"}
    BY <1>0, <2>1 DEF EndInv, Log!RecordsApart
  <2>3. errors = {} => executor = "down" /\ connection = "closed"
    BY <1>0, <2>1 DEF EndInv
  <2>4. EndInv'
    BY <1>0, <1>1, <2>1, <2>2, <2>3 DEF EndInv
  <2>5. QED
    BY <1>3, <2>1, <2>2, <2>4
<1>7. CASE Log!CloseSubmit
  <2>1. /\ closing = "submit" /\ UNCHANGED <<life, executor, connection, mqtt>>
    BY <1>7 DEF Log!CloseSubmit
  <2>2. life = "closed" /\ Missing \notin {"submit", "wait", "shut", "end"}
    BY <1>0, <2>1 DEF EndInv, Log!RecordsApart
  <2>3. CASE executor = "down" /\ closing' = "end" /\ UNCHANGED <<queue, errors>>
    <3>1. EndInv'
      BY <1>0, <1>1, <2>1, <2>2, <2>3 DEF EndInv
    <3>2. QED
      BY <1>3, <2>1, <2>3, <3>1
  <2>4. CASE executor = "up" /\ closing' = "shut" /\ errors' = errors \cup {"writer"}
             /\ queue' = queue
    <3>1. EndInv'
      BY <1>0, <1>1, <2>1, <2>2, <2>4 DEF EndInv
    <3>2. QED
      BY <1>3, <2>1, <2>4, <3>1
  <2>5. CASE executor = "up" /\ queue' = Append(queue, CloseTask) /\ closing' = "wait"
             /\ errors' = errors
    <3>1. /\ queue \in Seq(Senders \cup {CloseTask})
          /\ \A i \in DOMAIN queue : queue[i] # CloseTask
          /\ ~(writer # Missing /\ writer.stage = "close")
      BY <1>0, <2>1 DEF LogType, CloseInv, Queued
    <3>2. /\ queue' \in Seq(Senders \cup {CloseTask})
          /\ \A i \in DOMAIN queue' : queue'[i] = CloseTask => i = Len(queue')
          /\ Ahead(queue') = Ahead(queue)
          /\ \E i \in DOMAIN queue' : queue'[i] = CloseTask
      BY <2>5, <3>1, OneMoreTask DEF Log!RecordsApart
    <3>3. LogType'
      BY <1>0, <1>1, <1>2, <3>2 DEF LogType
    <3>4. Ahead(queue)' = Ahead(queue) /\ AtWork' = AtWork
      BY <1>1, <3>2 DEF Ahead, AtWork
    <3>5. CloseInv'
      BY <1>0, <1>1, <2>5, <3>1, <3>2, <3>4 DEF CloseInv, Queued
    <3>6. EndInv'
      BY <1>0, <1>1, <2>1, <2>2, <2>5 DEF EndInv
    <3>7. QED
      BY <1>2, <3>3, <3>5, <3>6 DEF LogInv
  <2>6. QED
    BY <1>7, <2>3, <2>4, <2>5 DEF Log!CloseSubmit
<1>8. QED
  BY <1>4, <1>5, <1>6, <1>7

(* Every step keeps the invariant.                                         *)
LEMMA LogStep ==
    ASSUME Log!RecordsApart, LogInv, [Log!Next]_(Log!vars)
    PROVE  LogInv'
<1>1. CASE Log!Next
  BY <1>1, HandlersKeep, TableKeeps, SubmitKeeps, BeginKeeps, PublishKeeps,
     CloseConnectionKeeps, CloseKeeps DEF Log!Next
<1>2. CASE UNCHANGED Log!vars
  <2>1. UNCHANGED <<clock, jobs, rows, changed, cache, queue, writer, pending, Log!thread,
                    Log!ending>>
    BY <1>2 DEF Log!vars, Log!thread, Log!ending
  <2>2. LogType' /\ ListInv'
    BY <2>1, ListStays DEF LogType, LogInv
  <2>3. QED
    BY <2>1, <2>2, SameThread DEF LogInv
<1>3. QED
  BY <1>1, <1>2

(* The records in the queue are as many as lie ahead of the closing.       *)
LEMMA RecordsCounted ==
    ASSUME LogInv
    PROVE  Log!Cardinality(Log!Records) = Ahead(queue)
<1>1. /\ queue \in Seq(Senders \cup {CloseTask})
      /\ \A i \in DOMAIN queue : queue[i] = CloseTask => i = Len(queue)
      /\ Len(queue) \in Nat /\ DOMAIN queue = 1..Len(queue)
      /\ queue = <<>> <=> Len(queue) = 0
  BY DEF LogInv, LogType, CloseInv
<1>2. Ahead(queue) \in Nat
  BY <1>1 DEF Ahead
<1>3. Log!Records = 1..Ahead(queue)
  BY <1>1 DEF Log!Records, Ahead
<1>4. Cardinality(1..Ahead(queue)) = Ahead(queue)
  BY <1>2, FS_Interval
<1>5. Log!Cardinality(1..Ahead(queue)) = Cardinality(1..Ahead(queue))
  BY DEF Log!Cardinality, Cardinality
<1>6. QED
  BY <1>3, <1>4, <1>5

(* Nothing "can let accepted writes outlive their publishers"              *)
(* (storage_collector.py:686-687): whatever fails in an end and however    *)
(* often it is repeated, each record that was taken is written before its  *)
(* publisher and its thread go, and an end is complete only with the       *)
(* writer's connection closed; for any handlers, senders and slots.        *)
THEOREM RecordsAreKept == Log!RecordsApart => (Log!Spec => []Log!RecordsKept)
<1> SUFFICES ASSUME Log!RecordsApart PROVE Log!Spec => []Log!RecordsKept
  OBVIOUS
<1>1. Log!Init => LogInv
  BY LogInit
<1>2. LogInv /\ [Log!Next]_(Log!vars) => LogInv'
  BY LogStep
<1>3. LogInv => Log!RecordsKept
  <2> SUFFICES ASSUME LogInv PROVE Log!RecordsKept
    OBVIOUS
  <2>1. pending = Log!Cardinality(Log!Records) + AtWork
    BY RecordsCounted DEF LogInv, CloseInv
  <2>2. executor = "down" => pending = 0
    <3>1. executor = "down" => Ahead(queue) = 0 /\ AtWork = 0
      BY DEF LogInv, EndInv, Ahead, AtWork
    <3>2. QED
      BY <3>1 DEF LogInv, CloseInv
  <2>3. QED
    BY <2>1, <2>2 DEF LogInv, EndInv, AtWork, Log!RecordsKept
<1>4. QED
  BY <1>1, <1>2, <1>3, PTL DEF Log!Spec

(* The kept list of neighbours differs from the table only by what changed *)
(* after it was asked for (sqlite_handler.py:2594), whichever reader put   *)
(* it away and whoever changed the table meanwhile.                        *)
THEOREM NeighborsAreRecent == Log!RecordsApart => (Log!Spec => []Log!ListRecent)
<1> SUFFICES ASSUME Log!RecordsApart PROVE Log!Spec => []Log!ListRecent
  OBVIOUS
<1>1. Log!Init => LogInv
  BY LogInit
<1>2. LogInv /\ [Log!Next]_(Log!vars) => LogInv'
  BY LogStep
<1>3. LogInv => Log!ListRecent
  BY DEF LogInv, ListInv, RecentList, Log!ListRecent, Log!Fresh
<1>4. QED
  BY <1>1, <1>2, <1>3, PTL DEF Log!Spec

-----------------------------------------------------------------------------
(* The identities a repeater hosts: HostedIdentities.                      *)
CONSTANTS Names, Companions, Keys, Writers, Places, Absent, MaxEdits, MaxLosses

VARIABLES file, disk, live, acked, dirty, holder, editor, slot, phase, edits, losses

Ids == INSTANCE HostedIdentities WITH
    writer <- editor, Slots <- Places, faults <- losses, MaxFaults <- MaxLosses

(* What a writer holds.                                                    *)
EditorType == [stage : {"idle", "written", "replaced", "flushed"}, kind : Ids!Kinds,
               name : Names \cup {Absent}, key : Keys \cup {Absent},
               number : 0..MaxEdits, candidate : Ids!Configs]

(* Of the daemon.                                                          *)
Phases == {"down", "booting", "running", "stopping", "rooms_stopped", "http_closed",
           "joined", "stopped"}

(* No entry is later than edit n.                                          *)
Upto(c, n) == \A m \in Names : c.ids[m] # Absent => c.ids[m].edit <= n

(* An edit that Edited is defined for.                                     *)
EditRight(c, what, name, key) ==
    /\ what \in Ids!Kinds
    /\ what # "other" => name \in Names
    /\ what \in {"create", "update"} => key \in Keys
    /\ what = "setting" => c.ids[name] # Absent

(* Types of the configuration's copies.                                    *)
EditTypes ==
    /\ {file, disk, live, acked} \subseteq Ids!Configs
    /\ dirty \in BOOLEAN
    /\ editor \in [Writers -> EditorType]
    /\ phase \in Phases
    /\ edits \in 0..MaxEdits

(* One edit at a time, none where the daemon does not serve.               *)
OneEditor ==
    /\ \A w \in Writers : editor[w].stage # "idle" <=> holder = w
    /\ holder # Absent => phase \in {"running", "stopping", "rooms_stopped"}
    /\ holder \in Writers \cup {Absent}

(* An edit in progress is one of what was reported, the last one begun,    *)
(* and what it leaves in the file has one name to a key.                   *)
EditorRight(e) ==
    /\ EditRight(acked, e.kind, e.name, e.key)
    /\ e.number = edits
    /\ e.candidate = Ids!Edited(acked, e.kind, e.name, e.key, e.number)
    /\ Ids!Distinct(e.candidate)
    /\ Upto(live, edits - 1)
    /\ e.stage = "written" => file = acked
    /\ e.stage \in {"replaced", "flushed"} => file = e.candidate

(* With the lock free the file is what was reported; flushed, so is the    *)
(* disk.                                                                   *)
CopiesRight ==
    /\ \A w \in Writers : editor[w].stage # "idle" => EditorRight(editor[w])
    /\ holder = Absent => file = acked
    /\ Ids!Distinct(file) /\ Ids!Distinct(disk)
    /\ Upto(file, edits) /\ Upto(disk, edits) /\ Upto(live, edits) /\ Upto(acked, edits)
    /\ ~dirty /\ (\A w \in Writers : editor[w].stage # "replaced") => disk = file

(* What is in memory is what was saved, or an earlier edit of it.          *)
NotAhead(now, saved) ==
    /\ now.other = saved.other
    /\ \A n \in Names : saved.ids[n] # now.ids[n] =>
          saved.ids[n] # Absent /\ now.ids[n] # Absent /\ now.ids[n].edit < saved.ids[n].edit

LiveRight == phase # "down" => NotAhead(live, acked)

(* What an edit makes of the memory.                                       *)
Shown(now, new, what) ==
    CASE what = "other"   -> [now EXCEPT !.other = new.other]
      [] what = "setting" -> now
      [] OTHER -> [now EXCEPT !.ids = new.ids]

(* The inductive invariant of the edits.                                   *)
EditInv == EditTypes /\ OneEditor /\ CopiesRight /\ LiveRight

-----------------------------------------------------------------------------
(* An edit makes a configuration, none of it later than the edit.          *)
LEMMA EditedRight ==
    ASSUME Ids!IdentitiesApart, NEW c \in Ids!Configs, NEW what, NEW name, NEW key,
           EditRight(c, what, name, key), NEW n \in 0..MaxEdits, Upto(c, n)
    PROVE  /\ Ids!Edited(c, what, name, key, n) \in Ids!Configs
           /\ Upto(Ids!Edited(c, what, name, key, n), n)
<1> DEFINE d == Ids!Edited(c, what, name, key, n)
<1>0. /\ c.ids \in [Names -> Ids!Entries \cup {Absent}] /\ c.other \in 0..MaxEdits
      /\ c = [ids |-> c.ids, other |-> c.other] /\ n \in Int
  BY DEF Ids!Configs
<1>1. CASE what = "other"
  <2>1. d = [c EXCEPT !.other = n]
    BY <1>1 DEF Ids!Edited
  <2>2. d \in Ids!Configs /\ d.ids = c.ids
    BY <1>0, <2>1 DEF Ids!Configs
  <2>3. QED
    BY <2>2 DEF Upto
<1>2. CASE what # "other"
  <2>0. name \in Names
    BY <1>2 DEF EditRight
  <2>1. PICK e : d = [c EXCEPT !.ids[name] = e] /\ (e = Absent \/ (e \in Ids!Entries /\ e.edit = n))
    <3>1. CASE what \in {"create", "update"}
      <4>1. d = [c EXCEPT !.ids[name] = [key |-> key, edit |-> n]]
        BY <3>1 DEF Ids!Edited
      <4>2. [key |-> key, edit |-> n] \in Ids!Entries
        BY <3>1 DEF EditRight, Ids!Entries
      <4>3. QED
        BY <4>1, <4>2
    <3>2. CASE what = "setting"
      <4>1. d = [c EXCEPT !.ids[name] = [key |-> c.ids[name].key, edit |-> n]]
        BY <3>2 DEF Ids!Edited
      <4>2. c.ids[name] \in Ids!Entries
        BY <1>0, <2>0, <3>2 DEF EditRight
      <4>3. [key |-> c.ids[name].key, edit |-> n] \in Ids!Entries
        BY <4>2 DEF Ids!Entries
      <4>4. QED
        BY <4>1, <4>3
    <3>3. CASE what = "delete"
      BY <3>3 DEF Ids!Edited
    <3>4. QED
      BY <1>2, <3>1, <3>2, <3>3 DEF EditRight, Ids!Kinds
  <2>2. d.ids = [c.ids EXCEPT ![name] = e] /\ d.other = c.other
        /\ d = [ids |-> d.ids, other |-> d.other]
    BY <1>0, <2>1
  <2> HIDE DEF d
  <2>3. d.ids \in [Names -> Ids!Entries \cup {Absent}]
    BY <1>0, <2>0, <2>1, <2>2
  <2>4. d \in Ids!Configs
    BY <1>0, <2>2, <2>3 DEF Ids!Configs
  <2>5. ASSUME NEW m \in Names, d.ids[m] # Absent PROVE d.ids[m].edit <= n
    <3>1. CASE m = name
      BY <1>0, <2>0, <2>1, <2>2, <2>5, <3>1
    <3>2. CASE m # name
      BY <1>0, <2>0, <2>2, <2>5, <3>2 DEF Upto
    <3>3. QED
      BY <3>1, <3>2
  <2>6. Upto(d, n)
    BY <2>5 DEF Upto
  <2>7. QED
    BY <2>4, <2>6 DEF d
<1>3. QED
  BY <1>1, <1>2

(* Later edits are later.                                                  *)
LEMMA UptoLater ==
    ASSUME NEW c \in Ids!Configs, NEW m \in Int, NEW n \in Int, m <= n, Upto(c, m),
           MaxEdits \in Nat
    PROVE  Upto(c, n)
<1> SUFFICES ASSUME NEW i \in Names, c.ids[i] # Absent PROVE c.ids[i].edit <= n
  BY DEF Upto
<1>1. c.ids[i] \in Ids!Entries
  BY DEF Ids!Configs
<1>2. c.ids[i].edit \in Int /\ c.ids[i].edit <= m
  BY <1>1 DEF Ids!Entries, Upto
<1>3. QED
  BY <1>2

(* The invariant holds at the start.                                       *)
LEMMA EditsStart == Ids!IdentitiesApart /\ Ids!Init => EditInv
<1> SUFFICES ASSUME Ids!IdentitiesApart, Ids!Init PROVE EditInv
  OBVIOUS
<1>0. MaxEdits \in Nat /\ Absent \notin Writers /\ 0 \in 0..MaxEdits
  BY DEF Ids!IdentitiesApart
<1>1. Ids!Empty \in Ids!Configs /\ \A n \in Names : Ids!Empty.ids[n] = Absent
  BY <1>0 DEF Ids!Empty, Ids!Configs
<1>2. Ids!Quiet \in EditorType /\ Ids!Quiet.stage = "idle"
  BY <1>0, <1>1 DEF Ids!Quiet, EditorType, Ids!Kinds
<1>3. EditTypes
  BY <1>0, <1>1, <1>2 DEF Ids!Init, EditTypes, Phases
<1>4. OneEditor
  BY <1>0, <1>2 DEF Ids!Init, OneEditor
<1>5. CopiesRight
  BY <1>1, <1>2 DEF Ids!Init, CopiesRight, Ids!Distinct, Upto
<1>6. LiveRight
  BY DEF Ids!Init, LiveRight
<1>7. QED
  BY <1>3, <1>4, <1>5, <1>6 DEF EditInv

(* A writer enters the lock and edits the file as it reads it.             *)
LEMMA BeginEditKeeps ==
    ASSUME Ids!IdentitiesApart, EditInv, NEW w \in Writers, NEW what, NEW name, NEW key,
           \/ what \in {"create", "update"} /\ name \in Names /\ key \in Keys
           \/ what \in {"setting", "delete"} /\ name \in Names /\ key = Absent
           \/ what = "other" /\ name = Absent /\ key = Absent,
           Ids!BeginEdit(w, what, name, key)
    PROVE  EditInv'
<1>0. /\ MaxEdits \in Nat /\ Absent \notin Writers /\ edits \in Nat /\ edits < MaxEdits
      /\ EditTypes /\ OneEditor /\ CopiesRight /\ LiveRight
  BY DEF Ids!IdentitiesApart, EditInv, EditTypes, Ids!BeginEdit
<1> DEFINE d == Ids!Edited(file, what, name, key, edits + 1)
<1> DEFINE e == [stage |-> "written", kind |-> what, name |-> name, key |-> key,
                 number |-> edits + 1, candidate |-> d]
<1>1. /\ phase \in {"running", "stopping", "rooms_stopped"}
      /\ holder = Absent /\ holder' = w /\ edits' = edits + 1
      /\ Ids!Distinct(d) /\ editor' = [editor EXCEPT ![w] = e]
      /\ what = "setting" => file.ids[name] # Absent
      /\ UNCHANGED <<file, disk, live, acked, dirty, phase>>
  BY DEF Ids!BeginEdit, Ids!LockFree
<1>2. file = acked /\ \A v \in Writers : editor[v].stage = "idle"
  BY <1>0, <1>1 DEF CopiesRight, OneEditor
<1>3. EditRight(acked, what, name, key)
  BY <1>1, <1>2 DEF EditRight, Ids!Kinds
<1>4. {file, disk, live, acked} \subseteq Ids!Configs
  BY <1>0 DEF EditTypes
<1>5. /\ Upto(file, edits') /\ Upto(disk, edits') /\ Upto(live, edits') /\ Upto(acked, edits')
      /\ Upto(live, edits' - 1)
  <2>1. /\ edits' \in Int /\ edits \in Int /\ edits <= edits' /\ edits' - 1 = edits
    BY <1>0, <1>1
  <2>2. Upto(file, edits) /\ Upto(disk, edits) /\ Upto(live, edits) /\ Upto(acked, edits)
    BY <1>0 DEF CopiesRight
  <2>3. QED
    BY <1>0, <1>4, <2>1, <2>2, UptoLater
<1>6. d \in Ids!Configs
  <2>1. edits + 1 \in 0..MaxEdits /\ edits' = edits + 1
    BY <1>0, <1>1
  <2>2. Upto(file, edits + 1)
    BY <1>1, <1>5
  <2>3. QED
    BY <1>2, <1>3, <1>4, <2>1, <2>2, EditedRight
<1>7. d = Ids!Edited(acked, what, name, key, edits')
  BY <1>1, <1>2
<1> HIDE DEF d
<1>8. e \in EditorType
  BY <1>0, <1>3, <1>6 DEF EditorType, EditRight
<1>9. PICK r \in EditorType :
        /\ r.stage = "written" /\ r.kind = what /\ r.name = name /\ r.key = key
        /\ r.number = edits' /\ r.candidate = d /\ editor' = [editor EXCEPT ![w] = r]
  BY <1>1, <1>8
<1>10. EditTypes'
  <2>1. edits' \in 0..MaxEdits
    BY <1>0, <1>1
  <2>2. editor' \in [Writers -> EditorType]
    BY <1>0, <1>9 DEF EditTypes
  <2>3. QED
    BY <1>0, <1>1, <2>1, <2>2 DEF EditTypes
<1>11. \A v \in Writers : editor'[v] = IF v = w THEN r ELSE editor[v]
  BY <1>0, <1>9 DEF EditTypes
<1>12. OneEditor'
  BY <1>0, <1>1, <1>2, <1>9, <1>11 DEF OneEditor
<1>13. EditorRight(r)'
  BY <1>1, <1>2, <1>3, <1>5, <1>7, <1>9 DEF EditorRight
<1>14. \A v \in Writers : editor'[v].stage # "idle" => EditorRight(editor[v])'
  BY <1>2, <1>11, <1>13
<1>15. CopiesRight'
  <2>1. Ids!Distinct(file) /\ Ids!Distinct(disk) /\ (~dirty => disk = file)
    BY <1>0, <1>2 DEF CopiesRight
  <2>2. Ids!Distinct(file)' /\ Ids!Distinct(disk)'
    BY <1>1, <2>1 DEF Ids!Distinct
  <2>3. Upto(file, edits)' /\ Upto(disk, edits)' /\ Upto(live, edits)' /\ Upto(acked, edits)'
    BY <1>1, <1>5 DEF Upto
  <2>4. QED
    BY <1>0, <1>1, <1>2, <1>14, <2>1, <2>2, <2>3 DEF CopiesRight
<1>16. LiveRight'
  BY <1>0, <1>1 DEF LiveRight
<1>17. QED
  BY <1>10, <1>12, <1>15, <1>16 DEF EditInv

(* The file is replaced, or the edit fails and leaves it alone.            *)
LEMMA ReplaceKeeps ==
    ASSUME Ids!IdentitiesApart, EditInv, NEW w \in Writers, Ids!Replace(w)
    PROVE  EditInv'
<1>0. /\ MaxEdits \in Nat /\ Absent \notin Writers
      /\ EditTypes /\ OneEditor /\ CopiesRight /\ LiveRight
      /\ editor[w].stage = "written" /\ UNCHANGED <<disk, live, acked, dirty, edits, phase>>
  BY DEF Ids!IdentitiesApart, EditInv, Ids!Replace
<1>1. /\ holder = w /\ \A v \in Writers \ {w} : editor[v].stage = "idle"
      /\ editor \in [Writers -> EditorType] /\ editor[w] \in EditorType
  BY <1>0 DEF OneEditor, EditTypes
<1>2. EditorRight(editor[w]) /\ file = acked
  BY <1>0 DEF CopiesRight, EditorRight
<1>3. editor[w].candidate \in Ids!Configs /\ Upto(editor[w].candidate, edits)
  <2>1. /\ acked \in Ids!Configs /\ Upto(acked, edits) /\ edits \in 0..MaxEdits
        /\ EditRight(acked, editor[w].kind, editor[w].name, editor[w].key)
        /\ editor[w].candidate
             = Ids!Edited(acked, editor[w].kind, editor[w].name, editor[w].key, edits)
    BY <1>0, <1>2 DEF EditTypes, CopiesRight, EditorRight
  <2>2. QED
    BY <2>1, EditedRight
<1>4. CASE /\ file' = editor[w].candidate
           /\ editor' = [editor EXCEPT ![w].stage = "replaced"]
           /\ UNCHANGED holder
  <2>1. PICK r \in EditorType :
          /\ r.stage = "replaced" /\ r.kind = editor[w].kind
          /\ r.name = editor[w].name /\ r.key = editor[w].key
          /\ r.number = editor[w].number /\ r.candidate = editor[w].candidate
          /\ editor' = [editor EXCEPT ![w] = r]
    <3>1. [editor[w] EXCEPT !.stage = "replaced"] \in EditorType
      BY <1>1 DEF EditorType
    <3>2. editor' = [editor EXCEPT ![w] = [editor[w] EXCEPT !.stage = "replaced"]]
      BY <1>4
    <3>3. QED
      BY <1>1, <3>1, <3>2 DEF EditorType
  <2>3. /\ editor' \in [Writers -> EditorType]
        /\ \A v \in Writers : editor'[v] = IF v = w THEN r ELSE editor[v]
    BY <1>1, <2>1
  <2>4. EditTypes'
    BY <1>0, <1>3, <1>4, <2>3 DEF EditTypes
  <2>5. OneEditor'
    BY <1>0, <1>1, <1>4, <2>1, <2>3 DEF OneEditor
  <2>6. EditorRight(r)'
    BY <1>0, <1>2, <1>4, <2>1 DEF EditorRight
  <2>7. \A v \in Writers : editor'[v].stage # "idle" => EditorRight(editor[v])'
    BY <1>1, <2>3, <2>6
  <2>8. Ids!Distinct(file)' /\ Ids!Distinct(disk)'
    <3>1. Ids!Distinct(editor[w].candidate) /\ Ids!Distinct(disk)
      BY <1>0, <1>2 DEF EditorRight, CopiesRight
    <3>2. QED
      BY <1>0, <1>4, <3>1 DEF Ids!Distinct
  <2>9. Upto(file, edits)' /\ Upto(disk, edits)' /\ Upto(live, edits)' /\ Upto(acked, edits)'
    <3>1. Upto(disk, edits) /\ Upto(live, edits) /\ Upto(acked, edits)
      BY <1>0 DEF CopiesRight
    <3>2. QED
      BY <1>0, <1>3, <1>4, <3>1 DEF Upto
  <2>10. holder' # Absent /\ editor'[w].stage = "replaced"
    BY <1>0, <1>1, <1>4, <2>1, <2>3
  <2>11. CopiesRight'
    BY <2>7, <2>8, <2>9, <2>10 DEF CopiesRight
  <2>12. LiveRight'
    BY <1>0 DEF LiveRight
  <2>13. QED
    BY <2>4, <2>5, <2>11, <2>12 DEF EditInv
<1>5. CASE editor' = [editor EXCEPT ![w] = Ids!Quiet] /\ holder' = Absent /\ file' = file
  <2>1. Ids!Quiet \in EditorType /\ Ids!Quiet.stage = "idle"
    <3>1. Ids!Empty \in Ids!Configs /\ 0 \in 0..MaxEdits
      BY <1>0 DEF Ids!Empty, Ids!Configs
    <3>2. QED
      BY <3>1 DEF Ids!Quiet, EditorType, Ids!Kinds
  <2>2. /\ editor' \in [Writers -> EditorType]
        /\ \A v \in Writers : editor'[v].stage = "idle" /\ editor[v].stage # "replaced"
    BY <1>0, <1>1, <1>5, <2>1
  <2>3. EditTypes' /\ OneEditor'
    BY <1>0, <1>5, <2>2 DEF EditTypes, OneEditor
  <2>4. /\ Ids!Distinct(file) /\ Ids!Distinct(disk) /\ (~dirty => disk = file)
        /\ Upto(file, edits) /\ Upto(disk, edits) /\ Upto(live, edits) /\ Upto(acked, edits)
    BY <1>0, <2>2 DEF CopiesRight
  <2>5. /\ Ids!Distinct(file)' /\ Ids!Distinct(disk)'
        /\ Upto(file, edits)' /\ Upto(disk, edits)' /\ Upto(live, edits)' /\ Upto(acked, edits)'
    BY <1>0, <1>5, <2>4 DEF Ids!Distinct, Upto
  <2>6. CopiesRight'
    BY <1>0, <1>2, <1>5, <2>2, <2>4, <2>5 DEF CopiesRight
  <2>7. LiveRight'
    BY <1>0 DEF LiveRight
  <2>8. QED
    BY <2>3, <2>6, <2>7 DEF EditInv
<1>6. QED
  BY <1>4, <1>5 DEF Ids!Replace

(* The directory is flushed, or stays to be flushed.                       *)
LEMMA FlushKeeps ==
    ASSUME Ids!IdentitiesApart, EditInv, NEW w \in Writers, Ids!FlushDirectory(w)
    PROVE  EditInv'
<1>0. /\ Absent \notin Writers /\ EditTypes /\ OneEditor /\ CopiesRight /\ LiveRight
      /\ editor[w].stage = "replaced"
      /\ UNCHANGED <<file, live, acked, holder, edits, phase>>
      /\ \/ disk' = file /\ dirty' = FALSE
         \/ disk' = disk /\ dirty' = TRUE
  BY DEF Ids!IdentitiesApart, EditInv, Ids!FlushDirectory
<1>1. /\ holder = w /\ \A v \in Writers \ {w} : editor[v].stage = "idle"
      /\ editor \in [Writers -> EditorType] /\ editor[w] \in EditorType
  BY <1>0 DEF OneEditor, EditTypes
<1>2. EditorRight(editor[w])
  BY <1>0 DEF CopiesRight
<1>3. PICK r \in EditorType :
        /\ r.stage = "flushed" /\ r.kind = editor[w].kind
        /\ r.name = editor[w].name /\ r.key = editor[w].key
        /\ r.number = editor[w].number /\ r.candidate = editor[w].candidate
        /\ editor' = [editor EXCEPT ![w] = r]
  <2>1. [editor[w] EXCEPT !.stage = "flushed"] \in EditorType
    BY <1>1 DEF EditorType
  <2>2. editor' = [editor EXCEPT ![w] = [editor[w] EXCEPT !.stage = "flushed"]]
    BY DEF Ids!FlushDirectory
  <2>3. QED
    BY <1>1, <2>1, <2>2 DEF EditorType
<1>4. /\ editor' \in [Writers -> EditorType]
      /\ \A v \in Writers : editor'[v] = IF v = w THEN r ELSE editor[v]
  BY <1>1, <1>3
<1>5. EditTypes'
  BY <1>0, <1>4 DEF EditTypes
<1>6. OneEditor'
  BY <1>0, <1>1, <1>3, <1>4 DEF OneEditor
<1>7. EditorRight(r)'
  BY <1>0, <1>2, <1>3 DEF EditorRight
<1>8. \A v \in Writers : editor'[v].stage # "idle" => EditorRight(editor[v])'
  BY <1>1, <1>4, <1>7
<1>9. /\ Ids!Distinct(file)' /\ Ids!Distinct(disk)'
      /\ Upto(file, edits)' /\ Upto(disk, edits)' /\ Upto(live, edits)' /\ Upto(acked, edits)'
  <2>1. /\ Ids!Distinct(file) /\ Ids!Distinct(disk)
        /\ Upto(file, edits) /\ Upto(disk, edits) /\ Upto(live, edits) /\ Upto(acked, edits)
    BY <1>0 DEF CopiesRight
  <2>2. QED
    BY <1>0, <2>1 DEF Ids!Distinct, Upto
<1>10. CopiesRight'
  <2>1. holder' # Absent /\ (~dirty' => disk' = file')
    BY <1>0, <1>1
  <2>2. QED
    BY <1>8, <1>9, <2>1 DEF CopiesRight
<1>11. LiveRight'
  BY <1>0 DEF LiveRight
<1>12. QED
  BY <1>5, <1>6, <1>10, <1>11 DEF EditInv

LEMMA QuietType == Ids!IdentitiesApart => Ids!Quiet \in EditorType /\ Ids!Quiet.stage = "idle"
<1> SUFFICES ASSUME Ids!IdentitiesApart PROVE Ids!Quiet \in EditorType /\ Ids!Quiet.stage = "idle"
  OBVIOUS
<1>1. 0 \in 0..MaxEdits
  BY DEF Ids!IdentitiesApart
<1>2. Ids!Empty \in Ids!Configs
  BY <1>1 DEF Ids!Empty, Ids!Configs
<1>3. QED
  BY <1>1, <1>2 DEF Ids!Quiet, EditorType, Ids!Kinds

(* What is published is as it was edited.                                  *)
LEMMA PublishedRight ==
    ASSUME Ids!IdentitiesApart, NEW old \in Ids!Configs, NEW now \in Ids!Configs,
           NEW what, NEW name, NEW key, NEW n \in 0..MaxEdits,
           EditRight(old, what, name, key), Upto(now, n - 1), NotAhead(now, old),
           NEW new \in Ids!Configs, new = Ids!Edited(old, what, name, key, n),
           NEW shown, shown = Shown(now, new, what)
    PROVE  /\ shown \in Ids!Configs /\ NotAhead(shown, new)
           /\ shown.ids = now.ids \/ shown.ids = new.ids
<1>0. /\ old.ids \in [Names -> Ids!Entries \cup {Absent}] /\ old.other \in 0..MaxEdits
      /\ now.ids \in [Names -> Ids!Entries \cup {Absent}] /\ now.other \in 0..MaxEdits
      /\ new.ids \in [Names -> Ids!Entries \cup {Absent}] /\ new.other \in 0..MaxEdits
      /\ n \in Int
  BY DEF Ids!Configs
<1>1. CASE what = "other"
  <2>1. new = [old EXCEPT !.other = n] /\ shown = [now EXCEPT !.other = new.other]
    BY <1>1 DEF Ids!Edited, Shown
  <2>2. new.ids = old.ids
    BY <2>1 DEF Ids!Configs
  <2>3. shown \in Ids!Configs /\ shown.ids = now.ids /\ shown.other = new.other
    BY <1>0, <2>1 DEF Ids!Configs
  <2>4. QED
    BY <2>2, <2>3 DEF NotAhead
<1>2. CASE what = "setting"
  <2>1. shown = now /\ name \in Names /\ old.ids[name] # Absent
    BY <1>2 DEF EditRight, Shown
  <2>2. new = [old EXCEPT !.ids[name] = [key |-> old.ids[name].key, edit |-> n]]
    BY <1>2 DEF Ids!Edited
  <2>3. new.ids = [old.ids EXCEPT ![name] = [key |-> old.ids[name].key, edit |-> n]]
        /\ new.other = old.other
    BY <2>2 DEF Ids!Configs
  <2>4. new.ids[name].edit = n /\ \A m \in Names \ {name} : new.ids[m] = old.ids[m]
    BY <1>0, <2>1, <2>3
  <2>5. now.ids[name] # Absent /\ now.ids[name].edit < n
    <3>1. now.ids[name] # Absent
      BY <2>1 DEF NotAhead
    <3>2. now.ids[name].edit <= n - 1 /\ now.ids[name] \in Ids!Entries
      BY <1>0, <2>1, <3>1 DEF Upto
    <3>3. now.ids[name].edit \in Int
      BY <3>2 DEF Ids!Entries
    <3>4. QED
      BY <1>0, <3>1, <3>2, <3>3
  <2>6. new.ids[name] # Absent
    BY <1>0, <2>1, <2>3 DEF Ids!IdentitiesApart, Ids!Entries
  <2>7. QED
    BY <2>1, <2>3, <2>4, <2>5, <2>6 DEF NotAhead
<1>3. CASE what \notin {"other", "setting"}
  <2>1. shown = [now EXCEPT !.ids = new.ids]
    BY <1>3 DEF Shown
  <2>2. shown \in Ids!Configs /\ shown.ids = new.ids /\ shown.other = now.other
    BY <1>0, <2>1 DEF Ids!Configs
  <2>3. new.other = old.other
    <3>1. \E e : new = [old EXCEPT !.ids[name] = e]
      BY <1>3 DEF Ids!Edited
    <3>2. QED
      BY <3>1 DEF Ids!Configs
  <2>4. QED
    BY <2>2, <2>3 DEF NotAhead
<1>4. QED
  BY <1>1, <1>2, <1>3

(* The edit is published and reported.                                     *)
LEMMA PublishEditKeeps ==
    ASSUME Ids!IdentitiesApart, EditInv, NEW w \in Writers, Ids!Publish(w)
    PROVE  EditInv'
<1> DEFINE e == editor[w]
<1>0. /\ Absent \notin Writers /\ EditTypes /\ OneEditor /\ CopiesRight /\ LiveRight
      /\ e.stage = "flushed" /\ UNCHANGED <<file, disk, dirty, edits, phase>>
      /\ live' = Shown(live, e.candidate, e.kind)
      /\ acked' = Ids!Edited(acked, e.kind, e.name, e.key, e.number)
      /\ holder' = Absent /\ editor' = [editor EXCEPT ![w] = Ids!Quiet]
  BY DEF Ids!IdentitiesApart, EditInv, Ids!Publish, Shown
<1>1. /\ holder = w /\ \A v \in Writers \ {w} : editor[v].stage = "idle"
      /\ editor \in [Writers -> EditorType] /\ e \in EditorType
      /\ phase \in {"running", "stopping", "rooms_stopped"}
  BY <1>0 DEF OneEditor, EditTypes
<1>2. EditorRight(e)
  BY <1>0 DEF CopiesRight
<1>3. /\ acked' = e.candidate /\ file = e.candidate /\ e.number = edits
      /\ EditRight(acked, e.kind, e.name, e.key) /\ Upto(live, edits - 1)
      /\ e.candidate = Ids!Edited(acked, e.kind, e.name, e.key, edits)
  BY <1>0, <1>2 DEF EditorRight
<1>4. /\ edits \in 0..MaxEdits /\ acked \in Ids!Configs /\ live \in Ids!Configs
      /\ e.candidate \in Ids!Configs /\ acked' \in Ids!Configs
      /\ NotAhead(live, acked)
  BY <1>0, <1>1, <1>3 DEF EditTypes, LiveRight, EditorType
<1> HIDE DEF e
<1>5. /\ live' \in Ids!Configs /\ NotAhead(live', acked')
      /\ live'.ids = live.ids \/ live'.ids = acked'.ids
  <2>1. /\ acked' = Ids!Edited(acked, e.kind, e.name, e.key, edits)
        /\ live' = Shown(live, acked', e.kind)
    BY <1>0, <1>3
  <2>2. QED
    BY <1>3, <1>4, <2>1, PublishedRight
<1>6. /\ editor' \in [Writers -> EditorType]
      /\ \A v \in Writers : editor'[v].stage = "idle" /\ editor[v].stage # "replaced"
  BY <1>0, <1>1, QuietType DEF e
<1>7. EditTypes'
  BY <1>0, <1>4, <1>5, <1>6 DEF EditTypes
<1>8. OneEditor'
  BY <1>0, <1>6 DEF OneEditor
<1>9. /\ Upto(file, edits) /\ Upto(disk, edits) /\ Upto(live, edits)
      /\ Ids!Distinct(file) /\ Ids!Distinct(disk) /\ (~dirty => disk = file)
  BY <1>0, <1>6 DEF CopiesRight
<1>10. /\ Upto(file, edits)' /\ Upto(disk, edits)' /\ Upto(live, edits)' /\ Upto(acked, edits)'
       /\ Ids!Distinct(file)' /\ Ids!Distinct(disk)'
  BY <1>0, <1>3, <1>5, <1>9 DEF Upto, Ids!Distinct
<1>11. CopiesRight'
  BY <1>0, <1>3, <1>6, <1>9, <1>10 DEF CopiesRight
<1>12. LiveRight'
  BY <1>5 DEF LiveRight
<1>13. QED
  BY <1>7, <1>8, <1>11, <1>12 DEF EditInv

(* The host loses power.                                                   *)
LEMMA LossKeeps ==
    ASSUME Ids!IdentitiesApart, EditInv, NEW f \in {file, disk}, Ids!PowerLoss(f)
    PROVE  EditInv'
<1>0. /\ Absent \notin Writers /\ EditTypes /\ OneEditor /\ CopiesRight /\ LiveRight
      /\ file' = f /\ disk' = f /\ dirty' = FALSE /\ holder' = Absent /\ phase' = "down"
      /\ editor' = [w \in Writers |-> Ids!Quiet] /\ UNCHANGED <<live, edits>>
      /\ acked' = IF dirty \/ \E w \in Writers : editor[w].stage \in {"replaced", "flushed"}
                  THEN f ELSE acked
  BY DEF Ids!IdentitiesApart, EditInv, Ids!PowerLoss
<1>1. /\ editor' \in [Writers -> EditorType] /\ \A v \in Writers : editor'[v].stage = "idle"
  BY <1>0, QuietType
<1>2. /\ Ids!Distinct(f) /\ Upto(f, edits) /\ f \in Ids!Configs
      /\ Upto(live, edits) /\ Upto(acked, edits)
  BY <1>0 DEF CopiesRight, EditTypes
<1>3. acked' = f
  <2>1. CASE ~dirty /\ \A w \in Writers : editor[w].stage \notin {"replaced", "flushed"}
    <3>1. disk = file
      BY <1>0, <2>1 DEF CopiesRight
    <3>2. file = acked
      <4>1. CASE holder = Absent
        BY <1>0, <4>1 DEF CopiesRight
      <4>2. CASE holder # Absent
        <5>1. holder \in Writers /\ editor[holder].stage # "idle" /\ editor[holder] \in EditorType
          BY <1>0, <4>2 DEF OneEditor, EditTypes
        <5>2. editor[holder].stage = "written"
          BY <2>1, <5>1 DEF EditorType
        <5>3. QED
          BY <1>0, <5>1, <5>2 DEF CopiesRight, EditorRight
      <4>3. QED
        BY <4>1, <4>2
    <3>3. QED
      BY <1>0, <2>1, <3>1, <3>2
  <2>2. CASE ~(~dirty /\ \A w \in Writers : editor[w].stage \notin {"replaced", "flushed"})
    BY <1>0, <2>2
  <2>3. QED
    BY <2>1, <2>2
<1>4. EditTypes'
  BY <1>0, <1>1, <1>2, <1>3 DEF EditTypes, Phases
<1>5. OneEditor'
  BY <1>0, <1>1 DEF OneEditor
<1>6. /\ Upto(file, edits)' /\ Upto(disk, edits)' /\ Upto(live, edits)' /\ Upto(acked, edits)'
      /\ Ids!Distinct(file)' /\ Ids!Distinct(disk)'
  BY <1>0, <1>2, <1>3 DEF Upto, Ids!Distinct
<1>7. CopiesRight'
  BY <1>0, <1>1, <1>3, <1>6 DEF CopiesRight
<1>8. LiveRight'
  BY <1>0 DEF LiveRight
<1>9. QED
  BY <1>4, <1>5, <1>7, <1>8 DEF EditInv

(* The configuration stays as it is while the daemon goes on.              *)
LEMMA PhaseKeeps ==
    ASSUME Ids!IdentitiesApart, EditInv, UNCHANGED Ids!config, phase' \in Phases,
           holder # Absent => phase' \in {"running", "stopping", "rooms_stopped"},
           phase' # "down" => phase # "down"
    PROVE  EditInv'
<1>1. UNCHANGED <<file, disk, live, acked, dirty, holder, editor, edits>>
  BY DEF Ids!config
<1>2. EditTypes' /\ OneEditor'
  BY <1>1 DEF EditInv, EditTypes, OneEditor
<1>3. CopiesRight'
  BY <1>1 DEF EditInv, CopiesRight, EditorRight, EditRight, Upto, Ids!Distinct
<1>4. LiveRight'
  BY <1>1 DEF EditInv, LiveRight
<1>5. QED
  BY <1>2, <1>3, <1>4 DEF EditInv

(* The daemon reads the file.                                              *)
LEMMA StartKeeps ==
    ASSUME Ids!IdentitiesApart, EditInv, Ids!Start
    PROVE  EditInv'
<1>0. /\ EditTypes /\ OneEditor /\ CopiesRight
      /\ phase = "down" /\ phase' = "booting" /\ live' = file
      /\ UNCHANGED <<file, disk, acked, dirty, holder, editor, edits>>
  BY DEF EditInv, Ids!Start
<1>1. holder = Absent /\ file = acked /\ \A w \in Writers : editor[w].stage = "idle"
  BY <1>0 DEF OneEditor, CopiesRight, Ids!IdentitiesApart
<1>2. EditTypes' /\ OneEditor'
  BY <1>0, <1>1 DEF EditTypes, OneEditor, Phases
<1>3. /\ Upto(file, edits)' /\ Upto(disk, edits)' /\ Upto(live, edits)' /\ Upto(acked, edits)'
      /\ Ids!Distinct(file)' /\ Ids!Distinct(disk)'
  BY <1>0 DEF CopiesRight, Upto, Ids!Distinct
<1>4. CopiesRight'
  BY <1>0, <1>1, <1>3 DEF CopiesRight
<1>5. LiveRight'
  BY <1>0, <1>1 DEF LiveRight, NotAhead
<1>6. QED
  BY <1>2, <1>4, <1>5 DEF EditInv

(* Every step keeps the invariant.                                         *)
LEMMA EditStep ==
    ASSUME Ids!IdentitiesApart, EditInv, [Ids!Next]_(Ids!vars)
    PROVE  EditInv'
<1>0. /\ holder # Absent => phase \in {"running", "stopping", "rooms_stopped"}
      /\ phase \in Phases
      /\ (\A w \in Writers : editor[w].stage = "idle") => holder = Absent
  BY DEF EditInv, EditTypes, OneEditor
<1>1. ASSUME NEW w \in Writers, Ids!Editing(w) PROVE EditInv'
  <2>1. ASSUME NEW n \in Names, NEW k \in Keys, NEW what \in {"create", "update"},
               Ids!BeginEdit(w, what, n, k)
        PROVE  EditInv'
    BY <2>1, BeginEditKeeps
  <2>2. ASSUME NEW n \in Names, NEW what \in {"setting", "delete"},
               Ids!BeginEdit(w, what, n, Absent)
        PROVE  EditInv'
    BY <2>2, BeginEditKeeps
  <2>3. CASE Ids!BeginEdit(w, "other", Absent, Absent)
    BY <2>3, BeginEditKeeps
  <2>4. QED
    BY <1>1, <2>1, <2>2, <2>3, ReplaceKeeps, FlushKeeps, PublishEditKeeps DEF Ids!Editing
<1>2. ASSUME NEW s \in Places, Ids!Activating(s) PROVE EditInv'
  <2>1. UNCHANGED Ids!config
    BY <1>2 DEF Ids!Activating, Ids!Admit, Ids!Enter, Ids!StartWork, Ids!WorkFails,
       Ids!Complete, Ids!GiveUp, Ids!Undone, Ids!Load, Ids!Notice, Ids!Shutdown,
       Ids!StopRoom, Ids!StopCompanion
  <2>2. \/ phase' = phase
        \/ phase \in {"booting", "running"} /\ phase' = "stopping"
    BY <1>2 DEF Ids!Activating, Ids!Admit, Ids!Enter, Ids!StartWork, Ids!WorkFails,
       Ids!Complete, Ids!GiveUp, Ids!Undone, Ids!Load, Ids!Notice, Ids!Shutdown,
       Ids!StopRoom, Ids!StopCompanion
  <2>3. QED
    BY <1>0, <2>1, <2>2, PhaseKeeps DEF Phases
<1>3. CASE Ids!Start
  BY <1>3, StartKeeps
<1>4. CASE Ids!Loaded \/ Ids!Shutdown \/ Ids!RoomsStopped
  <2>1. /\ UNCHANGED Ids!config /\ phase # "down"
        /\ phase' \in {"running", "stopping", "rooms_stopped"}
    BY <1>4 DEF Ids!Loaded, Ids!Shutdown, Ids!RoomsStopped
  <2>2. QED
    BY <2>1, PhaseKeeps DEF Phases
<1>5. CASE Ids!CloseHttp \/ Ids!JoinActivations \/ Ids!Stopped \/ Ids!Exit
  <2>1. /\ UNCHANGED Ids!config /\ phase # "down" /\ holder = Absent
        /\ phase' \in {"http_closed", "joined", "stopped", "down"}
    BY <1>0, <1>5 DEF Ids!CloseHttp, Ids!JoinActivations, Ids!Stopped, Ids!Exit
  <2>2. QED
    BY <2>1, PhaseKeeps DEF Phases
<1>6. ASSUME NEW f \in {file, disk}, Ids!PowerLoss(f) PROVE EditInv'
  BY <1>6, LossKeeps
<1>7. CASE UNCHANGED Ids!vars
  <2>1. UNCHANGED Ids!config /\ phase' = phase
    BY <1>7 DEF Ids!vars
  <2>2. QED
    BY <1>0, <2>1, PhaseKeeps
<1>8. QED
  BY <1>1, <1>2, <1>3, <1>4, <1>5, <1>6, <1>7 DEF Ids!Next

(* The invariant is enough for the property.                               *)
LEMMA EditsRight == Ids!IdentitiesApart /\ EditInv => Ids!EditsSurvive
<1> SUFFICES ASSUME Ids!IdentitiesApart, EditInv PROVE Ids!EditsSurvive
  OBVIOUS
<1>0. EditTypes /\ OneEditor /\ CopiesRight /\ LiveRight
  BY DEF EditInv
<1>1. Ids!Writing = {} => file = acked
  <2>1. SUFFICES ASSUME Ids!Writing = {}, holder # Absent PROVE file = acked
    BY <1>0 DEF CopiesRight
  <2>2. holder \in Writers /\ editor[holder].stage # "idle" /\ editor[holder] \in EditorType
    BY <1>0, <2>1 DEF OneEditor, EditTypes
  <2>3. editor[holder].stage = "written"
    BY <2>1, <2>2 DEF EditorType, Ids!Writing
  <2>4. QED
    BY <1>0, <2>2, <2>3 DEF CopiesRight, EditorRight
<1>2. ASSUME NEW w \in Ids!Writing
      PROVE  LET e == editor[w] IN file = Ids!Edited(acked, e.kind, e.name, e.key, e.number)
  <2>1. w \in Writers /\ editor[w].stage \in {"replaced", "flushed"}
    BY <1>2 DEF Ids!Writing
  <2>2. QED
    BY <1>0, <2>1 DEF CopiesRight, EditorRight
<1>3. ~dirty /\ Ids!Writing = {} => disk = file
  BY <1>0 DEF CopiesRight, Ids!Writing
<1>4. phase # "down" => NotAhead(live, acked)
  BY <1>0 DEF LiveRight
<1>5. QED
  BY <1>1, <1>2, <1>3, <1>4 DEF Ids!EditsSurvive, NotAhead

-----------------------------------------------------------------------------
(* What a place holds.                                                     *)
SlotType == [stage : {"free", "asked", "waiting", "starting", "undoing", "published"},
             name : Names \cup {Absent}, entry : Ids!Entries \cup {Absent},
             work : {"none", "running", "failed"}, asSaved : BOOLEAN]

(* Two identities have a name or a hash in common.                         *)
Clash(a, b) == a.name = b.name \/ a.entry.key = b.entry.key

(* What runs in a place has its stage as an owner; while the daemon loads, *)
(* what is there is as configured.                                         *)
SlotRight(r) ==
    /\ r.work # "none" => r.stage \in {"starting", "undoing", "published"}
    /\ r.stage = "published" /\ r.name \notin Companions => r.asSaved
    /\ phase \in {"joined", "stopped"} => r.stage \notin {"starting", "undoing"}
    /\ phase = "stopped" => r.work = "none"
    /\ phase = "down" => r = Ids!Free
    /\ phase = "booting" =>
          \/ r = Ids!Free
          \/ /\ r.stage = "published" /\ r.name \in Names
             /\ live.ids[r.name] # Absent /\ r.entry = live.ids[r.name]

(* The inductive invariant of the places.                                  *)
SlotInv ==
    /\ slot \in [Places -> SlotType]
    /\ \A s \in Places : SlotRight(slot[s])
    /\ \A s, t \in Places : s # t /\ slot[s].stage = "published" /\ slot[t].stage = "published"
                               => ~Clash(slot[s], slot[t])
    /\ phase = "booting" => Ids!Distinct(live)

LEMMA FreeType == Ids!Free \in SlotType /\ Ids!Free.stage = "free" /\ Ids!Free.work = "none"
BY DEF Ids!Free, SlotType

(* One place changes to something right that does not clash.               *)
LEMMA OneSlotKeeps ==
    ASSUME SlotInv, NEW s \in Places, NEW r \in SlotType, slot' = [slot EXCEPT ![s] = r],
           phase' = phase, phase = "booting" => live' = live, SlotRight(r),
           \A t \in Places \ {s} : r.stage = "published" /\ slot[t].stage = "published"
                                      => ~Clash(r, slot[t])
    PROVE  SlotInv'
<1>1. /\ slot' \in [Places -> SlotType]
      /\ \A t \in Places : slot'[t] = IF t = s THEN r ELSE slot[t]
  BY DEF SlotInv
<1>2. ASSUME NEW q, SlotRight(q) PROVE SlotRight(q)'
  BY <1>2 DEF SlotRight
<1>3. \A t \in Places : SlotRight(slot[t])'
  <2>1. ASSUME NEW t \in Places PROVE \E q : q = slot'[t] /\ SlotRight(q)
    BY <1>1 DEF SlotInv
  <2>2. QED
    BY <1>2, <2>1
<1>4. \A t, u \in Places : t # u /\ slot'[t].stage = "published" /\ slot'[u].stage = "published"
                              => ~Clash(slot'[t], slot'[u])
  BY <1>1 DEF SlotInv, Clash
<1>5. phase' = "booting" => Ids!Distinct(live)'
  BY DEF SlotInv, Ids!Distinct
<1>6. QED
  BY <1>1, <1>3, <1>4, <1>5 DEF SlotInv

(* The daemon goes on and nothing in the places does.                      *)
LEMMA PhaseKeepsSlots ==
    ASSUME SlotInv, slot' = slot, phase' # "booting",
           \A r \in SlotType : SlotRight(r) => SlotRight(r)'
    PROVE  SlotInv'
<1>1. slot \in [Places -> SlotType] /\ \A s \in Places : SlotRight(slot[s])
  BY DEF SlotInv
<1>2. ASSUME NEW s \in Places PROVE SlotRight(slot[s])'
  <2>1. PICK r \in SlotType : r = slot[s] /\ SlotRight(r)
    BY <1>1
  <2>2. SlotRight(r)'
    BY <2>1
  <2>3. QED
    BY <2>1, <2>2
<1>3. QED
  BY <1>1, <1>2 DEF SlotInv

(* What a step makes of a slot that is not, or no longer, published.       *)
LEMMA Unpublished ==
    ASSUME NEW r \in SlotType, r.stage # "published", phase \notin {"down", "booting"},
           r.work = "none" \/ r.stage \in {"starting", "undoing"},
           phase \in {"joined", "stopped"} => r.stage \notin {"starting", "undoing"}
    PROVE  SlotRight(r)
BY DEF SlotRight

(* An identity is activated, taken down, loaded or stopped.                *)
LEMMA ActivatingKeeps ==
    ASSUME Ids!IdentitiesApart, EditInv, SlotInv, NEW s \in Places, Ids!Activating(s)
    PROVE  SlotInv'
<1> DEFINE q == slot[s]
<1>0. /\ slot \in [Places -> SlotType] /\ q \in SlotType /\ SlotRight(q) /\ phase \in Phases
      /\ \A t \in Places \ {s} : q.stage = "published" /\ slot[t].stage = "published"
                                    => ~Clash(q, slot[t])
      /\ DOMAIN slot = Places
  BY DEF SlotInv, EditInv, EditTypes
<1>1. /\ Ids!Free \in SlotType /\ Ids!Free.stage = "free" /\ Ids!Free.work = "none"
      /\ Ids!Free.stage # "published"
  BY FreeType
<1>2. SlotRight(Ids!Free)
  BY <1>1 DEF SlotRight
<1>3. ASSUME phase' = phase, live' = live, NEW r \in SlotType, slot' = [slot EXCEPT ![s] = r],
             SlotRight(r),
             r.stage = "published" =>
                q.stage = "published" /\ r.name = q.name /\ r.entry = q.entry
      PROVE  SlotInv'
  <2>1. \A t \in Places \ {s} : r.stage = "published" /\ slot[t].stage = "published"
                                   => ~Clash(r, slot[t])
    BY <1>0, <1>3 DEF Clash
  <2>2. QED
    BY <1>3, <2>1, OneSlotKeeps
<1>4. CASE Ids!Admit(s)
  <2>1. /\ q.stage = "asked" /\ phase' = phase /\ live' = live
        /\ \/ slot' = [slot EXCEPT ![s] = Ids!Free]
           \/ slot' = [slot EXCEPT ![s] = [q EXCEPT !.stage = "waiting"]]
    BY <1>4 DEF Ids!Admit, Ids!config
  <2>2. PICK r \in SlotType : r = [q EXCEPT !.stage = "waiting"] /\ r.stage = "waiting" /\ r.work = q.work
    <3>1. /\ [q EXCEPT !.stage = "waiting"] \in SlotType
          /\ [q EXCEPT !.stage = "waiting"].stage = "waiting"
          /\ [q EXCEPT !.stage = "waiting"].work = q.work
      BY <1>0 DEF SlotType
    <3>2. QED
      BY <3>1
  <2>3. SlotRight(r)
    <3>1. q.work = "none" /\ phase \notin {"down", "booting"}
      BY <1>0, <1>1, <2>1 DEF SlotRight
    <3>2. QED
      BY <2>2, <3>1, Unpublished
  <2>4. QED
    BY <1>1, <1>2, <1>3, <2>1, <2>2, <2>3
<1>5. CASE Ids!Enter(s)
  <2>1. /\ q.stage = "waiting" /\ phase' = phase /\ live' = live
        /\ \/ slot' = [slot EXCEPT ![s] = Ids!Free]
           \/ ~Ids!Closing /\ slot' = [slot EXCEPT ![s] = [q EXCEPT !.stage = "starting"]]
    BY <1>5 DEF Ids!Enter, Ids!config
  <2>2. PICK r \in SlotType : r = [q EXCEPT !.stage = "starting"] /\ r.stage = "starting" /\ r.work = q.work
    <3>1. /\ [q EXCEPT !.stage = "starting"] \in SlotType
          /\ [q EXCEPT !.stage = "starting"].stage = "starting"
          /\ [q EXCEPT !.stage = "starting"].work = q.work
      BY <1>0 DEF SlotType
    <3>2. QED
      BY <3>1
  <2>3. ~Ids!Closing => SlotRight(r)
    <3>1. phase \notin {"down", "booting"}
      BY <1>0, <1>1, <2>1 DEF SlotRight
    <3>2. ~Ids!Closing => phase \notin {"joined", "stopped"}
      BY DEF Ids!Closing
    <3>3. QED
      BY <2>2, <3>1, <3>2, Unpublished
  <2>4. QED
    BY <1>1, <1>2, <1>3, <2>1, <2>2, <2>3
<1>6. CASE Ids!StartWork(s)
  <2>1. /\ q.stage = "starting" /\ phase' = phase /\ live' = live
        /\ \E state \in {"running", "failed"} : slot' = [slot EXCEPT ![s].work = state]
    BY <1>6 DEF Ids!StartWork, Ids!config
  <2>2. PICK r \in SlotType : slot' = [slot EXCEPT ![s] = r] /\ r.stage = "starting"
    <3>1. PICK state \in {"running", "failed"} : slot' = [slot EXCEPT ![s].work = state]
      BY <2>1
    <3>2. [q EXCEPT !.work = state] \in SlotType /\ [q EXCEPT !.work = state].stage = "starting"
      BY <1>0, <2>1 DEF SlotType
    <3>3. slot' = [slot EXCEPT ![s] = [q EXCEPT !.work = state]]
      BY <3>1
    <3>4. QED
      BY <3>2, <3>3
  <2>3. SlotRight(r)
    BY <1>0, <1>1, <2>1, <2>2, Unpublished DEF SlotRight
  <2>4. QED
    BY <1>3, <2>1, <2>2, <2>3
<1>7. CASE Ids!WorkFails(s) \/ Ids!StopRoom(s) \/ Ids!StopCompanion(s)
  <2>1. PICK state \in {"none", "failed"} :
           /\ slot' = [slot EXCEPT ![s].work = state] /\ phase' = phase /\ live' = live
           /\ state = "failed" => q.work = "running"
           /\ state = "none" => q.stage = "published"
    BY <1>7 DEF Ids!WorkFails, Ids!StopRoom, Ids!StopCompanion, Ids!config, Ids!Active
  <2>2. PICK r \in SlotType :
           /\ slot' = [slot EXCEPT ![s] = r] /\ r.work = state /\ r.stage = q.stage
           /\ r.name = q.name /\ r.entry = q.entry /\ r.asSaved = q.asSaved
    <3>1. /\ [q EXCEPT !.work = state] \in SlotType
          /\ [q EXCEPT !.work = state].stage = q.stage /\ [q EXCEPT !.work = state].work = state
          /\ [q EXCEPT !.work = state].name = q.name /\ [q EXCEPT !.work = state].entry = q.entry
          /\ [q EXCEPT !.work = state].asSaved = q.asSaved
      BY <1>0 DEF SlotType
    <3>2. slot' = [slot EXCEPT ![s] = [q EXCEPT !.work = state]]
      BY <2>1
    <3>3. QED
      BY <3>1, <3>2
  <2>3. SlotRight(r)
    BY <1>0, <1>1, <2>1, <2>2 DEF SlotRight
  <2>4. QED
    BY <1>3, <2>1, <2>2, <2>3
<1>8. CASE Ids!Complete(s)
  <2>1. /\ q.stage = "starting" /\ ~Ids!Closing /\ ~Ids!Conflict(s) /\ Ids!StillSaved(s)
        /\ phase' = phase /\ live' = live
        /\ slot' = [slot EXCEPT ![s].stage = "published",
                                ![s].asSaved = file.ids[slot[s].name] = slot[s].entry]
    BY <1>8 DEF Ids!Complete, Ids!config
  <2>2. PICK r \in SlotType :
           /\ slot' = [slot EXCEPT ![s] = r] /\ r.stage = "published"
           /\ r.name = q.name /\ r.entry = q.entry
           /\ r.asSaved = (file.ids[q.name] = q.entry)
    <3> DEFINE saved == file.ids[q.name] = q.entry
    <3>0. PICK b \in BOOLEAN : b = saved
      OBVIOUS
    <3>1. /\ [q EXCEPT !.stage = "published", !.asSaved = b] \in SlotType
          /\ [q EXCEPT !.stage = "published", !.asSaved = b].stage = "published"
          /\ [q EXCEPT !.stage = "published", !.asSaved = b].name = q.name
          /\ [q EXCEPT !.stage = "published", !.asSaved = b].entry = q.entry
          /\ [q EXCEPT !.stage = "published", !.asSaved = b].asSaved = b
      BY <1>0 DEF SlotType
    <3>2. slot' = [slot EXCEPT ![s] = [q EXCEPT !.stage = "published", !.asSaved = b]]
      BY <1>0, <2>1, <3>0
    <3>3. QED
      BY <3>0, <3>1, <3>2
  <2>3. SlotRight(r)
    <3>1. q.name \notin Companions => r.asSaved
      BY <2>1, <2>2 DEF Ids!StillSaved, Ids!Room
    <3>2. phase \notin {"joined", "stopped", "down", "booting"}
      BY <1>0, <1>1, <2>1 DEF Ids!Closing, SlotRight
    <3>3. QED
      BY <2>2, <3>1, <3>2 DEF SlotRight
  <2>4. \A t \in Places \ {s} : slot[t].stage = "published" => ~Clash(r, slot[t])
    BY <2>1, <2>2 DEF Ids!Conflict, Ids!Active, Clash
  <2>5. QED
    BY <2>1, <2>2, <2>3, <2>4, OneSlotKeeps
<1>9. CASE Ids!GiveUp(s)
  <2>1. /\ phase' = phase /\ live' = live
        /\ \/ slot' = [slot EXCEPT ![s] = Ids!Free]
           \/ q.stage = "starting" /\ slot' = [slot EXCEPT ![s].stage = "undoing"]
    BY <1>9 DEF Ids!GiveUp, Ids!config
  <2>2. CASE slot' = [slot EXCEPT ![s] = Ids!Free]
    BY <1>1, <1>2, <1>3, <2>1, <2>2
  <2>3. CASE q.stage = "starting" /\ slot' = [slot EXCEPT ![s].stage = "undoing"]
    <3>1. PICK r \in SlotType : slot' = [slot EXCEPT ![s] = r] /\ r.stage = "undoing"
      <4>1. [q EXCEPT !.stage = "undoing"] \in SlotType /\ [q EXCEPT !.stage = "undoing"].stage = "undoing"
        BY <1>0 DEF SlotType
      <4>2. slot' = [slot EXCEPT ![s] = [q EXCEPT !.stage = "undoing"]]
        BY <2>3
      <4>3. QED
        BY <4>1, <4>2
    <3>2. SlotRight(r)
      BY <1>0, <1>1, <2>3, <3>1, Unpublished DEF SlotRight
    <3>3. QED
      BY <1>3, <2>1, <3>1, <3>2
  <2>4. QED
    BY <2>1, <2>2, <2>3
<1>10. CASE Ids!Undone(s)
  <2>1. phase' = phase /\ live' = live /\ slot' = [slot EXCEPT ![s] = Ids!Free]
    BY <1>10 DEF Ids!Undone, Ids!config
  <2>2. QED
    BY <1>1, <1>2, <1>3, <2>1
<1>11. ASSUME NEW n \in Names, Ids!Load(s, n) PROVE SlotInv'
  <2> DEFINE new == [stage |-> "published", name |-> n, entry |-> live.ids[n],
                     work |-> "running", asSaved |-> TRUE]
  <2>1. /\ phase = "booting" /\ live' = live /\ live.ids[n] # Absent
        /\ \A t \in Places : slot[t].stage = "published" => slot[t].name # n
        /\ \/ phase' = phase /\ slot' = [slot EXCEPT ![s] = new]
           \/ phase' = "stopping" /\ slot' = slot
    BY <1>11 DEF Ids!Load, Ids!config, Ids!Unloaded, Ids!Active
  <2>2. CASE phase' = phase /\ slot' = [slot EXCEPT ![s] = new]
    <3>1. live.ids[n] \in Ids!Entries
      BY <2>1 DEF EditInv, EditTypes, Ids!Configs
    <3>2. PICK r \in SlotType : /\ r.stage = "published" /\ r.name = n /\ r.entry = live.ids[n]
                                /\ r.asSaved = TRUE /\ r.work = "running" /\ r = new
      BY <3>1 DEF SlotType
    <3>3. SlotRight(r)
      BY <2>1, <3>2 DEF SlotRight
    <3>4. ASSUME NEW t \in Places \ {s}, slot[t].stage = "published" PROVE ~Clash(r, slot[t])
      <4>1. /\ slot[t].name \in Names /\ slot[t].entry = live.ids[slot[t].name]
            /\ live.ids[slot[t].name] # Absent /\ slot[t].name # n
        BY <1>1, <2>1, <3>4 DEF SlotInv, SlotRight
      <4>2. Ids!Distinct(live)
        BY <2>1 DEF SlotInv
      <4>3. QED
        BY <2>1, <3>2, <4>1, <4>2 DEF Clash, Ids!Distinct
    <3>5. slot' = [slot EXCEPT ![s] = r]
      BY <2>2, <3>2
    <3>6. QED
      BY <2>1, <2>2, <3>3, <3>4, <3>5, OneSlotKeeps
  <2>3. CASE phase' = "stopping" /\ slot' = slot
    BY <2>1, <2>3, PhaseKeepsSlots DEF SlotRight
  <2>4. QED
    BY <2>1, <2>2, <2>3
<1>12. CASE Ids!Notice(s)
  <2>1. phase = "running" /\ phase' = "stopping" /\ slot' = slot
    BY <1>12 DEF Ids!Notice, Ids!Shutdown
  <2>2. QED
    BY <2>1, PhaseKeepsSlots DEF SlotRight
<1>13. QED
  BY <1>4, <1>5, <1>6, <1>7, <1>8, <1>9, <1>10, <1>11, <1>12, Zenon
     DEF Ids!Activating

(* The invariant holds at the start.                                       *)
LEMMA SlotsStart == Ids!IdentitiesApart /\ Ids!Init => SlotInv
<1> SUFFICES ASSUME Ids!IdentitiesApart, Ids!Init PROVE SlotInv
  OBVIOUS
<1>1. slot \in [Places -> SlotType] /\ phase = "down" /\ \A s \in Places : slot[s] = Ids!Free
  BY FreeType DEF Ids!Init
<1>2. SlotRight(Ids!Free)
  BY <1>1, FreeType DEF SlotRight
<1>3. QED
  BY <1>1, <1>2, FreeType DEF SlotInv

(* The places are empty again.                                             *)
LEMMA Emptied ==
    ASSUME slot' = [s \in Places |-> Ids!Free], phase' = "down"
    PROVE  SlotInv'
<1>1. slot' \in [Places -> SlotType] /\ \A s \in Places : slot'[s] = Ids!Free
  BY FreeType
<1>2. SlotRight(Ids!Free)'
  <2>1. \E r : r = Ids!Free /\ r.stage = "free" /\ r.work = "none"
    BY FreeType
  <2>2. QED
    BY <2>1 DEF SlotRight, Ids!Free
<1>3. \A s \in Places : slot'[s].stage # "published"
  BY <1>1, FreeType
<1>4. \A s \in Places : SlotRight(slot[s])'
  BY <1>1, <1>2 DEF Ids!Free
<1>5. QED
  BY <1>1, <1>3, <1>4 DEF SlotInv

(* An edit touches no place but the unused one that it asks for.           *)
LEMMA EditingKeepsSlots ==
    ASSUME Ids!IdentitiesApart, EditInv, SlotInv, NEW w \in Writers, Ids!Editing(w)
    PROVE  SlotInv'
<1>1. CASE Ids!Publish(w)
  <2> DEFINE e == editor[w]
  <2>0. /\ phase' = phase /\ e.stage = "flushed"
        /\ \/ slot' = slot
           \/ /\ e.kind = "create"
              /\ \E s \in Places :
                   /\ slot[s] = Ids!Free
                   /\ slot' = [slot EXCEPT ![s] =
                        [Ids!Free EXCEPT !.stage = "asked", !.name = e.name,
                                         !.entry = e.candidate.ids[e.name]]]
    BY <1>1 DEF Ids!Publish
  <2>1. phase \in {"running", "stopping", "rooms_stopped"} /\ e \in EditorType /\ EditorRight(e)
    BY <2>0 DEF EditInv, OneEditor, EditTypes, CopiesRight, Ids!IdentitiesApart
  <2>2. CASE slot' = slot
    BY <2>0, <2>1, <2>2, PhaseKeepsSlots DEF SlotRight
  <2>3. CASE slot' # slot
    <3>1. PICK s \in Places :
             slot' = [slot EXCEPT ![s] =
                [Ids!Free EXCEPT !.stage = "asked", !.name = e.name,
                                 !.entry = e.candidate.ids[e.name]]]
      BY <2>0, <2>3
    <3>2. e.name \in Names /\ e.candidate.ids[e.name] \in Ids!Entries \cup {Absent}
      <4>1. e.name \in Names
        BY <2>0, <2>1, <2>3 DEF EditorRight, EditRight
      <4>2. QED
        BY <2>1, <4>1 DEF EditorType, Ids!Configs
    <3>3. PICK r \in SlotType : slot' = [slot EXCEPT ![s] = r] /\ r.stage = "asked" /\ r.work = "none"
      <4> DEFINE r == [Ids!Free EXCEPT !.stage = "asked", !.name = e.name,
                                      !.entry = e.candidate.ids[e.name]]
      <4>1. r \in SlotType /\ r.stage = "asked" /\ r.work = "none"
        BY <3>2 DEF SlotType, Ids!Free
      <4>2. QED
        BY <3>1, <4>1
    <3>4. SlotRight(r)
      BY <2>1, <3>3, Unpublished
    <3>5. QED
      BY <2>0, <2>1, <3>3, <3>4, OneSlotKeeps
  <2>4. QED
    BY <2>2, <2>3
<1>2. CASE ~Ids!Publish(w)
  <2>1. slot' = slot /\ phase' = phase /\ phase \in {"running", "stopping", "rooms_stopped"}
    <3>1. CASE \E what, name, key : Ids!BeginEdit(w, what, name, key)
      BY <3>1 DEF Ids!BeginEdit
    <3>2. CASE Ids!Replace(w) \/ Ids!FlushDirectory(w)
      <4>1. editor[w].stage # "idle"
        BY <3>2 DEF Ids!Replace, Ids!FlushDirectory
      <4>2. phase \in {"running", "stopping", "rooms_stopped"}
        BY <4>1 DEF EditInv, OneEditor, Ids!IdentitiesApart
      <4>3. QED
        BY <3>2, <4>2 DEF Ids!Replace, Ids!FlushDirectory
    <3>3. QED
      BY <1>2, <3>1, <3>2, Zenon DEF Ids!Editing
  <2>2. QED
    BY <2>1, PhaseKeepsSlots DEF SlotRight
<1>3. QED
  BY <1>1, <1>2

(* Every step keeps the invariant.                                         *)
LEMMA SlotStep ==
    ASSUME Ids!IdentitiesApart, EditInv, SlotInv, [Ids!Next]_(Ids!vars)
    PROVE  SlotInv'
<1>1. ASSUME NEW w \in Writers, Ids!Editing(w) PROVE SlotInv'
  BY <1>1, EditingKeepsSlots
<1>2. ASSUME NEW s \in Places, Ids!Activating(s) PROVE SlotInv'
  BY <1>2, ActivatingKeeps
<1>3. CASE Ids!Start
  <2>1. /\ phase = "down" /\ phase' = "booting" /\ live' = file /\ slot' = slot
        /\ Ids!Distinct(file)
    BY <1>3 DEF Ids!Start, EditInv, CopiesRight
  <2>2. \A s \in Places : slot[s] = Ids!Free /\ slot[s].stage # "published"
    BY <2>1, FreeType DEF SlotInv, SlotRight
  <2>3. \A s \in Places : SlotRight(slot[s])'
    BY <2>1, <2>2, FreeType DEF SlotRight, Ids!Free
  <2>4. Ids!Distinct(live)'
    BY <2>1 DEF Ids!Distinct
  <2>5. QED
    BY <2>1, <2>2, <2>3, <2>4 DEF SlotInv
<1>4. CASE Ids!Loaded
  <2>1. phase = "booting" /\ phase' = "running" /\ slot' = slot
    BY <1>4 DEF Ids!Loaded
  <2>2. QED
    BY <2>1, PhaseKeepsSlots DEF SlotRight
<1>5. CASE Ids!Shutdown \/ Ids!RoomsStopped \/ Ids!CloseHttp
  <2>1. /\ phase \notin {"booting", "down", "joined", "stopped"} /\ slot' = slot
        /\ phase' \in {"stopping", "rooms_stopped", "http_closed"}
    BY <1>5 DEF Ids!Shutdown, Ids!RoomsStopped, Ids!CloseHttp
  <2>2. QED
    BY <2>1, PhaseKeepsSlots DEF SlotRight
<1>6. CASE Ids!JoinActivations
  <2>1. /\ phase = "http_closed" /\ phase' = "joined" /\ slot' = slot
        /\ \A s \in Places : slot[s].stage \notin {"starting", "undoing"}
    BY <1>6 DEF Ids!JoinActivations
  <2>2. \A s \in Places : SlotRight(slot[s])'
    BY <2>1 DEF SlotInv, SlotRight
  <2>3. QED
    BY <2>1, <2>2 DEF SlotInv
<1>7. CASE Ids!Stopped
  <2>1. /\ phase = "joined" /\ phase' = "stopped" /\ slot' = slot
        /\ \A s \in Places : slot[s].stage = "published" => slot[s].work = "none"
    BY <1>7 DEF Ids!Stopped, Ids!Active
  <2>2. \A s \in Places : slot[s].work = "none"
    BY <2>1 DEF SlotInv, SlotRight
  <2>3. \A s \in Places : SlotRight(slot[s])'
    BY <2>1, <2>2 DEF SlotInv, SlotRight
  <2>4. QED
    BY <2>1, <2>3 DEF SlotInv
<1>8. CASE Ids!Exit
  BY <1>8, Emptied DEF Ids!Exit
<1>9. ASSUME NEW f \in {file, disk}, Ids!PowerLoss(f) PROVE SlotInv'
  BY <1>9, Emptied DEF Ids!PowerLoss
<1>10. CASE UNCHANGED Ids!vars
  <2>1. slot' = slot /\ phase' = phase /\ live' = live
    BY <1>10 DEF Ids!vars, Ids!config
  <2>2. \A s \in Places : SlotRight(slot[s])'
    BY <2>1 DEF SlotInv, SlotRight
  <2>3. phase' = "booting" => Ids!Distinct(live)'
    BY <2>1 DEF SlotInv, Ids!Distinct
  <2>4. QED
    BY <2>1, <2>2, <2>3 DEF SlotInv
<1>11. QED
  BY <1>1, <1>2, <1>3, <1>4, <1>5, <1>6, <1>7, <1>8, <1>9, <1>10 DEF Ids!Next

(* Both invariants hold throughout, for any identities, keys, writers and  *)
(* places, and however many edits and faults there are.                    *)
THEOREM IdentitiesInvariant == Ids!IdentitiesApart => (Ids!Spec => [](EditInv /\ SlotInv))
<1> SUFFICES ASSUME Ids!IdentitiesApart PROVE Ids!Spec => [](EditInv /\ SlotInv)
  OBVIOUS
<1>1. Ids!Init => EditInv /\ SlotInv
  BY EditsStart, SlotsStart
<1>2. (EditInv /\ SlotInv) /\ [Ids!Next]_(Ids!vars) => (EditInv /\ SlotInv)'
  BY EditStep, SlotStep
<1>3. QED
  BY <1>1, <1>2, PTL DEF Ids!Spec

(* Whichever threads edit at a time, and whatever fails or loses power,    *)
(* the file holds every reported edit and memory is never ahead of it      *)
(* (config_manager.py:379; atomic_file.py:19-20).                          *)
THEOREM SavedEditsSurvive == Ids!IdentitiesApart => (Ids!Spec => []Ids!EditsSurvive)
<1> SUFFICES ASSUME Ids!IdentitiesApart PROVE Ids!Spec => []Ids!EditsSurvive
  OBVIOUS
<1>1. EditInv /\ SlotInv => Ids!EditsSurvive
  BY EditsRight
<1>2. QED
  BY <1>1, IdentitiesInvariant, PTL

(* Whatever is edited, fails or ends while identities start, nothing runs  *)
(* without an owner, active ones share no name and no hash, a room is      *)
(* active only as saved, and nothing runs when the daemon has stopped      *)
(* (room_lifecycle.py:92-217; main.py:657-832, 1761-1814).                 *)
THEOREM IdentitiesHaveOwners == Ids!IdentitiesApart => (Ids!Spec => []Ids!IdentitiesOwned)
<1> SUFFICES ASSUME Ids!IdentitiesApart PROVE Ids!Spec => []Ids!IdentitiesOwned
  OBVIOUS
<1>1. ASSUME EditInv, SlotInv PROVE Ids!IdentitiesOwned
  <2>1. /\ \A s \in Places : SlotRight(slot[s])
        /\ \A s, t \in Places : s # t /\ slot[s].stage = "published" /\ slot[t].stage = "published"
                                  => ~Clash(slot[s], slot[t])
    BY <1>1 DEF SlotInv
  <2>2. \A s \in Ids!Active : ~Ids!Conflict(s) /\ (Ids!Room(s) => slot[s].asSaved)
    BY <2>1 DEF Ids!Active, Ids!Conflict, Ids!Room, Clash, SlotRight
  <2>3. /\ \A s \in Places : slot[s].work # "none" =>
              slot[s].stage \in {"starting", "undoing", "published"}
        /\ phase \in {"joined", "stopped"} =>
              \A s \in Places : slot[s].stage \notin {"starting", "undoing"}
        /\ phase = "stopped" => \A s \in Places : slot[s].work = "none"
    BY <2>1 DEF SlotRight
  <2>4. QED
    BY <2>2, <2>3 DEF Ids!IdentitiesOwned
<1>2. QED
  BY <1>1, IdentitiesInvariant, PTL

-----------------------------------------------------------------------------
(* The measurements of a calibration: Calibration.                         *)
CONSTANTS Tests, Nothing, MaxSessions

VARIABLES calibrating, session, worker, future, test, of, results, gate

Cad == INSTANCE Calibration WITH running <- calibrating, closing <- gate

(* Types of the calibration's state.                                       *)
CadTypes ==
    /\ session \in Nat
    /\ worker \in {"none", "loop", "waiting", "ending"}
    /\ future \in Tests \cup {Nothing}
    /\ test \in [Tests -> {"new", "handed", "measuring", "restoring", "measured",
                           "failed", "cancelled"}]
    /\ of \in [Tests -> Nat]
    /\ results \subseteq Tests
    /\ gate \in {"open", "closing", "closed"}

(* A measurement that goes on is the one waited for; the radio is put back *)
(* by that or, once the worker has given up, before another session.       *)
OneOnRadio ==
    /\ worker = "waiting" <=> future # Nothing
    /\ \A t \in Tests : test[t] \in {"handed", "measuring"} => t = future
    /\ \A t \in Tests : test[t] = "restoring" => t = future \/ worker \in {"ending", "none"}
    /\ \A t, u \in Cad!OnRadio : t = u
    /\ gate = "closed" => Cad!OnRadio = {}

(* What was measured is of this session.                                   *)
ResultsRight ==
    /\ future # Nothing => of[future] = session
    /\ \A t \in results : test[t] = "measured" /\ of[t] = session

(* The inductive invariant of the calibration.                             *)
CadInv == CadTypes /\ OneOnRadio /\ ResultsRight

(* One measurement changes, and not to one that goes on anew.              *)
LEMMA TestChanges ==
    ASSUME Cad!TestsApart, CadInv, NEW t \in Tests,
           NEW s \in {"measuring", "restoring", "measured", "failed", "cancelled"},
           test' = [test EXCEPT ![t] = s],
           s \in {"measuring", "restoring"} => t = future /\ test[t] \in {"handed", "measuring"},
           s \in {"measuring", "restoring"} => t \in Cad!OnRadio \/ gate = "open",
           test[t] \in {"handed", "measuring", "restoring"},
           UNCHANGED <<session, worker, future, of, results>>,
           gate' = gate \/ (gate = "open" /\ gate' = "closing")
    PROVE  CadInv'
<1>1. /\ CadTypes /\ OneOnRadio /\ ResultsRight
  BY DEF CadInv
<1>2. /\ \A u \in Tests : test'[u] = IF u = t THEN s ELSE test[u]
      /\ test' \in [Tests -> {"new", "handed", "measuring", "restoring", "measured",
                              "failed", "cancelled"}]
  BY <1>1 DEF CadTypes
<1>3. CadTypes'
  BY <1>1, <1>2 DEF CadTypes
<1>4. ASSUME NEW u \in Tests, NEW v \in Tests, u \in Cad!OnRadio', v \in Cad!OnRadio'
      PROVE  u = v
  <2>1. CASE s \notin {"measuring", "restoring"}
    BY <1>1, <1>2, <1>4, <2>1 DEF OneOnRadio, Cad!OnRadio
  <2>2. CASE s \in {"measuring", "restoring"}
    <3>1. t = future /\ worker = "waiting"
      BY <1>1, <2>2 DEF OneOnRadio, CadTypes, Cad!TestsApart
    <3>2. \A x \in Tests : x \in Cad!OnRadio' => x = t
      BY <1>1, <1>2, <3>1 DEF OneOnRadio, Cad!OnRadio
    <3>3. QED
      BY <1>4, <3>2
  <2>3. QED
    BY <2>1, <2>2
<1>5. ASSUME gate' = "closed" PROVE Cad!OnRadio' = {}
  <2>1. gate = "closed" /\ Cad!OnRadio = {}
    BY <1>1, <1>5 DEF OneOnRadio
  <2>2. s \notin {"measuring", "restoring"}
    BY <2>1
  <2>3. QED
    BY <1>2, <2>1, <2>2 DEF Cad!OnRadio
<1>6. OneOnRadio'
  <2>1. Cad!OnRadio' \subseteq Tests
    BY DEF Cad!OnRadio
  <2>2. \A u, v \in Cad!OnRadio' : u = v
    BY <1>4, <2>1
  <2>3. \A u \in Tests : test'[u] \in {"handed", "measuring"} => u = future'
    BY <1>1, <1>2 DEF OneOnRadio
  <2>4. \A u \in Tests : test'[u] = "restoring" =>
            u = future' \/ worker' \in {"ending", "none"}
    BY <1>1, <1>2 DEF OneOnRadio
  <2>5. QED
    BY <1>1, <1>5, <2>2, <2>3, <2>4 DEF OneOnRadio
<1>7. ResultsRight'
  BY <1>1, <1>2 DEF ResultsRight, CadTypes
<1>8. QED
  BY <1>3, <1>6, <1>7 DEF CadInv

(* Nothing but the worker, the flag or the gate changes.                   *)
LEMMA TestsKept ==
    ASSUME CadInv, UNCHANGED <<session, future, test, of, results>>,
           worker' \in {"none", "loop", "waiting", "ending"},
           worker' = "waiting" <=> worker = "waiting",
           worker \in {"ending", "none"} => worker' \in {"ending", "none"},
           gate' \in {"open", "closing", "closed"},
           gate' = "closed" => Cad!OnRadio = {}
    PROVE  CadInv'
<1>1. Cad!OnRadio' = Cad!OnRadio
  BY DEF Cad!OnRadio
<1>2. QED
  BY <1>1 DEF CadInv, CadTypes, OneOnRadio, ResultsRight

(* The future is cancelled and kept.                                       *)
LEMMA CancelKeeps ==
    ASSUME Cad!TestsApart, CadInv, Cad!CancelFuture, UNCHANGED <<session, worker, future, of, results>>,
           gate' = gate \/ (gate = "open" /\ gate' = "closing")
    PROVE  CadInv'
<1>1. CadTypes /\ OneOnRadio
  BY DEF CadInv
<1>2. CASE future = Nothing \/ test[future] \notin {"handed", "measuring"}
  <2>1. test' = test
    BY <1>1, <1>2 DEF Cad!CancelFuture, Cad!Cancelled, CadTypes
  <2>2. QED
    BY <1>1, <2>1, TestsKept DEF CadTypes, OneOnRadio
<1>3. CASE future # Nothing /\ test[future] \in {"handed", "measuring"}
  <2>1. future \in Tests
    BY <1>1, <1>3 DEF CadTypes
  <2>2. CASE test[future] = "handed"
    <3>1. test' = [test EXCEPT ![future] = "cancelled"]
      BY <1>3, <2>2 DEF Cad!CancelFuture, Cad!Cancelled
    <3>2. QED
      BY <2>1, <2>2, <3>1, TestChanges
  <2>3. CASE test[future] = "measuring"
    <3>1. test' = [test EXCEPT ![future] = "restoring"] /\ future \in Cad!OnRadio
      BY <1>3, <2>1, <2>3 DEF Cad!CancelFuture, Cad!Cancelled, Cad!OnRadio
    <3>2. QED
      BY <2>1, <2>3, <3>1, TestChanges
  <2>4. QED
    BY <1>3, <2>2, <2>3
<1>4. QED
  BY <1>2, <1>3

(* A session begins with nothing of the last one on the radio.             *)
LEMMA StartSession == CadInv /\ Cad!Start => CadInv'
<1> SUFFICES ASSUME CadInv, Cad!Start PROVE CadInv'
  OBVIOUS
<1>1. CadTypes /\ OneOnRadio /\ ResultsRight
  BY DEF CadInv
<1>2. /\ future = Nothing /\ worker' = "loop" /\ session' = session + 1 /\ results' = {}
      /\ Cad!OnRadio = {} /\ Cad!OnRadio' = {}
      /\ UNCHANGED <<future, test, of, gate>>
  BY <1>1 DEF Cad!Start, OneOnRadio, Cad!OnRadio
<1>3. \A t \in Tests : test[t] # "restoring"
  BY <1>2 DEF Cad!OnRadio
<1>4. QED
  BY <1>1, <1>2, <1>3 DEF CadInv, CadTypes, OneOnRadio, ResultsRight

(* A new measurement is handed over.                                       *)
LEMMA HandOverKeeps == Cad!TestsApart /\ CadInv /\ Cad!HandOver => CadInv'
<1> SUFFICES ASSUME Cad!TestsApart, CadInv, Cad!HandOver PROVE CadInv'
  OBVIOUS
<1>1. CadTypes /\ OneOnRadio /\ ResultsRight
  BY DEF CadInv
<1>2. PICK t \in Tests : /\ test[t] = "new"
                         /\ test' = [test EXCEPT ![t] = "handed"]
                         /\ of' = [of EXCEPT ![t] = session]
                         /\ future' = t
  BY DEF Cad!HandOver
<1>3. /\ worker = "loop" /\ worker' = "waiting" /\ future = Nothing
      /\ UNCHANGED <<session, results, gate>>
  BY <1>1 DEF Cad!HandOver, OneOnRadio
<1>4. /\ \A u \in Tests : test'[u] = IF u = t THEN "handed" ELSE test[u]
      /\ \A u \in Tests : of'[u] = IF u = t THEN session ELSE of[u]
  BY <1>1, <1>2 DEF CadTypes
<1>5. CadTypes'
  BY <1>1, <1>2, <1>3 DEF CadTypes
<1>6. Cad!OnRadio' = Cad!OnRadio
  BY <1>2, <1>4 DEF Cad!OnRadio
<1>7. OneOnRadio'
  BY <1>1, <1>2, <1>3, <1>4, <1>6 DEF OneOnRadio, Cad!TestsApart
<1>8. ResultsRight'
  BY <1>1, <1>2, <1>3, <1>4 DEF ResultsRight, CadTypes
<1>9. QED
  BY <1>5, <1>7, <1>8 DEF CadInv

(* The worker has a result.                                                *)
LEMMA ResultKeeps == CadInv /\ Cad!TakeResult => CadInv'
<1> SUFFICES ASSUME CadInv, Cad!TakeResult PROVE CadInv'
  OBVIOUS
<1>1. CadTypes /\ OneOnRadio /\ ResultsRight
  BY DEF CadInv
<1>2. /\ worker = "waiting" /\ worker' = "loop" /\ future' = Nothing /\ future \in Tests
      /\ test[future] = "measured" /\ results' = results \cup {future}
      /\ UNCHANGED <<session, test, of, gate>> /\ Cad!OnRadio' = Cad!OnRadio
  BY <1>1 DEF Cad!TakeResult, OneOnRadio, CadTypes, Cad!OnRadio
<1>3. \A t \in Tests : test[t] \notin {"handed", "measuring"} /\ test[t] # "restoring"
  BY <1>1, <1>2 DEF OneOnRadio
<1>4. QED
  BY <1>1, <1>2, <1>3 DEF CadInv, CadTypes, OneOnRadio, ResultsRight

(* The worker gives up: no measurement goes on, one may put the radio back.*)
LEMMA NoResultKeeps == CadInv /\ Cad!NoResult => CadInv'
<1> SUFFICES ASSUME CadInv, Cad!NoResult PROVE CadInv'
  OBVIOUS
<1>1. CadTypes /\ OneOnRadio /\ ResultsRight
  BY DEF CadInv
<1>2. /\ worker = "waiting" /\ worker' = "ending" /\ future' = Nothing /\ future \in Tests
      /\ future # Nothing /\ UNCHANGED <<session, of, results, gate>>
  BY <1>1 DEF Cad!NoResult, OneOnRadio, CadTypes
<1>3. PICK s \in {"new", "handed", "measuring", "restoring", "measured", "failed",
                  "cancelled"} : s = Cad!Cancelled(future)
  BY <1>1, <1>2 DEF Cad!Cancelled, CadTypes
<1>4. /\ test' \in [Tests -> {"new", "handed", "measuring", "restoring", "measured",
                              "failed", "cancelled"}]
      /\ \A u \in Tests : test'[u] = IF u = future THEN s ELSE test[u]
  BY <1>1, <1>2, <1>3 DEF Cad!NoResult, Cad!CancelFuture, CadTypes
<1>5. /\ s \notin {"handed", "measuring"}
      /\ s = "restoring" => future \in Cad!OnRadio
      /\ s = test[future] \/ test[future] # "measured"
  BY <1>2, <1>3 DEF Cad!Cancelled, Cad!OnRadio
<1>6. \A u \in Tests : u \in Cad!OnRadio' => u \in Cad!OnRadio
  BY <1>4, <1>5 DEF Cad!OnRadio
<1>7. Cad!OnRadio' \subseteq Cad!OnRadio
  BY <1>6 DEF Cad!OnRadio
<1>8. CadTypes'
  BY <1>1, <1>2, <1>4 DEF CadTypes
<1>9. OneOnRadio'
  BY <1>1, <1>2, <1>4, <1>5, <1>7 DEF OneOnRadio
<1>10. ResultsRight'
  BY <1>1, <1>2, <1>4, <1>5 DEF ResultsRight, CadTypes
<1>11. QED
  BY <1>8, <1>9, <1>10 DEF CadInv

(* The event loop begins a measurement, or ends it.                        *)
LEMMA LoopKeeps ==
    ASSUME Cad!TestsApart, CadInv, NEW t \in Tests, Cad!Begin(t) \/ Cad!Measured(t) \/ Cad!Restored(t)
    PROVE  CadInv'
<1>0. CadTypes /\ OneOnRadio
  BY DEF CadInv
<1>1. CASE Cad!Begin(t)
  <2>1. CASE gate # "open" \/ ~calibrating \/ of[t] # session
    <3>1. test' = [test EXCEPT ![t] = "cancelled"]
      BY <1>1, <2>1 DEF Cad!Begin
    <3>2. QED
      BY <1>1, <3>1, TestChanges DEF Cad!Begin
  <2>2. CASE ~(gate # "open" \/ ~calibrating \/ of[t] # session)
    <3>1. test' = [test EXCEPT ![t] = "measuring"] /\ test[t] = "handed" /\ gate = "open"
      BY <1>1, <2>2 DEF Cad!Begin
    <3>2. t = future
      BY <1>0, <3>1 DEF OneOnRadio
    <3>3. QED
      BY <1>1, <3>1, <3>2, TestChanges DEF Cad!Begin
  <2>3. QED
    BY <2>1, <2>2
<1>2. CASE Cad!Measured(t)
  BY <1>2, TestChanges DEF Cad!Measured
<1>3. CASE Cad!Restored(t)
  BY <1>3, TestChanges DEF Cad!Restored
<1>4. QED
  BY <1>1, <1>2, <1>3

(* Every step keeps the invariant.                                         *)
LEMMA CadStep == Cad!TestsApart /\ CadInv /\ [Cad!Next]_(Cad!vars) => CadInv'
<1> SUFFICES ASSUME Cad!TestsApart, CadInv, [Cad!Next]_(Cad!vars) PROVE CadInv'
  OBVIOUS
<1>0. CadTypes /\ OneOnRadio
  BY DEF CadInv
<1>1. CASE Cad!Stop
  BY <1>1, CancelKeeps DEF Cad!Stop
<1>2. CASE Cad!Close
  BY <1>2, CancelKeeps DEF Cad!Close
<1>3. CASE Cad!Closed
  BY <1>0, <1>3, TestsKept DEF Cad!Closed, CadTypes
<1>4. CASE Cad!LeaveLoop
  BY <1>0, <1>4, TestsKept DEF Cad!LeaveLoop, CadTypes, OneOnRadio
<1>5. CASE Cad!WorkerEnds
  BY <1>0, <1>5, TestsKept DEF Cad!WorkerEnds, CadTypes, OneOnRadio
<1>6. CASE UNCHANGED Cad!vars
  BY <1>0, <1>6, TestsKept DEF Cad!vars, CadTypes, OneOnRadio
<1>7. QED
  BY <1>1, <1>2, <1>3, <1>4, <1>5, <1>6, StartSession, HandOverKeeps, ResultKeeps,
     NoResultKeeps, LoopKeeps DEF Cad!Next

(* Two measurements never have the radio at once, whatever was stopped,    *)
(* timed out or started again, none has it when close() is done, and the   *)
(* results are of one session (cad_calibration_engine.py:343, 374-384),    *)
(* for any measurements and sessions.                                      *)
THEOREM RadioHasOneTest == Cad!TestsApart => (Cad!Spec => []Cad!OneTestAtATime)
<1> SUFFICES ASSUME Cad!TestsApart PROVE Cad!Spec => []Cad!OneTestAtATime
  OBVIOUS
<1>1. Cad!Init => CadInv
  BY DEF Cad!Init, CadInv, CadTypes, OneOnRadio, ResultsRight, Cad!OnRadio
<1>2. CadInv /\ [Cad!Next]_(Cad!vars) => CadInv'
  BY CadStep
<1>3. ASSUME CadInv PROVE Cad!OneTestAtATime
  <2>1. Cardinality(Cad!OnRadio) <= 1
    <3>1. CASE Cad!OnRadio = {}
      BY <3>1, FS_EmptySet
    <3>2. CASE Cad!OnRadio # {}
      <4>1. PICK t : t \in Cad!OnRadio
        BY <3>2
      <4>2. Cad!OnRadio = {t}
        BY <1>3, <4>1 DEF CadInv, OneOnRadio
      <4>3. Cardinality({t}) = 1
        BY FS_Singleton
      <4>4. QED
        BY <4>2, <4>3
    <3>3. QED
      BY <3>1, <3>2
  <2>2. Cad!Cardinality(Cad!OnRadio) = Cardinality(Cad!OnRadio)
    BY DEF Cad!Cardinality, Cardinality
  <2>3. QED
    BY <1>3, <2>1, <2>2 DEF CadInv, OneOnRadio, ResultsRight, Cad!OneTestAtATime
<1>4. QED
  BY <1>1, <1>2, <1>3, PTL DEF Cad!Spec

-----------------------------------------------------------------------------
(* The life of the process: Daemon.                                        *)
CONSTANTS Optional, MaxMishaps

VARIABLES wanted, up, closed, broken, stage, asked, ended, outcome, cleanup, ready, left,
          mishaps

Run == INSTANCE Daemon WITH pc <- stage, faults <- mishaps, MaxFaults <- MaxMishaps

(* The parts that are stopped by the first steps of the shutdown, and the  *)
(* steps after those.                                                      *)
FirstParts(i) == {Run!StopOrder[j] : j \in 1..i}
Remaining(i)  == [j \in 1..(12 - i) |-> Run!StopOrder[j + i]]

(* So many steps of the shutdown are done: of their parts none runs but    *)
(* what could not be stopped, and of the others none was closed.           *)
StepsDone(i) ==
    /\ left = Remaining(i)
    /\ closed \subseteq FirstParts(i)
    /\ up \cap FirstParts(i) \subseteq broken
    /\ stage \notin {"stop", "exited"} => i = 0
    /\ stage = "exited" => i = 12

(* The inductive invariant of the process.                                 *)
RunInv ==
    /\ wanted \subseteq Run!Parts /\ up \subseteq Run!Parts
    /\ \E i \in 0..12 : StepsDone(i)
    /\ stage \in {"stop", "exited"} /\ outcome = "none" => asked
    /\ stage = "exited" /\ outcome = "none" => ~cleanup

(* The order of the shutdown.                                              *)
LEMMA OrderFacts ==
    /\ Run!StopOrder \in [1..12 -> Run!Parts] /\ Len(Run!StopOrder) = 12
    /\ Remaining(0) = Run!StopOrder
    /\ FirstParts(12) = Run!Parts
<1>1. Run!StopOrder \in [1..12 -> Run!Parts] /\ Len(Run!StopOrder) = 12
      /\ DOMAIN Run!StopOrder = 1..12
  BY DEF Run!StopOrder, Run!Parts
<1>2. Remaining(0) = Run!StopOrder
  <2>1. \A j \in 1..12 : Remaining(0)[j] = Run!StopOrder[j]
    BY DEF Remaining
  <2>2. DOMAIN Remaining(0) = 1..12 /\ Remaining(0) = [j \in 1..12 |-> Remaining(0)[j]]
    BY DEF Remaining
  <2>3. Run!StopOrder = [j \in 1..12 |-> Run!StopOrder[j]]
    BY <1>1
  <2>4. QED
    BY <2>1, <2>2, <2>3
<1>3. FirstParts(12) = Run!Parts
  <2>1. FirstParts(12) \subseteq Run!Parts
    BY <1>1 DEF FirstParts
  <2>2. ASSUME NEW p \in Run!Parts PROVE p \in FirstParts(12)
    <3>1. \E j \in 1..12 : Run!StopOrder[j] = p
      BY DEF Run!Parts, Run!StopOrder
    <3>2. QED
      BY <3>1 DEF FirstParts
  <2>3. QED
    BY <2>1, <2>2
<1>4. QED
  BY <1>1, <1>2, <1>3

(* Who hands work to a part is stopped before it.                          *)
LEMMA ProducersFirst ==
    ASSUME NEW i \in 0..12, NEW f \in Run!Feeds, f[2] \in FirstParts(i)
    PROVE  f[1] \in FirstParts(i)
<1>1. PICK j \in 1..i : Run!StopOrder[j] = f[2]
  BY DEF FirstParts
<1>2. \E k \in 1..12 : k < j /\ Run!StopOrder[k] = f[1]
  <2>0. j \in 1..12
    BY <1>1
  <2>1. \A a \in 1..12 : \A g \in Run!Feeds :
           Run!StopOrder[a] = g[2] => \E k \in 1..12 : k < a /\ Run!StopOrder[k] = g[1]
    BY DEF Run!Feeds, Run!StopOrder
  <2>2. QED
    BY <1>1, <2>0, <2>1
<1>3. QED
  BY <1>1, <1>2 DEF FirstParts

(* Before the shutdown parts may start.                                    *)
LEMMA StartsKeep ==
    ASSUME RunInv, stage \notin {"stop", "exited"}, up' \subseteq up \cup wanted,
           UNCHANGED <<wanted, closed, broken, left>>, stage' # "exited",
           stage' = "stop" /\ outcome' = "none" => asked'
    PROVE  RunInv'
<1>1. StepsDone(0)
  BY DEF RunInv, StepsDone
<1>2. StepsDone(0)'
  BY <1>1 DEF StepsDone, FirstParts
<1>3. QED
  BY <1>2 DEF RunInv

(* One part is stopped, or cannot be.                                      *)
LEMMA StopKeeps == RunInv /\ Run!StopNext => RunInv'
<1> SUFFICES ASSUME RunInv, Run!StopNext PROVE RunInv'
  OBVIOUS
<1>1. PICK i \in 0..12 : StepsDone(i)
  BY DEF RunInv
<1>2. i \in 0..11
  BY <1>1 DEF Run!StopNext, StepsDone, Remaining
<1>3. Head(left) = Run!StopOrder[i + 1] /\ Tail(left) = Remaining(i + 1)
  <2>1. left = Remaining(i) /\ Len(Remaining(i)) = 12 - i
        /\ Remaining(i) \in Seq(Run!Parts)
    BY <1>1, <1>2, OrderFacts DEF StepsDone, Remaining
  <2>2. Head(Remaining(i)) = Run!StopOrder[i + 1]
    BY <1>2 DEF Remaining
  <2>3. Tail(Remaining(i)) = [j \in 1..(12 - i - 1) |-> Remaining(i)[j + 1]]
    <3> DEFINE r == Remaining(i)
    <3>1. r \in Seq(Run!Parts) /\ Len(r) = 12 - i /\ r # <<>>
      BY <1>2, <2>1
    <3> HIDE DEF r
    <3>2. /\ Tail(r) \in Seq(Run!Parts) /\ Len(Tail(r)) = 12 - i - 1
          /\ \A j \in 1..(12 - i - 1) : Tail(r)[j] = r[j + 1]
      BY <1>2, <3>1
    <3>3. Tail(r) = [j \in 1..(12 - i - 1) |-> Tail(r)[j]]
      <4>1. \A q \in Seq(Run!Parts) : q = [j \in 1..Len(q) |-> q[j]]
        OBVIOUS
      <4>2. QED
        BY <3>2, <4>1
    <3>4. QED
      BY <3>2, <3>3 DEF r
  <2>4. \A j \in 1..(12 - i - 1) : Remaining(i)[j + 1] = Run!StopOrder[j + (i + 1)]
    BY <1>2 DEF Remaining
  <2>5. QED
    BY <1>2, <2>1, <2>2, <2>3, <2>4 DEF Remaining
<1>4. FirstParts(i + 1) = FirstParts(i) \cup {Head(left)}
  BY <1>2, <1>3 DEF FirstParts
<1>5. /\ left' = Remaining(i + 1)
      /\ stage = "stop" /\ stage' = "stop" /\ wanted' = wanted /\ outcome' = outcome
      /\ asked' = asked
      /\ \/ /\ up' = up \ {Head(left)} /\ closed' \subseteq closed \cup {Head(left)}
            /\ broken' = broken
         \/ broken' = broken \cup {Head(left)} /\ up' = up /\ closed' = closed
  BY <1>3 DEF Run!StopNext
<1>6. /\ closed' \subseteq FirstParts(i + 1)
      /\ up' \cap FirstParts(i + 1) \subseteq broken' /\ up' \subseteq up
  BY <1>1, <1>4, <1>5 DEF StepsDone
<1>7. StepsDone(i + 1)'
  BY <1>5, <1>6 DEF StepsDone, FirstParts, Remaining
<1>8. QED
  BY <1>2, <1>5, <1>6, <1>7 DEF RunInv

(* What happens to the process changes no part.                            *)
LEMMA PartsKept ==
    ASSUME RunInv, UNCHANGED <<wanted, up, closed, broken, left>>,
           stage' = stage \/ (stage \notin {"stop", "exited"} /\ stage' = "stop"),
           outcome' = "none" => outcome = "none" /\ (stage' = stage \/ asked),
           asked => asked', cleanup' = cleanup
    PROVE  RunInv'
<1>1. PICK i \in 0..12 : StepsDone(i)
  BY DEF RunInv
<1>2. StepsDone(i)'
  BY <1>1 DEF StepsDone, FirstParts, Remaining
<1>3. QED
  BY <1>2 DEF RunInv

(* Every step of the start, and what the start does not wait for.          *)
LEMMA StartStep ==
    ASSUME RunInv,
           \/ Run!StartRadio \/ Run!StartCore \/ Run!StartHelpers \/ Run!StartRooms
           \/ Run!StartCompanions \/ Run!StartGlass \/ Run!StartBridge
           \/ Run!StartChannels \/ Run!StartDispatcher \/ Run!FirstCheck
           \/ Run!StartHttp \/ Run!StartRetention \/ Run!SecondCheck \/ Run!Notify
    PROVE  RunInv'
<1>1. ASSUME NEW parts, NEW next, Run!Starts(parts, next), next \notin {"stop", "exited"},
             stage \notin {"stop", "exited"}
      PROVE  RunInv'
  BY <1>1, StartsKeep DEF Run!Starts
<1>2. ASSUME NEW at, NEW next, Run!Check(at, next), next \notin {"stop", "exited"},
             at \notin {"stop", "exited"}
      PROVE  RunInv'
  BY <1>2, StartsKeep DEF Run!Check
<1>3. CASE Run!StartHttp
  BY <1>3, StartsKeep DEF Run!StartHttp
<1>4. CASE Run!StartRetention
  BY <1>4, StartsKeep DEF Run!StartRetention
<1>5. CASE Run!Notify
  BY <1>5, StartsKeep DEF Run!Notify
<1>6. CASE Run!FirstCheck \/ Run!SecondCheck
  BY <1>2, <1>6 DEF Run!FirstCheck, Run!SecondCheck
<1>7. CASE \/ Run!StartRadio \/ Run!StartCore \/ Run!StartHelpers \/ Run!StartRooms
           \/ Run!StartCompanions
  BY <1>1, <1>7 DEF Run!StartRadio, Run!StartCore, Run!StartHelpers, Run!StartRooms,
                    Run!StartCompanions
<1>8. CASE \/ Run!StartGlass \/ Run!StartBridge \/ Run!StartChannels
           \/ Run!StartDispatcher
  BY <1>1, <1>8 DEF Run!StartGlass, Run!StartBridge, Run!StartChannels,
                    Run!StartDispatcher
<1>9. QED
  BY <1>3, <1>4, <1>5, <1>6, <1>7, <1>8

(* Every step keeps the invariant.                                         *)
LEMMA RunStep == RunInv /\ [Run!Next]_(Run!vars) => RunInv'
<1> SUFFICES ASSUME RunInv, [Run!Next]_(Run!vars) PROVE RunInv'
  OBVIOUS
<1>1. CASE Run!Signal
  BY <1>1, PartsKept DEF Run!Signal
<1>2. CASE Run!RequiredTaskEnds
  BY <1>2, PartsKept DEF Run!RequiredTaskEnds
<1>3. CASE Run!Wait
  BY <1>3, PartsKept DEF Run!Wait
<1>4. CASE Run!Cancel
  BY <1>4, PartsKept DEF Run!Cancel
<1>5. CASE UNCHANGED Run!vars
  BY <1>5, PartsKept DEF Run!vars
<1>6. CASE Run!Exit
  <2>1. PICK i \in 0..12 : StepsDone(i)
    BY DEF RunInv
  <2>2. i = 12
    <3>1. SUFFICES ASSUME i # 12 PROVE FALSE
      OBVIOUS
    <3>2. left = Remaining(i) /\ left = <<>> /\ 1 \in 1..(12 - i)
      BY <1>6, <2>1, <3>1 DEF Run!Exit, StepsDone
    <3>3. DOMAIN Remaining(i) = 1..(12 - i)
      BY DEF Remaining
    <3>4. QED
      BY <3>2, <3>3
  <2>3. StepsDone(12)'
    BY <1>6, <2>1, <2>2 DEF Run!Exit, StepsDone, FirstParts, Remaining
  <2>4. outcome' = "none" => outcome = "none" /\ ~cleanup
    BY <1>6 DEF Run!Exit
  <2>5. QED
    BY <1>6, <2>3, <2>4 DEF Run!Exit, RunInv
<1>7. QED
  BY <1>1, <1>2, <1>3, <1>4, <1>5, <1>6, StartStep, StopKeeps DEF Run!Next

(* At the end of the process nothing runs but what could not be stopped,   *)
(* nothing was closed before those that hand it work, and an end nobody    *)
(* asked for is not reported as a normal one, whatever fails or is         *)
(* cancelled on the way, and whichever parts are configured                *)
(* (main.py:1761-2006, 2291-2311).                                         *)
THEOREM RunEndsInOrder == Run!Spec => []Run!EndsInOrder
<1>1. Run!Init => RunInv
  <2> SUFFICES ASSUME Run!Init PROVE RunInv
    OBVIOUS
  <2>1. StepsDone(0)
    BY OrderFacts DEF Run!Init, StepsDone
  <2>2. QED
    BY <2>1 DEF Run!Init, RunInv
<1>2. RunInv /\ [Run!Next]_(Run!vars) => RunInv'
  BY RunStep
<1>3. ASSUME RunInv PROVE Run!EndsInOrder
  <2>1. PICK i \in 0..12 : StepsDone(i)
    BY <1>3 DEF RunInv
  <2>2. ASSUME NEW f \in Run!Feeds, f[2] \in closed, f[1] \in up PROVE f[1] \in broken
    BY <2>1, <2>2, ProducersFirst DEF StepsDone
  <2>3. stage = "exited" => up \subseteq broken
    BY <1>3, <2>1, OrderFacts DEF StepsDone, RunInv
  <2>4. QED
    BY <1>3, <2>2, <2>3 DEF RunInv, Run!EndsInOrder
<1>4. QED
  BY <1>1, <1>2, <1>3, PTL DEF Run!Spec
=============================================================================
