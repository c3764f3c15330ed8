----------------------------- MODULE RxDispatch -----------------------------
(***************************************************************************)
(* Reception: what WM1303Backend._dispatch_rx (wm1303_backend.py) does with*)
(* a datagram of the concentrator, in the UDP reader's thread, and how     *)
(* VirtualLoRaRadio (virtual_radio.py) hands the packet over to the event  *)
(* loop, where confirmed transmissions fill the table of echoes meanwhile. *)
(*                                                                         *)
(* A datagram is a content (packet_hash leaves the path out), the path it  *)
(* was heard with and the receiver it is for.  Nobody but _classify_echo   *)
(* tells two packets of one content apart.                                 *)
(***************************************************************************)
EXTENDS Naturals, Sequences

CONSTANTS
    Contents,     \* what packets are told apart by
    OwnContents,  \* those whose source is this node
    Radios,       \* the VirtualLoRaRadios of channels A to D
    Identity,     \* whether _local_pub_key is set
    EchoTTL,      \* _tx_echo_ttl, 30 s, in ticks of the model's clock
    DemodTTL,     \* the 2.0 s of the duplicate test, in ticks
    Absent,       \* no entry
    MaxHeard      \* bound on the datagrams of a behaviour

Paths  == {"none", "ours_last", "ours_earlier", "others"}
Places == Radios \cup {"channel_e", "nowhere"}
Datagrams == [content : Contents, path : Paths, place : Places, sound : BOOLEAN]

VARIABLES
    echo,      \* [Contents -> age of the entry in _tx_echo_hashes or Absent]
    demod,     \* the same for _rx_dedup_cache
    reading,   \* the datagram in the reader's hands
    stage,     \* where in _dispatch_rx the reader is
    attached,  \* [Radios -> whether VirtualLoRaRadio._loop is set]
    pending,   \* [Radios -> Seq(Contents)], _pending_rx
    scheduled, \* the event loop's _deliver_rx callbacks, in order
    rxq,       \* [Radios -> Seq(Contents)], _rx_queue
    heard,     \* datagrams so far (bound)
    handed     \* what each radio was given, in order (history)

halVars   == <<echo, demod>>
radioVars == <<attached, pending, scheduled, rxq>>
vars == <<halVars, reading, stage, radioVars, heard, handed>>

Ages(ttl) == (0..ttl) \cup {Absent}
Older(age, ttl) == IF age = Absent \/ age = ttl THEN age ELSE age + 1
Fresh(age, ttl) == age # Absent /\ age < ttl

Init ==
    /\ echo  = [c \in Contents |-> Absent]
    /\ demod = [c \in Contents |-> Absent]
    /\ reading = Absent
    /\ stage = "idle"
    /\ attached  = [r \in Radios |-> FALSE]
    /\ pending   = [r \in Radios |-> <<>>]
    /\ scheduled = <<>>
    /\ rxq = [r \in Radios |-> <<>>]
    /\ heard = 0
    /\ handed = [r \in Radios |-> <<>>]

-----------------------------------------------------------------------------
(* The reader thread.                                                      *)

(* _dispatch_rx ends: the datagram is forgotten.                           *)
Finish == reading' = Absent /\ stage' = "idle"

(* A datagram comes.  What is not a sound LoRa packet of the protocol      *)
(* (noise without CRC, FSK, a fragment, one the validator refuses) goes no *)
(* further.                                                                *)
Hear(d) ==
    /\ stage = "idle"
    /\ heard < MaxHeard
    /\ heard' = heard + 1
    /\ IF d.sound
       THEN reading' = d /\ stage' = "lookup"
       ELSE Finish
    /\ UNCHANGED <<halVars, radioVars, handed>>

(* _classify_echo: only a packet whose last hop is this node, or one       *)
(* without hops, is the node's own emission come back.                     *)
EchoKind(d) ==
    IF ~Identity THEN "unknown_echo"
    ELSE IF d.path \in {"none", "ours_last"} THEN "self_echo"
    ELSE IF d.path = "ours_earlier" \/ d.content \in OwnContents
         THEN "mesh_echo"
    ELSE "unknown_echo"

(* `if h in self._tx_echo_hashes`.                                         *)
LookUp ==
    /\ stage = "lookup"
    /\ stage' = IF echo[reading.content] = Absent THEN "dedup" ELSE "age"
    /\ UNCHANGED <<halVars, reading, radioVars, heard, handed>>

(* The second look at the table, which the loop may have replaced since:   *)
(* then a KeyError makes a parse error of the packet.                      *)
ReadAge ==
    LET age == echo[reading.content]
    IN /\ stage = "age"
       /\ \/ age = Absent /\ Finish
          \/ age = EchoTTL /\ stage' = "forget" /\ UNCHANGED reading
          \/ Fresh(age, EchoTTL) /\
                IF EchoKind(reading) = "self_echo"
                THEN Finish
                ELSE stage' = "dedup" /\ UNCHANGED reading
       /\ UNCHANGED <<halVars, radioVars, heard, handed>>

(* `del self._tx_echo_hashes[h]`, the third look.                          *)
Forget ==
    /\ stage = "forget"
    /\ IF echo[reading.content] = Absent
       THEN Finish /\ UNCHANGED echo
       ELSE /\ echo' = [echo EXCEPT ![reading.content] = Absent]
            /\ stage' = "dedup"
            /\ UNCHANGED reading
    /\ UNCHANGED <<demod, radioVars, heard, handed>>

(* enqueue_rx, under _rx_lock: to the loop, or kept until there is one.    *)
EnqueueRx(r, c) ==
    IF attached[r]
    THEN scheduled' = Append(scheduled, <<r, c>>) /\ UNCHANGED pending
    ELSE pending' = [pending EXCEPT ![r] = Append(@, c)] /\ UNCHANGED scheduled

(* The duplicate test stamps the content before it is known whether any    *)
(* receiver wants the packet; a hit does not renew the stamp.              *)
Duplicate ==
    /\ stage = "dedup"
    /\ Fresh(demod[reading.content], DemodTTL)
    /\ Finish
    /\ UNCHANGED <<halVars, radioVars, heard, handed>>

(* A packet for a radio.  The transmit hold that is set with it is a wait  *)
(* of the scheduler's (TxScheduler).                                       *)
ToRadio ==
    LET c == reading.content
        r == reading.place
    IN /\ stage = "dedup"
       /\ ~Fresh(demod[c], DemodTTL)
       /\ r \in Radios
       /\ demod' = [demod EXCEPT ![c] = 0]
       /\ EnqueueRx(r, c)
       /\ handed' = [handed EXCEPT ![r] = Append(@, c)]
       /\ Finish
       /\ UNCHANGED <<echo, attached, rxq, heard>>

(* Channels E and F have callbacks of their own; for a wrong spreading     *)
(* factor or an unknown frequency there is no receiver.                    *)
ToOthers ==
    /\ stage = "dedup"
    /\ ~Fresh(demod[reading.content], DemodTTL)
    /\ reading.place \notin Radios
    /\ demod' = [demod EXCEPT ![reading.content] = 0]
    /\ Finish
    /\ UNCHANGED <<echo, radioVars, heard, handed>>

-----------------------------------------------------------------------------
(* The event loop.                                                         *)

(* A confirmed transmission: the table is rebuilt without what has expired.*)
Confirm(c) ==
    /\ echo' = [d \in Contents |->
                  IF d = c THEN 0
                  ELSE IF Fresh(echo[d], EchoTTL) THEN echo[d] ELSE Absent]
    /\ UNCHANGED <<demod, reading, stage, radioVars, heard, handed>>

(* Mutant: the loop is set first, and what came early is flushed by a      *)
(* callback of its own, without the lock.                                  *)
SetEventLoopUnlocked(r) ==
    /\ IF ~attached[r]
       THEN attached' = [attached EXCEPT ![r] = TRUE] /\ UNCHANGED <<scheduled, pending>>
       ELSE /\ pending[r] # <<>>
            /\ scheduled' = Append(scheduled, <<r, Head(pending[r])>>)
            /\ pending' = [pending EXCEPT ![r] = Tail(@)]
            /\ UNCHANGED attached
    /\ UNCHANGED <<halVars, reading, stage, rxq, heard, handed>>

(* set_event_loop, under _rx_lock: what came early is scheduled in order.  *)
SetEventLoop(r) ==
    /\ ~attached[r]
    /\ attached' = [attached EXCEPT ![r] = TRUE]
    /\ scheduled' = scheduled \o
                      [i \in 1..Len(pending[r]) |-> <<r, pending[r][i]>>]
    /\ pending' = [pending EXCEPT ![r] = <<>>]
    /\ UNCHANGED <<halVars, reading, stage, rxq, heard, handed>>

DeliverRx ==
    /\ scheduled # <<>>
    /\ LET r == Head(scheduled)[1]
       IN rxq' = [rxq EXCEPT ![r] = Append(@, Head(scheduled)[2])]
    /\ scheduled' = Tail(scheduled)
    /\ UNCHANGED <<halVars, reading, stage, attached, pending, heard,
                   handed>>

Tick ==
    /\ echo'  = [c \in Contents |-> Older(echo[c], EchoTTL)]
    /\ demod' = [c \in Contents |-> Older(demod[c], DemodTTL)]
    /\ UNCHANGED <<reading, stage, radioVars, heard, handed>>

Read == LookUp \/ ReadAge \/ Forget \/ Duplicate \/ ToRadio \/ ToOthers

Next ==
    \/ \E d \in Datagrams : Hear(d)
    \/ Read
    \/ \E c \in Contents : Confirm(c)
    \/ \E r \in Radios : SetEventLoop(r)
    \/ DeliverRx
    \/ Tick

Spec == Init /\ [][Next]_vars
=============================================================================
