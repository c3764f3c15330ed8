----------------------------- MODULE MCServices -----------------------------
(***************************************************************************)
(* The services behind the radio for TLC, on one configuration.  They share*)
(* no state, so each is explored by itself: `part' says which one the      *)
(* variables v1, v2, ... belong to.                                        *)
(***************************************************************************)
EXTENDS Integers, TLC

CONSTANTS
    Explored,                        \* the services to explore
    t1, t2, p1, r1, r2, m1, m2, c1,  \* model values of every part
    k1, k2, k3, n1, n2, w1, w2,
    Absent

VARIABLES
    part,
    v1, v2, v3, v4, v5, v6, v7, v8, v9, v10, v11, v12, v13, v14, v15, v16,
    v17, v18

(* Two copies of a packet for two recipients, one at a time.               *)
Router == INSTANCE PacketRouter WITH
    Slots <- {t1, t2}, Packets <- {p1}, Recipients <- {r1, r2},
    QueueMax <- 1, MaxInFlight <- 1, CacheMax <- 1, PruneAbove <- 0, TTL <- 1,
    MaxArrivals <- 3, MaxClock <- 1,
    queue <- v1, inFlight <- v2, phase <- v3, kind <- v4, packet <- v5,
    todo <- v6, pc <- v7, recipient <- v8, cancelled <- v9, owned <- v10,
    delivered <- v11, results <- v12, users <- v13, holder <- v14,
    arrivals <- v15, clock <- v16, took <- v17

(* Stores of two messages, two direct messages and one of a channel.       *)
Inbox == INSTANCE CompanionInbox WITH
    Messages <- {m1, m2, c1}, Channel <- {c1}, Capacity <- 2, MaxFaults <- 2,
    ram <- v1, pending <- v2, seen <- v3, sql <- v4, stage <- v5,
    admitted <- v6, offered <- v7, excused <- v8, faults <- v9

(* One client, three posts of which two are kept.                          *)
Room == INSTANCE RoomSync WITH
    Clients <- {n1}, Server <- n2, Nonces <- {0, 1}, MaxFailures <- 2, KeepPosts <- 2,
    None <- Absent, MaxPosts <- 3, MaxFaults <- 2, MaxResets <- 2,
    author <- v1, posts <- v2, row <- v3, acl <- v4, acked <- v5,
    push <- v6, received <- v7, claimed <- v8, unacked <- v9,
    faults <- v10, resets <- v11

(* A room and a companion, two threads that edit.                          *)
Identities == INSTANCE HostedIdentities WITH
    Names <- {n1, n2}, Companions <- {n2}, Keys <- {k1, k2}, Writers <- {w1, w2},
    Slots <- {t1, t2}, MaxEdits <- 3, MaxFaults <- 1,
    file <- v1, disk <- v2, live <- v3, acked <- v4, dirty <- v5,
    holder <- v6, writer <- v7, slot <- v8, phase <- v9, edits <- v10,
    faults <- v11

(* A memory of two of three packets, two sending tasks.                    *)
Repeater == INSTANCE Repeater WITH
    Keys <- {k1, k2, k3}, Jobs <- {t1, t2}, MaxSeen <- 2, TTL <- 1,
    MaxPackets <- 3, MaxClock <- 2,
    mode <- v1, seen <- v2, stamp <- v3, job <- v4, forwarded <- v5,
    packets <- v6, clock <- v7, recent <- v8, sent <- v9, elsewhere <- v10,
    abandoned <- v11

(* Two requests, a table of one, and a connection that takes over.         *)
Requests == INSTANCE CompanionRequests WITH
    Requests <- {m1, m2}, Tags <- {t1, t2}, Connections <- {1, 2}, MaxPending <- 1,
    session <- v1, aborted <- v2, waiting <- v3, pending <- v4,
    replies <- v5, req <- v6, out <- v7

(* Two samples; the tiers keep the order of the code's, late rows reach each. *)
Retention == INSTANCE RetentionTiers WITH
    Samples <- {m1, m2}, Fine <- 1, Coarse <- 2, Hot <- 1, Cool <- 3, Keep <- 6,
    Late <- 4, MaxClock <- 13, MaxFaults <- 1,
    clock <- v1, written <- v2, raw <- v3, rows <- v4, step <- v5,
    at <- v6, open <- v7, safe <- v8, faults <- v9

(* Two handlers on one database, two packets, two posts half a second apart. *)
Upgrade == INSTANCE StoreUpgrade WITH
    Handlers <- {t1, t2}, Packets <- {m1, m2}, Sent <- {m1}, PerSecond <- 2,
    LastTick <- 5, MaxPosts <- 2,
    schema <- v1, marks <- v2, log <- v3, ledger <- v4, ever <- v5,
    time <- v6, last <- v7, cursor <- v8, got <- v9, used <- v10,
    posts <- v11, handler <- v12

(* Two keys for a store of one contact and one recipient, two revisions.   *)
Contacts == INSTANCE Contacts WITH
    Keys <- {k1, k2}, Capacity <- 1, AnonCapacity <- 1, Clocks <- {1, 2},
    MaxRev <- 2, MaxFaults <- 1,
    ram <- v1, sql <- v2, mark <- v3, busy <- v4, dump <- v5, notes <- v6,
    linked <- v7, listed <- v8, copy <- v9, since <- v10, fresh <- v11,
    lost <- v12, again <- v13, faults <- v14

(* All parts, with and without the bridge, two failures of the shutdown.   *)
Daemon == INSTANCE Daemon WITH
    Optional <- {"bridge"}, MaxFaults <- 2,
    wanted <- v1, up <- v2, closed <- v3, broken <- v4, pc <- v5,
    asked <- v6, ended <- v7, outcome <- v8, cleanup <- v9, ready <- v10,
    left <- v11, faults <- v12

(* Three measurements, two sessions.                                       *)
Calibration == INSTANCE Calibration WITH
    Tests <- {m1, m2, c1}, Nothing <- Absent, MaxSessions <- 2,
    running <- v1, session <- v2, worker <- v3, future <- v4, test <- v5,
    of <- v6, results <- v7, closing <- v8

(* Two packets to send and two to hear, sweeps of two channels, one looked at. *)
Radio == INSTANCE SharedRadio WITH
    Frames <- {m1, m2}, None <- Absent, Lbt <- TRUE, Channels <- 2, CadChannels <- 1,
    MaxRetries <- 1, MaxDeferrals <- 2, MaxPackets <- 2,
    radio <- v1, air <- v2, down <- v3, retries <- v4, packets <- v5,
    scanner <- v6, deferrals <- v7, chan <- v8, recorded <- v9,
    sweep <- v10, left <- v11, swept <- v12, slot <- v13, reported <- v14,
    empties <- v15

(* One client, two tasks that deliver, three times.                        *)
Access == INSTANCE RoomAccess WITH
    Clients <- {n1}, Jobs <- {t1, t2}, Times <- {1, 2, 3}, Texts <- {m1}, ReadOnly <- TRUE,
    None <- Absent, MaxLives <- 2, MaxTaken <- 2, MaxFaults <- 1,
    client <- v1, lives <- v2, job <- v3, taken <- v4, acked <- v5,
    granted <- v6, faults <- v7

(* The tiers of one sample, and a query whose width is not theirs.         *)
Charts == INSTANCE TierQuery WITH
    Samples <- {m1}, Fine <- 1, Coarse <- 2, Hot <- 1, Cool <- 3, Keep <- 6,
    Late <- 4, MaxClock <- 12, MaxFaults <- 0, None <- Absent,
    Windows <- {[since |-> 5, until |-> 9, width |-> 1]},
    clock <- v1, written <- v2, raw <- v3, rows <- v4, step <- v5,
    at <- v6, open <- v7, safe <- v8, faults <- v9, query <- v10

(* Two edits, one failure, two requests that set detection thresholds.     *)
Settings == INSTANCE Settings WITH
    Savers <- {t1, t2}, Excused <- {"cli", "cad"}, MaxEdits <- 2, MaxFaults <- 1,
    asked <- v1, file <- v2, live <- v3, used <- v4, told <- v5,
    saver <- v6, gone <- v7, edits <- v8, faults <- v9

(* One packet at the edge of the level, one group, three installed documents. *)
Policy == INSTANCE PacketPolicy WITH
    Packets <- {p1}, Channels <- {c1}, Groups <- {k1}, Objects <- {1, 2, 3},
    None <- Absent, Malformed <- n1, Signals <- {"edge"}, MaxVersions <- 3, MaxFaults <- 1,
    file <- v1, edited <- v2, running <- v3, engine <- v4, version <- v5,
    installed <- v6, chain <- v7, decisions <- v8, faults <- v9

(* Two adverts of one sender, heard four times in four units of time.      *)
Limits == INSTANCE Adverts WITH
    Adverts <- {t1, t2}, Senders <- {k1}, Sender <- [a \in {t1, t2} |-> k1],
    Activity <- {"quiet", "busy"},
    Configs <- {[adaptive |-> x, limited |-> TRUE, penalised |-> TRUE] : x \in BOOLEAN},
    None <- Absent, Cost <- 8, Capacity <- 8, Interval <- 4, MinGap <- 2, Threshold <- 2,
    Decay <- 2, PenaltyBase <- 2, PenaltyMax <- 3, TTL <- 2, Hysteresis <- 1, Window <- 1,
    KeptFor <- 2, MaxHeard <- 4, MaxReloads <- 1, MaxClock <- 4,
    clock <- v1, config <- v2, target <- v3, tier <- v4, updated <- v5,
    memory <- v6, bucket <- v7, until <- v8, violations <- v9,
    charged <- v10, passed <- v11, refused <- v12, heard <- v13,
    reloads <- v14

(* Two handlers with adverts of one sender, room for one record, one failure. *)
Records == INSTANCE RecordWriter WITH
    Senders <- {k1}, Jobs <- {t1, t2}, None <- Absent, Close <- c1, Slots <- 1, TTL <- 2,
    MaxAdverts <- 2, MaxClock <- 2, MaxFaults <- 1,
    clock <- v1, jobs <- v2, known <- v3, rows <- v4, changed <- v5,
    cache <- v6, queue <- v7, writer <- v8, pending <- v9, life <- v10,
    closing <- v11, executor <- v12, connection <- v13, errors <- v14,
    mqtt <- v15, faults <- v16, adverts <- v17

(* A carrier; the settings before, and what two requests may make of them: *)
(* none active, one too far, one at the edge, two at one place, a wide one *)
(* for which the midpoint of the carriers would not do.                    *)
Carrier(active, frequency, bandwidth, lbt) ==
    [typed |-> TRUE, sound |-> TRUE, active |-> active, frequency |-> frequency,
     bandwidth |-> bandwidth, sf |-> 8, tx |-> TRUE, lbt |-> lbt, threshold |-> -80]
A == Carrier(TRUE, 869618000, 125000, FALSE)
RadioBands ==
    ("EU868" :> [lower |-> 863000000, upper |-> 870000000, center |-> 869525000]) @@
    ("US915" :> [lower |-> 902000000, upper |-> 928000000, center |-> 915500000])
Shipped ==
    [channels |-> <<A>>, e |-> Carrier(FALSE, 869618000, 62500, FALSE),
     f |-> Carrier(FALSE, 869525000, 250000, FALSE), center |-> 0,
     region |-> [code |-> "CUSTOM", lower |-> Absent, upper |-> 870000000],
     word |-> 5156, scan |-> FALSE, hal |-> 0, queue |-> 0, gpio |-> 0, other |-> 0]
Off == [A EXCEPT !.active = FALSE]
Wished ==
    (r1 :> [channels |-> {<<Off>>, <<A, Carrier(TRUE, 868158000, 125000, TRUE)>>,
                          <<A, Carrier(TRUE, 868157000, 125000, FALSE)>>},
            e        |-> {Carrier(TRUE, 869618000, 125000, TRUE)},
            f        |-> {Carrier(TRUE, 868346000, 500000, TRUE)},
            center   |-> {869000000},
            region   |-> {[code |-> "CUSTOM", lower |-> 868000000, upper |-> 870000000]},
            word |-> {13380}, scan |-> {TRUE}, hal |-> {1},
            queue |-> {1}, gpio |-> {1}, other |-> {1}]) @@
    (r2 :> [channels |-> {<<Off, Carrier(TRUE, 868400000, 125000, TRUE)>>},
            f        |-> {Carrier(TRUE, 868346000, 500000, FALSE)}])

(* Two requests that change radio settings, one failure.                   *)
Radioset == INSTANCE RadioSettings WITH
    Threads <- {r1, r2}, Bands <- RadioBands, Stored <- {Shipped}, Wishes <- Wished,
    MaxFaults <- 1, None <- Absent,
    ui <- v1, config <- v2, scripts <- v3, bridge <- v4, global <- v5,
    published <- v6, request <- v7, state <- v8, runtime <- v9,
    text <- v10, queues <- v11, cached <- v12, spawning <- v13, hal <- v14,
    written <- v15, stale <- v16, asked <- v17, faults <- v18

(* The hypotheses of the theorems about these services.                    *)
ASSUME RadioSettingsTyped == Radioset!SettingsAssumption
ASSUME RouterTyped == Router!RouterAssumption
ASSUME RadioFramesApart == Radio!FramesApart
ASSUME AskersApart == Requests!RequestsApart
ASSUME WriterApart == Records!RecordsApart
ASSUME LimitsTyped == Limits!LimitsAssumption
ASSUME IdentitiesTyped == Identities!IdentitiesApart
ASSUME MeasurementsApart == Calibration!TestsApart
ASSUME UpgradeTyped == Upgrade!UpgradeAssumption
ASSUME ReceiptsTyped == Policy!ReceiptsApart
ASSUME AuthorsKnown == Settings!AuthorsExcused
ASSUME ContactsTyped == Contacts!ContactsAssumption
ASSUME AccessTyped == Access!AccessAssumption
ASSUME TiersTyped == Retention!TiersAssumption
ASSUME QueryTyped == Charts!QueryAssumption

-----------------------------------------------------------------------------
vars == <<part, v1, v2, v3, v4, v5, v6, v7, v8, v9, v10, v11, v12, v13, v14, v15,
          v16, v17, v18>>

Init ==
    /\ part \in Explored
    /\ \/ /\ part = "router" /\ Router!Init
          /\ v18 = 0
       \/ /\ part = "inbox" /\ Inbox!Init
          /\ v10 = 0 /\ v11 = 0 /\ v12 = 0 /\ v13 = 0 /\ v14 = 0 /\ v15 = 0 /\ v16 = 0
          /\ v17 = 0 /\ v18 = 0
       \/ /\ part = "room" /\ Room!Init
          /\ v12 = 0 /\ v13 = 0 /\ v14 = 0 /\ v15 = 0 /\ v16 = 0 /\ v17 = 0 /\ v18 = 0
       \/ /\ part = "identities" /\ Identities!Init
          /\ v12 = 0 /\ v13 = 0 /\ v14 = 0 /\ v15 = 0 /\ v16 = 0 /\ v17 = 0 /\ v18 = 0
       \/ /\ part = "repeater" /\ Repeater!Init
          /\ v12 = 0 /\ v13 = 0 /\ v14 = 0 /\ v15 = 0 /\ v16 = 0 /\ v17 = 0 /\ v18 = 0
       \/ /\ part = "requests" /\ Requests!Init
          /\ v8 = 0 /\ v9 = 0 /\ v10 = 0 /\ v11 = 0 /\ v12 = 0 /\ v13 = 0 /\ v14 = 0
          /\ v15 = 0 /\ v16 = 0 /\ v17 = 0 /\ v18 = 0
       \/ /\ part = "retention" /\ Retention!Init
          /\ v10 = 0 /\ v11 = 0 /\ v12 = 0 /\ v13 = 0 /\ v14 = 0 /\ v15 = 0 /\ v16 = 0
          /\ v17 = 0 /\ v18 = 0
       \/ /\ part = "upgrade" /\ Upgrade!Init
          /\ v13 = 0 /\ v14 = 0 /\ v15 = 0 /\ v16 = 0 /\ v17 = 0 /\ v18 = 0
       \/ /\ part = "contacts" /\ Contacts!Init
          /\ v15 = 0 /\ v16 = 0 /\ v17 = 0 /\ v18 = 0
       \/ /\ part = "daemon" /\ Daemon!Init
          /\ v13 = 0 /\ v14 = 0 /\ v15 = 0 /\ v16 = 0 /\ v17 = 0 /\ v18 = 0
       \/ /\ part = "calibration" /\ Calibration!Init
          /\ v9 = 0 /\ v10 = 0 /\ v11 = 0 /\ v12 = 0 /\ v13 = 0 /\ v14 = 0 /\ v15 = 0
          /\ v16 = 0 /\ v17 = 0 /\ v18 = 0
       \/ /\ part = "radio" /\ Radio!Init
          /\ v16 = 0 /\ v17 = 0 /\ v18 = 0
       \/ /\ part = "access" /\ Access!Init
          /\ v8 = 0 /\ v9 = 0 /\ v10 = 0 /\ v11 = 0 /\ v12 = 0 /\ v13 = 0 /\ v14 = 0
          /\ v15 = 0 /\ v16 = 0 /\ v17 = 0 /\ v18 = 0
       \/ /\ part = "charts" /\ Charts!InitQuery
          /\ v11 = 0 /\ v12 = 0 /\ v13 = 0 /\ v14 = 0 /\ v15 = 0 /\ v16 = 0 /\ v17 = 0
          /\ v18 = 0
       \/ /\ part = "settings" /\ Settings!Init
          /\ v10 = 0 /\ v11 = 0 /\ v12 = 0 /\ v13 = 0 /\ v14 = 0 /\ v15 = 0 /\ v16 = 0
          /\ v17 = 0 /\ v18 = 0
       \/ /\ part = "policy" /\ Policy!Init
          /\ v10 = 0 /\ v11 = 0 /\ v12 = 0 /\ v13 = 0 /\ v14 = 0 /\ v15 = 0 /\ v16 = 0
          /\ v17 = 0 /\ v18 = 0
       \/ /\ part = "limits" /\ Limits!Init
          /\ v15 = 0 /\ v16 = 0 /\ v17 = 0 /\ v18 = 0
       \/ /\ part = "records" /\ Records!Init
          /\ v18 = 0
       \/ /\ part = "radioset" /\ Radioset!Init

RouterStep ==
    /\ part = "router"
    /\ Router!Next
    /\ UNCHANGED <<part, v18>>

InboxStep ==
    /\ part = "inbox"
    /\ Inbox!Next
    /\ UNCHANGED <<part, v10, v11, v12, v13, v14, v15, v16, v17, v18>>

RoomStep ==
    /\ part = "room"
    /\ Room!Next
    /\ UNCHANGED <<part, v12, v13, v14, v15, v16, v17, v18>>

IdentitiesStep ==
    /\ part = "identities"
    /\ Identities!Next
    /\ UNCHANGED <<part, v12, v13, v14, v15, v16, v17, v18>>

RepeaterStep ==
    /\ part = "repeater"
    /\ Repeater!Next
    /\ UNCHANGED <<part, v12, v13, v14, v15, v16, v17, v18>>

RequestsStep ==
    /\ part = "requests"
    /\ Requests!Next
    /\ UNCHANGED <<part, v8, v9, v10, v11, v12, v13, v14, v15, v16, v17,
                   v18>>

RetentionStep ==
    /\ part = "retention"
    /\ Retention!Next
    /\ UNCHANGED <<part, v10, v11, v12, v13, v14, v15, v16, v17, v18>>

UpgradeStep ==
    /\ part = "upgrade"
    /\ Upgrade!Next
    /\ UNCHANGED <<part, v13, v14, v15, v16, v17, v18>>

ContactsStep ==
    /\ part = "contacts"
    /\ Contacts!Next
    /\ UNCHANGED <<part, v15, v16, v17, v18>>

DaemonStep ==
    /\ part = "daemon"
    /\ Daemon!Next
    /\ UNCHANGED <<part, v13, v14, v15, v16, v17, v18>>

CalibrationStep ==
    /\ part = "calibration"
    /\ Calibration!Next
    /\ UNCHANGED <<part, v9, v10, v11, v12, v13, v14, v15, v16, v17, v18>>

RadioStep ==
    /\ part = "radio"
    /\ Radio!Next
    /\ UNCHANGED <<part, v16, v17, v18>>

AccessStep ==
    /\ part = "access"
    /\ Access!Next
    /\ UNCHANGED <<part, v8, v9, v10, v11, v12, v13, v14, v15, v16, v17,
                   v18>>

ChartsStep ==
    /\ part = "charts"
    /\ Charts!NextQuery
    /\ UNCHANGED <<part, v11, v12, v13, v14, v15, v16, v17, v18>>

SettingsStep ==
    /\ part = "settings"
    /\ Settings!Next
    /\ UNCHANGED <<part, v10, v11, v12, v13, v14, v15, v16, v17, v18>>

PolicyStep ==
    /\ part = "policy"
    /\ Policy!Next
    /\ UNCHANGED <<part, v10, v11, v12, v13, v14, v15, v16, v17, v18>>

LimitsStep ==
    /\ part = "limits"
    /\ Limits!Next
    /\ UNCHANGED <<part, v15, v16, v17, v18>>

RecordsStep ==
    /\ part = "records"
    /\ Records!Next
    /\ UNCHANGED <<part, v18>>

RadiosetStep ==
    /\ part = "radioset"
    /\ Radioset!Next
    /\ UNCHANGED <<part>>

Next ==
    \/ RouterStep
    \/ InboxStep
    \/ RoomStep
    \/ IdentitiesStep
    \/ RepeaterStep
    \/ RequestsStep
    \/ RetentionStep
    \/ UpgradeStep
    \/ ContactsStep
    \/ DaemonStep
    \/ CalibrationStep
    \/ RadioStep
    \/ AccessStep
    \/ ChartsStep
    \/ SettingsStep
    \/ PolicyStep
    \/ LimitsStep
    \/ RecordsStep
    \/ RadiosetStep

Spec == Init /\ [][Next]_vars

(* Slots, tasks and tags, keys, and threads are alike within each part.    *)
Symmetry == Permutations({t1, t2}) \cup Permutations({k1, k2}) \cup Permutations({w1, w2})

-----------------------------------------------------------------------------
(* A recipient is asked once, and a reply goes to who asked                *)
(* (packet_router.py:31-32, request_replies.py:139-153).                   *)
AskedAndAnswered ==
    /\ part = "router" => Router!RecipientAskedOnce
    /\ part = "requests" => Requests!RepliesToTheAsker

(* Locks, counters and accepted records belong to somebody                 *)
(* (packet_router.py:92-136, 203-255, storage_collector.py:234-258,        *)
(* 653-727).                                                               *)
NothingLeftBehind ==
    /\ part = "router" => Router!NothingLeftBehind
    /\ part = "records" => Records!RecordsKept

(* Messages are given, or taken, once and in turn                          *)
(* (message_delivery.py:111-202, text.py:288-330).                         *)
GivenOnceInOrder ==
    /\ part = "inbox" => Inbox!GivenOnceInOrder
    /\ part = "access" => Access!MessagesOnce

(* No post is passed over (room_server.py:532-562,                         *)
(* sqlite_handler.py:3380).                                                *)
CursorCoversReceived ==
    /\ part = "room" => Room!CursorCoversReceived
    /\ part = "upgrade" => Upgrade!PostsAhead

(* No failure for what was acknowledged, no penalty without violations, no *)
(* way around the limits (room_server.py:728, advert.py:352-447).          *)
ChargesAccounted ==
    /\ part = "room" => Room!FailuresUnacknowledged
    /\ part = "limits" => Limits!LimitsKept

(* What was saved is what is in use (config_manager.py:379,                *)
(* contact_commands.py:74-84, wm1303_backend.py:1623-1699).                *)
CopiesAgree ==
    /\ part = "identities" => Identities!EditsSurvive
    /\ part = "contacts" => Contacts!ContactsAgree
    /\ part = "settings" => Settings!Kept
    /\ part = "policy" => Policy!OnePolicy
    /\ part = "records" => Records!ListRecent
    /\ part = "radioset" => Radioset!SettingsAgree

(* What was started has an owner until it is stopped                       *)
(* (room_lifecycle.py:110-217, main.py:1761-2006,                          *)
(* cad_calibration_engine.py:343).                                         *)
EverythingOwned ==
    /\ part = "identities" => Identities!IdentitiesOwned
    /\ part = "daemon" => Daemon!EndsInOrder
    /\ part = "calibration" => Calibration!OneTestAtATime

(* The memory is the latest unexpired keys (engine.py:751-775).            *)
RememberedExactly == part = "repeater" => Repeater!RememberedExactly

(* The count is what was sent, is being sent or was cancelled              *)
(* (engine.py:305-362).                                                    *)
ForwardedCounted == part = "repeater" => Repeater!ForwardedCounted

(* What was measured is counted once (metrics_retention.py:352-772,        *)
(* tiered_query.py:466-469, sqlite_handler.py:919-921, advert.py:208-236). *)
CountedOnce ==
    /\ part = "retention" => Retention!CountedOnce
    /\ part = "upgrade" => Upgrade!LedgerRight
    /\ part = "charts" => Charts!ChartsRight
    /\ part = "limits" => Limits!ChargedOnce

(* The SX1261 is left as its users expect it (loragw_sx1261.c:115-119,     *)
(* lora_pkt_fwd.c:5171-5177).                                              *)
RadioShared == part = "radio" => Radio!RadioShared

=============================================================================
