# TLA+ models of the WM1303 multi-channel LoRa repeater

This directory holds TLA+ specifications of the packet path of this repository
and of the services behind it, TLC configurations that model-check them on small instances,
and TLAPS proofs. Paths below are relative to `src/`; `HW/` stands for
`overlay/pymc_core/src/openhop_core/hardware/` and `REP/` for
`overlay/pymc_repeater/repeater/`.

## 1. The system

One Python process runs an asyncio loop and drives `lora_pkt_fwd`, a C process
that owns the SX1302 concentrator, over the Semtech UDP protocol on localhost.

| Part | State it keeps | Operations | Interacts with |
|---|---|---|---|
| Transmit queues, `HW/tx_queue.py` `ChannelTXQueue`, `TXQueueManager` | a bounded asyncio queue per channel, `_stopped`, one future per request | `enqueue`, purge, `stop`, `build_txpk` | callers (bridge, dispatcher, room server) wait on the future |
| Scheduler, `HW/tx_queue.py` `GlobalTXScheduler` | `_running`, task, `_round_index`, `_next_tx_at` | `start`, `stop`, round-robin loop, `_do_send`, `_wait_for_airtime` | queues, duty budget (`airtime_manager`), backend send |
| PULL_RESP sender, `HW/wm1303_backend.py` 3332-3394, 4075-4297 | `_tx_lock`, `_tx_ack_events`, `_last_tx_end`, `_consecutive_ack_timeouts`, socket | `_send_pull_resp`, register/store/unregister TX_ACK, `_recreate_socket` | UDP peer, watchdog |
| UDP reader, `HW/wm1303_backend.py` 3168-3324 | `_pull_addr`, PUSH/PULL times | PUSH_DATA, PULL_DATA, TX_ACK handlers | sender, RX dispatch |
| Process lifecycle and watchdog, `HW/wm1303_backend.py` 1493-1587, 2452-2935 | `_running`, `_stopping`, process handle, respawn history, failure counters | `begin`, `stop`, `_start_pktfwd`, `_watchdog_loop`, `_do_watchdog_restart` | everything in the backend |
| RX dispatch, `HW/wm1303_backend.py` 1205-1279, 3403-3824 | recent-packet dedup table, own-TX echo table, TX hold | `_dispatch_rx`, `_classify_echo` | virtual radios, TX hold of the scheduler |
| Bridge engine, `REP/bridge_engine.py` | seen-hash table, TX-echo table, rules, per-channel receive queues, sqlite writer | `inject_packet`, `_forward_by_rules`, `_rx_loop`, `stop`, `update_rules` | backend (RX and TX), repeater engine, policy |
| Repeater engine, `REP/engine.py` | seen packets, pending retransmissions | flood/direct forwarding, delay, dedup | packet router, dispatcher |
| Packet router, `REP/packet_router.py` | queue, task set, ACK waiters | `enqueue`, `inject_packet`, route by type, `wait_for_packet_ack` | helpers, companions, repeater engine |
| Companion, `REP/companion/`, `openhop_core/companion/`, `node/handlers/` | contacts, message queue, pending logins and requests, frame-server sessions | send with ACK and retry, login, import/export, persistence | router, TCP clients |
| Room server and helpers, `REP/handler_helpers/` | posts, client sync state, ACL, path table | text, login, sync push, adverts, CLI | router, sqlite |
| Policy, `REP/policy_engine.py`, `policy_service.py`, `policy_runtime.py` | the document with its groups, the engine in use, a receipt on each packet | evaluate, edit, reload | packet router, bridge, repeater engine |
| Configuration, `REP/config.py`, `config_manager.py`, `companion_storage.py` | YAML/JSON files, copies in the parts | atomic save, live update | web API, mesh commands, manager |
| Radio settings, `REP/web/wm1303_api.py`, `HW/wm1303_backend.py` 416-935, 1493-1762 | `wm1303_ui.json`, the files derived from it, one snapshot in the service | validate, save, derive, begin, show | web requests, backend, forwarder, queues |
| Storage and retention, `REP/data_acquisition/`, `REP/metrics_retention.py` | sqlite, rrd, the queue of one writer thread | open and migrate, record, aggregate, query, purge, close | everything that reports |
| Daemon, `REP/main.py` | every part, background tasks, signals | start in order, run, shut down in order | all parts |
| Web, `REP/web/` | sessions, websocket clients, calibration runs | REST, websocket | configuration, backend |
| HAL and packet forwarder (C), `overlay/hal/` | JIT queue, SX1302/SX1261 registers, CAD/LBT state | fetch, CAD scan, transmit, capture, recovery | SPI, UDP |
| Installation, `*.sh`, `config/` | files of the host | install, upgrade, GPIO reset | none at run time |

What is hard: everything in Python interleaves at `await`; the UDP peer may
drop, delay or repeat TX_ACKs; a caller may give up, or be cancelled, while its
packet is anywhere between queue and air; the packet forwarder may die or hang
and be respawned in the middle of a transmission; shutdown, restart and the
watchdog contend for the same process. What makes the parts correct:

- *Transmit path*: each caller gets one answer which agrees with what was on
  the air; no packet is on the air twice; the duty budget is charged for
  everything that was, but for sends reported as failed; no request is forgotten; queues are served fairly and in
  order; a stop answers everybody and ends.
- *Sender*: an acknowledgement is credited to the attempt it belongs to; two
  transmissions never overlap; a lost acknowledgement is bounded in time.
- *Lifecycle*: one packet forwarder at a time; restarts are bounded and stop
  once the backend is asked to stop.
- *RX and bridge*: the hand-over between the threads loses and reorders nothing;
  a packet heard by several demodulators or channels is emitted once on each
  antenna; own transmissions are not forwarded again; calls of the bridge by its
  own targets do not pile up.
- *Engine*: the memory of seen packets is exactly the latest unexpired ones; the
  count of forwarded packets is that of packets sent, and of those cancelled.
- *Router*: copies of a packet ask its recipient once; no task, lock or count is
  left behind.
- *Companion*: a message is given to the app once and in its turn, across
  failures, full stores and restarts; a reply goes to the connection that asked.
- *Room*: a client's cursor passes no post it has not got; an attempt it
  acknowledged does not count against it, whatever the database refuses.
- *Configuration and identities*: a saved edit survives other writers, failures
  and loss of power; what was started has an owner until it is stopped.
- *Storage*: what was measured is counted once, whatever fails between tables,
  while a chart reads them, and across migrations; an accepted record is written
  before its publisher goes.
- *Settings and policy*: what was reported as saved and applied is what every part
  uses, also after a restart; the consumers of one packet agree about it.
- *Radio settings*: what is accepted the concentrator can receive and send;
  saved settings can be started with; what runs is one set of settings, however
  many were saved since; the files derived from them agree.
- *Contacts*: RAM, database and app end with the same contacts, but for revisions
  given twice around a restart.
- *Adverts*: a sender gets no second bucket and no early release, whatever
  clean-ups, reloads and changes of activity come between.
- *Daemon*: what was started is stopped, in order, whatever fails.
- *Forwarder's threads*: each leaves the SX1261 as the others expect it.

## 2. The plan

The order follows the path of a packet from the antenna backwards: what a
caller of the radio may rely on first, then who keeps the radio alive, then what
decides to send at all, then what is kept.

1. `ChannelQueue`, `TxScheduler`, `TxOrder` against the abstract `TxService`:
   modelled, checked, the safety properties and the implementation proved.
2. `PullResp` against the abstract `RadioLink`: modelled, checked, everything but
   liveness proved, the implementation included. `TxScheduler` takes the answers
   of the radio from what `RadioLink` allows, so the two modules meet there.
3. `ForwarderLifecycle` (processes, socket, threads) and `Watchdog` (when the
   lifecycle is set in motion): modelled, checked, safety proved.
4. `RxDispatch` and `Bridge`, composed in `RxPath`: modelled, checked, the
   hand-over between the threads, the nesting of calls and the emissions proved.
5. The services behind them, modelled and checked by one run, each a part of its
   own since they share no state: `PacketRouter`, `Repeater`, `PacketPolicy`;
   `CompanionInbox`, `CompanionRequests`, `Contacts`; `RoomSync`, `RoomAccess`,
   `Adverts`; `HostedIdentities`, `Settings`; `StoreUpgrade`, `RecordWriter`,
   `RetentionTiers`, `TierQuery`; `Daemon`, `Calibration`. The counter and
   the memory of `Repeater`, the two properties of `PacketRouter`, the replies of
   `CompanionRequests`, the records of `RecordWriter`, the limits of `Adverts`,
   the cursor and failures of `RoomSync`, what `HostedIdentities`, `Calibration`
   and `Daemon` own, what `StoreUpgrade` keeps the copies of `PacketPolicy`,
   `Settings` and `Contacts`, the order of `CompanionInbox` and `RoomAccess`, and the counts
   of `RetentionTiers` and `TierQuery` are proved.
6. `ChannelPlan` and `RadioSettings`, from the settings on a page to what the
   concentrator does: modelled, checked in the same run, and proved.
7. `SharedRadio`, the threads of the C process that share the SX1261: modelled,
   checked in the same run, and proved.

Left, in this order: the JIT queue of the C process; the race of two saves of
bridge rules (section 4); logins and path discovery of the companion; the order
of the policy's rules as a function against a reference evaluation.


## 3. The modules

`X!Y` is definition `Y` of module `X`. `PROJECT.json` names, for each
definition, the lines it stands for.

### 3.1 Transmit path: `ChannelQueue`, `TxScheduler`, `TxOrder`, `TxService`

Everything of `HW/tx_queue.py` runs on one event loop, so an action is the code
between two awaits. `pc` says at which await the worker is (`nap`, the three
waits before a send, `air` for the send itself), or that it is between two
(`visit`): `AtAwait` keeps everybody else from stepping then.

| Code | Model |
|---|---|
| `enqueue` up to `wait_for` | `EnqueueRefused`, `EnqueueAdmitted`, `EnqueueDropsNewest`, `EnqueueDropsOldest`; each purges the queue first, as the code does |
| the `wait_for`, its end | `WaitTimesOut`, `CallerCancelled`, `EnqueueReturns`, with the purge of the `finally` |
| `_scheduler_loop` | `TopOfLoop`, `SkipEmptyQueue`, `TakeExpired`, `TakeRequest`, `EndRound`, `EndNap` |
| `_do_send` up to the send | `MoveOn`, `DropExpired`, `BudgetRaises` |
| what follows the send | `SendRetried`, `SendConcluded`, over `Outcomes`: every way `send_func` can answer or raise |
| cancellation of the task | `CancelDelivered`, at any await |
| `start`, `stop` | `Start`; `StopBegin` and `StopEnd`, apart because `stop` awaits the task |

`future` holds the answer of the request's future, "none" before the call.
`age` is `now - enqueue_time` in ticks. `aired` and `charged` count what no
variable of the code counts: transmissions, and charges to the duty budget;
`faulted` remembers whose send the forwarder reported as failed.
`TxOrder` adds two history variables that only watch: the pairs of requests of
which one was admitted before the other and neither was tried yet (`before`), and
how many requests were taken from other queues since a queue was visited
(`overtaken`). `TxService` is the promise without queues: at most one
answer, at most one transmission, and answers that agree with it.

### 3.2 Exchange with the forwarder: `PullResp`, `RadioLink`

Sending tasks, the reader thread, the callbacks it hands to the event loop and
the forwarder's down thread, with datagrams that keep their order on the local
host but may be lost. `line` is `_tx_lock` with its waiters in order. An attempt
goes through `lock`, `guard` (the wait for `_last_tx_end`) and `ack`.
`HandleAck` is `_tx_ack_store` in the reader; `RunCallback` is the lambda it
passes to `call_soon_threadsafe`, which may run after the attempt has timed out.
Forwarder: `Receive`, `RejectFrequency`, `NotFree`, `StartEmission`,
`SendBlocked`, `SendFails`, `Confirm`, `PollExpires`; it may die anywhere.
"blocked" (`SendBlocked`) comes of CAD or listen before talk, before the packet is
on the air; "send_failed" (`SendFails`) of any error of `lgw_send`, also of one from
after the radio was triggered (`loragw_hal.c:1603-1628`), so that the packet may or
may not be on the air; it is an outcome of its own ("failed") that is no refusal.
Time is left out: a timeout may fire at any moment of its wait, so what is
proved or checked does not rest on one delay being shorter than another.
`RadioLink` is the promise to the scheduler: emissions, confirmations, refusals that
are final, and failures that leave open whether the packet was on the air but not
whether it will be.

### 3.3 The forwarder's owners: `ForwarderLifecycle`

Threads `main` (`begin`, `stop`) and `dog` (the watchdog) share the routines
`_stop_pktfwd_process` (`Halt`, `Term`, `Wait`, `Kill`, `Forget`) and
`_start_pktfwd` (`Reset`, `Spawn`, ...), so their labels are shared and `goal`
says on whose behalf a thread is in them. `reader` is `_udp_loop`. `lock` is
`_pktfwd_lock`; `_sock_lock` is held for one action only. A forwarder is a
process group: the `sudo` wrapper, which `poll` sees, and the radio process
behind it. Each may die alone; a signal, a wait and a start may fail; the
socket may break at any time.

### 3.4 The watchdog's judgement: `Watchdog`

A tick is 5 s, the period of the loop. `left` is what remains of the present
sleep or restart; ages saturate where the code stops telling them apart.
Detections 4 (exit), 5 (acknowledgements) and 3 (silence) have their counters.
Detection 2 needs 60 s of silence (`SpikeAfter`) and 999 strong readings of the
noise monitor, of which the model keeps whether they are reached (`spikes`).
Detection 1 counts 999 statistics of 30 s without a packet, and whatever sets the
age of the last reception back in a session ends its series too: detection 3, due
at 9999 s, always comes first, and `TimeoutRestart` stands for both. How a restart is carried out is
`ForwarderLifecycle`'s matter: here it takes up to `RestartTicks` and succeeds
or fails. `deep`, `heard`, `exits`, `own` and `cooling` are history variables.

### 3.5 From antenna to antenna: `RxDispatch`, `Bridge`, `RxPath`

`RxDispatch` is the reader thread in `_dispatch_rx` and the hand-over of
`VirtualLoRaRadio` to the event loop. A datagram is a content (the hash leaves
the path out), a path as `_classify_echo` tells paths apart, and a receiver.
`stage` separates the three looks the reader takes at the table of echoes
(`LookUp`, `ReadAge`, `Forget`), between which the event loop may replace it
(`Confirm`). `EnqueueRx`, `SetEventLoop` and `DeliverRx` hand over; the lock
makes each of the first two one step.

`Bridge` is `REP/bridge_engine.py` with the repeater's handler of `REP/main.py`
and the part of `engine.py` it calls. A process is a receive loop (one per
radio) or a caller of `inject_packet`; `calls` is its stack of calls of
`_forward_by_rules`, since the repeater's handler injects into the bridge that
awaits it (`Repeat`, `Reinject`). `Admit` is the test against echo table and
duplicate table, which records before anything is forwarded. `air` is the send a
process awaits: `queued`, `emitted`, `confirmed`; any of them may be where
it returns or is cancelled. `stop` cancels the loops at their await; a
transmission that was queued may still happen.

`RxPath` puts the two together: the radios' queues are the ones the receive
loops read, `Confirms` is one step of both, and `Audible` says what can be
heard, so that echoes come only of what was emitted. The three tables have
their own lifetimes, ages advance by ticks.

### 3.6 The services

They share no variables, so `MCServices` explores each by itself: `part` names
the one a behaviour is about, which makes the union of nineteen state spaces and
not their product. A property of the run is the conjunction of those of the parts
that are about the same thing.

- `PacketRouter` (`REP/packet_router.py`). A slot is a route call, of the
  queue's task or directly of the bridge. Per recipient it goes through `lock`
  and `asking`. `delivered` and `results` are the two caches, `users` and
  `holder` the counted locks. `Settle` has the four ways in which a recipient
  answers; a cancellation while it is `asking` takes effect after its answer,
  because the call is shielded. Which payload type goes where is reduced to the
  set of recipients, empty for most.
- `Repeater` (`REP/engine.py`). `seen` is the ordered dictionary, `stamp` its
  time stamps. `Relay`, `Originate`, `RelayByBridge` and `Announced` are the ways
  into it; a job is a `delayed_send` with its delay, the transmit lock, refusals,
  one retry for own packets, the extra copy of an acknowledgement, and the
  cancellation of whoever awaits it (`Cancelled`, as in `PacketRouter`'s stop).
  `CountElsewhere` is the bridge, which adds the packets it forwarded by its rules to
  the same count (`REP/bridge_engine.py:1455-1472`) after its handler came back. The duty
  budget may refuse at any time: in this build the radio does the accounting
  (`main.py:289-292`).
- `CompanionInbox` (`REP/companion/message_delivery.py`,
  `sqlite_handler.py:4399-4559`). `ram` and `sql` are the two stores, `stage` who
  holds the persistence lock and how far he is. `excused` collects what the code
  openly gives up: evicted channel messages, RAM at a crash, a row that could
  not be deleted after it was offered, a repetition after a restart.
- `CompanionRequests` (`REP/companion/request_replies.py`, `binary_requests.py`,
  `command_replies.py`). `session` is the connection being served; a new one
  aborts the old and waits for its command to end. `req` holds each request with
  its ticket; the answer may come at any time after the transmission, before
  `SENT` too. Tags are so few that requests meet.
- `RoomSync` (`REP/handler_helpers/room_server.py`, `sqlite_handler.py:3401-3870`).
  A post is its timestamp, a client has the durable row (cursor, pending
  attempt, failures, active). `push` is the loop inside `push_post_to_client`;
  logins and keep-alives come between its steps. `Fault` lets any transaction
  fail. A member without a row, which `Choose` provides for, does not occur.
- `HostedIdentities` (`REP/config_manager.py`, `atomic_file.py`,
  `room_lifecycle.py`, `main.py`, `web/api_endpoints.py`). `file` is what a
  reader sees, `disk` what may be there after a loss of power, `live` what is in
  memory, `acked` what was reported as saved. A slot is an identity on its way
  from the request to activity and back.
- `RetentionTiers` (`REP/metrics_retention.py`). A summary row is the set of the
  measurements it counts. One pass is `Begin`, three roll-ups, two expiries and
  `Commit`; `safe` is what was committed last. `TierQuery` extends it by a chart
  (`REP/data_acquisition/tiered_query.py`): one query reads all tables in one
  snapshot while the pass goes on. Left out of it: averages, minima and maxima, counter deltas,
  statements that fail and are skipped, the legacy ten-minute table.
- `StoreUpgrade` (`sqlite_handler.py:129-979`, `3363-3399`). Handlers open a
  database of any age, migrate it in one transaction per step and may die in any.
  `ledger` are the lifetime counts, `time` the times of posts, which become whole
  seconds. A database from before `upstream_hash` fails to open, see section 4.
- `RecordWriter` (`storage_collector.py`, `sqlite_handler.py:1117-1205`,
  `2594-2643`, `handler_helpers/advert.py:589-689`). One writer with a bounded
  queue, handlers that ask for the list of neighbours on other threads, the list
  that is kept for a minute, and `close`, which may fail half way and be called
  again. A row's change is dropped from the list before it is committed
  (`Write`, `Commit`), and the retention does not drop it at all: the list may be
  wrong, but never by more than its minute (`ListRecent`). Two first adverts of a
  sender may both be announced as those of a new neighbour, since both ask before
  either is stored.
- `Adverts` (`handler_helpers/advert.py`): the limiter, synchronous and therefore
  one action per advert, with clean-ups, tiers and reloads. Times are scaled and a token has
  eight parts, so that every rate is a whole number. `record_packet_seen` (448),
  through which the router was to report other packets, has no caller: the tiers
  follow adverts and their copies alone. A copy of an advert that was dropped is
  not itself marked as not to be retransmitted. `KeptFor` has to be at least the longest gap and the time a bucket takes to
  fill, as seven days are for the defaults; with longer ones a sender gets a fresh bucket early.
- `Contacts` (`REP/companion/`, `openhop_core/companion/`). `ram`, `sql` and the
  app's copy, each contact with its revision; the app asks for what is newer than
  the end of its last listing, which may be interrupted by changes. A restart keeps
  what was saved, but not the watermark of the revisions (`_contact_sync_watermark`);
  `lost` and `again` remember which revisions may therefore be given twice.
- `RoomAccess` (`handler_helpers/login.py`, `acl.py`, `room_server.py`,
  `mesh_cli.py`): passwords and roles, which posts and commands are taken,
  stored and acknowledged, over logins, removals and restarts. Left out: the
  repeater identity's own commands, which test no time, colliding key
  prefixes, a full access list, and the order of waiters of its lock.
- `Daemon` (`REP/main.py`): the parts in their order, the tasks it cannot do
  without, cancellation at any await, a start that fails half way, stops that raise.
  Some steps of the shutdown are in no `try` (`main.py:1807-1836`: rooms, admission of
  logins, calibration, clients of the companions); the model takes it that they do not
  raise; if one did, the parts after it would not be stopped.
- `Calibration` (`REP/web/cad_calibration_engine.py`): sessions of channel-activity
  tests, the worker thread, and a stop that gives up on it after two seconds.
- `Settings` (`config_manager.py`, `web/api_endpoints.py`, `mesh_cli.py`,
  `glass_integration.py`): an edit is staged, saved, published in memory and handed to
  the parts that keep a copy. `Excused` names two known ways of telling the
  caller what is not so (section 4). Left out: the manager's own file, a check of the
  advert thresholds against a configuration read outside the lock
  (`api_endpoints.py:1215-1222`); what takes effect with a restart only is `ForLater`.
- `ChannelPlan` and `RadioSettings` (`HW/wm1303_backend.py`, `HW/region_config.py`,
  `web/wm1303_api.py`). `ChannelPlan` is `_generate_bridge_conf` as a function from
  settings to a plan (the eight chains, the wide channel, channel E, the table
  of listen before talk, the scan, the bounds), with what it refuses (`Accepted`), in
  Hz and with the code's divisions. `ServedBy` says independently of it what a plan
  has to do. `RadioSettings` is who reads and writes it: a request holds the lock from
  its look at the file to its answer and writes several files in turn (`at`
  counts them, `copy` is what it saw and changed); a write may fail and the service
  may die between any two; `Begin` takes one snapshot (`runtime`) for the
  configuration, the queues and the caches, and keeps the text of the plan, which
  it writes again before each start of the forwarder (`Ensure`), since the file
  is in `/tmp`. `written` and `stale` are history: what each request meant to save, and which
  of the derived files one left behind that ended in an error. No request is
  served while the backend begins, so `Begin` is one step.
- `PacketPolicy` (`policy_service.py`, `policy_engine.py`, `policy_runtime.py`):
  the document as console and editor change it, and the chain of consumers that
  ask about one packet with awaits in between. Later consumers have measurements in
  whole units (`main.py`), so the first verdict travels with the packet as a
  receipt; after a change of the document it is asked again.
  A malformed file leaves a running engine alone and stops the next start.
- `SharedRadio` (`overlay/hal/`: `lora_pkt_fwd.c`, `loragw_sx1261.c`,
  `loragw_lbt.c`, `loragw_hal.c`): the threads that listen before they talk, scan
  the band and receive channel E on one SX1261. A section under `mx_concent` is a
  step; the driver's functions are operators on the radio's state.

Definitions whose comment begins with "Fault:" or "Mutant:", and those that
`PROJECT.json` lists under "mutants", are not part of the specifications. Each
is a plausible mistake in a definition below it, kept to show that the property
named there would notice.

## 4. What is checked

| Run | Module | Shows |
|---|---|---|
| `tx_one_channel` | `MCTxOrder` | three callers, one queue of two, drop-oldest, one retry, stops and restarts: nothing is lost, first attempts keep their order, a stop answers everybody |
| `tx_two_channels` | `MCTxOrder` | two queues of one, drop-newest, two retries: refusals never on the air, at most one transmission, airtime charged but for a send reported as failed, no send for a caller that left, round-robin, and `TxService` implemented |
| `tx_liveness` | `MCTxScheduler` | every call returns and every stop ends, also when the budget raises |
| `link_calls` | `MCPullResp` | three attempts with losses, deaths, late and crossing acknowledgements: outcomes are true, registrations are not left behind, echoes are of emitted packets, `RadioLink` is implemented |
| `link_liveness` | `MCPullResp` | every attempt ends, whatever the reader, the network and the forwarder do |
| `link_short_poll` | `MCPullResp` | a transmission may be confirmed while it is on the air |
| `forwarder` | `MCForwarderLifecycle` | no process without an owner, none survives a stop that succeeded, stop returns, a dead radio is replaced, the new address is learned |
| `watchdog` | `Watchdog` | respawn budget in every window, cooldowns and restarts that never add up between two keep-alives, escalation exactly in silence, a dead forwarder is replaced |
| `watchdog_acks` | `Watchdog` | a fresh forwarder is restarted for its predecessor's timeouts |
| `receive` | `MCRxPath` | one radio, channel E and a companion; copies, echoes, repeats, rules and mode that change, stop: order of the hand-over, one emission per antenna, bounded nesting |
| `own_repeated` | `MCRxPath` | a companion's packet is forwarded again by its own node when a neighbour repeats it after the half second |
| `services` | `MCServices` | the nineteen parts of section 3.6: recipients are asked and apps answered once, messages given once and in order, no post passed over, failures and penalties deserved, copies agree, what was started or accepted has an owner, counts are true, the SX1261 is left as expected |

The three runs that end in a counterexample (`link_short_poll`, `watchdog_acks`,
`own_repeated`) are the findings of `PROJECT.json`. Other disagreements follow
from the same modules:

- At the respawn limit the watchdog loop waits 60 s
  (`HW/wm1303_backend.py:2774`) and 5 s more before it sends `WATCHDOG=1` again
  (2736-2740), and a restart sends none either: its time-outs, about 17 s for the
  stop (2591-2616), 60 s for a deep reset (2900-2903), 15 s for the reset and 5.5 s
  for the start (2626-2668), add up to some 97 s. `docs/hardware_watchdog.md:62-66`
  promises a keep-alive about every 5 s and the unit has `WatchdogSec=60`, so systemd
  may kill the service at the limit or in a slow restart. What the code does keep is
  `FedBetweenDelays`: these delays never add up.
- Only a cancellation answers the caller whose request the worker holds
  (`HW/tx_queue.py:977-982`). When `can_transmit` raises (890) the task dies with
  that request, and `stop` finds it in no queue, although the comment at 726
  says that a scheduler that already failed "must still close its queues and
  resolve admitted callers". With `BudgetMayRaise = TRUE` TLC shows it for
  `StopAnswersEveryone`; `tx_liveness` shows that the caller's own timeout still
  answers him.
- `docs/radio.md` and `docs/architecture.md` say of the echo table that what has
  the same hash is discarded, and of the bridge's cache that it holds 15 s. The
  code passes on mesh and unknown echoes (`HW/wm1303_backend.py:1205-1279`),
  stores a hash only when the transmission was confirmed (4278-4288), and keeps
  it 300 s in the bridge.
- A packet whose entry expires while the reader looks at it may be dropped as a
  parse error: between the three looks of `LookUp`, `ReadAge` and `Forget` the
  event loop replaces the table.
- `docs/tx_queue.md:186-197` and the comment at `HW/tx_queue.py:806-808` have
  refusals consume no airtime. The code takes "send_failed" for one: it charges
  nothing (801-810), though the error may be from after the trigger
  (`loragw_hal.c:1603-1628`) and the packet on the air. `AirtimeAccounted` excepts
  these sends by name (`faulted`).
- The failure count of a room's client is raised for every False of the injector
  (`REP/handler_helpers/room_server.py:567-593`), which also comes when the packet was
  never transmitted or the injector raised (`REP/packet_router.py:333-334, 359-361`).
  A client may thus be evicted without having been sent anything, though the log
  line (`room_server.py:594-598`) speaks of time-outs. `FailuresUnacknowledged` claims only that
  an acknowledged attempt is not charged.
- A comment (`REP/companion/contact_commands.py:81-82`) warns that reusing a revision
  could hide a later change, "especially after a clock correction or deletion". The
  watermark that prevents it is not saved: it is built from the contacts that are
  loaded (66-68). After the newest contact was deleted, a restart, and a clock not yet past its
  revision, new contacts get revisions the app's last END covers and it does not ask for
  them until the clock is past that. With `Real(ram)` in place of `Real(ram) \ again`
  TLC shows it for `ContactsAgree`.
- A relayed packet that is refused at once is in the memory already, so the
  engine counts it as a duplicate of itself (`REP/engine.py:407`).
- Saved bridge rules are read and applied after the lock of the save is released
  (`REP/web/wm1303_api.py:1706-1715`): of two requests the older may be applied
  last, although `docs/ui.md:182` says that changes take effect immediately.

- An error answer of a request for radio settings may leave the change saved, since
  the settings are written before what is derived from them
  (`REP/web/wm1303_api.py:4723-4726`); the two scripts of the pins, on the other
  hand, are written before the settings. `stale` is what `PublishedAgree` excepts for it.
- With the forwarder's file gone the pages of the "running" configuration show
  `bridge_conf.json`, hence what was saved and not what runs
  (`wm1303_api.py:18-36`), until the forwarder is started again; `RunsAsStarted`
  requires the agreement of the pages only while the file is there. The page of the queues
  reports a channel without a queue by its saved settings, and as enabled by a
  key `tx_enable` (2199) that the settings no longer have, so also when its
  transmissions are off.
- A comment (`wm1303_api.py:980-981`) says that channel F is kept in the settings
  only and written to no configuration, but `_aux_channel_post` (4682-4734) derives
  the configuration anew, as for every other channel.
- `_init_database` creates an index on `packets(upstream_hash, ...)`
  (`sqlite_handler.py:240-243`) before migration 13 (884-913) adds that column, so
  a database from before it cannot be opened, although the migrations are there
  for it. In `StoreUpgrade` such a database is "ancient" and its handler ends as "failed";
  the same happens with the real `SQLiteHandler`.
- `mesh_cli.py:660-666` answers "OK" also when the live reload has failed, where the web
  API says that a restart is required; and two concurrent saves of detection
  thresholds are applied to the radio after the lock of the configuration was
  released (`web/api_endpoints.py:2889-2903`), so that the older may stay in use
  though both were reported as applied. With `Excused <- {}` in place of
  `{"cli", "cad"}` TLC shows both for `Kept`.
- A scan of the band may begin, or go on, during an own emission: the test
  that the air is free (`lora_pkt_fwd.c:4933-4945`) is in another section of the
  mutex than the start (4996), and a forced scan does not look (4957-4990), while
  `docs/channel_e_sx1261.md:146,154` and `docs/radio.md:137` say that scans keep out of
  transmissions. With `ScansInSilence` as an invariant TLC shows it. The scan is disabled
  unless it is configured (`HW/wm1303_backend.py:717-733`).
- After a sweep that looked for activity on its channels, channel E stays deaf
  until the next scan or transmission: what decides (`lora_pkt_fwd.c:5303-5310`) is
  `sx1261_lora_rx_active`, which nothing clears. It takes a
  `/tmp/pymc_cad_config.json`, which nothing in the repository writes.
  `RadioShared` leaves this (`swept`) out.
- When a send fails the radio is restored without the mutex (4178-4179), and a
  failing `lbt_stop` restores reception during the emission. A frame without
  payload makes `sx1261_lora_rx_fetch` report one packet without filling it in,
  so what the slot held before is reported again (`empties`).

And two are seen by reading alone. A packet
on channels E or F refreshes the time of the last reception
(`HW/wm1303_backend.py:3766-3813`) but does not clear the restart counters, as
one on A to D does (3728-3734), while `release_notes/RELEASE_NOTES_v2.5.5.md:79`
says "Counter resets to 0 once RX traffic is detected"; `EscalatesInSilence`
therefore speaks of channels A to D. And `docs/software.md:77`, `docs/architecture.md:90` and the
comments at 1123 and 2723 say that the third detection waits 180 s, while
`_watchdog_timeout` is 9999.

### Bounds

- *Transmit path.* Every property concerns one request, two requests of one
  queue, or two queues. Three requests on a queue of two are the smallest
  instance in which a live request waits behind a dead one while a third is
  admitted, and in which a retry meets a full queue. Two channels give every
  round-robin position. One tick of lifetime and one of grace order every
  event before, between and after the two deadlines. `MaxRetries` is 2 in the
  code and in the second run; one retry reaches every path of the first. The
  first run has the view `WithoutAir`, which leaves out the counts of transmissions
  and charges: no guard and none of its properties reads them.
- *Exchange.* Late, crossing and lost acknowledgements need the present
  attempt and an older one; the third is one that waits for the lock. Each
  attempt draws a token of its own (see section 7).
- *Lifecycle.* Two groups are the old and the new forwarder; a group that is
  gone may be used again, so the number of restarts is not bounded.
- *Watchdog.* The constants are scaled so that their order is kept: a restart
  (4 ticks) may be longer than the cooldown (3), spikes count after less silence (2)
  than a time-out (4), the window (9) holds more respawns than the limit (2), and both
  escalation thresholds are the code's 2. `watchdog_acks` has the code's 3 time-outs
  too. The three safety properties are proved for all values.

- *Antenna to antenna.* One radio and channel E are two antennas and the two
  kinds of receiver; two contents are one of this node's and one of another's;
  two packets are one and its copy, echo or repeat. The lifetimes keep their
  order in `own_repeated` (bridge echo 1, backend echo 2, engine 3, bridge
  duplicates 4); the passing run lets entries expire in one tick each while those
  of `OncePerAntenna` (2) live as long as the run. Two rule lists are all
  kinds of rule, and none.
- *Services.* Each instance is the smallest in which the property is about two
  of the things it relates: two copies for two recipients with a cache of one;
  stores of two with three messages; one client with three posts of which two
  are kept; a room and a companion edited by two threads, three edits in all; a
  memory of two keys out of three with two jobs; two requests with two tags,
  two connections and a table of one; two samples through three tiers whose
  lengths keep the order of the code's, and a chart over them. The later parts: two
  handlers on one database with two packets and two posts; two contacts for a
  store of one, two revisions; all parts of the daemon; three measurements of two
  calibration sessions; two packets to send and two to hear; one client, two
  deliveries and three times; two edits and two concurrent saves; one packet at the edge of a level with three
  installed documents; two adverts of one sender heard four times in four units
  of time, in which a penalty takes two violations and outlives a clean-up; two
  handlers with room for one record; two requests of radio settings, of which one may
  set any of the fields, with samples for each kind of plan (no channel active,
  two at the largest distance and one beyond it, two senders at one place, a
  wide channel for which the midpoint of the carriers would not do). Faults are one or two per behaviour.

Requests and attempts are made once each; a caller that sends again is another
request. Symmetry is used in the safety runs only.

`CHECK_DEADLOCK FALSE` stands where the system really may stop: all calls made
and answered, the backend stopped.

### Fairness

- `TxScheduler`: the clock, the worker's task, and a `stop` once it has begun.
  Callers have strong fairness because they are disabled while the worker is
  between two awaits; the event loop runs every ready task between any two
  steps of the worker, so they are not passed over for ever.
- `PullResp`: only the sending tasks, which are the event loop's own: a free
  lock is handed on, a sleep ends, a timeout fires. Nothing is assumed of
  reader, network or forwarder.
- `ForwarderLifecycle`: the threads run and their waits are bounded
  (`ThreadFairness`); signals, reaping and starting succeed if repeated for
  ever (`DogPersists`), without which nothing could be promised; the forwarder
  keeps polling, as it does each few seconds (`PollFairness`).
- `Watchdog`: time, the loop, and success of a restart tried for ever.

## 5. What is proved

For every value of the constants that satisfies the named assumptions:

- `TxSchedulerProofs`: `Spec => []IInv`. `RefusedNeverOnAir` is not inductive:
  a refusal is true because the refused request was in a queue or in the
  worker's hands before the send (`HeldInv`, `QueuedInv`), because what is there
  was never on the air (`SpentInv`), and because it is in no second place
  (`OnePlace`). From `IInv` follow `TypeCorrect`, `OnePlaceOnly`,
  `RefusalIsFinal`, `AirOnce`, `AirtimeCharged` and `NoneForgotten`. `SpentInv` is
  where "only 'dropped' is retried" enters. The same invariant makes each step a
  step of `TxService` or a stutter (`ImplementsService`), and each send one for
  somebody who waits (`SendsForTheLiving`). `StopLeavesNobody` has the
  hypothesis `~BudgetMayRaise`, without which it is false (section 4).
  What a purge does to a queue (`PurgeKeepsLiveInOrder`, with lemmas on appending
  and removing) is in the same module: its recursion is a fold over the queue, so
  these are facts about the result.
- The order of service, in the same module. `FirstComeFirstTried`: every step
  but an admission only thins a queue or puts back what was tried (`Thins`), and
  a purge thins, so pairs of untried requests stay as they were admitted.
  `NoQueueStarves`: the share of a queue is bounded by what was left of the last
  round when it was visited and what this round has visited (`ShareInv`); that a
  round visits every position rests on the arithmetic of the rotating start.
- `ForwarderProofs`: `Spec => []IInv`, from which `EveryProcessOwned` and
  `NothingOutlivesStop`. The lock belongs to the thread that signals
  (`LockInv`), `_running` is clear throughout `stop` (`MainInv`), the dog never
  runs `main`'s part (`DogInv`), nothing is reopened after it was closed and
  joined (`DoneInv`), and a handle left after the kill means that `stop` fails
  (`GoneInv`).
- The writer of records, in the same module. `RecordsAreKept`:
  `Spec => []RecordsKept` of `RecordWriter`. `close()` may fail at each of its steps and
  be called again; the invariant says that the closing of the connection stands
  in the queue behind every record and exactly while a `close()` waits for it
  (`CloseInv`), and what has been done wherever no error is remembered (`EndInv`): this is
  where it matters that a failure stays one for all later calls. `NeighborsAreRecent`:
  lists that wait to be put away are recent as well (`ListInv`), for each
  change is dated when it is committed.
- `WatchdogProofs`: `RespawnsBounded`. What carries it is that the code's
  pruned list and the history of all exits agree on the window (`BudgetInv`),
  and that time only takes ages out of it. `DeepExactlyInSilence`, for
  thresholds of 2: the counters are 0 if a packet came in on channels A to D
  since the last restart and at least 1 of `restarts` otherwise (`SilenceInv`).
  `DelaysNeverAddUp`: time turns what is left of a sleep or a restart into what has
  passed since the last sign of life, and their sum is bounded by one cooldown or one
  restart (`FedInv`).
- The limits on adverts, in the same module. `AdvertsWithinLimits`:
  `Spec => []LimitsKept` of `Adverts`. A bucket is right by what its sender got through
  (`BucketRight`): from any of those adverts on, what was spent since and what it still
  holds is no more than a full bucket and what came back at the best rate. Time, a
  refill at any factor and a passing advert keep this (`BucketLater`, `BucketFills`,
  `OnePass`), and a bucket dropped for its age is one that would be full (`BucketGoes`,
  `FreshBucket`). A penalty is right by its sender's refusals (`PenaltyRight`).
  `AdvertsChargedOnce` is the part of `CountedOnce` about copies of an advert: a
  hash that is no longer remembered was last charged a lifetime ago (`ChargeRight`).
  The hypothesis `LimitsAssumption` includes that a bucket fills up, and the gap is
  over, within the time for which a bucket is kept (`KeptFor`, 7 days in the code). The
  configuration does not check this: where a token takes longer to come back, a
  sender that stays away for a week does find a full bucket.
- The tables of measurements, in the same module. `MeasuredCountedOnce`: `Spec =>
  []CountedOnce` of `RetentionTiers`, and `ChartsAreRight`: `SpecQuery => []ChartsRight` of
  `TierQuery`. The tables being worked on, and the committed ones on their own, have every
  measurement in at most one row, in a bucket it lies in, and those within the retention
  in one (`TablesRight`), so that neither a rollback nor a crash has to be told apart from
  a commit. A roll-up keeps it since its rows are made of what it takes away (`RawRolled`,
  `FineRolled`), a deletion since a bucket is over when its end is. A query keeps tables
  that were right (`QueryStays`), and its width is a multiple of that of every row it
  finds (`WidthsFit`), so that a row lies in one of its buckets: buckets of buckets are
  buckets of what they hold (`BucketOfBucket`). `TiersAssumption` asks of the widths only
  that the one is a multiple of the other; that `Hot`, `Cool` and `Keep` ascend is not
  needed.
- What is owned to the end, in `ForwarderProofs`: the three conjuncts of
  `EverythingOwned`. `IdentitiesHaveOwners`: a place where something runs is being
  started, undone or published, and no two published ones clash (`SlotInv`); while the
  daemon loads, what is published is what the file names, and it has one name to a key.
  `RadioHasOneTest`: the measurement that goes on is the one the worker waits for, one
  that puts the radio back may be left by a worker that gave up, and no
  session begins before it is done (`OneOnRadio`). `RunEndsInOrder`: after so many steps
  of the shutdown nothing runs of their parts but what could not be stopped, and the
  other parts have not been closed (`StepsDone`); who hands work to a part stands before it
  in the order (`ProducersFirst`).
- The edits of the file, in the same module. `SavedEditsSurvive`: `Spec =>
  []EditsSurvive` of `HostedIdentities`, its conjunct of `CopiesAgree`. The writer in
  the lock works on what was reported, so what it replaces the file with is that and
  its own edit (`CopiesRight`); that memory is not ahead rests on entries being
  numbered by their edits, none later than the last one (`LiveRight`, `Upto`).
- `RxPathProofs`: `HandedOverInOrder`. For each radio, what it was given is what
  the bridge took, then what waits in the radio's queue, then what waits in the
  loop's callbacks for it; `InPlaces` says so by positions, and each of the four
  steps of the hand-over (the reader under the lock, the moment a loop is
  attached, the delivery, the taking) moves one boundary between the three. Of
  the rest of the composition only that it does not touch them is used.
  `CallsNestOnce`: a call inside another exists only for a packet the engine has
  on record, and a packet on record is not called again (`Nested`). It
  needs `Timely`: the record has not expired while the inner call has endpoints
  to call in place. The code does not check this; it holds because the
  repeater's delay of seconds is far below `cache_ttl` (60 s). In
  `ShortRunsNestOnce` it is derived from the constants, for behaviours shorter
  than the life of a record, such as the run's.
- The emissions, in the same module. `HeardGoesOutOnce`: `Spec => []OncePerAntenna`. A
  packet of another node is in the hands of one receive loop or injection, and before the
  bridge has it on record in nobody's and on no antenna (`HeldInv`). What the innermost
  calls of a process still owe an antenna, or may owe it when the repeater comes back from
  its delay, comes once and is the first there (`SendInv`, by `Owes` and `Due`): a call
  goes into the delay only for a packet that the engine does not have, and then alone, and
  every step leaves less to come (`Less`). The theorem is about rule lists that know one
  way to each antenna (`OneWay`): no two rules from one source to it, and not both a rule
  to it and one to the repeater whose own rules, perhaps of a later list, lead there. The
  code does not check this, and a configuration with two ways does send twice; the
  run's lists are `OneWay` (`RulesOneWay`). And the behaviour ends before a
  record of the bridge or of the engine does (`MaxClock < SeenTTL`, `MaxClock < EngineTTL`):
  afterwards a copy counts as a new packet, by design.
- `RepeaterProofs`: `CountAlwaysRight`. `forwarded_count` is raised before the
  send and taken back in four places, but not when the task is cancelled
  (`abandoned`), and the bridge and the trace records raise it too (`elsewhere`);
  the invariant says which of the tasks the
  count contains at each of their stages (`CountInv`), and needs the set of
  tasks to be finite because it speaks of its cardinality. `LatestRemembered`:
  the eviction stops at the first fresh entry, which is enough because entries
  stand in the order of their time stamps (`OrderInv`); the invariant says what
  the memory remembers of the history (`Remembers`).
- The packet router, in the same module. `AskedOnce`: copies of a packet share one
  answer though each runs in a task of its own and may be cancelled. The invariant
  says who uses a lock and who holds it (`LockInv`), that between two questions the
  dictionaries hold an entry exactly together and a fresh ownership that was kept
  is in them (`CacheInv`), and that a cancelled call stays where it is
  until its recipient has answered (`CallInv`). `RouterLeavesNothing` (`_in_flight`
  is the number of tasks, no task outlives `stop()`, a lock's users are those who
  wait for it or hold it) counts a finite set, as `CountAlwaysRight` does (`TaskInv`).
- The policy, in the same module. `PolicyIsOne`: `Spec => []OnePolicy` of
  `PacketPolicy`. Consumers of a packet compare the number of the engine that wrote the
  receipt with the number of the running one; the invariant says that while a receipt
  names an engine no other has its number (`ReceiptRight`), and that a packet that goes on
  after an answer carries the receipt of the latest (`DecisionRight`).
- `RadioProofs`. Of settings alone: `PlanServes` (what is accepted is served,
  `ServedBy`), `AutomaticCenterComplete` (an automatic centre is refused only if no
  centre is within reach of every carrier) and both together for any settings,
  `PlanAlwaysRight`. The centre lies between extremes of sets of carriers, which exist
  because at most six channels take part (`ChannelsHaveEnds`); the rest is arithmetic
  on Hz. Of the specification `SettingsHold`: `Spec => []SettingsAgree`, that is
  `RunsAsStarted`, `SavedIsStartable` and `PublishedAgree`, the radio
  settings' conjunct of `CopiesAgree`. Files may differ while a request
  is under way, so the invariant says how far: at most one request is at work, with
  accepted settings (`RequestsRight`), which of its writes are done and what is yet to
  follow (`FilesRight`, by `Behind`), what is saved is what was meant
  (`SavedRight`), and nothing that runs depends on the files but on the snapshot
  (`RunRight`).
- The SX1261, in the same module. `RadioIsShared`: `Spec => []RadioShared` of
  `SharedRadio`. A lemma for each driver function says what it does to the mode and
  the inhibition of any radio (`DriverSteps` to `Restored`). Whether channel E
  listens then follows from who may have had the radio last (`ListenInv`) and from
  the inhibition lasting exactly from a packet's look at the channel to its end or
  the first step after a failure (`InhibitInv`). That each channel has one entry
  in the sweep needs to be known where in the loop it is written (`SweepInv`), and
  that a frame is reported once that it waits in the chip before it ever was
  (`ReportInv`).
- The settings of the daemon, in the same module. `SettingsKept`: `Spec => []Kept` of
  `Settings`. Of every change it is shown that each setting it saves is read again with
  the sections it publishes, or the answer is to wait for a restart (`UpdateKeeps`,
  `FollowsSection`), and that a failed save leaves memory as the file is. Authors whose
  answers the code lets differ from what runs are a set (`Excused`), of which the theorem
  assumes that it has the two known ones (`AuthorsExcused`).
- `RoomProofs`: `CursorNeverAhead` and `AcknowledgedIsNotCharged`. For the cursor the
  invariant relates the row, the acknowledgement that waits to be stored
  (`AckedInv`) and the push under way (`PushInv`): between a cursor and the post
  being pushed there is nothing but the client's own posts (`OwnBetween`). A
  login that sets the cursor back in the middle of a push is the case it is
  needed for. For the failures it says that nothing is pushed while an
  acknowledgement waits (`WaitingInv`).
- The companion's requests, in the same module. `AnswersReachTheAsker`:
  `Spec => []RepliesToTheAsker` of `CompanionRequests`. What was queued for an app is
  never taken back, so a frame must be right when it is queued and stay so whatever
  its request does then (`FrameRight`); a connection that asked is served or aborted and
  never served again (`ConnInv`); a ticket is always for the one being served
  (`TicketInv`). That no reply overtakes SENT is known of requests whose
  command is over (`SentRight`), and that none is queued twice of requests that are no
  longer active (`FrameInv`).
- The store, in the same module. `UpgradesPassNoPost` and `LedgerSurvives`: `Spec =>
  []PostsAhead` and `Spec => []LedgerRight` of `StoreUpgrade`. Before the first
  migration the database is as an earlier version left it and nobody works on it
  (`AsLeft`); afterwards no time, given or in use, is later than the room's own cursor,
  which outlives the posts (`AsMigrated`). What the migration computes is a recursive
  function over the posts: that the recursion defines one is shown from its
  approximations (`WireExists`, by induction on their length), and then that its times
  ascend and are no earlier than the seconds they replace (`WireRight`). The reader's
  cursor goes to the new time of its post, wherever in a second it was (`CursorMoves`).
- The contacts, in the same module. `ContactsStayInStep`: `Spec => []ContactsAgree` of
  `Contacts`. A contact that is not as the app has it is later than the app's last END, or
  it is due in the dump under way and later than what its END will say (`Newer`). This
  rests on a drawn revision being later than anything seen (`NextRevFacts`) and on what
  was seen not going back in one process (`SeenGrows`), though the clock may, and an app
  may set the revision of a contact as it likes. A restart forgets the watermark: an END
  may then be later than what is seen, but not than what the processes before knew of
  (`lost`, `EndsSeen`), and only revisions drawn up to there (`again`) are excepted
  (`Unexcused`).
- The companion's messages, in the same module. `MessagesGivenInTurn`: `Spec =>
  []GivenOnceInOrder` of `CompanionInbox`. What the client was given, what is in SQLite but
  for a row just given, and what is in RAM are, in this order, what was accepted
  (`InTurn`), all of it up to the messages the model excuses; none is kept twice in one
  place. What a step does to this equation of sequences rests on the laws of taking
  messages out of a sequence (`MinusTwice`, `MinusConcat`, `MinusExtremes`), each by
  induction on the sequence (`SequenceInduction`).
- The access list, in the same module. `MessagesTakenOnce`: `Spec => []MessagesOnce` of
  `RoomAccess`. The time of a client on the list is no earlier than that of any message
  taken of its present object, its receipt is of one of them, and its role that of the
  last login saved (`ListRight`); an object that is gone never comes back, since each
  has a number of its own (`LivesPassed`).
- `PullRespProofs`: type correctness, `OutcomesTrue`, `NoStaleRegistration`,
  `EchoOnlyOfEmitted`, `OverUnlessCutShort`, and that `PullResp` implements
  `RadioLink` (`ImplementsLink`: each step is a step of `RadioLink` or a stutter).
  `OutcomesTrue` is not inductive: an outcome is true because the future was, the
  future because the callback was, the callback because the datagram was, and the
  datagram because the forwarder's job was (`Verdict`, `TrueInv`). Each link holds
  because who waits has the lock (`LockInv`), a registration is of who waits
  (`PendingInv`), what is on its way belongs to the attempt that drew its token
  (`CarryInv`), and no two things on their way have the same token (`UniqueInv`).

The assumptions are typing of the constants and that the "none" values are none
of the others (`ConstantsAssumption`, `GroupAssumption`, `TickAssumption`,
`LinkAssumption`, `PathAssumption`: finitely many radios, none with the name of another
endpoint), which the runs evaluate. The nineteen services
with proofs are instantiated and not extended, so their theorems state as hypotheses
what they need: `IsFiniteSet(Jobs)`, `NoneIsApart`, that the size and lifetime of the
memory are numbers, `SettingsAssumption` (fields and bands have their types),
`RouterAssumption` (finitely many calls at a time, a queue that holds something,
`Absent` apart), `FramesApart`, `RequestsApart`, `RecordsApart`, `LimitsAssumption`,
`IdentitiesApart`, `TestsApart` and `UpgradeAssumption` (finitely many packets, times in
naturals), `ReceiptsApart`, `AuthorsExcused`, `ContactsAssumption` (finitely many keys,
clocks in naturals), `AccessAssumption` (times in naturals), `TiersAssumption` and
`QueryAssumption`; the last fifteen TLC evaluates for the run's values
(`RadioSettingsTyped` to `QueryTyped` of `MCServices`), which
takes each of these properties for its part: `ForwardedCounted`,
`RememberedExactly`, `RadioShared`, `AskedAndAnswered`, `NothingLeftBehind`,
`ChargesAccounted`, `EverythingOwned`, `CursorCoversReceived`, `CopiesAgree`,
`GivenOnceInOrder` and `CountedOnce` are proved whole. What the properties of the exchange assume of the environment is what
the actions of `PullResp` allow: datagrams keep their order, and a token is drawn
that nothing on its way carries.

## 6. What is only model-checked

Liveness under fairness (`EveryCallReturns`, `StopFinishes`, `EveryCallEnds`,
`StopReturns`, `DeadRadioReplaced`, `AddressSettles`, `Replaced`), which the
prover cannot treat. Every safety property of the passing runs is proved, those of
the run `services` part by part; `NestingBounded` and `OncePerAntenna` under the
hypotheses named above, on how long records live and on the rule lists. That a
list is given to the code which is not `OneWay` remains possible, and what happens then
neither a run nor a theorem says.

## 7. What is not modelled

Within the modelled parts: statistics, logging, traces and diagnostics; the
airtime estimate and the duty window's arithmetic (the budget may give any
answer); the unused `_tx_delay_factor`; the disabled AGC and heartbeat resets;
the timestamped path of the forwarder, since every packet asks for immediate
transmission; the capacity and lifetime of the cache of old acknowledgements,
which the packet path does not read; the random 16-bit tokens, taken to be distinct; the hourly
timer, the stdout reader, the snapshot thread and the SX1261 handle of the
lifecycle; the result of the wait for the first PULL_DATA, which is only logged;
reuse of process group identifiers by strangers; the counters behind detections
1 and 2 of the watchdog below 999; the interleaving of `+= 1` and `= 0` on its counters; and,
in `PullResp`, that two of the 65536 random tokens may be the same.

Of reception and bridge: parsing and its statistics, the receivers behind
channels E and F, delays and rate limits between sends (an await of no length),
the contents of filters (both verdicts are possible), the database writer of the bridge and
its events. Of the engine: its statistics but `forwarded_count`, own adverts, a
change of `max_cache_size` while it runs. Of the router: the registration of
expected acknowledgements, which belongs to the dispatcher outside `src/`. Of
the companion: channels, preferences, logins, path discovery and the frame codec.
Of the room and the helpers: what text commands do, the path, trace and discovery
helpers, intervals and back-off. Of the policy: conditions other than a group of
channels and a level, decryption, the order of rules. Of the configuration: what
its sections contain, and a companion's storage when its key changes. Of the radio
settings: `upgrade.sh` and `bootstrap.sh`, which write the file while the service is down,
the migration of older schemas, the wording of pages, `get_radios` before `begin`. Of storage: the other
readers and writers of single tables, the thread that broadcasts statistics, the
kept baseline of channel statistics, legacy tables, WAL and vacuum, RRD. Of the adverts: parsing and
signatures (`openhop_core` outside `src/`), reloads that change the amounts and not the
switches, the averages themselves.

The parts without a module are listed with the reason in `PROJECT.json`. The HAL
is modelled where the threads meet on the SX1261; its register sequences, the
calibration of the concentrator and the JIT queue's timestamps are hardware
timing. The web interface is modelled where it changes state (settings,
identities, radio, calibration, the end of the server) and where a page
compares two of its sources (`PagesAgree`); its other reading pages are presentation. The Python SX1261 driver is not used on this hardware, and the installation
is a set of scripts that run once.
