----------------------------- MODULE SharedRadio -----------------------------
(***************************************************************************)
(* Three threads of the packet forwarder share the SX1261 under mx_concent:*)
(* thread_down listens before it talks, thread_spectral_scan measures the  *)
(* band, and thread_up fetches what channel E has received.  The threads of*)
(* lora_pkt_fwd.c with the functions of loragw_sx1261.c, loragw_lbt.c and  *)
(* loragw_hal.c they call.                                                 *)
(*                                                                         *)
(* A section under the mutex is one step.  The functions of the driver are *)
(* operators on the radio, composed as the C composes them.  Spreading     *)
(* factors and bandwidths are those the channel-activity detection knows;  *)
(* packets are sent at once, the timestamped path is not used.             *)
(***************************************************************************)
EXTENDS Naturals, Sequences

CONSTANTS
    Frames,        \* what may be heard on channel E, each once
    None,          \* nothing, no frame
    Lbt,           \* lbt_conf.enable
    Channels,      \* nb_chan of a sweep
    CadChannels,   \* channels in /tmp/pymc_cad_config.json
    MaxRetries,    \* CAD_MAX_RETRIES
    MaxDeferrals,  \* deferrals before the scan is forced
    MaxPackets     \* bound on the packets to send

VARIABLES
    radio,      \* [mode, scan, inhibit, deferred, frame]
    air,        \* the SX1302 emits
    down,       \* where thread_down is
    retries,    \* cad_retry
    packets,    \* packets taken so far (bound)
    scanner,    \* where thread_spectral_scan is
    deferrals,  \* deferred_count
    chan,       \* the channel freq_hz stands at
    recorded,   \* channel_recorded
    sweep,      \* sweep_acc: the channels that have an entry
    left,       \* channels whose activity is still to be looked at
    swept,      \* the last to use the radio was that look (history)
    slot,       \* rxpkt of thread_up, which keeps its content
    reported,   \* [Frames -> times it was sent up]
    empties     \* frames without payload so far (history)

vars == <<radio, air, down, retries, packets, scanner, deferrals, chan, recorded, sweep,
          left, swept, slot, reported, empties>>
downVars == <<air, down, retries, packets>>
scanVars == <<scanner, deferrals, chan, recorded, sweep, left>>
upVars == <<slot, reported, empties>>

Empty == "empty"

(* What the theorem about the radio assumes.                               *)
FramesApart == None \notin Frames /\ Empty \notin Frames /\ None # Empty

(* Channel E is configured and listens when the threads start.             *)
Init ==
    /\ radio = [mode |-> "lora", scan |-> "none", inhibit |-> FALSE, deferred |-> FALSE,
                frame |-> None]
    /\ air = FALSE
    /\ down = "idle"
    /\ retries = 0
    /\ packets = 0
    /\ scanner = "pace"
    /\ deferrals = 0
    /\ chan = 1
    /\ recorded = FALSE
    /\ sweep = <<>>
    /\ left = 0
    /\ swept = FALSE
    /\ slot = None
    /\ reported = [f \in Frames |-> 0]
    /\ empties = 0

-----------------------------------------------------------------------------
(* The driver.                                                             *)

Stopped(r) == IF r.scan = "ongoing" THEN [r EXCEPT !.scan = "lost"] ELSE r

(* sx1261_setup, and sx1261_lora_rx_stop.                                  *)
Standby(r) == [Stopped(r) EXCEPT !.mode = "standby"]

(* Fault: the restart does not look at the inhibition.                     *)
RestartAlways(r) == [Stopped(r) EXCEPT !.mode = "lora", !.frame = None]

(* sx1261_lora_rx_restart_light clears what was received.                  *)
RestartLight(r) ==
    IF r.inhibit THEN r ELSE [Stopped(r) EXCEPT !.mode = "lora", !.frame = None]

(* A restart that was refused is made up for when the inhibition ends.     *)
RestartOrDefer(r) ==
    IF r.inhibit THEN [r EXCEPT !.deferred = TRUE] ELSE RestartLight(r)

(* sx1261_spectral_scan_abort.                                             *)
ScanAbort(r) == RestartOrDefer(Stopped(r))

(* sx1261_set_rx_params.                                                   *)
SetRxParams(r) == [ScanAbort(Standby(r)) EXCEPT !.mode = "fsk"]

(* lgw_spectral_scan_start.                                                *)
ScanStart(r) == [SetRxParams(r) EXCEPT !.scan = "ongoing"]

(* sx1261_cad_scan ends with a reset and a new load of the chip's program. *)
CadScan(r) ==
    [ScanAbort(Standby(r)) EXCEPT !.mode = "standby", !.frame = None,
                                  !.scan = IF @ = "done" THEN "lost" ELSE @]

(* sx1261_lbt_stop.                                                        *)
LbtStop(r) == RestartOrDefer([r EXCEPT !.mode = "standby"])

(* sx1261_set_tx_inhibit_rx.                                               *)
Inhibited(r) == [r EXCEPT !.inhibit = TRUE]
Released(r) ==
    LET s == [r EXCEPT !.inhibit = FALSE, !.deferred = FALSE]
    IN IF r.deferred THEN RestartLight(s) ELSE s

Restored(r) == RestartLight(Released(r))

-----------------------------------------------------------------------------
(* thread_down.                                                            *)

TakePacket ==
    /\ down = "idle"
    /\ packets < MaxPackets
    /\ packets' = packets + 1
    /\ down' = "waiting"
    /\ retries' = 0
    /\ UNCHANGED <<radio, air, swept>> /\ UNCHANGED scanVars /\ UNCHANGED upVars

(* Half a second after the last packet should have ended.                  *)
NotFree ==
    /\ down = "waiting"
    /\ air
    /\ down' = "idle"
    /\ UNCHANGED <<radio, air, retries, packets, swept>>
    /\ UNCHANGED scanVars /\ UNCHANGED upVars

(* The radio after the look at the channel, which the inhibition precedes. *)
Looked ==
    CadScan(Inhibited(IF down = "waiting" THEN ScanAbort(radio) ELSE radio))

MayLook == down = "retry" \/ (down = "waiting" /\ ~air)

(* Somebody is heard: channel E listens for the few milliseconds' wait.    *)
CadDetected ==
    /\ MayLook
    /\ retries < MaxRetries
    /\ radio' = Restored(Looked)
    /\ retries' = retries + 1
    /\ down' = "retry"
    /\ swept' = FALSE
    /\ UNCHANGED <<air, packets>> /\ UNCHANGED scanVars /\ UNCHANGED upVars

(* The channel is clear, or was not for too long; the mutex is kept.       *)
Talk(r, emits, next) ==
    /\ MayLook
    /\ radio' = r
    /\ air' = emits
    /\ down' = next
    /\ swept' = FALSE
    /\ UNCHANGED <<retries, packets>> /\ UNCHANGED scanVars /\ UNCHANGED upVars

Listened == IF Lbt THEN LbtStop(SetRxParams(Looked)) ELSE Looked

(* lgw_send: the packet is on its way; ...                                 *)
Sent == Talk(Listened, TRUE, "polling")

(* ... the threshold forbids it or the concentrator does; ...              *)
Refused == Talk(Listened, FALSE, "failed")

(* ... it does not suit the channel; or it was sent, but listening cannot  *)
(* be ended, which is taken for a failure too.                             *)
NotListened ==
    /\ Lbt
    /\ \/ Talk(Looked, FALSE, "failed")
       \/ Talk(SetRxParams(Looked), TRUE, "failed")

EmissionEnds ==
    /\ air
    /\ air' = FALSE
    /\ UNCHANGED <<radio, down, retries, packets, swept>>
    /\ UNCHANGED scanVars /\ UNCHANGED upVars

(* The concentrator is free, or the estimate of the airtime has run out.   *)
PollEnds ==
    /\ down = "polling"
    /\ radio' = Restored(radio)
    /\ down' = "idle"
    /\ UNCHANGED <<air, retries, packets, swept>> /\ UNCHANGED scanVars /\ UNCHANGED upVars

(* After a failure reception is restored without the mutex: others come    *)
(* between the commands, and the last one starts whatever modem is set.    *)
FailureReleases ==
    /\ down = "failed"
    /\ radio' = [Standby(radio) EXCEPT !.inhibit = FALSE, !.deferred = FALSE, !.frame = None]
    /\ down' = "restoring"
    /\ UNCHANGED <<air, retries, packets, swept>> /\ UNCHANGED scanVars /\ UNCHANGED upVars

FailureRestores ==
    /\ down = "restoring"
    /\ radio' \in IF radio.mode = "fsk" THEN {radio, Stopped(radio)}
                  ELSE {[radio EXCEPT !.mode = "lora"]}
    /\ down' = "idle"
    /\ UNCHANGED <<air, retries, packets, swept>> /\ UNCHANGED scanVars /\ UNCHANGED upVars

-----------------------------------------------------------------------------
(* thread_spectral_scan.                                                   *)

(* A step of this thread alone.                                            *)
Scan(at, next, r) ==
    /\ scanner = at
    /\ scanner' = next
    /\ radio' = r
    /\ UNCHANGED downVars /\ UNCHANGED upVars

(* Both transmitters are free and the last reception is over.  The mutex is*)
(* given back before the scan is started.                                  *)
Ready ==
    /\ ~air
    /\ Scan("pace", "start", radio)
    /\ deferrals' = 0
    /\ recorded' = FALSE
    /\ UNCHANGED <<chan, sweep, left, swept>>

Deferred ==
    /\ deferrals + 1 < MaxDeferrals
    /\ Scan("pace", "pace", radio)
    /\ deferrals' = deferrals + 1
    /\ UNCHANGED <<chan, recorded, sweep, left, swept>>

(* Free or not.                                                            *)
Forced ==
    /\ deferrals + 1 = MaxDeferrals
    /\ Scan("pace", "start", ScanStart(SetRxParams(Standby(radio))))
    /\ deferrals' = 0
    /\ recorded' = FALSE
    /\ swept' = FALSE
    /\ UNCHANGED <<chan, sweep, left>>

Start ==
    /\ \E r \in {ScanStart(radio), SetRxParams(radio)} : Scan("start", "running", r)
    /\ swept' = FALSE
    /\ UNCHANGED <<deferrals, chan, recorded, sweep, left>>

(* The chip has counted its samples.                                       *)
ScanCompletes ==
    /\ radio.mode = "fsk"
    /\ radio.scan = "ongoing"
    /\ radio' = [radio EXCEPT !.scan = "done"]
    /\ UNCHANGED swept /\ UNCHANGED downVars /\ UNCHANGED scanVars /\ UNCHANGED upVars

Completed ==
    /\ radio.scan = "done"
    /\ Scan("running", "results", radio)
    /\ UNCHANGED <<deferrals, chan, recorded, sweep, left, swept>>

Aborted ==
    /\ radio.scan = "lost"
    /\ Scan("running", "restore", radio)
    /\ UNCHANGED <<deferrals, chan, recorded, sweep, left, swept>>

(* Two seconds are over, or the status cannot be read, ...                 *)
StatusFails ==
    /\ Scan("running", "unexpected", RestartLight(Standby(radio)))
    /\ UNCHANGED <<deferrals, chan, recorded, sweep, left, swept>>

(* ... and what was read last is neither completed nor aborted.            *)
Unexpected ==
    /\ Scan("unexpected", "advance", RestartLight(Standby(radio)))
    /\ UNCHANGED <<deferrals, chan, recorded, sweep, left, swept>>

(* The histogram is recorded unless it cannot be read or its sum is wrong, *)
(* which a reset by thread_down before this section may have made it.      *)
Results ==
    /\ Scan("results", "restore", radio)
    /\ recorded' \in BOOLEAN
    /\ sweep' = IF recorded' THEN Append(sweep, chan) ELSE sweep
    /\ UNCHANGED <<deferrals, chan, left, swept>>

Restore ==
    /\ Scan("restore", "advance", RestartLight(radio))
    /\ UNCHANGED <<deferrals, chan, recorded, sweep, left, swept>>

(* Fault: a channel without data gets no entry.                            *)
AdvanceWithoutSentinel ==
    /\ Scan("advance", IF chan < Channels THEN "pace" ELSE "sweep", radio)
    /\ chan' = chan + 1
    /\ left' = CadChannels
    /\ UNCHANGED <<deferrals, recorded, sweep, swept>>

(* A channel without data gets a sentinel, and the next one follows.       *)
Advance ==
    /\ Scan("advance", IF chan < Channels THEN "pace" ELSE "sweep", radio)
    /\ sweep' = IF recorded THEN sweep ELSE Append(sweep, chan)
    /\ chan' = chan + 1
    /\ left' = CadChannels
    /\ UNCHANGED <<deferrals, recorded, swept>>

(* After a whole sweep, the activity on the configured channels, ...       *)
SweepCad ==
    /\ left > 0
    /\ Scan("sweep", "sweep", IF air THEN radio ELSE CadScan(radio))
    /\ left' = left - 1
    /\ swept' = (swept \/ ~air)
    /\ UNCHANGED <<deferrals, chan, recorded, sweep>>

(* ... and the file.  Channel E is restored only if it is not configured.  *)
Write ==
    /\ left = 0
    /\ Scan("sweep", "pace", radio)
    /\ chan' = 1
    /\ sweep' = <<>>
    /\ UNCHANGED <<deferrals, recorded, left, swept>>

-----------------------------------------------------------------------------
(* thread_up.                                                              *)

(* A frame ends; one without payload is possible.                          *)
Hear ==
    /\ radio.mode = "lora"
    /\ radio.frame = None
    /\ \/ \E f \in Frames :
             /\ reported[f] = 0
             /\ f # slot
             /\ radio' = [radio EXCEPT !.frame = f]
             /\ UNCHANGED empties
       \/ /\ empties = 0
          /\ empties' = 1
          /\ radio' = [radio EXCEPT !.frame = Empty]
    /\ UNCHANGED <<swept, slot, reported>> /\ UNCHANGED downVars /\ UNCHANGED scanVars

(* sx1261_lora_rx_fetch in whatever mode the radio is.  A frame without    *)
(* payload leaves the slot as it is and counts as received all the same.   *)
Fetch ==
    /\ radio.frame # None
    /\ radio' = [radio EXCEPT !.frame = None]
    /\ \/ /\ slot' = IF radio.frame = Empty THEN slot ELSE radio.frame
          /\ reported' = IF slot' = None THEN reported
                         ELSE [reported EXCEPT ![slot'] = @ + 1]
       \/ UNCHANGED <<slot, reported>>
    /\ UNCHANGED <<swept, empties>> /\ UNCHANGED downVars /\ UNCHANGED scanVars

Next ==
    \/ TakePacket \/ NotFree \/ CadDetected \/ Sent \/ Refused \/ NotListened
    \/ EmissionEnds \/ PollEnds \/ FailureReleases \/ FailureRestores
    \/ Ready \/ Deferred \/ Forced \/ Start \/ ScanCompletes \/ Completed \/ Aborted
    \/ StatusFails \/ Unexpected \/ Results \/ Restore \/ Advance \/ SweepCad \/ Write
    \/ Hear \/ Fetch

Spec == Init /\ [][Next]_vars

-----------------------------------------------------------------------------
(* While thread_down waits for the end of its packet channel E does not    *)
(* listen, whichever thread restores it (loragw_sx1261.c:115-119).  When it*)
(* is not sending and no scan is under way channel E does listen, except   *)
(* after a sweep with a look at the activity, which leaves it deaf though  *)
(* lora_pkt_fwd.c:5303 says otherwise.  Each channel has one entry in the  *)
(* sweep, whatever became of its scan (5171-5177).  A frame is reported    *)
(* once, except that one without payload repeats the last.                 *)
RadioShared ==
    /\ down = "polling" => radio.mode # "lora"
    /\ down = "idle" /\ scanner = "pace" /\ ~swept => radio.mode = "lora"
    /\ scanner \in {"pace", "sweep"} => sweep = [i \in 1..(chan - 1) |-> i]
    /\ \A f \in Frames : reported[f] <= 1 + empties

(* Not so: the state is looked at in one section and the scan started in   *)
(* the next, or it is forced (docs/channel_e_sx1261.md:146).               *)
ScansInSilence == radio.scan = "ongoing" => ~air

=============================================================================
