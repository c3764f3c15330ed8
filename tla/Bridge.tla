------------------------------- MODULE Bridge -------------------------------
(***************************************************************************)
(* The bridge (repeater/bridge_engine.py): a receive loop per radio and    *)
(* any number of injections, each forwarding its packet by the rules, with *)
(* the repeater's handler (main.py _bridge_repeater_handler, engine.py     *)
(* flood_forward) as one of the targets: it injects what it forwards into  *)
(* the bridge again.  All of it runs on one event loop; an action is the   *)
(* code between two awaits.                                                *)
(*                                                                         *)
(* A process has a stack of calls of _forward_by_rules: its own and, while *)
(* it waits for the repeater's handler, that of the injection in it.       *)
(***************************************************************************)
EXTENDS Naturals, Sequences, FiniteSets, SequencesExt

CONSTANTS
    Contents,   \* what _stable_hash tells apart
    OwnContents,\* packets that this node originates
    Radios,     \* the radios with a receive loop
    Slots,      \* callers of inject_packet() from outside
    RuleSets,   \* the rule lists that update_rules() may be given
    SeenTTL,    \* dedup_ttl, 300 s, in ticks
    EngineTTL,  \* cache_ttl of the repeater engine, 60 s, in ticks
    BridgeEchoTTL, \* _tx_echo_ttl of the bridge, 0.5 s, in ticks
    Absent      \* no entry in a table

Sources == Radios \cup {"channel_e", "mqtt", "repeater"}
Inline  == {"repeater", "mqtt"}       \* endpoints that do no RF transmission
Procs   == Radios \cup Slots

VARIABLES
    rxq,      \* [Radios -> Seq(Contents)], the radios' _rx_queue
    running,  \* _running
    closed,   \* _stopped
    rules,    \* self.rules
    seen,     \* [Contents -> age or Absent], _seen
    txEcho,   \* the same for _tx_echo_hashes of the bridge
    engSeen,  \* the same for seen_packets of the engine
    mode,     \* repeater.mode of the configuration
    calls,    \* [Procs -> stack of calls of _forward_by_rules]
    air,      \* [Procs -> state of the send a process awaits]
    aired     \* [Contents \X (Radios + channel_e) -> emissions] (history)

tables == <<seen, txEcho, engSeen>>
bvars  == <<running, closed, rules, tables, mode, calls, air, aired>>
vars   == <<rxq, bvars>>

Ages(ttl) == (0..ttl) \cup {Absent}
Older(age, ttl) == IF age = Absent \/ age = ttl THEN age ELSE age + 1
Fresh(age, ttl) == age # Absent /\ age < ttl

Antennas == Radios \cup {"channel_e"}

BInit ==
    /\ running = FALSE
    /\ closed = FALSE
    /\ rules \in RuleSets
    /\ seen    = [c \in Contents |-> Absent]
    /\ txEcho  = [c \in Contents |-> Absent]
    /\ engSeen = [c \in Contents |-> Absent]
    /\ mode = "forward"
    /\ calls = [p \in Procs |-> <<>>]
    /\ air = [p \in Procs |-> "none"]
    /\ aired = [x \in Contents \X Antennas |-> 0]

Init == rxq = [r \in Radios |-> <<>>] /\ BInit

-----------------------------------------------------------------------------
(* Calls of _forward_by_rules.                                             *)

(* The rules that apply: enabled ones of this source whose filter lets the *)
(* content pass.                                                           *)
Matching(src, c) ==
    {i \in DOMAIN rules : rules[i].source = src /\ c \in rules[i].passes}

(* A set of rules in the order of the list, and their targets.             *)
Ascending(I) ==
    CHOOSE f \in [1..Cardinality(I) -> I] :
       \A i, j \in DOMAIN f : i < j => f[i] < f[j]
Targets(I) == [k \in 1..Cardinality(I) |-> rules[Ascending(I)[k]].target]

(* rf_sends: everything but the inline endpoints and the radio the packet  *)
(* came from, the origin channel first.                                    *)
Sends(src, c, origin) ==
    LET rf == {i \in Matching(src, c) :
                  /\ rules[i].target \notin Inline
                  /\ ~(rules[i].target \in Radios /\ rules[i].target = src)}
        first == {i \in rf : rules[i].target = origin}
    IN Targets(first) \o Targets(rf \ first)

(* With no rules at all the packet is for local reception only: the        *)
(* repeater's handler is called and False returned.                        *)
Call(src, c, origin) ==
    [src |-> src, content |-> c, origin |-> origin, stage |-> "rules",
     inline |-> IF rules = <<>> /\ src # "repeater" THEN <<"repeater">>
                ELSE Targets({i \in Matching(src, c) : rules[i].target \in Inline}),
     sends |-> Sends(src, c, origin)]

Busy(p) == calls[p] # <<>>
Top(p)  == Last(calls[p])
(* A call with nothing left returns at once: to the receive loop, the      *)
(* injector or, a level down, the repeater's handler, whose call may be    *)
(* over with that.                                                         *)
Over(stack) == /\ stack # <<>>
               /\ Last(stack).stage = "rules"
               /\ Last(stack).inline = <<>>
               /\ Last(stack).sends = <<>>
Unwind(stack) == IF Over(stack) THEN Front(stack) ELSE stack
Becomes(p, stack) == calls' = [calls EXCEPT ![p] = Unwind(Unwind(stack))]
Push(p, call)   == Becomes(p, Append(calls[p], call))
SetTop(p, call) == Becomes(p, Append(Front(calls[p]), call))

(* _is_tx_echo, _is_duplicate: the duplicate test records the content.     *)
IsTxEcho(c)    == Fresh(txEcho[c], BridgeEchoTTL)
IsDuplicate(c) == Fresh(seen[c], SeenTTL)
MarkSeen(c)    == seen' = [seen EXCEPT ![c] = 0]

(* A packet of a source with duplicate test: dropped, or recorded and then *)
(* either refused by the policy or forwarded by the rules.                 *)
Admit(p, src, c) ==
    IF IsTxEcho(c) \/ IsDuplicate(c)
    THEN UNCHANGED <<seen, calls>>
    ELSE MarkSeen(c) /\ (UNCHANGED calls \/ Push(p, Call(src, c, "none")))

(* _rx_loop: one packet of the radio.                                      *)
RxLoop(r) ==
    /\ running
    /\ ~Busy(r)
    /\ rxq[r] # <<>>
    /\ rxq' = [rxq EXCEPT ![r] = Tail(@)]
    /\ Admit(r, r, Head(rxq[r]))
    /\ UNCHANGED <<running, closed, rules, txEcho, engSeen, mode, air, aired>>

(* Mutant: channel E counted among the sources without duplicate test.     *)
InjectReceivedUntested(s, c) ==
    /\ running
    /\ ~Busy(s)
    /\ ~IsTxEcho(c)
    /\ Push(s, Call("channel_e", c, "none"))
    /\ UNCHANGED <<rxq, running, closed, rules, tables, mode, air, aired>>

(* inject_packet by channel E's bridge: as a receive loop.                 *)
InjectReceived(s, c) ==
    /\ running
    /\ ~Busy(s)
    /\ Admit(s, "channel_e", c)
    /\ UNCHANGED <<rxq, running, closed, rules, txEcho, engSeen, mode, air,
                   aired>>

(* inject_packet by a companion (_companion_injector): no duplicate test   *)
(* and no record, neither here nor in the engine.                          *)
InjectOwn(s, c) ==
    /\ running
    /\ mode # "no_tx"
    /\ ~Busy(s)
    /\ ~IsTxEcho(c)
    /\ Push(s, Call("repeater", c, "none"))
    /\ UNCHANGED <<rxq, running, closed, rules, tables, mode, air, aired>>

(* The repeater's handler: local delivery consumes the packet, or the      *)
(* engine does not forward it.  Either way the handler returns None, which *)
(* counts as delivered.                                                    *)
NotRepeated(p) ==
    /\ Busy(p)
    /\ Top(p).stage = "rules"
    /\ Top(p).inline # <<>>
    /\ Head(Top(p).inline) = "repeater"
    /\ SetTop(p, [Top(p) EXCEPT !.inline = Tail(@)])
    /\ UNCHANGED <<rxq, running, closed, rules, tables, mode, air, aired>>

(* Mutant: flood_forward leaves the record to its callers.                 *)
RepeatUnmarked(p) ==
    /\ Busy(p)
    /\ Top(p).stage = "rules"
    /\ Top(p).inline # <<>>
    /\ Head(Top(p).inline) = "repeater"
    /\ mode = "forward"
    /\ ~Fresh(engSeen[Top(p).content], EngineTTL)
    /\ SetTop(p, [Top(p) EXCEPT !.stage = "delay"])
    /\ UNCHANGED <<rxq, running, closed, rules, tables, mode, air, aired>>

(* flood_forward: the engine has its own duplicate test; a new packet is   *)
(* recorded (its path gets the node's hash) and waits for its delay.        *)
Repeat(p) ==
    LET call == Top(p)
        c == call.content
    IN /\ Busy(p)
       /\ call.stage = "rules"
       /\ call.inline # <<>>
       /\ Head(call.inline) = "repeater"
       /\ mode = "forward"
       /\ ~Fresh(engSeen[c], EngineTTL)
       /\ engSeen' = [engSeen EXCEPT ![c] = 0]
       /\ SetTop(p, [call EXCEPT !.stage = "delay"])
       /\ UNCHANGED <<rxq, running, closed, rules, seen, txEcho, mode, air, aired>>

(* After the delay: inject_packet('repeater', ..., origin_channel), which  *)
(* a stopped bridge refuses and the echo test may drop.                    *)
Reinject(p) ==
    LET call == Top(p)
        back == [call EXCEPT !.stage = "rules", !.inline = Tail(@)]
    IN /\ Busy(p)
       /\ call.stage = "delay"
       /\ IF running /\ ~IsTxEcho(call.content)
          THEN Becomes(p, Front(calls[p]) \o
                            <<back, Call("repeater", call.content, call.src)>>)
          ELSE SetTop(p, back)
       /\ UNCHANGED <<rxq, running, closed, rules, tables, mode, air, aired>>

(* MQTT, awaited in place.                                                 *)
Publish(p) ==
    /\ Busy(p)
    /\ Top(p).inline # <<>>
    /\ Head(Top(p).inline) = "mqtt"
    /\ SetTop(p, [Top(p) EXCEPT !.inline = Tail(@)])
    /\ UNCHANGED <<rxq, running, closed, rules, tables, mode, air, aired>>

(* The RF sends one after the other; the mode is read after each delay.    *)
Suppressed(call) ==
    \/ mode = "no_tx"
    \/ mode = "monitor" /\ (call.src # "repeater" \/ call.origin # "none")

SendNext(p) ==
    LET call == Top(p)
    IN /\ Busy(p)
       /\ call.stage = "rules"
       /\ call.inline = <<>>
       /\ call.sends # <<>>
       /\ IF Suppressed(call)
          THEN SetTop(p, [call EXCEPT !.sends = Tail(@)]) /\ UNCHANGED air
          ELSE /\ SetTop(p, [call EXCEPT !.stage = "sending"])
               /\ air' = [air EXCEPT ![p] = "queued"]
       /\ UNCHANGED <<rxq, running, closed, rules, tables, mode, aired>>

(* The transmission, by the scheduler and the forwarder; whether it is     *)
(* confirmed is known later, or never.                                     *)
Emit(p) ==
    /\ air[p] = "queued"
    /\ air' = [air EXCEPT ![p] = "emitted"]
    /\ aired' = [aired EXCEPT ![<<Top(p).content, Head(Top(p).sends)>>] = @ + 1]
    /\ UNCHANGED <<rxq, running, closed, rules, tables, mode, calls>>

Confirmed(p) ==
    /\ air[p] = "emitted"
    /\ air' = [air EXCEPT ![p] = "confirmed"]
    /\ UNCHANGED <<rxq, running, closed, rules, tables, mode, calls, aired>>

(* send() returns: only a success is recorded as the bridge's echo.        *)
Sent(p) ==
    LET call == Top(p)
    IN /\ call.stage = "sending"
       /\ txEcho' = IF air[p] = "confirmed"
                    THEN [txEcho EXCEPT ![call.content] = 0]
                    ELSE txEcho
       /\ air' = [air EXCEPT ![p] = "none"]
       /\ SetTop(p, [call EXCEPT !.stage = "rules", !.sends = Tail(@)])
       /\ UNCHANGED <<rxq, running, closed, rules, seen, engSeen, mode, aired>>

SendReturns(p) == Busy(p) /\ Sent(p)

-----------------------------------------------------------------------------
(* Owners.                                                                 *)

(* run(): once only.                                                       *)
Run ==
    /\ ~running
    /\ ~closed
    /\ running' = TRUE
    /\ UNCHANGED <<rxq, closed, rules, tables, mode, calls, air, aired>>

(* stop(): no admission any more; the loops are cancelled at the await     *)
(* they are in, injections of others run on.  A transmission that waits may*)
(* be under way already.                                                   *)
Stop ==
    /\ ~closed
    /\ running' = FALSE
    /\ closed' = TRUE
    /\ calls' = [p \in Procs |-> IF p \in Radios THEN <<>> ELSE calls[p]]
    /\ air' = [p \in Procs |-> IF p \in Radios THEN "none" ELSE air[p]]
    /\ \E late \in SUBSET {r \in Radios : air[r] = "queued"} :
          aired' = [x \in DOMAIN aired |-> aired[x] + Cardinality(
                      {r \in late : x = <<Top(r).content, Head(Top(r).sends)>>})]
    /\ UNCHANGED <<rxq, rules, tables, mode>>

UpdateRules ==
    /\ \E new \in RuleSets : rules' = new
    /\ UNCHANGED <<rxq, running, closed, tables, mode, calls, air, aired>>

SetMode(m) ==
    /\ mode' = m
    /\ UNCHANGED <<rxq, running, closed, rules, tables, calls, air, aired>>

AgeTables ==
    /\ seen'    = [c \in Contents |-> Older(seen[c], SeenTTL)]
    /\ txEcho'  = [c \in Contents |-> Older(txEcho[c], BridgeEchoTTL)]
    /\ engSeen' = [c \in Contents |-> Older(engSeen[c], EngineTTL)]

(* The steps of a process in a call.                                       *)
Forward(p) ==
    \/ NotRepeated(p) \/ Repeat(p) \/ Reinject(p) \/ Publish(p)
    \/ SendNext(p) \/ Emit(p) \/ SendReturns(p)
=============================================================================
