------------------------------- MODULE RxPath -------------------------------
(***************************************************************************)
(* The way of a packet from the antenna to the antenna: RxDispatch and     *)
(* Bridge put together.  The bridge's receive loops read the queues that   *)
(* RxDispatch fills, a confirmed transmission of the bridge enters the     *)
(* table of echoes, and what is heard is what somebody has sent: others    *)
(* their own packets, and others or the node itself what it transmitted.   *)
(***************************************************************************)
EXTENDS Naturals, Sequences, FiniteSets

CONSTANTS Contents, OwnContents, Radios, Slots, RuleSets, Identity, Absent,
          BridgeEchoTTL, DemodTTL, EchoTTL, EngineTTL, SeenTTL,
          MaxHeard,   \* bound on the datagrams of a behaviour
          MaxClock,   \* bound on its ticks
          MaxInjects, \* bound on the packets of companions and channel E
          MaxPackets, \* bound on both together
          MaxUpdates  \* bound on replacements of the rules and the mode

ASSUME PathAssumption ==
    /\ OwnContents \subseteq Contents
    /\ IsFiniteSet(Radios) /\ Radios \cap {"channel_e", "mqtt", "repeater"} = {}
    /\ EngineTTL \in Nat /\ SeenTTL \in Nat
    /\ Absent \notin (0..EngineTTL) \cup (0..SeenTTL)

VARIABLES echo, demod, reading, stage, attached, pending, scheduled,
          heard, handed,
          rxq, running, closed, rules, seen, txEcho, engSeen, mode, calls, air,
          aired, clock, injects, updates

Rx == INSTANCE RxDispatch
B  == INSTANCE Bridge

rxVars == <<echo, demod, reading, stage, attached, pending, scheduled,
            heard, handed>>
bridgeVars == <<running, closed, rules, seen, txEcho, engSeen, mode, calls, air,
                aired>>
bounds == <<clock, injects, updates>>
vars == <<rxVars, rxq, bridgeVars, bounds>>

Init == Rx!Init /\ B!BInit /\ clock = 0 /\ injects = 0 /\ updates = 0

WasAired(c) == \E a \in B!Antennas : aired[c, a] > 0

(* What can be heard: a packet of another node from it, one of this node's *)
(* from itself when it was sent, and what was relayed, be it a packet from *)
(* before the last restart.                                                *)
Audible(d) ==
    CASE d.path = "none"      -> d.content \notin OwnContents \/ WasAired(d.content)
      [] d.path = "ours_last" -> WasAired(d.content)
      [] OTHER                -> TRUE

Hears ==
    /\ heard + injects < MaxPackets
    /\ \E d \in Rx!Datagrams : Audible(d) /\ Rx!Hear(d)
    /\ UNCHANGED <<bridgeVars, bounds>>

Reads == Rx!Read /\ UNCHANGED <<bridgeVars, bounds>>

HandsOver ==
    /\ (\E r \in Radios : Rx!SetEventLoop(r)) \/ Rx!DeliverRx
    /\ UNCHANGED <<bridgeVars, bounds>>

Receives == (\E r \in Radios : B!RxLoop(r)) /\ UNCHANGED <<rxVars, bounds>>

Injects ==
    /\ injects < MaxInjects
    /\ heard + injects < MaxPackets
    /\ injects' = injects + 1
    /\ \E s \in Slots :
          \/ \E c \in OwnContents : B!InjectOwn(s, c)
          \/ \E c \in Contents : B!InjectReceived(s, c)
    /\ UNCHANGED <<rxVars, clock, updates>>

Forwards ==
    /\ \E p \in B!Procs : B!Forward(p)
    /\ UNCHANGED <<rxVars, bounds>>

(* TX_ACK: the packet is in the backend's table before send() returns.     *)
Confirms ==
    /\ \E p \in B!Procs :
          B!Confirmed(p) /\ Rx!Confirm(B!Top(p).content)
    /\ UNCHANGED bounds

Starts == B!Run /\ UNCHANGED <<rxVars, bounds>>
Stops  == B!Stop /\ UNCHANGED <<rxVars, bounds>>

Updates ==
    /\ updates < MaxUpdates
    /\ updates' = updates + 1
    /\ B!UpdateRules \/ \E m \in {"forward", "monitor", "no_tx"} : B!SetMode(m)
    /\ UNCHANGED <<rxVars, clock, injects>>

(* A tick is long against the reader's steps and the loop's callbacks.     *)
Ticks ==
    /\ clock < MaxClock
    /\ stage = "idle"
    /\ scheduled = <<>>
    /\ clock' = clock + 1
    /\ Rx!Tick
    /\ B!AgeTables
    /\ UNCHANGED <<running, closed, rules, mode, calls, air, aired, injects,
                   updates>>

Next ==
    \/ Hears \/ Reads \/ HandsOver \/ Receives \/ Injects \/ Forwards
    \/ Confirms \/ Starts \/ Stops \/ Updates \/ Ticks

Spec == Init /\ [][Next]_vars

(* The behaviours in which nothing is heard of a packet before the bridge  *)
(* has recorded its transmission as successful.                            *)
Recorded ==
    reading' # reading /\ reading' # Absent => txEcho[reading'.content] # Absent
RecordedSpec == Init /\ [][Next /\ Recorded]_vars

-----------------------------------------------------------------------------
(* Properties.                                                             *)

(* The callbacks for r that are behind the first n in the loop's queue.    *)
Callbacks(r, n) == Cardinality({i \in (n + 1)..Len(scheduled) : scheduled[i][1] = r})

(* The lock of VirtualLoRaRadio and the loop's queue of callbacks together *)
(* lose nothing and keep the order: what a radio was given is, in order,   *)
(* what its receive loop took or will find, what is scheduled and what     *)
(* waits for a loop.                                                       *)
HandoverInOrder ==
    \A r \in Radios :
       LET given == Len(handed[r]) - Len(pending[r])
           taken == given - Callbacks(r, 0) - Len(rxq[r])
       IN /\ taken >= 0
          /\ \A i \in DOMAIN rxq[r] : rxq[r][i] = handed[r][taken + i]
          /\ \A i \in DOMAIN scheduled :
                scheduled[i][1] = r
                  => scheduled[i][2] = handed[r][given - Callbacks(r, i)]
          /\ \A i \in DOMAIN pending[r] : pending[r][i] = handed[r][given + i]

(* The rules of a list that lead a packet from src to tgt.                 *)
Leads(list, src, c, tgt) ==
    {i \in DOMAIN list : /\ list[i].source = src
                         /\ list[i].target = tgt
                         /\ c \in list[i].passes
                         /\ ~(tgt \in Radios /\ tgt = src)}

(* Rule lists that know one way to each antenna: one rule from a source to *)
(* it, and none both directly and by way of the repeater, whose rules may  *)
(* be those of a later list.                                               *)
OneWay ==
    \A list \in RuleSets, c \in Contents \ OwnContents, a \in B!Antennas :
       /\ Len(list) \in Nat /\ DOMAIN list = 1..Len(list)
       /\ \A src \in B!Antennas \cup {"repeater"} :
             \A i, j \in Leads(list, src, c, a) : i = j
       /\ \A src \in B!Antennas, later \in RuleSets :
             \/ Leads(list, src, c, a) = {}
             \/ Leads(list, src, c, "repeater") = {}
             \/ Leads(later, "repeater", c, a) = {}

(* Whatever copies, echoes and repeats are heard of it, on whatever radio  *)
(* and in whatever order: a packet of another node goes out at most once   *)
(* on each antenna while its entry in _seen lives.                         *)
OncePerAntenna ==
    \A c \in Contents \ OwnContents, a \in B!Antennas : aired[c, a] <= 1

(* The repeater's handler injects into the bridge that is waiting for it:  *)
(* even a rule from the repeater to itself does not nest calls deeper.     *)
NestingBounded == \A p \in B!Procs : Len(calls[p]) <= 2

(* bridge_engine.py 1184-1187: "when the same packet comes back via real RF*)
(* from a neighbour repeating it, the engine drops it as TX_ECHO before    *)
(* re-forwarding", so no packet of this node's goes out a second time.     *)
OwnNotForwardedAgain ==
    \A c \in OwnContents, a \in B!Antennas : aired[c, a] <= 1
=============================================================================
