---------------------------- MODULE ChannelPlan ----------------------------
(***************************************************************************)
(* How radio settings become the forwarder's configuration:                *)
(* _generate_bridge_conf of wm1303_backend.py.  A-D share one radio with F:*)
(* each needs its carrier within reach of that radio's centre, which is    *)
(* given, or placed between them.  E has a receiver of its own.  Whoever   *)
(* transmits goes through one listen-before-talk table.                    *)
(*                                                                         *)
(* Settings are records: channels, a sequence of at most four for A-D; e   *)
(* and f; center, 0 for automatic; region; word, the sync word; scan; hal, *)
(* the devices and gains that are passed on.  A channel has `typed',       *)
(* whether every field is of its type, and `sound', whether coding rate,   *)
(* preamble and threshold are in range.  Frequencies and bandwidths are in *)
(* Hz, as in the code.                                                     *)
(***************************************************************************)
EXTENDS Integers, Sequences, FiniteSetsExt

CONSTANTS
    Bands,      \* region -> [lower, upper, center], "EU868" among them
    None

Slots  == 0..7                          \* the IF chains of the concentrator
Usable == 800000                        \* half the receive bandwidth
Margin == 7500

AllChannels(ui)  == {ui.channels[i] : i \in DOMAIN ui.channels} \cup {ui.e, ui.f}
Letters(ui)      == {i \in DOMAIN ui.channels : ui.channels[i].active}
OnConcentrator(ui) ==
    {ui.channels[i] : i \in Letters(ui)} \cup (IF ui.f.active THEN {ui.f} ELSE {})
Active(ui) == OnConcentrator(ui) \cup (IF ui.e.active THEN {ui.e} ELSE {})

Receivable(c, widths, lowest) ==
    /\ c.frequency > 0
    /\ c.bandwidth \in widths
    /\ c.sf \in lowest..12
    /\ c.sound

WellFormed(ui) ==
    /\ Len(ui.channels) <= 4
    /\ \A c \in AllChannels(ui) : c.typed
    /\ \A i \in Letters(ui) : Receivable(ui.channels[i], {125000}, 5)
    /\ ui.e.active => Receivable(ui.e, {62500, 125000, 250000, 500000}, 7)
    /\ ui.f.active => Receivable(ui.f, {125000, 250000, 500000}, 5)

(* How far from the centre a carrier may be.                               *)
Reach(c) == Usable - c.bandwidth \div 2 - Margin

Distance(a, b) == IF a < b THEN b - a ELSE a - b

(* The centres that are within reach of every carrier.                     *)
Lowest(ui)  == Max({c.frequency - Reach(c) : c \in OnConcentrator(ui)})
Highest(ui) == Min({c.frequency + Reach(c) : c \in OnConcentrator(ui)})

Band(code) == Bands[IF code \in DOMAIN Bands THEN code ELSE "EU868"]

Center(ui) ==
    IF ui.center # 0 THEN ui.center
    ELSE IF OnConcentrator(ui) # {} THEN (Lowest(ui) + Highest(ui)) \div 2
    ELSE Band(ui.region.code).center

Fits(ui) ==
    OnConcentrator(ui) # {} =>
       /\ Lowest(ui) <= Highest(ui)
       /\ \A c \in OnConcentrator(ui) : Distance(c.frequency, Center(ui)) <= Reach(c)

(* Listen before talk is on for all who transmit or for none: who did not  *)
(* ask for it gets a level that no measurement exceeds.  Two channels with *)
(* the same carrier and bandwidth share the stricter entry.                *)
Transmitting(ui) == {c \in Active(ui) : c.tx}
LbtOn(ui)        == \E c \in Transmitting(ui) : c.lbt
LbtPossible(ui)  == LbtOn(ui) => \A c \in Transmitting(ui) : c.bandwidth # 500000
Level(c)         == IF c.lbt THEN c.threshold ELSE 127
Place(c)         == <<c.frequency, c.bandwidth>>
LbtTable(ui) ==
    IF ~LbtOn(ui) THEN {}
    ELSE {[place |-> p,
           enable |-> \E c \in Transmitting(ui) : Place(c) = p /\ c.lbt,
           level |-> Min({Level(c) : c \in {d \in Transmitting(ui) : Place(d) = p}})] :
             p \in {Place(c) : c \in Transmitting(ui)}}

(* CUSTOM without both bounds is derived from the carriers.                *)
Given(ui) == ui.region.code = "CUSTOM" /\ None \notin {ui.region.lower, ui.region.upper}
BoundsPossible(ui) == Given(ui) => 0 < ui.region.lower /\ ui.region.lower < ui.region.upper
Bounds(ui) ==
    IF Given(ui) THEN <<ui.region.lower, ui.region.upper>>
    ELSE IF ui.region.code = "CUSTOM" /\ OnConcentrator(ui) # {}
    THEN <<Min({c.frequency : c \in OnConcentrator(ui)}) - 5000000,
           Max({c.frequency : c \in OnConcentrator(ui)}) + 5000000>>
    ELSE <<Band(ui.region.code).lower, Band(ui.region.code).upper>>

Accepted(ui) == WellFormed(ui) /\ Fits(ui) /\ LbtPossible(ui) /\ BoundsPossible(ui)

(* The concentrator knows two sync words; any other is taken for private. *)
Public(ui) == ui.word = 13380

(* Outwards to whole steps of 200 kHz.                                     *)
ScanRange(ui) ==
    LET first == ((Center(ui) - Usable) \div 200000) * 200000
        last  == ((Center(ui) + Usable + 199999) \div 200000) * 200000
    IN  [enable |-> ui.scan, first |-> first, steps |-> (last - first) \div 200000]

(* Position i of the settings is chain i - 1, whatever the others do.      *)
Chain(ui, k) ==
    IF k + 1 \in DOMAIN ui.channels
    THEN [enable |-> ui.channels[k + 1].active,
          offset |-> ui.channels[k + 1].frequency - Center(ui)]
    ELSE [enable |-> FALSE, offset |-> 0]

Plan(ui) ==
    [center |-> Center(ui),
     chains |-> [k \in Slots |-> Chain(ui, k)],
     wide   |-> [enable |-> ui.f.active, bandwidth |-> ui.f.bandwidth,
                 offset |-> IF ui.f.active THEN ui.f.frequency - Center(ui) ELSE 0],
     own    |-> [enable |-> ui.e.active, place |-> Place(ui.e), sf |-> ui.e.sf],
     lbt    |-> LbtTable(ui), scan |-> ScanRange(ui), bounds |-> Bounds(ui),
     public |-> Public(ui), hal |-> ui.hal]

-----------------------------------------------------------------------------
(* What the concentrator would receive and send with plan p is what the    *)
(* settings ask for: each enabled chain is tuned to the channel at its     *)
(* position, inside the radio's bandwidth; with listen before talk every   *)
(* sender has one entry, no laxer than it asked, and never in the way of   *)
(* who did not ask; the scan covers the whole bandwidth.                   *)
ServedBy(p, ui) ==
    /\ \A k \in Slots : p.chains[k].enable <=> k + 1 \in Letters(ui)
    /\ \A i \in Letters(ui) : p.center + p.chains[i - 1].offset = ui.channels[i].frequency
    /\ \A k \in Slots : p.chains[k].enable =>
          Distance(p.chains[k].offset, 0) + 62500 <= Usable
    /\ ui.f.active => /\ p.center + p.wide.offset = ui.f.frequency
                      /\ Distance(p.wide.offset, 0) + p.wide.bandwidth \div 2 <= Usable
    /\ p.lbt # {} => \A c \in Transmitting(ui) :
          \E l \in p.lbt :
             /\ l.place = Place(c)
             /\ \A m \in p.lbt : m.place = Place(c) => m = l
             /\ c.lbt => l.enable /\ l.level <= c.threshold
             /\ (\A d \in Transmitting(ui) : Place(d) = Place(c) => ~d.lbt) => l.level = 127
    /\ \A l \in p.lbt : l.place[2] # 500000
    /\ p.scan.first <= p.center - Usable
    /\ p.scan.first + 200000 * p.scan.steps >= p.center + Usable
    /\ p.bounds[1] < p.bounds[2]

(* An automatic centre is refused only if there is none: were there one,   *)
(* the highest of the lowest centres would be one.                         *)
NoCenterFor(ui) ==
    \A m \in {c.frequency - Reach(c) : c \in OnConcentrator(ui)} :
       \E c \in OnConcentrator(ui) : Distance(c.frequency, m) > Reach(c)

PlanRight(ui) ==
    /\ Accepted(ui) => ServedBy(Plan(ui), ui)
    /\ WellFormed(ui) /\ ui.center = 0 /\ ~Fits(ui) => NoCenterFor(ui)

=============================================================================
