---------------------------- MODULE RadioProofs ----------------------------
(***************************************************************************)
(* Theorems about ChannelPlan and RadioSettings, for any settings, bands,  *)
(* requests and number of failures, and about SharedRadio, for any frames, *)
(* channels, limits and numbers of packets, and about the Settings of the  *)
(* daemon.                                                                 *)
(* SettingsAssumption, which types them, is a hypothesis where it is used. *)
(*                                                                         *)
(* First, of settings alone: what is accepted can be received and sent,    *)
(* and an automatic centre is refused only if there is none.  At most six  *)
(* channels take part, so the extremes that place the centre exist; the    *)
(* rest is arithmetic.                                                     *)
(*                                                                         *)
(* Then the specification.  That the files agree when no request is under  *)
(* way rests on how far each may be from the others while one is: the      *)
(* invariant says what the request at work has done and has yet to do      *)
(* (RequestRight, Behind), that whatever runs or is under way has accepted *)
(* settings, and that nothing runs but what the snapshot says (RunRight).  *)
(*                                                                         *)
(* Then the SX1261: three threads drive it, and what each driver function *)
(* does to its mode and its inhibition decides whether channel E listens   *)
(* (InhibitInv, ListenInv).                                                *)
(*                                                                         *)
(* Last, of Settings: the file has what was last asked for, and what is said *)
(* to apply does. Of every change it has to be shown that each setting it  *)
(* saves is read again with the sections it publishes, unless the answer   *)
(* is to wait for a restart (UpdateKeeps, FollowsSection).                 *)
(***************************************************************************)
EXTENDS RadioSettings, TLAPS

USE DEF SettingsAssumption

HasEnds(S) ==
    S # {} => /\ \E x \in S : \A y \in S : x >= y
              /\ \E x \in S : \A y \in S : x <= y

LEMMA OneMoreHasEnds ==
    ASSUME NEW S \in SUBSET Int, NEW T, NEW x \in Int, HasEnds(S \cap T)
    PROVE  HasEnds(S \cap (T \cup {x}))
<1>1. CASE x \notin S
  <2>1. S \cap (T \cup {x}) = S \cap T
    BY <1>1
  <2>2. QED
    BY <2>1
<1>2. CASE x \in S
  <2>1. CASE S \cap T = {}
    <3>1. S \cap (T \cup {x}) = {x}
      BY <1>2, <2>1
    <3>2. QED
      BY <3>1 DEF HasEnds
  <2>2. CASE S \cap T # {}
    <3>1. PICK h \in S \cap T : \A y \in S \cap T : h >= y
      BY <2>2 DEF HasEnds
    <3>2. PICK l \in S \cap T : \A y \in S \cap T : l <= y
      BY <2>2 DEF HasEnds
    <3>3. \E z \in {h, x} : z >= h /\ z >= x
      <4>1. h \in Int
        BY <3>1
      <4>2. QED
        BY <4>1
    <3>4. \E z \in {l, x} : z <= l /\ z <= x
      <4>1. l \in Int
        BY <3>2
      <4>2. QED
        BY <4>1
    <3>5. \E z \in S \cap (T \cup {x}) : \A y \in S \cap (T \cup {x}) : z >= y
      BY <1>2, <3>1, <3>3
    <3>6. \E z \in S \cap (T \cup {x}) : \A y \in S \cap (T \cup {x}) : z <= y
      BY <1>2, <3>2, <3>4
    <3>7. QED
      BY <3>5, <3>6 DEF HasEnds
  <2>3. QED
    BY <2>1, <2>2
<1>3. QED
  BY <1>1, <1>2

LEMMA SixHaveEnds ==
    ASSUME NEW S \in SUBSET Int, S # {},
           NEW a \in Int, NEW b \in Int, NEW c \in Int, NEW d \in Int, NEW e \in Int, NEW f \in Int,
           S \subseteq {a, b, c, d, e, f}
    PROVE  /\ Max(S) \in S /\ \A y \in S : y <= Max(S)
           /\ Min(S) \in S /\ \A y \in S : Min(S) <= y
<1>0. HasEnds(S \cap {})
  BY DEF HasEnds
<1>1. HasEnds(S \cap ({} \cup {a}))
  BY <1>0, OneMoreHasEnds, Zenon
<1>2. HasEnds(S \cap ({} \cup {a} \cup {b}))
  BY <1>1, OneMoreHasEnds, Zenon
<1>3. HasEnds(S \cap ({} \cup {a} \cup {b} \cup {c}))
  BY <1>2, OneMoreHasEnds, Zenon
<1>4. HasEnds(S \cap ({} \cup {a} \cup {b} \cup {c} \cup {d}))
  BY <1>3, OneMoreHasEnds, Zenon
<1>5. HasEnds(S \cap ({} \cup {a} \cup {b} \cup {c} \cup {d} \cup {e}))
  BY <1>4, OneMoreHasEnds, Zenon
<1>6. HasEnds(S \cap ({} \cup {a} \cup {b} \cup {c} \cup {d} \cup {e} \cup {f}))
  BY <1>5, OneMoreHasEnds, Zenon
<1>7. S \cap ({} \cup {a} \cup {b} \cup {c} \cup {d} \cup {e} \cup {f}) = S
  OBVIOUS
<1>8. HasEnds(S)
  BY <1>6, <1>7
<1>9. /\ \E x \in S : \A y \in S : x >= y
      /\ \E x \in S : \A y \in S : x <= y
  BY <1>8 DEF HasEnds
<1>10. Max(S) \in S /\ \A y \in S : Max(S) >= y
  BY <1>9, Zenon DEF Max
<1>11. Min(S) \in S /\ \A y \in S : Min(S) <= y
  BY <1>9, Zenon DEF Min
<1>12. QED
  BY <1>10, <1>11

-----------------------------------------------------------------------------
LEMMA SettingsTyped ==
    ASSUME NEW cfg \in Settings
    PROVE  /\ \A i \in DOMAIN cfg.channels : cfg.channels[i] \in Channel
           /\ Len(cfg.channels) \in Nat
           /\ DOMAIN cfg.channels = 1..Len(cfg.channels)
           /\ cfg.e \in Channel /\ cfg.f \in Channel
           /\ cfg.center \in Nat
           /\ cfg.region \in Region
<1>1. cfg.channels \in Seq(Channel)
  BY DEF Settings
<1>2. QED
  BY <1>1 DEF Settings

LEMMA ChannelsTyped ==
    ASSUME NEW cfg \in Settings
    PROVE  /\ AllChannels(cfg) \subseteq Channel
           /\ Active(cfg) \subseteq AllChannels(cfg)
           /\ OnConcentrator(cfg) \subseteq Active(cfg)
           /\ Transmitting(cfg) \subseteq Active(cfg)
BY SettingsTyped DEF AllChannels, Active, OnConcentrator, Transmitting, Letters

LEMMA ChannelsHaveEnds ==
    ASSUME NEW cfg \in Settings, Len(cfg.channels) <= 4,
           NEW X \in SUBSET AllChannels(cfg), X # {},
           NEW g \in [Channel -> Int],
           NEW S, S = {g[c] : c \in X}
    PROVE  /\ S \subseteq Int
           /\ Max(S) \in S /\ \A y \in S : y <= Max(S)
           /\ Min(S) \in S /\ \A y \in S : Min(S) <= y
<1> DEFINE at(i) == IF i \in DOMAIN cfg.channels THEN cfg.channels[i] ELSE cfg.e
<1>1. \A i \in 1..4 : at(i) \in Channel
  BY SettingsTyped
<1>2. cfg.e \in Channel /\ cfg.f \in Channel
  BY SettingsTyped
<1>3. \A i \in DOMAIN cfg.channels : i \in 1..4
  BY SettingsTyped
<1>4. AllChannels(cfg) \subseteq {at(1), at(2), at(3), at(4), cfg.e, cfg.f}
  <2>1. ASSUME NEW i \in DOMAIN cfg.channels
        PROVE  cfg.channels[i] \in {at(1), at(2), at(3), at(4), cfg.e, cfg.f}
    <3>1. cfg.channels[i] = at(i)
      OBVIOUS
    <3>2. i = 1 \/ i = 2 \/ i = 3 \/ i = 4
      BY <1>3
    <3> HIDE DEF at
    <3>3. QED
      BY <3>1, <3>2
  <2> HIDE DEF at
  <2>2. QED
    BY <2>1 DEF AllChannels
<1> HIDE DEF at
<1>5. at(1) \in Channel /\ at(2) \in Channel /\ at(3) \in Channel /\ at(4) \in Channel
  BY <1>1
<1>6. S \subseteq {g[at(1)], g[at(2)], g[at(3)], g[at(4)], g[cfg.e], g[cfg.f]}
  BY <1>4
<1>7. /\ g[at(1)] \in Int /\ g[at(2)] \in Int /\ g[at(3)] \in Int /\ g[at(4)] \in Int
      /\ g[cfg.e] \in Int /\ g[cfg.f] \in Int
  BY <1>2, <1>5
<1>8. S \subseteq Int /\ S # {}
  <2>1. S # {}
    BY Zenon
  <2>2. \A x \in {g[at(1)], g[at(2)], g[at(3)], g[at(4)], g[cfg.e], g[cfg.f]} : x \in Int
    BY <1>7
  <2>3. QED
    BY <1>6, <2>1, <2>2, Zenon
<1>9. QED
  BY <1>6, <1>7, <1>8, SixHaveEnds, Zenon

LEMMA ReachTyped ==
    ASSUME NEW c \in Channel
    PROVE  /\ Reach(c) \in Int
           /\ c.bandwidth \in Nat /\ c.frequency \in Nat /\ c.threshold \in Int
           /\ c.bandwidth \div 2 \in Nat
BY DEF Channel, Reach, Usable, Margin

LEMMA LowestCenter ==
    ASSUME NEW cfg \in Settings, Len(cfg.channels) <= 4, OnConcentrator(cfg) # {}
    PROVE  /\ Lowest(cfg) \in Int
           /\ \A c \in OnConcentrator(cfg) : c.frequency - Reach(c) <= Lowest(cfg)
           /\ \E c \in OnConcentrator(cfg) : Lowest(cfg) = c.frequency - Reach(c)
<1> DEFINE g == [c \in Channel |-> c.frequency - Reach(c)]
           S == {c.frequency - Reach(c) : c \in OnConcentrator(cfg)}
<1>1. g \in [Channel -> Int]
  BY ReachTyped
<1>2. OnConcentrator(cfg) \subseteq Channel /\ OnConcentrator(cfg) \in SUBSET AllChannels(cfg)
  BY ChannelsTyped
<1>3. S = {g[c] : c \in OnConcentrator(cfg)}
  BY <1>2
<1>4. Lowest(cfg) = Max(S)
  BY DEF Lowest
<1>5. S \subseteq Int /\ Max(S) \in S /\ \A y \in S : y <= Max(S)
  <2> HIDE DEF g, S
  <2>1. QED
    BY <1>1, <1>2, <1>3, ChannelsHaveEnds, Zenon
<1>6. QED
  BY <1>4, <1>5

LEMMA HighestCenter ==
    ASSUME NEW cfg \in Settings, Len(cfg.channels) <= 4, OnConcentrator(cfg) # {}
    PROVE  /\ Highest(cfg) \in Int
           /\ \A c \in OnConcentrator(cfg) : Highest(cfg) <= c.frequency + Reach(c)
           /\ \E c \in OnConcentrator(cfg) : Highest(cfg) = c.frequency + Reach(c)
<1> DEFINE g == [c \in Channel |-> c.frequency + Reach(c)]
           S == {c.frequency + Reach(c) : c \in OnConcentrator(cfg)}
<1>1. g \in [Channel -> Int]
  BY ReachTyped
<1>2. OnConcentrator(cfg) \subseteq Channel /\ OnConcentrator(cfg) \in SUBSET AllChannels(cfg)
  BY ChannelsTyped
<1>3. S = {g[c] : c \in OnConcentrator(cfg)}
  BY <1>2
<1>4. Highest(cfg) = Min(S)
  BY DEF Highest
<1>5. S \subseteq Int /\ Min(S) \in S /\ \A y \in S : Min(S) <= y
  <2> HIDE DEF g, S
  <2>1. QED
    BY <1>1, <1>2, <1>3, ChannelsHaveEnds, Zenon
<1>6. QED
  BY <1>4, <1>5

LEMMA CarriersHaveEnds ==
    ASSUME NEW cfg \in Settings, Len(cfg.channels) <= 4, OnConcentrator(cfg) # {}
    PROVE  LET S == {c.frequency : c \in OnConcentrator(cfg)}
           IN  Min(S) \in Int /\ Max(S) \in Int /\ Min(S) <= Max(S)
<1> DEFINE g == [c \in Channel |-> c.frequency]
           S == {c.frequency : c \in OnConcentrator(cfg)}
<1>1. g \in [Channel -> Int]
  BY ReachTyped
<1>2. OnConcentrator(cfg) \subseteq Channel /\ OnConcentrator(cfg) \in SUBSET AllChannels(cfg)
  BY ChannelsTyped
<1>3. S = {g[c] : c \in OnConcentrator(cfg)}
  BY <1>2
<1> HIDE DEF g, S
<1>4. S \subseteq Int /\ Max(S) \in S /\ \A y \in S : y <= Max(S)
  BY <1>1, <1>2, <1>3, ChannelsHaveEnds, Zenon
<1>5. S \subseteq Int /\ Min(S) \in S /\ \A y \in S : Min(S) <= y
  BY <1>1, <1>2, <1>3, ChannelsHaveEnds, Zenon
<1>6. Min(S) \in Int /\ Max(S) \in Int /\ Min(S) <= Max(S)
  BY <1>4, <1>5
<1>7. QED
  BY <1>6 DEF S

LEMMA BandTyped ==
    ASSUME SettingsAssumption,
           NEW code
    PROVE  /\ Band(code).lower \in Nat /\ Band(code).upper \in Nat
           /\ Band(code).center \in Nat
           /\ Band(code).lower < Band(code).upper
BY DEF Band

LEMMA CenterTyped ==
    ASSUME SettingsAssumption,
           NEW cfg \in Settings, Len(cfg.channels) <= 4
    PROVE  Center(cfg) \in Int
<1>1. CASE cfg.center = 0 /\ OnConcentrator(cfg) # {}
  <2>1. Lowest(cfg) \in Int /\ Highest(cfg) \in Int
    BY <1>1, LowestCenter, HighestCenter
  <2>2. (Lowest(cfg) + Highest(cfg)) \div 2 \in Int
    BY <2>1
  <2>3. QED
    BY <1>1, <2>2 DEF Center
<1>2. CASE ~(cfg.center = 0 /\ OnConcentrator(cfg) # {})
  BY <1>2, SettingsTyped, BandTyped DEF Center
<1>3. QED
  BY <1>1, <1>2

(* An automatic centre is refused only when no centre is within reach of   *)
(* every carrier (_generate_bridge_conf, lines 596-640).                   *)
THEOREM AutomaticCenterComplete ==
    ASSUME NEW cfg \in Settings, Len(cfg.channels) <= 4, cfg.center = 0, ~Fits(cfg),
           NEW m \in Int
    PROVE  \E c \in OnConcentrator(cfg) : Distance(c.frequency, m) > Reach(c)
<1>1. OnConcentrator(cfg) # {}
  BY DEF Fits
<1>2. PICK h \in OnConcentrator(cfg) : Highest(cfg) = h.frequency + Reach(h)
  BY <1>1, HighestCenter
<1>3. PICK l \in OnConcentrator(cfg) : Lowest(cfg) = l.frequency - Reach(l)
  BY <1>1, LowestCenter
<1>4. \A c \in OnConcentrator(cfg) : /\ c.frequency - Reach(c) <= Lowest(cfg)
                                   /\ Highest(cfg) <= c.frequency + Reach(c)
  BY <1>1, LowestCenter, HighestCenter
<1>5. \A c \in OnConcentrator(cfg) : c.frequency \in Int /\ Reach(c) \in Int
  BY ChannelsTyped, ReachTyped
<1>6. Lowest(cfg) \in Int /\ Highest(cfg) \in Int
  BY <1>1, LowestCenter, HighestCenter
<1>7. CASE Lowest(cfg) > Highest(cfg)
  <2>1. PICK p \in Int, q \in Int : p = h.frequency /\ q = Reach(h)
    BY <1>2, <1>5
  <2>2. PICK r \in Int, s \in Int : r = l.frequency /\ s = Reach(l)
    BY <1>3, <1>5
  <2>3. r - s > p + q
    BY <1>2, <1>3, <1>7, <2>1, <2>2
  <2>4. Distance(p, m) > q \/ Distance(r, m) > s
    BY <2>3 DEF Distance
  <2>5. QED
    BY <1>2, <1>3, <2>1, <2>2, <2>4
<1>8. CASE Lowest(cfg) <= Highest(cfg)
  <2>1. Center(cfg) = (Lowest(cfg) + Highest(cfg)) \div 2
    BY <1>1 DEF Center
  <2>2. Lowest(cfg) <= Center(cfg) /\ Center(cfg) <= Highest(cfg) /\ Center(cfg) \in Int
    BY <1>6, <1>8, <2>1
  <2>3. ASSUME NEW c \in OnConcentrator(cfg)
        PROVE  Distance(c.frequency, Center(cfg)) <= Reach(c)
    <3>1. PICK p \in Int, q \in Int : p = c.frequency /\ q = Reach(c)
      BY <1>5
    <3>2. p - q <= Center(cfg) /\ Center(cfg) <= p + q
      BY <1>4, <1>6, <2>2, <3>1
    <3>3. QED
      BY <2>2, <3>1, <3>2 DEF Distance
  <2>4. QED
    BY <1>8, <2>3 DEF Fits
<1>9. QED
  BY <1>6, <1>7, <1>8

LEMMA ChainsServe ==
    ASSUME SettingsAssumption,
           NEW cfg \in Settings, Accepted(cfg)
    PROVE  LET p == Plan(cfg)
           IN  /\ \A k \in Slots : p.chains[k].enable <=> k + 1 \in Letters(cfg)
               /\ \A i \in Letters(cfg) :
                     p.center + p.chains[i - 1].offset = cfg.channels[i].frequency
               /\ \A k \in Slots : p.chains[k].enable =>
                     Distance(p.chains[k].offset, 0) + 62500 <= Usable
<1>1. Center(cfg) \in Int
  BY CenterTyped DEF Accepted, WellFormed
<1>2. ASSUME NEW k \in Slots
      PROVE  /\ Plan(cfg).chains[k] = Chain(cfg, k)
             /\ Chain(cfg, k).enable <=> k + 1 \in Letters(cfg)
  BY SettingsTyped DEF Plan, Chain, Letters, Channel
<1>3. ASSUME NEW i \in Letters(cfg)
      PROVE  /\ i - 1 \in Slots /\ (i - 1) + 1 = i
             /\ cfg.channels[i] \in OnConcentrator(cfg)
             /\ cfg.channels[i].frequency \in Int
             /\ cfg.channels[i].bandwidth = 125000
             /\ Chain(cfg, i - 1).offset = cfg.channels[i].frequency - Center(cfg)
  <2>1. i \in DOMAIN cfg.channels /\ i \in 1..4
    BY SettingsTyped DEF Letters, Accepted, WellFormed
  <2>2. i - 1 \in Slots /\ (i - 1) + 1 = i
    BY <2>1 DEF Slots
  <2>3. cfg.channels[i] \in OnConcentrator(cfg)
    BY DEF OnConcentrator
  <2>4. cfg.channels[i].bandwidth = 125000
    BY DEF Accepted, WellFormed, Receivable
  <2>5. cfg.channels[i].frequency \in Int
    BY <2>1, SettingsTyped DEF Channel
  <2>6. QED
    BY <2>1, <2>2, <2>3, <2>4, <2>5 DEF Chain
<1>4. ASSUME NEW i \in Letters(cfg)
      PROVE  Distance(cfg.channels[i].frequency - Center(cfg), 0) + 62500 <= Usable
  <2>1. Distance(cfg.channels[i].frequency, Center(cfg)) <= Reach(cfg.channels[i])
    BY <1>3 DEF Accepted, Fits
  <2>2. Reach(cfg.channels[i]) = 730000
    BY <1>3 DEF Reach, Usable, Margin
  <2>3. PICK p \in Int : p = cfg.channels[i].frequency
    BY <1>3
  <2>4. PICK q \in Int : q = Center(cfg)
    BY <1>1
  <2>5. QED
    BY <2>1, <2>2, <2>3, <2>4 DEF Distance, Usable
<1>5. ASSUME NEW i \in Letters(cfg)
      PROVE  Center(cfg) + (cfg.channels[i].frequency - Center(cfg)) = cfg.channels[i].frequency
  BY <1>1, <1>3
<1>6. Plan(cfg).center = Center(cfg)
  BY DEF Plan
<1>7. ASSUME NEW k \in Slots, k + 1 \in Letters(cfg)
      PROVE  Distance(Chain(cfg, k).offset, 0) + 62500 <= Usable
  <2>1. (k + 1) - 1 = k
    BY DEF Slots
  <2>2. QED
    BY <1>3, <1>4, <1>7, <2>1
<1>8. QED
  BY <1>2, <1>3, <1>5, <1>6, <1>7

LEMMA WideServes ==
    ASSUME SettingsAssumption,
           NEW cfg \in Settings, Accepted(cfg), cfg.f.active
    PROVE  LET p == Plan(cfg)
           IN  /\ p.center + p.wide.offset = cfg.f.frequency
               /\ Distance(p.wide.offset, 0) + p.wide.bandwidth \div 2 <= Usable
<1>1. cfg.f \in OnConcentrator(cfg)
  BY DEF OnConcentrator
<1>2. Distance(cfg.f.frequency, Center(cfg)) <= Usable - cfg.f.bandwidth \div 2 - Margin
  BY <1>1 DEF Accepted, Fits, Reach
<1>3. PICK q \in Int : q = Center(cfg)
  BY CenterTyped DEF Accepted, WellFormed
<1>4. cfg.f.frequency \in Nat /\ cfg.f.bandwidth \div 2 \in Nat
  BY SettingsTyped, ReachTyped
<1>5. PICK p \in Nat, b \in Nat : p = cfg.f.frequency /\ b = cfg.f.bandwidth \div 2
  BY <1>4
<1>6. Distance(p - q, 0) + b <= Usable
  BY <1>2, <1>3, <1>5 DEF Distance, Usable, Margin
<1>7. q + (p - q) = p
  OBVIOUS
<1>8. QED
  BY <1>3, <1>5, <1>6, <1>7 DEF Plan

LEMMA LevelsOfPlace ==
    ASSUME NEW cfg \in Settings, Len(cfg.channels) <= 4, NEW c \in Transmitting(cfg)
    PROVE  LET S == {Level(d) : d \in {x \in Transmitting(cfg) : Place(x) = Place(c)}}
           IN  /\ S \subseteq Int
               /\ Min(S) \in S
               /\ \A y \in S : Min(S) <= y
<1> DEFINE X == {x \in Transmitting(cfg) : Place(x) = Place(c)}
           g == [d \in Channel |-> Level(d)]
           S == {Level(d) : d \in X}
<1>1. g \in [Channel -> Int]
  BY DEF Level, Channel
<1>2. X \in SUBSET AllChannels(cfg) /\ X # {} /\ X \subseteq Channel
  BY ChannelsTyped
<1>3. S = {g[d] : d \in X}
  BY <1>2
<1>4. S \subseteq Int /\ Min(S) \in S /\ \A y \in S : Min(S) <= y
  <2> HIDE DEF g, S, X
  <2>1. QED
    BY <1>1, <1>2, <1>3, ChannelsHaveEnds, Zenon
<1>5. QED
  BY <1>4

LEMMA TableServes ==
    ASSUME NEW cfg \in Settings, Accepted(cfg), NEW c \in Transmitting(cfg), LbtTable(cfg) # {}
    PROVE  \E l \in LbtTable(cfg) :
              /\ l.place = Place(c)
              /\ \A m \in LbtTable(cfg) : m.place = Place(c) => m = l
              /\ c.lbt => l.enable /\ l.level <= c.threshold
              /\ (\A d \in Transmitting(cfg) : Place(d) = Place(c) => ~d.lbt) => l.level = 127
<1> DEFINE X == {x \in Transmitting(cfg) : Place(x) = Place(c)}
           S == {Level(d) : d \in X}
           row(p) == [place |-> p,
                      enable |-> \E d \in Transmitting(cfg) : Place(d) = p /\ d.lbt,
                      level |-> Min({Level(d) : d \in {x \in Transmitting(cfg) : Place(x) = p}})]
<1>1. LbtTable(cfg) = {row(p) : p \in {Place(d) : d \in Transmitting(cfg)}}
  BY DEF LbtTable
<1>2. row(Place(c)) \in LbtTable(cfg) /\ row(Place(c)).place = Place(c)
  BY <1>1
<1>3. ASSUME NEW m \in LbtTable(cfg), m.place = Place(c)
      PROVE  m = row(Place(c))
  <2>1. PICK p \in {Place(d) : d \in Transmitting(cfg)} : m = row(p)
    BY <1>1
  <2>2. row(p).place = p
    OBVIOUS
  <2> HIDE DEF row
  <2>3. QED
    BY <1>3, <2>1, <2>2
<1>4. S \subseteq Int /\ Min(S) \in S /\ \A y \in S : Min(S) <= y
  <2>1. Len(cfg.channels) <= 4
    BY DEF Accepted, WellFormed
  <2>2. QED
    BY <2>1, LevelsOfPlace, Zenon
<1>5. row(Place(c)).level = Min(S)
  OBVIOUS
<1>6. c.lbt => Min(S) <= c.threshold
  <2>1. Level(c) \in S
    OBVIOUS
  <2>2. QED
    BY <1>4, <2>1 DEF Level
<1>7. c.lbt => row(Place(c)).enable
  OBVIOUS
<1>8. (\A d \in X : ~d.lbt) => Min(S) = 127
  <2>1. (\A d \in X : ~d.lbt) => \A y \in S : y = 127
    BY DEF Level
  <2>2. QED
    BY <1>4, <2>1
<1> HIDE DEF row, S
<1>9. QED
  BY <1>2, <1>3, <1>5, <1>6, <1>7, <1>8

LEMMA PlacesServe ==
    ASSUME NEW cfg \in Settings, Accepted(cfg), NEW l \in LbtTable(cfg)
    PROVE  l.place[2] # 500000
<1>1. LbtOn(cfg)
  BY DEF LbtTable
<1> DEFINE row(p) == [place |-> p,
                      enable |-> \E d \in Transmitting(cfg) : Place(d) = p /\ d.lbt,
                      level |-> Min({Level(d) : d \in {x \in Transmitting(cfg) : Place(x) = p}})]
<1>2. PICK c \in Transmitting(cfg) : l.place = Place(c)
  <2>1. LbtTable(cfg) = {row(p) : p \in {Place(d) : d \in Transmitting(cfg)}}
    BY DEF LbtTable
  <2>2. \A p : row(p).place = p
    OBVIOUS
  <2> HIDE DEF row
  <2>3. QED
    BY <2>1, <2>2
<1>3. c.bandwidth # 500000
  BY <1>1 DEF Accepted, LbtPossible
<1>4. QED
  BY <1>2, <1>3 DEF Place

LEMMA ScanServes ==
    ASSUME SettingsAssumption,
           NEW cfg \in Settings, Accepted(cfg)
    PROVE  LET p == Plan(cfg)
           IN  /\ p.scan.first <= p.center - Usable
               /\ p.scan.first + 200000 * p.scan.steps >= p.center + Usable
<1>1. PICK c \in Int : c = Center(cfg)
  BY CenterTyped DEF Accepted, WellFormed
<1> DEFINE a == (c - Usable) \div 200000
           b == (c + Usable + 199999) \div 200000
<1>2. a \in Int /\ a * 200000 <= c - Usable
  BY DEF Usable
<1>3. b \in Int /\ b * 200000 >= c + Usable
  BY DEF Usable
<1>4. /\ Plan(cfg).center = c
      /\ Plan(cfg).scan.first = a * 200000
      /\ Plan(cfg).scan.steps = (b * 200000 - a * 200000) \div 200000
  BY <1>1 DEF Plan, ScanRange
<1> HIDE DEF a, b
<1>5. (b * 200000 - a * 200000) \div 200000 = b - a
  BY <1>2, <1>3
<1>6. QED
  BY <1>2, <1>3, <1>4, <1>5

LEMMA BoundsServe ==
    ASSUME SettingsAssumption,
           NEW cfg \in Settings, Accepted(cfg)
    PROVE  Bounds(cfg)[1] < Bounds(cfg)[2]
<1>1. CASE Given(cfg)
  BY <1>1, SMTT(30) DEF Bounds, Accepted, BoundsPossible
<1>2. CASE ~Given(cfg) /\ cfg.region.code = "CUSTOM" /\ OnConcentrator(cfg) # {}
  <2> DEFINE S == {c.frequency : c \in OnConcentrator(cfg)}
  <2>1. PICK low \in Int, high \in Int : low = Min(S) /\ high = Max(S) /\ low <= high
    <3>1. OnConcentrator(cfg) # {}
      BY <1>2
    <3>2. Len(cfg.channels) <= 4
      BY DEF Accepted, WellFormed
    <3>3. Min(S) \in Int /\ Max(S) \in Int /\ Min(S) <= Max(S)
      BY <3>1, <3>2, CarriersHaveEnds, Zenon
    <3> HIDE DEF S
    <3>4. QED
      BY <3>3
  <2>2. Bounds(cfg) = <<low - 5000000, high + 5000000>>
    BY <1>2, <2>1, SMTT(30) DEF Bounds
  <2>3. QED
    BY <2>1, <2>2, SMTT(30)
<1>3. CASE ~Given(cfg) /\ ~(cfg.region.code = "CUSTOM" /\ OnConcentrator(cfg) # {})
  <2>1. Bounds(cfg) = <<Band(cfg.region.code).lower, Band(cfg.region.code).upper>>
    BY <1>3, SMTT(30) DEF Bounds
  <2>2. Band(cfg.region.code).lower < Band(cfg.region.code).upper
    BY BandTyped, SMTT(30)
  <2>3. QED
    BY <2>1, <2>2, SMTT(30)
<1>4. QED
  BY <1>1, <1>2, <1>3

(* With accepted settings the concentrator does what they ask for: every   *)
(* enabled chain is tuned to its channel and inside the radio's bandwidth, *)
(* the table and the scan serve all (_generate_bridge_conf, 540-1040).     *)
THEOREM PlanServes ==
    ASSUME SettingsAssumption,
           NEW cfg \in Settings, Accepted(cfg)
    PROVE  ServedBy(Plan(cfg), cfg)
<1>1. /\ Plan(cfg).lbt = LbtTable(cfg)
      /\ Plan(cfg).bounds = Bounds(cfg)
  BY DEF Plan
<1>2. LbtTable(cfg) # {} => \A c \in Transmitting(cfg) :
         \E l \in LbtTable(cfg) :
            /\ l.place = Place(c)
            /\ \A m \in LbtTable(cfg) : m.place = Place(c) => m = l
            /\ c.lbt => l.enable /\ l.level <= c.threshold
            /\ (\A d \in Transmitting(cfg) : Place(d) = Place(c) => ~d.lbt) => l.level = 127
  BY TableServes, SMTT(30)
<1>3. \A l \in Plan(cfg).lbt : l.place[2] # 500000
  BY <1>1, PlacesServe, SMT
<1>4. Plan(cfg).bounds[1] < Plan(cfg).bounds[2]
  BY <1>1, BoundsServe, Zenon
<1>5. QED
  BY <1>1, <1>2, <1>3, <1>4, ChainsServe, WideServes, ScanServes, SMTT(60) DEF ServedBy

(* Of any settings whatever: accepted they are served, and an automatic    *)
(* centre is refused only if there is none (_generate_bridge_conf).        *)
THEOREM PlanAlwaysRight ==
    ASSUME SettingsAssumption,
           NEW cfg \in Settings
    PROVE  PlanRight(cfg)
<1>1. ASSUME WellFormed(cfg), cfg.center = 0, ~Fits(cfg)
      PROVE  NoCenterFor(cfg)
  <2>1. Len(cfg.channels) <= 4
    BY <1>1 DEF WellFormed
  <2>2. \A m \in {c.frequency - Reach(c) : c \in OnConcentrator(cfg)} : m \in Int
    BY ChannelsTyped, ReachTyped
  <2>3. QED
    BY <1>1, <2>1, <2>2, AutomaticCenterComplete DEF NoCenterFor
<1>2. QED
  BY <1>1, PlanServes DEF PlanRight

-----------------------------------------------------------------------------
(* The inductive invariant.                                                *)

Radio == Fields \ {"queue", "gpio", "other"}

(* What a request has still to bring into line: LeftBehind, by its field   *)
(* and its place.                                                          *)
Behind(r) ==
    {a \in {"conf", "channels", "queue", "gpio"} :
       \/ a = "conf" /\ r.field \in Radio /\ r.at >= 2
       \/ a \in {"channels", "queue"} /\ r.field = a /\ r.at = 2
       \/ a = "gpio" /\ r.field = "gpio" /\ r.at >= 2}

Last(field) ==
    CASE field = "channels" -> 4
      [] field = "queue" -> 2
      [] field = "other" -> 1
      [] OTHER -> 3

Typed ==
    /\ ui \in Settings /\ written \in Settings
    /\ config \in [channels : {ChannelsOf(s) : s \in Settings}, queue : Nat]
    /\ scripts \in [reset : Nat, power : Nat]
    /\ request \in [Threads -> [field : Fields, at : 0..4, copy : Settings \cup {None}]]
    /\ state \in {"down", "idle", "up"}

Saved(r) == r.field # "gpio" /\ r.at > 1

(* Of settings s, the file b and the scripts p.                            *)
RequestRight(r, s, b, p) ==
    r.at # 0 =>
       /\ r.at <= Last(r.field)
       /\ r.copy \in Settings
       /\ r.field \in Radio => Accepted(r.copy)
       /\ IF Saved(r) THEN s = r.copy
                      ELSE r.copy = [s EXCEPT ![r.field] = r.copy[r.field]]
       /\ r.field \in Radio /\ r.at = Last(r.field) => b = Plan(s)
       /\ r.field = "gpio" /\ r.at >= 2 => p.reset = r.copy.gpio
       /\ r.field = "gpio" /\ r.at >= 3 => p.power = r.copy.gpio

RequestsRight ==
    /\ \A t \in Threads : RequestRight(request[t], ui, bridge, scripts)
    /\ \A t, u \in Threads : request[t].at # 0 /\ request[u].at # 0 => t = u
    /\ state = "down" => LockFree

SavedRight ==
    /\ ui = written
    /\ state # "down" => Accepted(ui)
    /\ ui \notin Stored => Accepted(ui)

InLine(a) == a \notin stale /\ \A t \in Threads : a \notin Behind(request[t])

FilesRight ==
    /\ InLine("conf") => bridge = Plan(ui) /\ global = Plan(ui)
    /\ InLine("channels") => config.channels = ChannelsOf(ui)
    /\ InLine("queue") => config.queue = ui.queue
    /\ InLine("gpio") => scripts.reset = ui.gpio /\ scripts.power = ui.gpio

RunRight ==
    IF state = "down" THEN hal = None /\ ~spawning
    ELSE /\ runtime \in Settings /\ Accepted(runtime)
         /\ text = Plan(runtime)
         /\ hal \in {None, text}
         /\ published \in {None, text}
         /\ queues = IF state = "up" THEN QueuesFor(runtime) ELSE <<>>
         /\ cached \in {None, Endpoints(runtime)}

IInv == Typed /\ RequestsRight /\ SavedRight /\ FilesRight /\ RunRight

-----------------------------------------------------------------------------
LEMMA StepsLast ==
    ASSUME NEW f \in Fields
    PROVE  Len(Steps(f)) = Last(f) /\ Last(f) \in 1..4
BY DEF Steps, Last

LEMMA StepsTable ==
    ASSUME NEW f \in Fields, NEW k \in 1..Last(f)
    PROVE  LET step == Steps(f)[k]
           IN  /\ step = "ui" <=> k = (IF f = "gpio" THEN 3 ELSE 1)
               /\ step = "channels" <=> f = "channels" /\ k = 2
               /\ step = "queue" <=> f = "queue" /\ k = 2
               /\ step = "reset" <=> f = "gpio" /\ k = 1
               /\ step = "power" <=> f = "gpio" /\ k = 2
               /\ step = "bridge" <=> f \in Radio /\ k = Last(f) - 1
               /\ step = "global" <=> f \in Radio /\ k = Last(f)
<1>1. CASE f = "channels"
  BY <1>1 DEF Steps, Last, Radio, Fields
<1>2. CASE f = "queue"
  BY <1>2 DEF Steps, Last, Radio, Fields
<1>3. CASE f = "gpio"
  BY <1>3 DEF Steps, Last, Radio, Fields
<1>4. CASE f = "other"
  BY <1>4 DEF Steps, Last, Radio, Fields
<1>5. CASE f \notin {"channels", "queue", "gpio", "other"}
  <2>1. Steps(f) = <<"ui", "bridge", "global">> /\ Last(f) = 3 /\ f \in Radio
    BY <1>5 DEF Steps, Last, Radio, Fields
  <2>2. QED
    BY <1>5, <2>1
<1>6. QED
  BY <1>1, <1>2, <1>3, <1>4, <1>5

LEMMA RadioWrites ==
    ASSUME NEW f \in Fields
    PROVE  "bridge" \in Range(Steps(f)) <=> f \in Radio
<1>1. CASE f = "channels"
  <2>1. Steps(f) = <<"ui", "channels", "bridge", "global">>
    BY <1>1 DEF Steps
  <2>2. 3 \in DOMAIN Steps(f) /\ Steps(f)[3] = "bridge"
    BY <2>1
  <2>3. QED
    BY <1>1, <2>2 DEF Range, Radio, Fields
<1>2. CASE f \in {"queue", "gpio", "other"}
  <2>1. Steps(f) \in {<<"ui", "queue">>, <<"reset", "power", "ui">>, <<"ui">>}
    BY <1>2 DEF Steps
  <2>2. \A x \in DOMAIN Steps(f) : Steps(f)[x] # "bridge"
    BY <2>1
  <2>3. QED
    BY <1>2, <2>2 DEF Range, Radio
<1>3. CASE f \notin {"channels", "queue", "gpio", "other"}
  <2>1. Steps(f) = <<"ui", "bridge", "global">>
    BY <1>3 DEF Steps
  <2>2. 2 \in DOMAIN Steps(f) /\ Steps(f)[2] = "bridge"
    BY <2>1
  <2>3. QED
    BY <1>3, <2>2 DEF Range, Radio
<1>4. QED
  BY <1>1, <1>2, <1>3

LEMMA LeavesBehind ==
    ASSUME NEW r, r.field \in Fields, r.at \in 0..Last(r.field)
    PROVE  LeftBehind(r) = Behind(r)
<1> DEFINE f == r.field
           k == r.at
<1>1. CASE k <= 1
  BY <1>1 DEF LeftBehind, Behind, Last
<1>2. ASSUME k > 1
      PROVE  LeftBehind(r) = {Aspect(Steps(f)[i]) : i \in k..Last(f)}
  BY <1>2, StepsLast DEF LeftBehind
<1>3. CASE k > 1 /\ f = "channels"
  <2>1. k \in {2, 3, 4} /\ Last(f) = 4
    BY <1>3 DEF Last
  <2>2. Steps(f) = <<"ui", "channels", "bridge", "global">>
    BY <1>3 DEF Steps
  <2>3. k..4 = {i \in {2, 3, 4} : i >= k}
    BY <2>1
  <2>4. /\ Aspect(Steps(f)[2]) = "channels"
        /\ Aspect(Steps(f)[3]) = "conf"
        /\ Aspect(Steps(f)[4]) = "conf"
    BY <2>2 DEF Aspect
  <2>5. Behind(r) = {"conf"} \cup (IF k = 2 THEN {"channels"} ELSE {})
    BY <1>3, <2>1 DEF Behind, Radio, Fields
  <2>6. QED
    BY <1>2, <1>3, <2>1, <2>3, <2>4, <2>5
<1>4. CASE k > 1 /\ f = "queue"
  <2>1. k = 2 /\ Last(f) = 2 /\ k..2 = {2}
    BY <1>4 DEF Last
  <2>2. Aspect(Steps(f)[2]) = "queue"
    BY <1>4 DEF Aspect, Steps
  <2>3. Behind(r) = {"queue"}
    BY <1>4, <2>1 DEF Behind, Radio, Fields
  <2>4. QED
    BY <1>2, <1>4, <2>1, <2>2, <2>3
<1>5. CASE k > 1 /\ f = "gpio"
  <2>1. k \in {2, 3} /\ Last(f) = 3 /\ k..3 = {i \in {2, 3} : i >= k}
    BY <1>5 DEF Last
  <2>2. Aspect(Steps(f)[2]) = "gpio" /\ Aspect(Steps(f)[3]) = "gpio"
    BY <1>5 DEF Aspect, Steps
  <2>3. Behind(r) = {"gpio"}
    BY <1>5, <2>1 DEF Behind, Radio, Fields
  <2>4. QED
    BY <1>2, <1>5, <2>1, <2>2, <2>3
<1>6. CASE k > 1 /\ f \notin {"channels", "queue", "gpio"}
  <2>1. k \in {2, 3} /\ Last(f) = 3 /\ k..3 = {i \in {2, 3} : i >= k} /\ f # "other"
    BY <1>6 DEF Last
  <2>2. Aspect(Steps(f)[2]) = "conf" /\ Aspect(Steps(f)[3]) = "conf"
    BY <1>6, <2>1 DEF Aspect, Steps
  <2>3. Behind(r) = {"conf"}
    BY <1>6, <2>1 DEF Behind, Radio, Fields
  <2>4. QED
    BY <1>2, <1>6, <2>1, <2>2, <2>3
<1>7. QED
  <2>1. k \in Int
    BY DEF Last
  <2>2. k <= 1 \/ k > 1
    BY <2>1
  <2>3. QED
    BY <2>2, <1>1, <1>3, <1>4, <1>5, <1>6

-----------------------------------------------------------------------------
(* What the change of one field leaves alone.                              *)

LEMMA Changed ==
    ASSUME NEW s \in Settings, NEW f \in Fields, NEW v \in Values(f)
    PROVE  /\ [s EXCEPT ![f] = v] \in Settings
           /\ [s EXCEPT ![f] = v][f] = v
           /\ \A g \in Fields \ {f} : [s EXCEPT ![f] = v][g] = s[g]
<1>1. DOMAIN s = Fields
  BY DEF Settings, Fields
<1>2. /\ [s EXCEPT ![f] = v][f] = v
      /\ \A g \in Fields \ {f} : [s EXCEPT ![f] = v][g] = s[g]
  BY <1>1
<1>3. \A g \in Fields : s[g] \in Values(g)
  BY DEF Settings, Fields, Values
<1>4. \A g \in Fields : [s EXCEPT ![f] = v][g] \in Values(g)
  BY <1>2, <1>3
<1>5. \A q : q = [g \in Fields |-> q[g]] /\ (\A g \in Fields : q[g] \in Values(g)) => q \in Settings
  BY DEF Settings, Fields, Values
<1>6. [s EXCEPT ![f] = v] = [g \in Fields |-> [s EXCEPT ![f] = v][g]]
  BY <1>1
<1>7. QED
  BY <1>2, <1>4, <1>5, <1>6

(* The plan is made of eight fields.                                       *)
PlanFields == {"channels", "e", "f", "center", "region", "word", "scan", "hal"}

LEMMA PlanOfFields ==
    ASSUME NEW a \in Settings, NEW b \in Settings, \A g \in PlanFields : a[g] = b[g]
    PROVE  Plan(a) = Plan(b) /\ (Accepted(a) <=> Accepted(b))
<1>1. /\ a.channels = b.channels /\ a.e = b.e /\ a.f = b.f /\ a.center = b.center
      /\ a.region = b.region /\ a.word = b.word /\ a.scan = b.scan /\ a.hal = b.hal
  BY DEF PlanFields
<1>2. Letters(a) = Letters(b)
  BY <1>1 DEF Letters
<1>3. AllChannels(a) = AllChannels(b)
  BY <1>1 DEF AllChannels
<1>4. OnConcentrator(a) = OnConcentrator(b)
  BY <1>1, <1>2 DEF OnConcentrator
<1>5. Active(a) = Active(b)
  BY <1>1, <1>4 DEF Active
<1>6. Transmitting(a) = Transmitting(b)
  BY <1>5 DEF Transmitting
<1>7. Lowest(a) = Lowest(b) /\ Highest(a) = Highest(b)
  BY <1>4 DEF Lowest, Highest
<1>8. Center(a) = Center(b)
  BY <1>1, <1>4, <1>7 DEF Center
<1>9. LbtOn(a) = LbtOn(b)
  BY <1>6, Zenon DEF LbtOn
<1>10. LbtTable(a) = LbtTable(b)
  BY <1>6, <1>9, Zenon DEF LbtTable
<1>11. Bounds(a) = Bounds(b) /\ (Given(a) <=> Given(b))
  BY <1>1, <1>4, SMTT(30) DEF Bounds, Given
<1>12. ScanRange(a) = ScanRange(b)
  BY <1>1, <1>8, SMTT(30) DEF ScanRange
<1>13. \A k : Chain(a, k) = Chain(b, k)
  BY <1>1, <1>8 DEF Chain
<1>14. Public(a) = Public(b)
  BY <1>1, SMTT(30) DEF Public
<1>15. Plan(a) = Plan(b)
  BY <1>1, <1>8, <1>10, <1>11, <1>12, <1>13, <1>14 DEF Plan
<1>16. WellFormed(a) <=> WellFormed(b)
  BY <1>1, <1>2, <1>3, SMTT(30) DEF WellFormed
<1>17. Fits(a) <=> Fits(b)
  BY <1>4, <1>7, <1>8 DEF Fits
<1>18. (LbtPossible(a) <=> LbtPossible(b)) /\ (BoundsPossible(a) <=> BoundsPossible(b))
  BY <1>1, <1>6, <1>9, <1>11, SMTT(30) DEF LbtPossible, BoundsPossible
<1>19. QED
  BY <1>15, <1>16, <1>17, <1>18 DEF Accepted

LEMMA ChangeOfOthers ==
    ASSUME NEW s \in Settings, NEW f \in Fields \ Radio, NEW v \in Values(f)
    PROVE  LET c == [s EXCEPT ![f] = v]
           IN  Plan(c) = Plan(s) /\ (Accepted(c) <=> Accepted(s))
<1>1. [s EXCEPT ![f] = v] \in Settings
  BY Changed
<1>2. \A g \in PlanFields : [s EXCEPT ![f] = v][g] = s[g]
  BY Changed DEF PlanFields, Radio, Fields
<1>3. QED
  BY <1>1, <1>2, PlanOfFields, Zenon

LEMMA ChannelsUnchanged ==
    ASSUME NEW s \in Settings, NEW f \in Fields, NEW v \in Values(f)
    PROVE  LET c == [s EXCEPT ![f] = v]
           IN  /\ f # "channels" => ChannelsOf(c) = ChannelsOf(s)
               /\ f # "queue" => c.queue = s.queue
               /\ f # "gpio" => c.gpio = s.gpio
<1>1. \A g \in {"channels", "queue", "gpio"} \ {f} : [s EXCEPT ![f] = v][g] = s[g]
  BY Changed DEF Fields
<1>2. \A a, b : a.channels = b.channels => ChannelsOf(a) = ChannelsOf(b)
  BY DEF ChannelsOf, Letters
<1>3. QED
  BY <1>1, <1>2

-----------------------------------------------------------------------------
(* The pages, and the table, while the service runs.                       *)

LEMMA EndpointsOf ==
    ASSUME NEW s \in Settings, Len(s.channels) <= 4
    PROVE  /\ \A i \in 1..4 : i \in DOMAIN Endpoints(s) <=> i \in DOMAIN s.channels
           /\ {5, 6} \subseteq DOMAIN Endpoints(s) /\ DOMAIN Endpoints(s) \subseteq 1..6
           /\ \A i \in DOMAIN s.channels : i \in 1..4 /\ Endpoints(s)[i] = s.channels[i]
           /\ Endpoints(s)[5] = s.e /\ Endpoints(s)[6] = s.f
<1>1. DOMAIN s.channels = 1..Len(s.channels) /\ Len(s.channels) \in Nat
  BY SettingsTyped
<1>2. DOMAIN Endpoints(s) = {y \in 1..6 : y <= Len(s.channels) \/ y > 4}
  BY DEF Endpoints
<1>3. \A x \in DOMAIN Endpoints(s) :
         Endpoints(s)[x] = CASE x = 5 -> s.e [] x = 6 -> s.f [] OTHER -> s.channels[x]
  BY DEF Endpoints
<1> HIDE DEF Endpoints
<1>4. QED
  BY <1>1, <1>2, <1>3

LEMMA QueuesOf ==
    ASSUME NEW s \in Settings, Len(s.channels) <= 4, NEW x \in DOMAIN QueuesFor(s)
    PROVE  /\ x \in DOMAIN Endpoints(s)
           /\ Endpoints(s)[x] \in Transmitting(s)
           /\ Endpoints(s)[x].active
           /\ QueuesFor(s)[x] = Place(Endpoints(s)[x])
<1>1. /\ x \in DOMAIN Endpoints(s)
      /\ Endpoints(s)[x].active /\ Endpoints(s)[x].tx
      /\ QueuesFor(s)[x] = Place(Endpoints(s)[x])
  BY DEF QueuesFor
<1>2. CASE x \in DOMAIN s.channels
  BY <1>1, <1>2, EndpointsOf DEF Transmitting, Active, OnConcentrator, Letters
<1>3. CASE x = 5
  BY <1>1, <1>3, EndpointsOf DEF Transmitting, Active
<1>4. CASE x = 6
  BY <1>1, <1>4, EndpointsOf DEF Transmitting, Active, OnConcentrator
<1>5. x \in DOMAIN s.channels \/ x = 5 \/ x = 6
  <2>1. x \in 1..6
    BY <1>1, EndpointsOf
  <2>2. x \in 1..4 => x \in DOMAIN s.channels
    BY <1>1, EndpointsOf
  <2>3. QED
    BY <2>1, <2>2
<1>6. QED
  BY <1>1, <1>2, <1>3, <1>4, <1>5

LEMMA TableCovers ==
    ASSUME NEW s \in Settings, Accepted(s), Plan(s).lbt # {}, NEW x \in DOMAIN QueuesFor(s)
    PROVE  \E l \in Plan(s).lbt : l.place = QueuesFor(s)[x]
<1>1. Plan(s).lbt = LbtTable(s)
  BY DEF Plan
<1>2. Len(s.channels) <= 4
  BY DEF Accepted, WellFormed
<1>3. Endpoints(s)[x] \in Transmitting(s) /\ QueuesFor(s)[x] = Place(Endpoints(s)[x])
  BY <1>2, QueuesOf
<1>4. QED
  BY <1>1, <1>3, TableServes

LEMMA PagesTell ==
    ASSUME SettingsAssumption,
           runtime \in Settings, Accepted(runtime),
           published # None, published = Plan(runtime),
           queues = QueuesFor(runtime) \/ queues = <<>>
    PROVE  PagesAgree
<1> DEFINE s == runtime
           p == Plan(runtime)
<1>1. ReadActiveUi = s /\ ShownConf = p
  BY DEF ReadActiveUi, ShownConf
<1>2. Len(s.channels) <= 4
  BY DEF Accepted, WellFormed
<1>3. /\ DOMAIN ShownLive = {y \in DOMAIN Endpoints(s) : Endpoints(s)[y].active}
      /\ \A x \in DOMAIN ShownLive : ShownLive[x] = Endpoints(s)[x].frequency
  BY <1>1 DEF ShownLive
<1>4. /\ \A k \in Slots : p.chains[k].enable <=> k + 1 \in Letters(s)
      /\ \A i \in Letters(s) : p.center + p.chains[i - 1].offset = s.channels[i].frequency
  BY ChainsServe, SMTT(30)
<1>5. ASSUME NEW x \in DOMAIN ShownLive \ {5}
      PROVE  ShownChains[IF x = 6 THEN 8 ELSE x - 1] = ShownLive[x]
  <2>1. CASE x = 6
    <3>1. s.f.active /\ ShownLive[x] = s.f.frequency
      BY <1>2, <1>3, <2>1, EndpointsOf
    <3>2. ShownChains[8] = IF p.wide.enable THEN p.center + p.wide.offset ELSE 0
      BY <1>1 DEF ShownChains
    <3>3. p.wide.enable = s.f.active
      BY DEF Plan
    <3>4. p.center + p.wide.offset = s.f.frequency
      BY <3>1, WideServes, SMTT(30)
    <3> HIDE DEF p, s
    <3>5. QED
      BY <2>1, <3>1, <3>2, <3>3, <3>4
  <2>2. CASE x # 6
    <3>1. x \in DOMAIN s.channels /\ x \in 1..4 /\ Endpoints(s)[x] = s.channels[x]
      BY <1>2, <1>3, <2>2, EndpointsOf
    <3>2. x \in Letters(s) /\ ShownLive[x] = s.channels[x].frequency
      BY <1>3, <3>1 DEF Letters
    <3>3. x - 1 \in Slots /\ x - 1 # 8 /\ (x - 1) + 1 = x
      BY <3>1 DEF Slots
    <3>4. ShownChains[x - 1] =
             IF p.chains[x - 1].enable THEN p.center + p.chains[x - 1].offset ELSE 0
      BY <1>1, <3>3 DEF ShownChains, Slots
    <3> HIDE DEF p, s
    <3>5. QED
      BY <1>4, <2>2, <3>2, <3>3, <3>4
  <2>3. QED
    BY <2>1, <2>2
<1>6. ASSUME NEW x \in DOMAIN queues
      PROVE  x \in DOMAIN ShownLive /\ ShownQueues[x] = ShownLive[x]
  <2>1. queues = QueuesFor(s)
    BY <1>6
  <2>2. /\ x \in DOMAIN Endpoints(s) /\ Endpoints(s)[x].active
        /\ queues[x] = Place(Endpoints(s)[x])
    BY <1>2, <2>1, QueuesOf
  <2>3. ShownQueues[x] = queues[x][1]
    BY DEF ShownQueues
  <2>4. QED
    BY <1>3, <2>2, <2>3 DEF Place
<1>7. ShownRadio.center = ShownSpectrum.center
  BY DEF ShownRadio, ShownSpectrum
<1>8. ASSUME NEW k \in ShownRadio.chains
      PROVE  k + 1 \in DOMAIN ShownLive
  <2>1. k \in Slots /\ k + 1 \in Letters(s)
    BY <1>1, <1>4 DEF ShownRadio
  <2>2. k + 1 \in DOMAIN s.channels /\ s.channels[k + 1].active
    BY <2>1 DEF Letters
  <2>3. QED
    BY <1>2, <1>3, <2>2, EndpointsOf
<1>9. ASSUME ShownSpectrum.lbt # {}, NEW x \in DOMAIN queues
      PROVE  queues[x] \in ShownSpectrum.lbt
  <2>1. ShownSpectrum.lbt = {l.place : l \in p.lbt}
    BY <1>1 DEF ShownSpectrum
  <2>2. p.lbt # {}
    BY <1>9, <2>1
  <2>3. queues = QueuesFor(s)
    BY <1>9
  <2>4. \E l \in p.lbt : l.place = queues[x]
    BY <2>2, <2>3, TableCovers
  <2>5. QED
    BY <2>1, <2>4
<1>10. QED
  BY <1>5, <1>6, <1>7, <1>8, <1>9 DEF PagesAgree

-----------------------------------------------------------------------------
LEMMA InitRight ==
    ASSUME SettingsAssumption
    PROVE  Init => IInv
<1> SUFFICES ASSUME Init PROVE IInv
  OBVIOUS
<1>1. ui \in Settings /\ ui \in Stored
  BY DEF Init
<1>2. ui.queue \in Nat /\ ui.gpio \in Nat
  BY <1>1 DEF Settings
<1>3. Resting \in [field : Fields, at : 0..4, copy : Settings \cup {None}] /\ Resting.at = 0
  BY DEF Resting, Fields
<1>4. Typed
  BY <1>1, <1>2, <1>3 DEF Init, Typed
<1>5. RequestsRight
  BY <1>3 DEF Init, RequestsRight, RequestRight, LockFree
<1>6. SavedRight
  BY <1>1 DEF Init, SavedRight
<1>7. FilesRight
  BY DEF Init, FilesRight, InLine
<1>8. RunRight
  BY DEF Init, RunRight
<1>9. QED
  BY <1>4, <1>5, <1>6, <1>7, <1>8 DEF IInv

LEMMA RunStays == RunRight /\ UNCHANGED <<process, published>> => RunRight'
BY DEF RunRight, process

LEMMA Follows ==
    ASSUME NEW r \in [field : Fields, at : 0..4, copy : Settings \cup {None}],
           r.at \in 1..Last(r.field)
    PROVE  /\ r.at = Last(r.field) => Following(r) = Resting /\ Following(r).at = 0
           /\ r.at # Last(r.field) => /\ Following(r).field = r.field
                                     /\ Following(r).copy = r.copy
                                     /\ Following(r).at = r.at + 1
<1>1. Len(Steps(r.field)) = Last(r.field)
  BY StepsLast
<1>2. r = [field |-> r.field, at |-> r.at, copy |-> r.copy]
  OBVIOUS
<1>3. CASE r.at = Last(r.field)
  BY <1>1, <1>3 DEF Following, Resting
<1>4. CASE r.at # Last(r.field)
  <2>1. Following(r) = [r EXCEPT !.at = r.at + 1]
    BY <1>1, <1>4 DEF Following
  <2>2. QED
    BY <1>2, <1>4, <2>1
<1>5. QED
  BY <1>3, <1>4

LEMMA Doing ==
    ASSUME IInv, NEW t \in Threads, NEW step, Does(t, step)
    PROVE  LET r == request[t]
           IN  /\ r \in [field : Fields, at : 0..4, copy : Settings \cup {None}]
               /\ r.field \in Fields /\ r.at \in 1..Last(r.field) /\ r.copy \in Settings
               /\ Steps(r.field)[r.at] = step
               /\ RequestRight(r, ui, bridge, scripts)
               /\ request' = [request EXCEPT ![t] = Following(r)]
               /\ Following(r) \in [field : Fields, at : 0..4, copy : Settings \cup {None}]
               /\ \A u \in Threads \ {t} : request[u].at = 0
               /\ state # "down" /\ Accepted(ui)
<1> DEFINE r == request[t]
<1>1. r \in [field : Fields, at : 0..4, copy : Settings \cup {None}]
  BY DEF IInv, Typed
<1>2. r.at # 0 /\ Steps(r.field)[r.at] = step
  BY DEF Does
<1>3. RequestRight(r, ui, bridge, scripts)
  BY DEF IInv, RequestsRight
<1>4. r.at \in 1..Last(r.field) /\ r.copy \in Settings
  <2>1. Last(r.field) \in 1..4
    BY <1>1, StepsLast
  <2>2. QED
    BY <1>1, <1>2, <1>3, <2>1 DEF RequestRight
<1>5. Len(Steps(r.field)) = Last(r.field) /\ Last(r.field) \in 1..4
  BY <1>1, StepsLast
<1>6. request' = [request EXCEPT ![t] = Following(r)]
  BY Zenon DEF Does
<1>7. Following(r) \in [field : Fields, at : 0..4, copy : Settings \cup {None}]
  BY <1>1, <1>4, <1>5 DEF Following, Resting, Fields
<1>8. \A u \in Threads \ {t} : request[u].at = 0
  BY <1>2 DEF IInv, RequestsRight
<1>9. state # "down" /\ Accepted(ui)
  BY <1>2 DEF IInv, RequestsRight, SavedRight, LockFree
<1> HIDE DEF r
<1>10. QED
  BY <1>1, <1>2, <1>3, <1>4, <1>6, <1>7, <1>8, <1>9 DEF r

(* A step of a request leaves the others to rest.                          *)
LEMMA OneAtWork ==
    ASSUME IInv, NEW t \in Threads, NEW step, Does(t, step),
           RequestRight(Following(request[t]), ui', bridge', scripts')
    PROVE  /\ RequestsRight'
           /\ \A a : InLine(a)' <=> a \notin stale' /\ a \notin Behind(Following(request[t]))
           /\ \A a : InLine(a)  <=> a \notin stale  /\ a \notin Behind(request[t])
<1> DEFINE q == Following(request[t])
<1>1. /\ request' = [request EXCEPT ![t] = q]
      /\ \A u \in Threads \ {t} : request[u].at = 0
      /\ state # "down"
  BY Doing
<1>2. request \in [Threads -> [field : Fields, at : 0..4, copy : Settings \cup {None}]]
  BY DEF IInv, Typed
<1>3. request'[t] = q /\ \A u \in Threads \ {t} : request'[u] = request[u]
  BY <1>1, <1>2
<1>4. \A u \in Threads \ {t} : RequestRight(request'[u], ui', bridge', scripts')
  BY <1>1, <1>3 DEF RequestRight
<1>5. state' = state
  BY DEF Does, process
<1>6. RequestsRight'
  BY <1>1, <1>3, <1>4, <1>5 DEF RequestsRight
<1>7. \A a : \A u \in Threads \ {t} : a \notin Behind(request[u])
  BY <1>1 DEF Behind
<1> HIDE DEF q
<1>8. \A a : InLine(a)' <=> a \notin stale' /\ a \notin Behind(q)
  BY <1>3, <1>7 DEF InLine
<1>9. \A a : InLine(a) <=> a \notin stale /\ a \notin Behind(request[t])
  BY <1>7 DEF InLine
<1>10. QED
  BY <1>6, <1>8, <1>9 DEF q

-----------------------------------------------------------------------------
(* Every step keeps the invariant.                                         *)

LEMMA RequestKeeps ==
    ASSUME SettingsAssumption,
           IInv, NEW t \in Threads, Request(t)
    PROVE  IInv'
<1>1. PICK f, v :
         /\ f \in DOMAIN Wishes[t] /\ v \in Wishes[t][f]
         /\ "bridge" \in Range(Steps(f)) => Accepted([ui EXCEPT ![f] = v])
         /\ request' = [request EXCEPT
                          ![t] = [field |-> f, at |-> 1, copy |-> [ui EXCEPT ![f] = v]]]
  <2>1. \E f : Begins(t, f)
    BY DEF Request, ChannelsPost, AuxPost, RfChainsPost, RegionPost, SyncWordPost,
           ToggleScan, AdvancedPost, BridgePost, LocationPost, FilterPost
  <2>2. QED
    BY <2>1 DEF Begins
<1> DEFINE c == [ui EXCEPT ![f] = v]
           q == [field |-> f, at |-> 1, copy |-> c]
<1>2. f \in Fields /\ v \in Values(f)
  BY <1>1
<1>3. c \in Settings /\ c[f] = v
  BY <1>2, Changed DEF IInv, Typed
<1>4. f \in Radio => Accepted(c)
  BY <1>1, <1>2, RadioWrites
<1>5. Last(f) \in 1..4 /\ (f \in Radio => Last(f) # 1)
  BY <1>2, StepsLast DEF Last, Radio
<1>6. RequestRight(q, ui, bridge, scripts)
  <2> HIDE DEF c
  <2>1. q.field = f /\ q.at = 1 /\ q.copy = c
    OBVIOUS
  <2>2. c = [ui EXCEPT ![f] = c[f]]
    BY <1>3 DEF c
  <2> HIDE DEF q
  <2>3. QED
    BY <1>3, <1>4, <1>5, <2>1, <2>2 DEF RequestRight, Saved
<1>7. q \in [field : Fields, at : 0..4, copy : Settings \cup {None}] /\ q.at = 1
  BY <1>2, <1>3
<1> HIDE DEF q, c
<1>8. /\ UNCHANGED <<files, process, published, written, stale>>
      /\ state # "down" /\ LockFree
      /\ request' = [request EXCEPT ![t] = q]
  BY <1>1 DEF Request, q, c
<1>9. Typed'
  BY <1>7, <1>8 DEF IInv, Typed, files, process
<1>10. request'[t] = q /\ \A u \in Threads \ {t} : request'[u] = request[u] /\ request[u].at = 0
  BY <1>8 DEF IInv, Typed, LockFree
<1>11. RequestsRight'
  BY <1>6, <1>8, <1>10 DEF RequestsRight, RequestRight, files, process
<1>12. SavedRight'
  BY <1>8 DEF IInv, SavedRight, files, process
<1>13. FilesRight'
  <2>1. \A a : InLine(a)' => InLine(a)
    BY <1>8, <1>10 DEF InLine, Behind, LockFree
  <2>2. QED
    BY <1>8, <2>1 DEF IInv, FilesRight, files
<1>14. RunRight'
  BY <1>8, RunStays DEF IInv
<1>15. QED
  BY <1>9, <1>11, <1>12, <1>13, <1>14 DEF IInv

LEMMA FieldTyped ==
    ASSUME NEW s \in Settings, NEW f \in Fields
    PROVE  s[f] \in Values(f)
BY DEF Settings, Fields, Values

LEMMA SaveUiKeeps ==
    ASSUME IInv, NEW t \in Threads, SaveUi(t)
    PROVE  IInv'
<1> DEFINE r == request[t]
           f == r.field
           q == Following(r)
           c == r.copy
<1>1. Does(t, "ui")
  BY DEF SaveUi
<1>2. /\ f \in Fields /\ r.at \in 1..Last(f) /\ c \in Settings
      /\ Steps(f)[r.at] = "ui"
      /\ RequestRight(r, ui, bridge, scripts)
      /\ request' = [request EXCEPT ![t] = q]
      /\ q \in [field : Fields, at : 0..4, copy : Settings \cup {None}]
      /\ state # "down" /\ Accepted(ui)
  BY <1>1, Doing
<1>3. r.at = IF f = "gpio" THEN 3 ELSE 1
  BY <1>2, StepsTable
<1>4. /\ ui' = c
      /\ written' = [written EXCEPT ![f] = c[f]]
      /\ stale' = IF f = "gpio" THEN stale \ {"gpio"} ELSE stale
      /\ UNCHANGED <<config, scripts, bridge, global, published, process>>
  BY <1>1 DEF SaveUi, Does
<1>5. Last(f) = IF f = "channels" THEN 4 ELSE IF f = "queue" THEN 2
                ELSE IF f = "other" THEN 1 ELSE 3
  BY DEF Last
<1>6. q = IF f \in {"gpio", "other"} THEN Resting ELSE [r EXCEPT !.at = 2]
  BY <1>2, <1>3, <1>5, StepsLast DEF Following
<1>7. r \in [field : Fields, at : 0..4, copy : Settings \cup {None}]
  BY <1>1, Doing
<1>8. /\ f \notin {"gpio", "other"} => q.field = f /\ q.at = 2 /\ q.copy = c
      /\ f \in {"gpio", "other"} => q.at = 0 /\ q.field = "other"
  BY <1>6, <1>7 DEF Resting
<1>9. c = [ui EXCEPT ![f] = c[f]] /\ (f \in Radio => Accepted(c))
  BY <1>2, <1>3 DEF RequestRight, Saved
<1>10. c[f] \in Values(f) /\ ui \in Settings /\ ui = written
  BY <1>2, FieldTyped DEF IInv, Typed, SavedRight
<1> HIDE DEF q, c, f, r
<1>11. (f \notin Radio => Plan(c) = Plan(ui)) /\ Accepted(c)
  <2>1. f \notin Radio => Plan(c) = Plan(ui) /\ (Accepted(c) <=> Accepted(ui))
    <3> DEFINE n == [ui EXCEPT ![f] = c[f]]
    <3>1. f \notin Radio => Plan(n) = Plan(ui) /\ (Accepted(n) <=> Accepted(ui))
      BY <1>2, <1>10, ChangeOfOthers
    <3> HIDE DEF n
    <3>2. n = c
      BY <1>9 DEF n
    <3>3. QED
      BY <3>1, <3>2
  <2>2. QED
    BY <1>2, <1>9, <2>1
<1>12. /\ f # "channels" => ChannelsOf(c) = ChannelsOf(ui)
       /\ f # "queue" => c.queue = ui.queue
       /\ f # "gpio" => c.gpio = ui.gpio
  <2> DEFINE n == [ui EXCEPT ![f] = c[f]]
  <2>1. /\ f # "channels" => ChannelsOf(n) = ChannelsOf(ui)
        /\ f # "queue" => n.queue = ui.queue
        /\ f # "gpio" => n.gpio = ui.gpio
    BY <1>2, <1>10, ChannelsUnchanged
  <2> HIDE DEF n
  <2>2. n = c
    BY <1>9 DEF n
  <2>3. QED
    BY <2>1, <2>2
<1>13. f = "gpio" => scripts.reset = c.gpio /\ scripts.power = c.gpio
  BY <1>2, <1>3 DEF RequestRight, f, r, c
<1>14. f \in Radio => f \notin {"queue", "gpio", "other"}
  BY DEF Radio
<1>15. RequestRight(q, ui', bridge', scripts')
  BY <1>2, <1>4, <1>5, <1>8, <1>11, <1>14 DEF RequestRight, Saved, Radio, Fields
<1>16. /\ RequestsRight'
       /\ \A a : InLine(a)' <=> a \notin stale' /\ a \notin Behind(q)
       /\ \A a : InLine(a)  <=> a \notin stale  /\ a \notin Behind(r)
  BY <1>1, <1>15, OneAtWork DEF q, r
<1>17. Typed'
  BY <1>2, <1>4, <1>10, <1>9 DEF IInv, Typed, process
<1>18. SavedRight'
  BY <1>4, <1>9, <1>10, <1>11 DEF SavedRight
<1>19. FilesRight'
  <2>1. InLine("conf")' => f \notin Radio /\ InLine("conf")
    BY <1>4, <1>8, <1>14, <1>16 DEF Behind, f
  <2>2. InLine("channels")' => f # "channels" /\ InLine("channels")
    BY <1>3, <1>4, <1>8, <1>16 DEF Behind, f
  <2>3. InLine("queue")' => f # "queue" /\ InLine("queue")
    BY <1>3, <1>4, <1>8, <1>16 DEF Behind, f
  <2>4. InLine("gpio")' /\ f # "gpio" => InLine("gpio")
    BY <1>4, <1>16 DEF Behind, f
  <2>5. QED
    BY <1>4, <1>11, <1>12, <1>13, <2>1, <2>2, <2>3, <2>4 DEF IInv, FilesRight
<1>20. RunRight'
  BY <1>4, RunStays DEF IInv
<1>21. QED
  BY <1>16, <1>17, <1>18, <1>19, <1>20 DEF IInv

(* A write that leaves the settings alone: what is left is FilesRight.     *)
LEMMA WriteKeeps ==
    ASSUME IInv, NEW t \in Threads, NEW step, Does(t, step), UNCHANGED <<ui, written>>,
           config' \in [channels : {ChannelsOf(s) : s \in Settings}, queue : Nat],
           scripts' \in [reset : Nat, power : Nat],
           RequestRight(Following(request[t]), ui', bridge', scripts'),
           FilesRight'
    PROVE  IInv'
<1>1. /\ request' = [request EXCEPT ![t] = Following(request[t])]
      /\ Following(request[t]) \in [field : Fields, at : 0..4, copy : Settings \cup {None}]
      /\ UNCHANGED <<published, process>>
  BY Doing DEF Does
<1>2. RequestsRight'
  BY OneAtWork
<1>3. Typed'
  BY <1>1 DEF IInv, Typed, process
<1>4. SavedRight'
  BY <1>1 DEF IInv, SavedRight, process
<1>5. RunRight'
  BY <1>1, RunStays DEF IInv
<1>6. QED
  BY <1>2, <1>3, <1>4, <1>5 DEF IInv

LEMMA SyncChannelsKeeps ==
    ASSUME IInv, NEW t \in Threads, SyncChannels(t)
    PROVE  IInv'
<1> DEFINE r == request[t]
           q == Following(r)
<1>1. Does(t, "channels")
  BY DEF SyncChannels
<1>2. /\ r \in [field : Fields, at : 0..4, copy : Settings \cup {None}]
      /\ r.field \in Fields /\ r.at \in 1..Last(r.field) /\ r.copy \in Settings
      /\ Steps(r.field)[r.at] = "channels"
      /\ RequestRight(r, ui, bridge, scripts)
  BY <1>1, Doing
<1>3. r.field = "channels" /\ r.at = 2 /\ Last(r.field) = 4
  BY <1>2, StepsTable DEF Last
<1>4. q.field = r.field /\ q.at = 3 /\ q.copy = r.copy
  BY <1>2, <1>3, Follows
<1>5. r.copy = ui /\ Accepted(r.copy)
  BY <1>2, <1>3 DEF RequestRight, Saved, Radio, Fields
<1>6. /\ config' = [config EXCEPT !.channels = ChannelsOf(ui)]
      /\ stale' = stale \ {"channels"}
      /\ UNCHANGED <<ui, scripts, bridge, global, written>>
  BY <1>5 DEF SyncChannels
<1>7. config \in [channels : {ChannelsOf(s) : s \in Settings}, queue : Nat] /\ ui \in Settings
      /\ scripts \in [reset : Nat, power : Nat]
  BY DEF IInv, Typed
<1> HIDE DEF q, r
<1>8. RequestRight(q, ui', bridge', scripts')
  BY <1>2, <1>3, <1>4, <1>5, <1>6 DEF RequestRight, Saved
<1>9. \A a : /\ InLine(a)' <=> a \notin stale' /\ a \notin Behind(q)
             /\ InLine(a)  <=> a \notin stale  /\ a \notin Behind(r)
  BY <1>1, <1>8, OneAtWork DEF q, r
<1>10. \A a : InLine(a)' /\ a # "channels" => InLine(a)
  BY <1>3, <1>4, <1>6, <1>9 DEF Behind
<1>11. /\ config'.channels = ChannelsOf(ui)
       /\ config'.queue = config.queue
       /\ config' \in [channels : {ChannelsOf(s) : s \in Settings}, queue : Nat]
  BY <1>6, <1>7
<1>12. FilesRight'
  BY <1>6, <1>10, <1>11 DEF IInv, FilesRight
<1>13. QED
  BY <1>1, <1>6, <1>7, <1>8, <1>11, <1>12, WriteKeeps DEF q, r

LEMMA SaveQueueKeeps ==
    ASSUME IInv, NEW t \in Threads, SaveQueue(t)
    PROVE  IInv'
<1> DEFINE r == request[t]
           q == Following(r)
<1>1. Does(t, "queue")
  BY DEF SaveQueue
<1>2. /\ r.field \in Fields /\ r.at \in 1..Last(r.field) /\ r.copy \in Settings
      /\ Steps(r.field)[r.at] = "queue"
      /\ RequestRight(r, ui, bridge, scripts)
  BY <1>1, Doing
<1>3. r.field = "queue" /\ r.at = 2 /\ Last(r.field) = 2
  BY <1>2, StepsTable DEF Last
<1>4. q = Resting /\ q.at = 0
  BY <1>2, <1>3, StepsLast DEF Following, Resting
<1>5. r.copy = ui
  BY <1>2, <1>3 DEF RequestRight, Saved
<1>6. /\ config' = [config EXCEPT !.queue = ui.queue]
      /\ stale' = stale \ {"queue"}
      /\ UNCHANGED <<ui, scripts, bridge, global, written>>
  BY <1>5 DEF SaveQueue
<1>7. config \in [channels : {ChannelsOf(s) : s \in Settings}, queue : Nat] /\ ui.queue \in Nat
      /\ scripts \in [reset : Nat, power : Nat]
  BY DEF IInv, Typed, Settings
<1> HIDE DEF q, r
<1>8. RequestRight(q, ui', bridge', scripts')
  BY <1>4 DEF RequestRight
<1>9. \A a : /\ InLine(a)' <=> a \notin stale' /\ a \notin Behind(q)
             /\ InLine(a)  <=> a \notin stale  /\ a \notin Behind(r)
  BY <1>1, <1>8, OneAtWork DEF q, r
<1>10. \A a : InLine(a)' /\ a # "queue" => InLine(a)
  BY <1>3, <1>4, <1>6, <1>9 DEF Behind, Radio
<1>11. /\ config'.queue = ui.queue
       /\ config'.channels = config.channels
       /\ config' \in [channels : {ChannelsOf(s) : s \in Settings}, queue : Nat]
  BY <1>6, <1>7
<1>12. FilesRight'
  BY <1>6, <1>10, <1>11 DEF IInv, FilesRight
<1>13. QED
  BY <1>1, <1>6, <1>7, <1>8, <1>11, <1>12, WriteKeeps DEF q, r

LEMMA WriteScriptKeeps ==
    ASSUME IInv, NEW t \in Threads, NEW name \in {"reset", "power"}, WriteScript(t, name)
    PROVE  IInv'
<1> DEFINE r == request[t]
           q == Following(r)
<1>1. Does(t, name)
  BY DEF WriteScript
<1>2. /\ r \in [field : Fields, at : 0..4, copy : Settings \cup {None}]
      /\ r.field \in Fields /\ r.at \in 1..Last(r.field) /\ r.copy \in Settings
      /\ Steps(r.field)[r.at] = name
      /\ RequestRight(r, ui, bridge, scripts)
  BY <1>1, Doing
<1>3. /\ r.field = "gpio" /\ Last(r.field) = 3
      /\ r.at = IF name = "reset" THEN 1 ELSE 2
  BY <1>2, StepsTable DEF Last
<1>4. q.field = r.field /\ q.copy = r.copy /\ q.at = IF name = "reset" THEN 2 ELSE 3
  BY <1>2, <1>3, Follows
<1>5. /\ scripts' = [scripts EXCEPT ![name] = r.copy.gpio]
      /\ UNCHANGED <<ui, config, bridge, global, written, stale>>
  BY DEF WriteScript
<1>6. /\ config \in [channels : {ChannelsOf(s) : s \in Settings}, queue : Nat]
      /\ scripts \in [reset : Nat, power : Nat] /\ r.copy.gpio \in Nat
  BY <1>2 DEF IInv, Typed, Settings
<1> HIDE DEF q, r
<1>7. /\ scripts' \in [reset : Nat, power : Nat]
      /\ name = "reset" => scripts'.reset = r.copy.gpio
      /\ name = "power" => scripts'.power = r.copy.gpio /\ scripts'.reset = scripts.reset
  BY <1>5, <1>6
<1>8. RequestRight(q, ui', bridge', scripts')
  BY <1>2, <1>3, <1>4, <1>5, <1>7 DEF RequestRight, Saved, Radio
<1>9. \A a : /\ InLine(a)' <=> a \notin stale' /\ a \notin Behind(q)
             /\ InLine(a)  <=> a \notin stale  /\ a \notin Behind(r)
  BY <1>1, <1>8, OneAtWork DEF q, r
<1>10. ~InLine("gpio")' /\ \A a : InLine(a)' => InLine(a)
  BY <1>3, <1>4, <1>5, <1>9 DEF Behind, Radio
<1>11. FilesRight'
  BY <1>5, <1>10 DEF IInv, FilesRight
<1>12. QED
  BY <1>1, <1>5, <1>6, <1>7, <1>8, <1>11, WriteKeeps DEF q, r

LEMMA SyncBridgeKeeps ==
    ASSUME IInv, NEW t \in Threads, SyncBridge(t)
    PROVE  IInv'
<1> DEFINE r == request[t]
           q == Following(r)
<1>1. Does(t, "bridge")
  BY DEF SyncBridge
<1>2. /\ r \in [field : Fields, at : 0..4, copy : Settings \cup {None}]
      /\ r.field \in Fields /\ r.at \in 1..Last(r.field) /\ r.copy \in Settings
      /\ Steps(r.field)[r.at] = "bridge"
      /\ RequestRight(r, ui, bridge, scripts)
  BY <1>1, Doing
<1>3. r.field \in Radio /\ r.at = Last(r.field) - 1
  BY <1>2, StepsTable
<1>4. Last(r.field) = IF r.field = "channels" THEN 4 ELSE 3
  BY <1>3 DEF Last, Radio
<1>5. q.field = r.field /\ q.copy = r.copy /\ q.at = Last(r.field)
  BY <1>2, <1>3, <1>4, Follows
<1>6. bridge' = Plan(ui) /\ UNCHANGED <<ui, config, scripts, global, written, stale>>
  BY DEF SyncBridge
<1>7. /\ config \in [channels : {ChannelsOf(s) : s \in Settings}, queue : Nat]
      /\ scripts \in [reset : Nat, power : Nat]
  BY DEF IInv, Typed
<1> HIDE DEF q, r
<1>8. RequestRight(q, ui', bridge', scripts')
  BY <1>2, <1>3, <1>4, <1>5, <1>6 DEF RequestRight, Saved, Radio
<1>9. \A a : /\ InLine(a)' <=> a \notin stale' /\ a \notin Behind(q)
             /\ InLine(a)  <=> a \notin stale  /\ a \notin Behind(r)
  BY <1>1, <1>8, OneAtWork DEF q, r
<1>10. ~InLine("conf")' /\ \A a : InLine(a)' => InLine(a)
  <2>1. "conf" \in Behind(q)
    BY <1>3, <1>4, <1>5 DEF Behind
  <2>2. \A a : a \in Behind(r) => a = "conf"
    BY <1>3, <1>4 DEF Behind, Radio
  <2>3. QED
    BY <1>6, <1>9, <2>1, <2>2
<1>11. FilesRight'
  BY <1>6, <1>10 DEF IInv, FilesRight
<1>12. QED
  BY <1>1, <1>6, <1>7, <1>8, <1>11, WriteKeeps DEF q, r

LEMMA SyncGlobalKeeps ==
    ASSUME IInv, NEW t \in Threads, SyncGlobal(t)
    PROVE  IInv'
<1> DEFINE r == request[t]
           q == Following(r)
<1>1. Does(t, "global")
  BY DEF SyncGlobal
<1>2. /\ r.field \in Fields /\ r.at \in 1..Last(r.field)
      /\ Steps(r.field)[r.at] = "global"
      /\ RequestRight(r, ui, bridge, scripts)
  BY <1>1, Doing
<1>3. r.field \in Radio /\ r.at = Last(r.field) /\ r.at \in {3, 4}
  BY <1>2, StepsTable DEF Last, Radio
<1>4. q.at = 0
  BY <1>2, <1>3, StepsLast DEF Following, Resting
<1>5. bridge = Plan(ui)
  BY <1>2, <1>3 DEF RequestRight
<1>6. /\ global' = Plan(ui) /\ stale' = stale \ {"conf"}
      /\ UNCHANGED <<ui, config, scripts, bridge, written>>
  BY DEF SyncGlobal
<1>7. /\ config \in [channels : {ChannelsOf(s) : s \in Settings}, queue : Nat]
      /\ scripts \in [reset : Nat, power : Nat]
  BY DEF IInv, Typed
<1> HIDE DEF q, r
<1>8. RequestRight(q, ui', bridge', scripts')
  BY <1>4 DEF RequestRight
<1>9. \A a : /\ InLine(a)' <=> a \notin stale' /\ a \notin Behind(q)
             /\ InLine(a)  <=> a \notin stale  /\ a \notin Behind(r)
  BY <1>1, <1>8, OneAtWork DEF q, r
<1>10. \A a : InLine(a)' /\ a # "conf" => InLine(a)
  BY <1>3, <1>4, <1>6, <1>9 DEF Behind, Radio
<1>11. FilesRight'
  BY <1>5, <1>6, <1>10 DEF IInv, FilesRight
<1>12. QED
  BY <1>1, <1>6, <1>7, <1>8, <1>11, WriteKeeps DEF q, r

LEMMA WriteFailsKeeps ==
    ASSUME IInv, NEW t \in Threads, WriteFails(t)
    PROVE  IInv'
<1> DEFINE r == request[t]
<1>1. /\ r.field \in Fields /\ r.at \in 0..Last(r.field)
      /\ r.at # 0 /\ state # "down"
  <2>1. r \in [field : Fields, at : 0..4, copy : Settings \cup {None}]
    BY DEF IInv, Typed
  <2>2. r.at # 0 /\ RequestRight(r, ui, bridge, scripts)
    BY DEF WriteFails, IInv, RequestsRight
  <2>3. Last(r.field) \in 1..4
    BY <2>1, StepsLast
  <2>4. QED
    BY <2>1, <2>2, <2>3 DEF RequestRight, IInv, RequestsRight, LockFree
<1>2. LeftBehind(r) = Behind(r)
  BY <1>1, LeavesBehind
<1>3. /\ request' = [request EXCEPT ![t] = Resting]
      /\ stale' = stale \cup Behind(r)
      /\ UNCHANGED <<files, published, process, written>>
  BY <1>2 DEF WriteFails
<1>4. /\ Resting \in [field : Fields, at : 0..4, copy : Settings \cup {None}]
      /\ Resting.at = 0
  BY DEF Resting, Fields
<1>5. Typed'
  BY <1>3, <1>4 DEF IInv, Typed, files, process
<1>6. request'[t] = Resting /\ \A u \in Threads \ {t} : request'[u] = request[u]
  BY <1>3 DEF IInv, Typed
<1> HIDE DEF r
<1>7. RequestsRight'
  <2>1. \A u \in Threads : RequestRight(request'[u], ui', bridge', scripts')
    <3>1. RequestRight(Resting, ui', bridge', scripts')
      BY <1>4 DEF RequestRight
    <3>2. ui' = ui /\ bridge' = bridge /\ scripts' = scripts
      BY <1>3 DEF files
    <3>3. \A u \in Threads : RequestRight(request[u], ui', bridge', scripts')
      BY <3>2 DEF IInv, RequestsRight
    <3>4. QED
      BY <1>6, <3>1, <3>3
  <2>2. \A u, w \in Threads : request'[u].at # 0 /\ request'[w].at # 0 => u = w
    BY <1>4, <1>6 DEF IInv, RequestsRight
  <2>3. state' # "down"
    BY <1>1, <1>3 DEF process
  <2>4. QED
    BY <2>1, <2>2, <2>3 DEF RequestsRight
<1>8. SavedRight'
  BY <1>3 DEF IInv, SavedRight, files, process
<1>9. FilesRight'
  <2>1. \A a : InLine(a)' => InLine(a)
    BY <1>3, <1>6 DEF InLine, r
  <2>2. QED
    BY <1>3, <2>1 DEF IInv, FilesRight, files
<1>10. RunRight'
  BY <1>3, RunStays DEF IInv
<1>11. QED
  BY <1>5, <1>7, <1>8, <1>9, <1>10 DEF IInv

LEMMA DownKeeps ==
    ASSUME IInv, Down
    PROVE  IInv'
<1>1. \A t \in Threads : LeftBehind(request[t]) = Behind(request[t])
  <2> SUFFICES ASSUME NEW t \in Threads
               PROVE  LeftBehind(request[t]) = Behind(request[t])
    OBVIOUS
  <2>1. request[t] \in [field : Fields, at : 0..4, copy : Settings \cup {None}]
    BY DEF IInv, Typed
  <2>2. RequestRight(request[t], ui, bridge, scripts)
    BY DEF IInv, RequestsRight
  <2>3. Last(request[t].field) \in 1..4
    BY <2>1, StepsLast
  <2>4. request[t].at \in 0..Last(request[t].field)
    BY <2>1, <2>2, <2>3 DEF RequestRight
  <2>5. QED
    BY <2>1, <2>4, LeavesBehind
<1>2. /\ request' = [t \in Threads |-> Resting]
      /\ stale' = stale \cup UNION {LeftBehind(request[t]) : t \in Threads}
      /\ state' = "down" /\ hal' = None /\ ~spawning'
      /\ UNCHANGED <<files, published, written>>
  BY DEF Down
<1>3. /\ Resting \in [field : Fields, at : 0..4, copy : Settings \cup {None}]
      /\ Resting.at = 0
  BY DEF Resting, Fields
<1>4. Typed'
  BY <1>2, <1>3 DEF IInv, Typed, files
<1>5. RequestsRight'
  BY <1>2, <1>3 DEF RequestsRight, RequestRight, LockFree
<1>6. SavedRight'
  BY <1>2 DEF IInv, SavedRight, files
<1>7. FilesRight'
  <2>1. \A a : InLine(a)' => InLine(a)
    BY <1>1, <1>2 DEF InLine
  <2>2. QED
    BY <1>2, <2>1 DEF IInv, FilesRight, files
<1>8. RunRight'
  BY <1>2 DEF RunRight
<1>9. QED
  BY <1>4, <1>5, <1>6, <1>7, <1>8 DEF IInv

(* What neither the saved files nor the requests take part in.             *)
LEMMA RunsAlone ==
    ASSUME IInv, UNCHANGED <<files, request, state, written, stale>>, RunRight'
    PROVE  IInv'
<1>1. Typed'
  BY DEF IInv, Typed, files
<1>2. RequestsRight'
  BY DEF IInv, RequestsRight, LockFree, files
<1>3. SavedRight'
  BY DEF IInv, SavedRight, files
<1>4. FilesRight'
  BY DEF IInv, FilesRight, InLine, files
<1>5. QED
  BY <1>1, <1>2, <1>3, <1>4 DEF IInv

LEMMA BeginKeeps ==
    ASSUME IInv, BeginFails \/ Begin
    PROVE  IInv'
<1>1. LockFree /\ state = "down" /\ Accepted(ui) /\ ui \in Settings
  BY DEF IInv, Typed, RequestsRight, Begin, BeginFails
<1>2. UNCHANGED <<ui, config, scripts, request, spawning, hal, written>>
  BY DEF Begin, BeginFails, process
<1>3. state' \in {"down", "idle", "up"}
  BY <1>1 DEF Begin, BeginFails, process
<1>4. Typed'
  BY <1>2, <1>3 DEF IInv, Typed
<1>5. \A t \in Threads : request'[t].at = 0
  BY <1>1, <1>2 DEF LockFree
<1>6. RequestsRight'
  BY <1>5 DEF RequestsRight, RequestRight, LockFree
<1>7. SavedRight'
  BY <1>1, <1>2 DEF IInv, SavedRight
<1>8. FilesRight'
  <2>1. CASE Begin
    <3>1. \A a : InLine(a)' /\ a # "conf" => InLine(a)
      BY <1>2, <2>1 DEF Begin, InLine
    <3>2. bridge' = Plan(ui) /\ global' = Plan(ui)
      BY <2>1 DEF Begin
    <3>3. QED
      BY <1>2, <3>1, <3>2 DEF IInv, FilesRight
  <2>2. CASE BeginFails
    <3>1. \A a : InLine(a)' => InLine(a)
      BY <1>2, <2>2 DEF BeginFails, InLine
    <3>2. bridge' \in {bridge, Plan(ui)} /\ global' \in {global, Plan(ui)}
      BY <2>2 DEF BeginFails
    <3>3. QED
      BY <1>2, <3>1, <3>2 DEF IInv, FilesRight
  <2>3. QED
    BY <2>1, <2>2
<1>9. RunRight'
  <2>1. hal = None /\ ~spawning
    BY <1>1 DEF IInv, RunRight
  <2>2. CASE Begin
    BY <1>1, <1>2, <2>1, <2>2 DEF Begin, RunRight
  <2>3. CASE BeginFails
    BY <1>1, <1>2, <2>1, <2>3 DEF BeginFails, RunRight, process
  <2>4. QED
    BY <2>2, <2>3
<1>10. QED
  BY <1>4, <1>6, <1>7, <1>8, <1>9 DEF IInv

LEMMA NextKeeps ==
    ASSUME SettingsAssumption
    PROVE  IInv /\ [Next]_vars => IInv'
<1> SUFFICES ASSUME IInv, [Next]_vars PROVE IInv'
  OBVIOUS
<1>1. ASSUME NEW t \in Threads,
             \/ Request(t) \/ SaveUi(t) \/ SyncChannels(t) \/ SaveQueue(t)
             \/ \E name \in {"reset", "power"} : WriteScript(t, name)
             \/ SyncBridge(t) \/ SyncGlobal(t) \/ WriteFails(t)
      PROVE  IInv'
  BY <1>1, RequestKeeps, SaveUiKeeps, SyncChannelsKeeps, SaveQueueKeeps, WriteScriptKeeps,
     SyncBridgeKeeps, SyncGlobalKeeps, WriteFailsKeeps
<1>2. CASE BeginFails \/ Begin
  BY <1>2, BeginKeeps
<1>3. CASE Ensure
  <2>1. RunRight'
    BY <1>3 DEF Ensure, IInv, RunRight
  <2>2. QED
    BY <1>3, <2>1, RunsAlone DEF Ensure
<1>4. CASE Spawn
  <2>1. RunRight'
    BY <1>4 DEF Spawn, IInv, RunRight
  <2>2. QED
    BY <1>4, <2>1, RunsAlone DEF Spawn
<1>5. CASE ForwarderDies
  <2>1. RunRight'
    BY <1>5 DEF ForwarderDies, IInv, RunRight
  <2>2. QED
    BY <1>5, <2>1, RunsAlone DEF ForwarderDies
<1>6. CASE Damage
  <2>1. RunRight'
    BY <1>6 DEF Damage, IInv, RunRight, process
  <2>2. QED
    BY <1>6, <2>1, RunsAlone DEF Damage, process
<1>7. CASE Refresh
  <2>1. state # "down" => ReadActiveUi = runtime
    BY DEF IInv, RunRight, ReadActiveUi
  <2>2. RunRight'
    BY <1>7, <2>1 DEF Refresh, IInv, RunRight
  <2>3. QED
    BY <1>7, <2>2, RunsAlone DEF Refresh
<1>8. CASE Down
  BY <1>8, DownKeeps
<1>9. CASE UNCHANGED vars
  <2>1. RunRight'
    BY <1>9, RunStays DEF IInv, vars
  <2>2. QED
    BY <1>9, <2>1, RunsAlone DEF vars, process
<1>10. QED
  BY <1>1, <1>2, <1>3, <1>4, <1>5, <1>6, <1>7, <1>8, <1>9 DEF Next

LEMMA InvariantImplies ==
    ASSUME SettingsAssumption
    PROVE  IInv => SettingsAgree
<1> SUFFICES ASSUME IInv PROVE SettingsAgree
  OBVIOUS
<1>1. RunsAsStarted
  <2> SUFFICES ASSUME state # "down" PROVE RunsAsStarted
    BY DEF RunsAsStarted
  <2>1. /\ runtime \in Settings /\ Accepted(runtime)
        /\ text = Plan(runtime)
        /\ hal \in {None, text} /\ published \in {None, text}
        /\ queues = IF state = "up" THEN QueuesFor(runtime) ELSE <<>>
        /\ cached \in {None, Endpoints(runtime)}
    BY DEF IInv, RunRight
  <2>2. text.lbt # {} => \A x \in DOMAIN queues : \E l \in text.lbt : l.place = queues[x]
    <3>1. CASE state = "up"
      BY <2>1, <3>1, TableCovers
    <3>2. CASE state # "up"
      BY <2>1, <3>2
    <3>3. QED
      BY <3>1, <3>2
  <2>3. published # None => PagesAgree
    BY <2>1, PagesTell
  <2>4. QED
    BY <2>1, <2>2, <2>3 DEF RunsAsStarted
<1>2. SavedIsStartable
  <2>1. ASSUME NEW t \in Threads, NEW f \in DOMAIN Wishes[t], NEW v \in Wishes[t][f]
        PROVE  PlanRight([ui EXCEPT ![f] = v])
    <3>1. ui \in Settings /\ f \in Fields /\ v \in Values(f)
      BY DEF IInv, Typed
    <3>2. [ui EXCEPT ![f] = v] \in Settings
      BY <3>1, Changed
    <3>3. QED
      BY <3>2, PlanAlwaysRight
  <2>2. ui = written /\ (ui \notin Stored => Accepted(ui))
    BY DEF IInv, SavedRight
  <2>3. QED
    BY <2>1, <2>2 DEF SavedIsStartable
<1>3. PublishedAgree
  <2> SUFFICES ASSUME LockFree PROVE PublishedAgree
    BY DEF PublishedAgree
  <2>1. \A a : a \notin stale => InLine(a)
    BY DEF LockFree, InLine, Behind
  <2>2. scripts = [reset |-> scripts.reset, power |-> scripts.power]
    BY DEF IInv, Typed
  <2>3. QED
    BY <2>1, <2>2 DEF IInv, FilesRight, PublishedAgree
<1>4. QED
  BY <1>1, <1>2, <1>3 DEF SettingsAgree

(* What runs is what it was started with, what is saved can be started     *)
(* with and no change of another is undone, and without a request under    *)
(* way the files agree, but for what a failed one left behind              *)
(* (web/wm1303_api.py, wm1303_backend.py).                                 *)
THEOREM SettingsHold ==
    ASSUME SettingsAssumption
    PROVE  Spec => []SettingsAgree
<1>1. Spec => []IInv
  BY InitRight, NextKeeps, PTL DEF Spec
<1>2. QED
  BY <1>1, InvariantImplies, PTL

-----------------------------------------------------------------------------
(* The shared SX1261.                                                      *)

CONSTANTS Frames, Lbt, Channels, CadChannels, MaxRetries, MaxDeferrals, MaxPackets
VARIABLES radio, air, down, retries, packets, scanner, deferrals, chan, recorded, sweep,
          left, swept, slot, reported, empties

Shared == INSTANCE SharedRadio

RadioStates ==
    [mode : {"lora", "standby", "fsk"}, scan : {"none", "ongoing", "done", "lost"},
     inhibit : BOOLEAN, deferred : BOOLEAN, frame : Frames \cup {None, Shared!Empty}]

SharedTyped ==
    /\ radio \in RadioStates
    /\ down \in {"idle", "waiting", "retry", "polling", "failed", "restoring"}
    /\ scanner \in {"pace", "start", "running", "results", "unexpected", "restore",
                    "advance", "sweep"}
    /\ chan \in Nat \ {0} /\ recorded \in BOOLEAN /\ swept \in BOOLEAN
    /\ slot \in Frames \cup {None} /\ reported \in [Frames -> Nat] /\ empties \in 0..1

(* Reception is inhibited while a packet is sent, and after a failure.     *)
InhibitInv ==
    /\ radio.inhibit <=> down \in {"polling", "failed"}
    /\ radio.inhibit => radio.mode # "lora"

(* Channel E listens unless a scan, a packet or a sweep has the radio.     *)
ListenInv ==
    scanner \notin {"start", "running", "results", "restore"} =>
       /\ down \in {"idle", "waiting", "retry"} /\ ~swept => radio.mode = "lora"
       /\ down = "restoring" => radio.mode # "fsk"

(* A sweep up to channel n.                                                *)
Upto(n) == [i \in 1..n |-> i]

(* Every channel before the one at hand has its entry, and that one when   *)
(* its scan was recorded.                                                  *)
SweepInv ==
    /\ scanner \in {"start", "running", "results", "unexpected"} => ~recorded
    /\ sweep = Upto(IF scanner \in {"restore", "advance"} /\ recorded THEN chan ELSE chan - 1)

(* A frame is waiting before it was ever reported.                         *)
ReportInv ==
    /\ radio.frame \in Frames => reported[radio.frame] = 0 /\ radio.frame # slot
    /\ radio.frame = Shared!Empty => empties = 1
    /\ \A f \in Frames :
          reported[f] <= IF radio.frame = Shared!Empty THEN empties ELSE 1 + empties

SharedInv == SharedTyped /\ InhibitInv /\ ListenInv /\ SweepInv /\ ReportInv

-----------------------------------------------------------------------------
(* What the driver's functions do to a radio.                              *)

(* From r the radio gets to s without a new frame.                         *)
Drives(r, s) == s \in RadioStates /\ s.frame \in {r.frame, None}

(* Only a restart that is not inhibited makes channel E listen.            *)
LEMMA DriverSteps ==
    ASSUME NEW r \in RadioStates
    PROVE  /\ Drives(r, Shared!Stopped(r)) /\ Shared!Stopped(r).mode = r.mode
              /\ Shared!Stopped(r).inhibit = r.inhibit
           /\ Drives(r, Shared!Standby(r)) /\ Shared!Standby(r).mode = "standby"
              /\ Shared!Standby(r).inhibit = r.inhibit
           /\ Drives(r, Shared!RestartLight(r)) /\ Shared!RestartLight(r).inhibit = r.inhibit
              /\ Shared!RestartLight(r).mode = IF r.inhibit THEN r.mode ELSE "lora"
           /\ Drives(r, Shared!RestartOrDefer(r)) /\ Shared!RestartOrDefer(r).inhibit = r.inhibit
              /\ Shared!RestartOrDefer(r).mode = IF r.inhibit THEN r.mode ELSE "lora"
           /\ Drives(r, Shared!Inhibited(r)) /\ Shared!Inhibited(r).inhibit
BY DEF RadioStates, Drives, Shared!Stopped, Shared!Standby, Shared!RestartLight,
       Shared!RestartOrDefer, Shared!Inhibited

(* Listening before talk ends in standby while inhibited.                  *)
LEMMA LbtStopped ==
    ASSUME NEW r \in RadioStates
    PROVE  /\ Drives(r, Shared!LbtStop(r)) /\ Shared!LbtStop(r).inhibit = r.inhibit
           /\ r.inhibit => Shared!LbtStop(r).mode = "standby"
<1> DEFINE q == [r EXCEPT !.mode = "standby"]
<1>1. q \in RadioStates /\ q.mode = "standby" /\ q.inhibit = r.inhibit /\ q.frame = r.frame
  BY DEF RadioStates
<1>2. Shared!LbtStop(r) = Shared!RestartOrDefer(q)
  BY DEF Shared!LbtStop
<1> HIDE DEF q
<1>3. QED
  BY <1>1, <1>2, DriverSteps DEF Drives

(* An aborted scan lets channel E listen unless inhibited.                 *)
LEMMA ScanAborted ==
    ASSUME NEW r \in RadioStates
    PROVE  /\ Drives(r, Shared!ScanAbort(r)) /\ Shared!ScanAbort(r).inhibit = r.inhibit
           /\ Shared!ScanAbort(r).mode = IF r.inhibit THEN r.mode ELSE "lora"
BY DriverSteps DEF Shared!ScanAbort, Drives

(* Scans and listening before talk use the FSK modem.                      *)
LEMMA RxParamsSet ==
    ASSUME NEW r \in RadioStates
    PROVE  /\ Drives(r, Shared!SetRxParams(r)) /\ Shared!SetRxParams(r).inhibit = r.inhibit
           /\ Shared!SetRxParams(r).mode = "fsk"
<1> DEFINE q == Shared!ScanAbort(Shared!Standby(r))
<1>1. Drives(r, q) /\ q.inhibit = r.inhibit
  BY DriverSteps, ScanAborted DEF Drives
<1>2. Shared!SetRxParams(r) = [q EXCEPT !.mode = "fsk"]
  BY DEF Shared!SetRxParams
<1> HIDE DEF q
<1>3. QED
  BY <1>1, <1>2 DEF Drives, RadioStates

(* So does a scan that was started.                                        *)
LEMMA ScanStarted ==
    ASSUME NEW r \in RadioStates
    PROVE  /\ Drives(r, Shared!ScanStart(r)) /\ Shared!ScanStart(r).inhibit = r.inhibit
           /\ Shared!ScanStart(r).mode = "fsk"
<1> DEFINE q == Shared!SetRxParams(r)
<1>1. Drives(r, q) /\ q.inhibit = r.inhibit /\ q.mode = "fsk"
  BY RxParamsSet
<1>2. Shared!ScanStart(r) = [q EXCEPT !.scan = "ongoing"]
  BY DEF Shared!ScanStart
<1> HIDE DEF q
<1>3. QED
  BY <1>1, <1>2 DEF Drives, RadioStates

(* A look at the activity ends in standby.                                 *)
LEMMA CadScanned ==
    ASSUME NEW r \in RadioStates
    PROVE  /\ Drives(r, Shared!CadScan(r)) /\ Shared!CadScan(r).inhibit = r.inhibit
           /\ Shared!CadScan(r).mode = "standby"
<1> DEFINE q == Shared!ScanAbort(Shared!Standby(r))
<1>1. Drives(r, q) /\ q.inhibit = r.inhibit
  BY DriverSteps, ScanAborted DEF Drives
<1>2. PICK x \in {"none", "ongoing", "done", "lost"} :
         Shared!CadScan(r) = [q EXCEPT !.mode = "standby", !.frame = None, !.scan = x]
  BY <1>1 DEF Shared!CadScan, Drives, RadioStates
<1> HIDE DEF q
<1>3. QED
  BY <1>1, <1>2 DEF Drives, RadioStates

(* Reception is restored with the inhibition lifted.                       *)
LEMMA Restored ==
    ASSUME NEW r \in RadioStates
    PROVE  /\ Drives(r, Shared!Restored(r)) /\ ~Shared!Restored(r).inhibit
           /\ Shared!Restored(r).mode = "lora"
<1> DEFINE q == Shared!Released(r)
           p == [r EXCEPT !.inhibit = FALSE, !.deferred = FALSE]
<1>1. p \in RadioStates /\ ~p.inhibit /\ p.frame = r.frame
  BY DEF RadioStates
<1>2. q \in {p, Shared!RestartLight(p)}
  BY DEF Shared!Released
<1> HIDE DEF p, q
<1>3. Drives(r, q) /\ ~q.inhibit
  BY <1>1, <1>2, DriverSteps DEF Drives
<1>4. Shared!Restored(r) = Shared!RestartLight(q)
  BY DEF Shared!Restored, q
<1>5. QED
  BY <1>3, <1>4, DriverSteps DEF Drives

(* A look at the channel and listening before a packet.                    *)
LEMMA Looks ==
    ASSUME radio \in RadioStates
    PROVE  /\ Drives(radio, Shared!Looked) /\ Shared!Looked.inhibit
              /\ Shared!Looked.mode = "standby"
           /\ Drives(radio, Shared!Listened) /\ Shared!Listened.inhibit
              /\ Shared!Listened.mode = "standby"
           /\ Drives(radio, Shared!SetRxParams(Shared!Looked))
              /\ Shared!SetRxParams(Shared!Looked).inhibit
              /\ Shared!SetRxParams(Shared!Looked).mode = "fsk"
<1> DEFINE q == IF down = "waiting" THEN Shared!ScanAbort(radio) ELSE radio
           l == Shared!Looked
<1>1. Drives(radio, q)
  BY ScanAborted DEF Drives
<1>2. l = Shared!CadScan(Shared!Inhibited(q))
  BY DEF Shared!Looked
<1> HIDE DEF q, l
<1>3. Drives(radio, Shared!Inhibited(q)) /\ Shared!Inhibited(q).inhibit
  BY <1>1, DriverSteps DEF Drives
<1>4. Drives(radio, l) /\ l.inhibit /\ l.mode = "standby"
  BY <1>2, <1>3, CadScanned DEF Drives
<1>5. Drives(radio, Shared!SetRxParams(l)) /\ Shared!SetRxParams(l).inhibit
      /\ Shared!SetRxParams(l).mode = "fsk"
  BY <1>4, RxParamsSet DEF Drives
<1>6. Drives(radio, Shared!LbtStop(Shared!SetRxParams(l)))
      /\ Shared!LbtStop(Shared!SetRxParams(l)).inhibit
      /\ Shared!LbtStop(Shared!SetRxParams(l)).mode = "standby"
  BY <1>5, LbtStopped DEF Drives
<1>7. QED
  BY <1>4, <1>5, <1>6 DEF Shared!Listened, l

-----------------------------------------------------------------------------
(* Unless thread_up acts no frame comes and none is reported.              *)
LEMMA NoFrame ==
    ASSUME SharedInv, Drives(radio, radio'), UNCHANGED Shared!upVars, Shared!FramesApart
    PROVE  ReportInv' /\ radio' \in RadioStates
<1>1. radio'.frame \in {radio.frame, None} /\ slot' = slot /\ reported' = reported
      /\ empties' = empties /\ empties \in Nat
  BY DEF Drives, Shared!upVars, SharedInv, SharedTyped
<1>2. radio'.frame \in Frames => radio.frame = radio'.frame
  BY <1>1 DEF Shared!FramesApart
<1>3. radio'.frame = Shared!Empty => radio.frame = Shared!Empty
  BY <1>1 DEF Shared!FramesApart
<1>4. \A f \in Frames : reported[f] \in Nat
  BY DEF SharedInv, SharedTyped
<1>5. QED
  BY <1>1, <1>2, <1>3, <1>4 DEF SharedInv, ReportInv, Drives

(* Steps of thread_down.                                                   *)
LEMMA DownSteps ==
    ASSUME SharedInv, Shared!FramesApart,
           \/ Shared!TakePacket \/ Shared!NotFree \/ Shared!CadDetected \/ Shared!Sent
           \/ Shared!Refused \/ Shared!NotListened \/ Shared!EmissionEnds \/ Shared!PollEnds
           \/ Shared!FailureReleases \/ Shared!FailureRestores
    PROVE  SharedInv'
<1> USE DEF SharedInv
<1> radio \in RadioStates
  BY DEF SharedTyped
<1>0. UNCHANGED Shared!scanVars /\ UNCHANGED Shared!upVars
  BY DEF Shared!TakePacket, Shared!NotFree, Shared!CadDetected, Shared!Sent, Shared!Refused,
         Shared!NotListened, Shared!Talk, Shared!EmissionEnds, Shared!PollEnds,
         Shared!FailureReleases, Shared!FailureRestores
<1>1. SweepInv' /\ (scanner' = scanner)
  BY <1>0 DEF SweepInv, Upto, Shared!scanVars
<1>2. SUFFICES Drives(radio, radio') /\ InhibitInv' /\ ListenInv' /\ swept' \in BOOLEAN
               /\ down' \in {"idle", "waiting", "retry", "polling", "failed", "restoring"}
  BY <1>0, <1>1, NoFrame DEF SharedTyped, Shared!scanVars, Shared!upVars
<1>3. CASE Shared!TakePacket \/ Shared!NotFree \/ Shared!EmissionEnds
  <2>1. radio' = radio /\ swept' = swept
        /\ (down' = down \/ (down \in {"idle", "waiting"} /\ down' \in {"idle", "waiting"}))
    BY <1>3 DEF Shared!TakePacket, Shared!NotFree, Shared!EmissionEnds
  <2>2. QED
    BY <1>1, <2>1 DEF InhibitInv, ListenInv, Drives, SharedTyped
<1>4. CASE Shared!CadDetected
  <2>1. radio' = Shared!Restored(Shared!Looked) /\ down' = "retry" /\ swept' = FALSE
    BY <1>4 DEF Shared!CadDetected
  <2>2. Drives(radio, radio') /\ ~radio'.inhibit /\ radio'.mode = "lora"
    BY <2>1, Looks, Restored DEF Drives
  <2>3. QED
    BY <2>1, <2>2 DEF InhibitInv, ListenInv
<1>5. CASE Shared!Sent \/ Shared!Refused \/ Shared!NotListened
  <2>1. /\ radio' \in {Shared!Looked, Shared!Listened, Shared!SetRxParams(Shared!Looked)}
        /\ down' \in {"polling", "failed"} /\ swept' = FALSE
    BY <1>5 DEF Shared!Sent, Shared!Refused, Shared!NotListened, Shared!Talk
  <2>2. Drives(radio, radio') /\ radio'.inhibit /\ radio'.mode # "lora"
    BY <2>1, Looks
  <2>3. QED
    BY <2>1, <2>2 DEF InhibitInv, ListenInv
<1>6. CASE Shared!PollEnds
  <2>1. radio' = Shared!Restored(radio) /\ down' = "idle" /\ swept' = swept
    BY <1>6 DEF Shared!PollEnds
  <2>2. Drives(radio, radio') /\ ~radio'.inhibit /\ radio'.mode = "lora"
    BY <2>1, Restored
  <2>3. QED
    BY <2>1, <2>2 DEF InhibitInv, ListenInv, SharedTyped
<1>7. CASE Shared!FailureReleases
  <2> DEFINE q == Shared!Standby(radio)
  <2>1. Drives(radio, q) /\ q.mode = "standby"
    BY DriverSteps
  <2>2. radio' = [q EXCEPT !.inhibit = FALSE, !.deferred = FALSE, !.frame = None]
        /\ down' = "restoring" /\ swept' = swept
    BY <1>7 DEF Shared!FailureReleases
  <2> HIDE DEF q
  <2>3. Drives(radio, radio') /\ ~radio'.inhibit /\ radio'.mode = "standby"
    BY <2>1, <2>2 DEF Drives, RadioStates
  <2>4. QED
    BY <2>2, <2>3 DEF InhibitInv, ListenInv, SharedTyped
<1>8. CASE Shared!FailureRestores
  <2>1. down = "restoring" /\ down' = "idle" /\ swept' = swept /\ ~radio.inhibit
        /\ radio' \in IF radio.mode = "fsk" THEN {radio, Shared!Stopped(radio)}
                      ELSE {[radio EXCEPT !.mode = "lora"]}
    BY <1>8 DEF Shared!FailureRestores, InhibitInv
  <2>2. CASE radio.mode = "fsk"
    <3>1. radio' \in {radio, Shared!Stopped(radio)}
      BY <2>1, <2>2
    <3>2. Drives(radio, radio') /\ ~radio'.inhibit
          /\ scanner \in {"start", "running", "results", "restore"}
      BY <2>1, <2>2, <3>1, DriverSteps DEF Drives, ListenInv
    <3>3. QED
      BY <1>1, <2>1, <3>2 DEF InhibitInv, ListenInv, SharedTyped
  <2>3. CASE radio.mode # "fsk"
    <3>1. radio' = [radio EXCEPT !.mode = "lora"]
      BY <2>1, <2>3
    <3>2. Drives(radio, radio') /\ ~radio'.inhibit /\ radio'.mode = "lora"
      BY <2>1, <3>1 DEF Drives, RadioStates
    <3>3. QED
      BY <2>1, <3>2 DEF InhibitInv, ListenInv, SharedTyped
  <2>4. QED
    BY <2>2, <2>3
<1>9. QED
  BY <1>3, <1>4, <1>5, <1>6, <1>7, <1>8

-----------------------------------------------------------------------------
(* Channel E listens when the threads start.                               *)
LEMMA SharedInit == Shared!FramesApart /\ Shared!Init => SharedInv
<1> SUFFICES ASSUME Shared!FramesApart, Shared!Init PROVE SharedInv
  OBVIOUS
<1> USE DEF Shared!Init
<1>1. SharedTyped
  <2>1. radio \in RadioStates
    BY DEF RadioStates
  <2>2. reported \in [Frames -> Nat]
    OBVIOUS
  <2>3. chan = 1 /\ empties = 0 /\ slot = None /\ scanner = "pace" /\ down = "idle"
    OBVIOUS
  <2>4. recorded \in BOOLEAN /\ swept \in BOOLEAN
    <3>1. recorded = FALSE /\ swept = FALSE
      OBVIOUS
    <3> HIDE DEF Shared!Init
    <3>2. QED
      BY <3>1
  <2> HIDE DEF Shared!Init
  <2>5. QED
    BY <2>1, <2>2, <2>3, <2>4 DEF SharedTyped
<1>2. InhibitInv /\ ListenInv
  BY DEF InhibitInv, ListenInv
<1>3. SweepInv
  <2>1. sweep = <<>> /\ Upto(0) = <<>>
    BY DEF Upto
  <2>2. QED
    BY <2>1 DEF SweepInv
<1>4. ReportInv
  BY DEF ReportInv, Shared!FramesApart
<1>5. QED
  BY <1>1, <1>2, <1>3, <1>4 DEF SharedInv

(* The entries of the channels up to the next one.                         *)
LEMMA UptoNext ==
    ASSUME NEW n \in Nat \ {0}
    PROVE  Append(Upto(n - 1), n) = Upto(n)
BY DEF Upto

(* Steps of thread_spectral_scan and of the chip.                          *)
LEMMA ScanSteps ==
    ASSUME SharedInv, Shared!FramesApart,
           \/ Shared!Ready \/ Shared!Deferred \/ Shared!Forced \/ Shared!Start
           \/ Shared!ScanCompletes \/ Shared!Completed \/ Shared!Aborted
           \/ Shared!StatusFails \/ Shared!Unexpected \/ Shared!Results \/ Shared!Restore
           \/ Shared!Advance \/ Shared!SweepCad \/ Shared!Write
    PROVE  SharedInv'
<1> USE DEF SharedInv
<1> radio \in RadioStates /\ scanner \in {"pace", "start", "running", "results",
       "unexpected", "restore", "advance", "sweep"} /\ chan \in Nat \ {0}
    /\ recorded \in BOOLEAN /\ swept \in BOOLEAN
    /\ down \in {"idle", "waiting", "retry", "polling", "failed", "restoring"}
  BY DEF SharedTyped
<1>0. UNCHANGED Shared!downVars /\ UNCHANGED Shared!upVars
  BY DEF Shared!Scan, Shared!Ready, Shared!Deferred, Shared!Forced, Shared!Start,
         Shared!ScanCompletes, Shared!Completed, Shared!Aborted, Shared!StatusFails,
         Shared!Unexpected, Shared!Results, Shared!Restore, Shared!Advance,
         Shared!SweepCad, Shared!Write
<1>1. down' = down
  BY <1>0 DEF Shared!downVars
<1>2. SUFFICES
         /\ Drives(radio, radio') /\ radio'.inhibit = radio.inhibit
         /\ radio'.inhibit /\ radio.mode # "lora" => radio'.mode # "lora"
         /\ ListenInv' /\ SweepInv'
         /\ scanner' \in {"pace", "start", "running", "results", "unexpected", "restore",
                          "advance", "sweep"}
         /\ chan' \in Nat \ {0} /\ recorded' \in BOOLEAN /\ swept' \in BOOLEAN
  <2>1. ReportInv' /\ radio' \in RadioStates
    BY <1>0, <1>2, NoFrame
  <2>2. InhibitInv'
    BY <1>1, <1>2 DEF InhibitInv
  <2>3. SharedTyped'
    BY <1>0, <1>1, <1>2, <2>1 DEF SharedTyped, Shared!upVars
  <2>4. QED
    BY <1>2, <2>1, <2>2, <2>3
<1> USE <1>1
<1>3. CASE Shared!Ready
  BY <1>3 DEF Shared!Ready, Shared!Scan, SweepInv, ListenInv, Drives
<1>4. CASE Shared!Deferred
  BY <1>4 DEF Shared!Deferred, Shared!Scan, SweepInv, ListenInv, Drives
<1>5. CASE Shared!Forced
  <2> DEFINE r == Shared!SetRxParams(Shared!Standby(radio))
  <2>1. Drives(radio, r) /\ r.inhibit = radio.inhibit
    BY DriverSteps, RxParamsSet DEF Drives
  <2>2. radio' = Shared!ScanStart(r)
    BY <1>5 DEF Shared!Forced, Shared!Scan
  <2> HIDE DEF r
  <2>3. Drives(radio, radio') /\ radio'.inhibit = radio.inhibit /\ radio'.mode = "fsk"
    BY <2>1, <2>2, ScanStarted DEF Drives
  <2>4. QED
    BY <1>5, <2>3 DEF Shared!Forced, Shared!Scan, SweepInv, ListenInv
<1>6. CASE Shared!Start
  <2>1. radio' \in {Shared!ScanStart(radio), Shared!SetRxParams(radio)}
        /\ scanner = "start" /\ scanner' = "running" /\ swept' = FALSE
        /\ UNCHANGED <<chan, recorded, sweep>>
    BY <1>6 DEF Shared!Start, Shared!Scan
  <2>2. Drives(radio, radio') /\ radio'.inhibit = radio.inhibit /\ radio'.mode = "fsk"
    BY <2>1, ScanStarted, RxParamsSet
  <2>3. QED
    BY <2>1, <2>2 DEF SweepInv, ListenInv
<1>7. CASE Shared!ScanCompletes
  <2>1. radio' = [radio EXCEPT !.scan = "done"] /\ swept' = swept
        /\ UNCHANGED Shared!scanVars
    BY <1>7 DEF Shared!ScanCompletes
  <2>2. Drives(radio, radio') /\ radio'.inhibit = radio.inhibit /\ radio'.mode = radio.mode
    BY <2>1 DEF Drives, RadioStates
  <2>3. QED
    BY <2>1, <2>2 DEF SweepInv, Upto, ListenInv, Shared!scanVars
<1>8. CASE Shared!Completed \/ Shared!Aborted
  BY <1>8 DEF Shared!Completed, Shared!Aborted, Shared!Scan, SweepInv, ListenInv, Drives
<1>9. CASE Shared!StatusFails \/ Shared!Unexpected
  <2> DEFINE q == Shared!Standby(radio)
  <2>1. Drives(radio, q) /\ q.mode = "standby" /\ q.inhibit = radio.inhibit
    BY DriverSteps
  <2>2. radio' = Shared!RestartLight(q) /\ UNCHANGED <<chan, recorded, sweep, swept>>
        /\ \/ scanner = "running" /\ scanner' = "unexpected"
           \/ scanner = "unexpected" /\ scanner' = "advance"
    BY <1>9 DEF Shared!StatusFails, Shared!Unexpected, Shared!Scan
  <2> HIDE DEF q
  <2>3. Drives(radio, radio') /\ radio'.inhibit = radio.inhibit
        /\ radio'.mode = IF radio.inhibit THEN "standby" ELSE "lora"
    BY <2>1, <2>2, DriverSteps DEF Drives
  <2>4. QED
    BY <2>2, <2>3 DEF SweepInv, ListenInv, InhibitInv
<1>10. CASE Shared!Results
  <2>1. radio' = radio /\ scanner = "results" /\ scanner' = "restore" /\ recorded' \in BOOLEAN
        /\ sweep' = (IF recorded' THEN Append(sweep, chan) ELSE sweep)
        /\ UNCHANGED <<chan, swept>>
    BY <1>10 DEF Shared!Results, Shared!Scan
  <2>2. sweep = Upto(chan - 1)
    BY <2>1 DEF SweepInv
  <2>3. sweep' = Upto(IF recorded' THEN chan ELSE chan - 1)
    BY <2>1, <2>2, UptoNext
  <2>4. SweepInv'
    BY <2>1, <2>3 DEF SweepInv
  <2>5. ListenInv'
    BY <2>1 DEF ListenInv
  <2>6. QED
    BY <2>1, <2>4, <2>5 DEF Drives
<1>11. CASE Shared!Restore
  <2>1. radio' = Shared!RestartLight(radio) /\ UNCHANGED <<chan, recorded, sweep, swept>>
        /\ scanner = "restore" /\ scanner' = "advance"
    BY <1>11 DEF Shared!Restore, Shared!Scan
  <2>2. Drives(radio, radio') /\ radio'.inhibit = radio.inhibit
        /\ radio'.mode = IF radio.inhibit THEN radio.mode ELSE "lora"
    BY <2>1, DriverSteps
  <2>3. QED
    BY <2>1, <2>2 DEF SweepInv, ListenInv, InhibitInv
<1>12. CASE Shared!Advance
  <2>1. radio' = radio /\ scanner = "advance" /\ scanner' \in {"pace", "sweep"}
        /\ sweep' = (IF recorded THEN sweep ELSE Append(sweep, chan))
        /\ chan' = chan + 1 /\ UNCHANGED <<recorded, swept>>
    BY <1>12 DEF Shared!Advance, Shared!Scan
  <2>2. sweep = Upto(IF recorded THEN chan ELSE chan - 1)
    BY <2>1 DEF SweepInv
  <2>3. sweep' = Upto(chan)
    BY <2>1, <2>2, UptoNext
  <2>4. sweep' = Upto(chan' - 1)
    BY <2>1, <2>3
  <2>5. SweepInv'
    BY <2>1, <2>4 DEF SweepInv
  <2>6. ListenInv'
    BY <2>1 DEF ListenInv
  <2>7. QED
    BY <2>1, <2>5, <2>6 DEF Drives
<1>13. CASE Shared!SweepCad
  <2>1. radio' \in {radio, Shared!CadScan(radio)} /\ scanner = "sweep" /\ scanner' = "sweep"
        /\ (swept' = TRUE \/ (swept' = swept /\ radio' = radio))
        /\ UNCHANGED <<chan, recorded, sweep>>
    BY <1>13 DEF Shared!SweepCad, Shared!Scan
  <2>2. Drives(radio, radio') /\ radio'.inhibit = radio.inhibit
        /\ radio'.mode \in {radio.mode, "standby"}
    BY <2>1, CadScanned DEF Drives
  <2>3. SweepInv'
    BY <2>1 DEF SweepInv
  <2>4. ListenInv'
    <3>1. CASE swept'
      BY <2>1, <2>2, <3>1 DEF ListenInv
    <3>2. CASE swept' = swept /\ radio' = radio
      BY <2>1, <3>2 DEF ListenInv
    <3>3. QED
      BY <2>1, <3>1, <3>2
  <2>5. QED
    BY <2>1, <2>2, <2>3, <2>4
<1>14. CASE Shared!Write
  <2>1. Upto(0) = <<>>
    BY DEF Upto
  <2>2. QED
    BY <1>14, <2>1 DEF Shared!Write, Shared!Scan, SweepInv, ListenInv, Drives
<1>15. QED
  BY <1>3, <1>4, <1>5, <1>6, <1>7, <1>8, <1>9, <1>10, <1>11, <1>12, <1>13, <1>14

(* Steps of thread_up.                                                     *)
LEMMA UpSteps ==
    ASSUME SharedInv, Shared!FramesApart, Shared!Hear \/ Shared!Fetch
    PROVE  SharedInv'
<1> USE DEF SharedInv
<1> radio \in RadioStates
  BY DEF SharedTyped
<1>0. UNCHANGED Shared!scanVars /\ UNCHANGED Shared!downVars /\ swept' = swept
  BY DEF Shared!Hear, Shared!Fetch
<1>1. SweepInv' /\ scanner' = scanner /\ down' = down
  BY <1>0 DEF SweepInv, Upto, Shared!scanVars, Shared!downVars
<1>2. PICK f \in Frames \cup {None, Shared!Empty} : radio' = [radio EXCEPT !.frame = f]
  BY DEF Shared!Hear, Shared!Fetch
<1>3. radio' \in RadioStates /\ radio'.mode = radio.mode /\ radio'.inhibit = radio.inhibit
      /\ radio'.frame = f
  BY <1>2 DEF RadioStates
<1>4. InhibitInv' /\ ListenInv'
  BY <1>0, <1>1, <1>3 DEF InhibitInv, ListenInv
<1>5. SUFFICES ReportInv' /\ slot' \in Frames \cup {None}
               /\ reported' \in [Frames -> Nat] /\ empties' \in 0..1
  BY <1>0, <1>1, <1>3, <1>4 DEF SharedTyped, Shared!scanVars
<1>6. reported \in [Frames -> Nat] /\ slot \in Frames \cup {None} /\ empties \in 0..1
  BY DEF SharedTyped
<1>7. CASE Shared!Hear
  <2>1. radio.frame = None /\ slot' = slot /\ reported' = reported
    BY <1>7 DEF Shared!Hear
  <2>2. CASE f \in Frames /\ reported[f] = 0 /\ f # slot /\ empties' = empties
    BY <1>3, <1>6, <2>1, <2>2 DEF ReportInv, Shared!FramesApart
  <2>3. CASE f = Shared!Empty /\ empties = 0 /\ empties' = 1
    BY <1>3, <1>6, <2>1, <2>3 DEF ReportInv, Shared!FramesApart
  <2>4. QED
    <3>1. \/ \E g \in Frames : reported[g] = 0 /\ g # slot /\ radio' = [radio EXCEPT !.frame = g]
                               /\ empties' = empties
          \/ empties = 0 /\ empties' = 1 /\ radio' = [radio EXCEPT !.frame = Shared!Empty]
      BY <1>7 DEF Shared!Hear
    <3>2. CASE \E g \in Frames : reported[g] = 0 /\ g # slot /\ empties' = empties
                                 /\ radio' = [radio EXCEPT !.frame = g]
      BY <1>3, <2>2, <3>2 DEF RadioStates
    <3>3. CASE empties = 0 /\ empties' = 1 /\ radio' = [radio EXCEPT !.frame = Shared!Empty]
      BY <1>3, <2>3, <3>3 DEF RadioStates
    <3>4. QED
      BY <3>1, <3>2, <3>3
<1>8. CASE Shared!Fetch
  <2>1. radio.frame # None /\ radio' = [radio EXCEPT !.frame = None] /\ empties' = empties
    BY <1>8 DEF Shared!Fetch
  <2>2. radio'.frame = None
    BY <2>1 DEF RadioStates
  <2>3. CASE slot' = slot /\ reported' = reported
    BY <1>6, <2>1, <2>2, <2>3 DEF ReportInv, Shared!FramesApart
  <2>4. CASE /\ slot' = (IF radio.frame = Shared!Empty THEN slot ELSE radio.frame)
             /\ reported' = (IF slot' = None THEN reported
                             ELSE [reported EXCEPT ![slot'] = @ + 1])
    <3>1. radio.frame \in Frames \/ radio.frame = Shared!Empty
      BY <2>1 DEF RadioStates
    <3>2. CASE radio.frame = Shared!Empty
      <4>1. slot' = slot /\ empties = 1
        BY <2>4, <3>2 DEF ReportInv
      <4>2. \A g \in Frames : reported[g] <= 1
        BY <3>2, <4>1 DEF ReportInv
      <4>3. reported' \in [Frames -> Nat] /\ \A g \in Frames : reported'[g] <= 2
        BY <1>6, <2>4, <4>1, <4>2
      <4>4. QED
        BY <1>6, <2>1, <2>2, <4>1, <4>3 DEF ReportInv, Shared!FramesApart
    <3>3. CASE radio.frame \in Frames
      <4>1. radio.frame # Shared!Empty /\ radio.frame # None
        BY <3>3 DEF Shared!FramesApart
      <4>2. slot' = radio.frame /\ reported' = [reported EXCEPT ![radio.frame] = @ + 1]
            /\ reported[radio.frame] = 0
        BY <2>4, <3>3, <4>1 DEF ReportInv
      <4>3. \A g \in Frames : reported[g] <= 1 + empties
        BY <4>1 DEF ReportInv
      <4>4. reported' \in [Frames -> Nat] /\ \A g \in Frames : reported'[g] <= 1 + empties
        <5>1. reported' \in [Frames -> Nat] /\ \A g \in Frames :
                 reported'[g] = reported[g] \/ reported'[g] = 1
          BY <1>6, <3>3, <4>2
        <5>2. QED
          BY <1>6, <4>3, <5>1
      <4>5. QED
        BY <1>6, <2>1, <2>2, <3>3, <4>2, <4>4 DEF ReportInv, Shared!FramesApart
    <3>4. QED
      BY <3>1, <3>2, <3>3
  <2>5. QED
    BY <1>8, <2>3, <2>4 DEF Shared!Fetch
<1>9. QED
  BY <1>7, <1>8

(* The invariant is inductive.                                             *)
LEMMA SharedKeeps ==
    ASSUME Shared!FramesApart, SharedInv, [Shared!Next]_(Shared!vars)
    PROVE  SharedInv'
<1>1. CASE Shared!Next
  BY <1>1, DownSteps, ScanSteps, UpSteps DEF Shared!Next
<1>2. CASE UNCHANGED Shared!vars
  BY <1>2 DEF Shared!vars, SharedInv, SharedTyped, InhibitInv, ListenInv, SweepInv, ReportInv,
              Upto
<1>3. QED
  BY <1>1, <1>2

(* Channel E is deaf while a packet is sent and listens when nobody sends  *)
(* or scans, but for the look after a sweep; each channel has one entry in *)
(* the sweep; a frame is reported once, but for one without payload        *)
(* (loragw_sx1261.c:115-119, lora_pkt_fwd.c:5171-5177), whichever thread   *)
(* comes between the sections of another.                                  *)
THEOREM RadioIsShared ==
    Shared!FramesApart => (Shared!Spec => []Shared!RadioShared)
<1> SUFFICES ASSUME Shared!FramesApart PROVE Shared!Spec => []Shared!RadioShared
  OBVIOUS
<1>1. Shared!Init => SharedInv
  BY SharedInit
<1>2. SharedInv /\ [Shared!Next]_(Shared!vars) => SharedInv'
  BY SharedKeeps
<1>3. SharedInv => Shared!RadioShared
  <2> SUFFICES ASSUME SharedInv PROVE Shared!RadioShared
    OBVIOUS
  <2>1. \A f \in Frames : reported[f] <= 1 + empties
    BY DEF SharedInv, ReportInv, SharedTyped
  <2>2. QED
    BY <2>1 DEF SharedInv, InhibitInv, ListenInv, SweepInv, Upto, Shared!RadioShared
<1>4. QED
  BY <1>1, <1>2, <1>3, PTL DEF Shared!Spec

-----------------------------------------------------------------------------
(* How settings reach those who use them: Settings.                        *)
CONSTANTS Savers, Excused, MaxEdits, MaxFailures
VARIABLES saved, file, live, used, told, saver, gone, edits, failures

Config == INSTANCE Settings WITH
    asked <- saved, faults <- failures, MaxFaults <- MaxFailures

(* What is said to apply, by someone who knows, does.                      *)
Settled(s) ==
    told[s].say = "applied" /\ told[s].by \notin Excused
        => live[s] = saved[s] /\ used[s] = saved[s]

(* The inductive invariant of the configuration.                           *)
ConfigInv ==
    /\ {saved, file, live, used} \subseteq [Config!Setting -> Nat]
    /\ told = [s \in Config!Setting |-> told[s]]
    /\ saver \in [Savers -> Nat]
    /\ edits \in Nat
    /\ file = saved
    /\ \A s \in Config!Setting : Settled(s)
    /\ gone = {}

(* The settings by their sections.                                         *)
LEMMA SettingsBySection ==
    /\ Config!Setting = {"mode", "password", "adverts", "hops", "discovery", "identity",
          "delays", "route", "loop", "scope", "airtime", "enforced", "modem", "cad",
          "inform", "certs", "port", "backend", "web", "brokers", "rooms"}
    /\ \A s \in {"mode", "password", "adverts", "hops", "discovery", "identity"} :
          Config!Section[s] = "repeater"
    /\ Config!Section["delays"] = "delays"
    /\ \A s \in {"route", "loop", "scope"} : Config!Section[s] = "mesh"
    /\ \A s \in {"airtime", "enforced"} : Config!Section[s] = "duty_cycle"
    /\ \A s \in {"modem", "cad"} : Config!Section[s] = "radio"
    /\ \A s \in {"inform", "certs"} : Config!Section[s] = "glass"
    /\ Config!Section["port"] = "kiss"
    /\ Config!Section["backend"] = "radio_type"
    /\ Config!Section["web"] = "web"
    /\ Config!Section["brokers"] = "mqtt_brokers"
    /\ Config!Section["rooms"] = "identities"
  BY DEF Config!Setting, Config!Section

(* What follows its section when that is published.                        *)
FollowsSection(s, sections) ==
    \/ s \in Config!Direct \cup Config!Refreshed(sections)
    \/ s = "discovery" /\ "repeater" \in sections
    \/ s = "port" /\ "kiss" \in sections

(* Of these sections everything follows but the identity.                  *)
LEMMA RepeaterFollows ==
    ASSUME NEW sections, NEW s \in Config!Setting \ {"identity"},
           Config!Section[s] \in sections,
           Config!Section[s] \in {"repeater", "mesh", "delays", "duty_cycle", "glass"}
    PROVE  FollowsSection(s, sections)
  BY SettingsBySection DEF FollowsSection, Config!Direct, Config!Refreshed

(* Some settings are saved and those of some sections read again.          *)
LEMMA SavedSettles ==
    ASSUME ConfigInv, NEW wanted, NEW by, NEW say, Config!Save(wanted),
           Config!Tell(wanted, say, by), saver' \in [Savers -> Nat], gone' = {},
           used' \in [Config!Setting -> Nat],
           \A s \in Config!Setting : used'[s] \in {used[s], live'[s]},
           say = "applied" /\ by \notin Excused
              => \A s \in wanted \cap Config!Setting : used'[s] = live'[s]
    PROVE  ConfigInv'
<1>1. /\ edits' = edits + 1 /\ saved' = Config!With(saved, wanted)
      /\ file' = Config!With(file, wanted) /\ live' = Config!With(live, wanted)
      /\ told' = [s \in Config!Setting |-> IF s \in wanted THEN [say |-> say, by |-> by]
                                           ELSE told[s]]
  BY DEF Config!Save, Config!Tell, Config!FromFile
<1>2. {saved', file', live', used'} \subseteq [Config!Setting -> Nat] /\ file' = saved'
  BY <1>1 DEF ConfigInv, Config!With
<1>3. ASSUME NEW s \in Config!Setting PROVE Settled(s)'
  <2>1. CASE s \in wanted
    <3>1. told'[s].say = say /\ told'[s].by = by /\ live'[s] = saved'[s]
      BY <1>1, <2>1 DEF Config!With
    <3>2. QED
      BY <2>1, <3>1 DEF Settled
  <2>2. CASE s \notin wanted
    <3>1. told'[s] = told[s] /\ live'[s] = live[s] /\ saved'[s] = saved[s]
      BY <1>1, <2>2 DEF Config!With
    <3>2. Settled(s)
      BY DEF ConfigInv
    <3>3. QED
      BY <3>1, <3>2 DEF Settled
  <2>3. QED
    BY <2>1, <2>2
<1>4. edits' \in Nat
  BY <1>1 DEF ConfigInv
<1>5. told' = [s \in Config!Setting |-> told'[s]]
  BY <1>1
<1>6. QED
  BY <1>2, <1>3, <1>4, <1>5 DEF ConfigInv

(* What is published is read by those that do not fail.                    *)
LEMMA PublishReads ==
    ASSUME ConfigInv, NEW wanted, NEW sections, NEW failed,
           Config!Save(wanted), Config!Publish(sections, failed)
    PROVE  /\ used' \in [Config!Setting -> Nat]
           /\ \A s \in Config!Setting :
                 /\ used'[s] \in {used[s], live'[s]}
                 /\ s \in Config!Direct \cup (Config!Refreshed(sections) \ failed)
                       => used'[s] = live'[s]
<1>1. live' \in [Config!Setting -> Nat]
  BY DEF ConfigInv, Config!Save, Config!With
<1>2. QED
  BY <1>1 DEF ConfigInv, Config!Publish

(* A failed save leaves everything as it was.                              *)
LEMMA FailsKeeps ==
    ASSUME ConfigInv, NEW wanted, Config!Fails(wanted)
    PROVE  ConfigInv'
  BY DEF ConfigInv, Config!Fails, Config!NotSaved, Settled

(* A change keeps the invariant if what it wants follows, unless the answer*)
(* is that it waits for a restart anyway.                                  *)
LEMMA UpdateKeeps ==
    ASSUME ConfigInv, NEW by, NEW wanted, NEW sections, NEW restart \in BOOLEAN,
           Config!Update(by, wanted, sections, restart),
           \/ restart \/ sections = {}
           \/ \A s \in wanted \cap Config!Setting :
                 FollowsSection(s, sections) \/ "radio_type" \in sections
    PROVE  ConfigInv'
<1>1. CASE Config!Fails(wanted)
  BY <1>1, FailsKeeps
<1>2. CASE ~Config!Fails(wanted)
  <2>1. Config!Save(wanted) /\ UNCHANGED <<saver, gone>>
    BY <1>2 DEF Config!Update
  <2> DEFINE Say(failed) ==
        IF sections # {} /\ failed = {} /\ Config!StartedAsNow(sections) /\ ~restart
           THEN "applied" ELSE "restart"
  <2>2. PICK failed : Config!Publish(sections, failed) /\ Config!Tell(wanted, Say(failed), by)
    BY <1>2 DEF Config!Update
  <2>3. /\ used' \in [Config!Setting -> Nat]
        /\ \A s \in Config!Setting :
              /\ used'[s] \in {used[s], live'[s]}
              /\ s \in Config!Direct \cup (Config!Refreshed(sections) \ failed)
                    => used'[s] = live'[s]
    BY <2>1, <2>2, PublishReads
  <2>4. ASSUME Say(failed) = "applied", NEW s \in wanted \cap Config!Setting
        PROVE  used'[s] = live'[s]
    <3>1. /\ sections # {} /\ failed = {} /\ ~restart /\ "radio_type" \notin sections
          /\ "repeater" \in sections => live'["discovery"] = used["discovery"]
          /\ "kiss" \in sections => live'["port"] = used["port"]
      BY <2>4 DEF Config!StartedAsNow
    <3>2. FollowsSection(s, sections)
      BY <3>1
    <3>3. QED
      BY <2>3, <3>1, <3>2 DEF FollowsSection
  <2>5. saver' \in [Savers -> Nat] /\ gone' = {}
    BY <2>1 DEF ConfigInv
  <2> HIDE DEF Say
  <2>6. QED
    BY <2>1, <2>2, <2>3, <2>4, <2>5, SavedSettles
<1>3. QED
  BY <1>1, <1>2

(* Changes that are asked for over the web and by the first fix.           *)
LEMMA WebKeeps ==
    ASSUME ConfigInv,
           \/ Config!SetMode \/ Config!SetDutyCycle \/ Config!UpdateAdvertLimits
           \/ Config!DefaultRegion \/ Config!UnscopedFlood \/ Config!ChangePassword
           \/ Config!GuestPassword \/ Config!GpsFix \/ Config!UpdateWeb
           \/ Config!UpdateBrokers \/ Config!VanityKey \/ Config!Setup
    PROVE  ConfigInv'
<1>1. /\ FollowsSection("mode", {"repeater"}) /\ FollowsSection("enforced", {"duty_cycle"})
      /\ FollowsSection("adverts", {"repeater"}) /\ FollowsSection("scope", {"mesh"})
      /\ FollowsSection("password", {"repeater"})
  BY DEF FollowsSection, Config!Direct, Config!Refreshed
<1>2. CASE Config!SetMode
  BY <1>1, <1>2, UpdateKeeps DEF Config!SetMode
<1>3. CASE Config!SetDutyCycle
  BY <1>1, <1>3, UpdateKeeps DEF Config!SetDutyCycle
<1>4. CASE Config!UpdateAdvertLimits
  BY <1>1, <1>4, UpdateKeeps DEF Config!UpdateAdvertLimits
<1>5. CASE Config!DefaultRegion \/ Config!UnscopedFlood
  BY <1>1, <1>5, UpdateKeeps DEF Config!DefaultRegion, Config!UnscopedFlood
<1>6. CASE Config!ChangePassword \/ Config!GuestPassword
  BY <1>1, <1>6, UpdateKeeps DEF Config!ChangePassword, Config!GuestPassword
<1>7. CASE Config!GpsFix
  BY <1>1, <1>7, UpdateKeeps DEF Config!GpsFix
<1>8. CASE Config!UpdateWeb \/ Config!UpdateBrokers \/ Config!VanityKey \/ Config!Setup
  BY <1>8, UpdateKeeps
     DEF Config!UpdateWeb, Config!UpdateBrokers, Config!VanityKey, Config!Setup
<1>9. QED
  BY <1>2, <1>3, <1>4, <1>5, <1>6, <1>7, <1>8

(* Changes of several settings at a time.                                  *)
LEMMA BatchKeeps ==
    ASSUME ConfigInv, NEW wanted \in SUBSET Config!Setting,
           \/ /\ wanted \subseteq {"airtime", "enforced"}
              /\ Config!UpdateDutyCycle(wanted)
           \/ /\ wanted \subseteq {"modem", "delays", "mode", "hops", "route", "loop", "port"}
              /\ Config!UpdateRadio(wanted)
           \/ Config!Import(wanted)
           \/ /\ "identity" \notin wanted
              /\ \E replace \in BOOLEAN : Config!ManagerUpdate(wanted, replace)
    PROVE  ConfigInv'
<1>1. CASE wanted \subseteq {"airtime", "enforced"} /\ Config!UpdateDutyCycle(wanted)
  <2>1. \A s \in wanted : FollowsSection(s, {"duty_cycle"})
    BY <1>1 DEF FollowsSection, Config!Direct, Config!Refreshed
  <2>2. QED
    BY <1>1, <2>1, UpdateKeeps DEF Config!UpdateDutyCycle
<1>2. CASE /\ wanted \subseteq {"modem", "delays", "mode", "hops", "route", "loop", "port"}
           /\ Config!UpdateRadio(wanted)
  <2> DEFINE sections == Config!Sections(wanted)
  <2>1. \A s \in wanted : Config!Section[s] \in sections
    BY DEF Config!Sections
  <2> HIDE DEF sections
  <2>2. \A s \in wanted : FollowsSection(s, sections)
    BY <1>2, <2>1, SettingsBySection DEF FollowsSection, Config!Direct, Config!Refreshed
  <2>3. QED
    BY <1>2, <2>2, UpdateKeeps DEF Config!UpdateRadio, sections
<1>3. CASE Config!Import(wanted)
  <2> DEFINE now == Config!Sections(wanted) \cap {"repeater", "mesh", "delays"}
             restart == Config!Sections(wanted) # now \/ "identity" \in wanted
  <2>1. restart \/ \A s \in wanted : FollowsSection(s, now)
    <3> SUFFICES ASSUME ~restart, NEW s \in wanted PROVE FollowsSection(s, now)
      OBVIOUS
    <3>1. Config!Section[s] \in now /\ s # "identity"
      BY DEF Config!Sections
    <3>2. QED
      BY <3>1, RepeaterFollows
  <2>2. Config!Update("web", wanted, now, restart)
    BY <1>3 DEF Config!Import
  <2> HIDE DEF now
  <2>3. restart \in BOOLEAN
    OBVIOUS
  <2> HIDE DEF restart
  <2>4. QED
    BY <2>1, <2>2, <2>3, UpdateKeeps
<1>4. ASSUME "identity" \notin wanted, NEW replace \in BOOLEAN,
             Config!ManagerUpdate(wanted, replace)
      PROVE  ConfigInv'
  <2> DEFINE sections == Config!Sections(wanted)
             now == sections \cap {"repeater", "mesh", "delays", "duty_cycle", "glass"}
             all == IF replace THEN Config!Of(sections) \ {"identity"} ELSE wanted
             restart == sections # now \/ (replace /\ "repeater" \in sections)
  <2>1. restart \/ \A s \in all : FollowsSection(s, now)
    <3> SUFFICES ASSUME ~restart, NEW s \in all PROVE FollowsSection(s, now)
      OBVIOUS
    <3>1. Config!Section[s] \in now /\ s # "identity" /\ s \in Config!Setting
      BY <1>4 DEF Config!Sections, Config!Of
    <3>2. QED
      BY <3>1, RepeaterFollows
  <2>2. Config!Update("manager", all, now, restart)
    BY <1>4 DEF Config!ManagerUpdate
  <2>3. restart \in BOOLEAN
    OBVIOUS
  <2> HIDE DEF now, all, restart
  <2>4. QED
    BY <2>1, <2>2, <2>3, UpdateKeeps
<1>5. QED
  BY <1>1, <1>2, <1>3, <1>4

(* Thresholds: saved under the lock, given to the radio after it.          *)
LEMMA CadKeeps ==
    ASSUME Config!AuthorsExcused, ConfigInv, NEW r \in Savers,
           Config!SaveCad(r) \/ Config!ApplyCad(r)
    PROVE  ConfigInv'
<1>1. CASE Config!Fails({"cad"})
  BY <1>1, FailsKeeps
<1>2. CASE Config!SaveCad(r) /\ ~Config!Fails({"cad"})
  <2>1. /\ Config!Save({"cad"}) /\ saver' = [saver EXCEPT ![r] = edits + 1] /\ gone' = gone
        /\ used' = [s \in Config!Setting |-> IF s \in Config!Direct THEN live'[s] ELSE used[s]]
        /\ Config!Tell({"cad"}, "nothing yet", "cad")
    BY <1>2 DEF Config!SaveCad
  <2>2. live' \in [Config!Setting -> Nat] /\ edits + 1 \in Nat
    <3>1. live' = Config!With(live, {"cad"})
      BY <2>1 DEF Config!Save
    <3>2. live \in [Config!Setting -> Nat] /\ edits \in Nat
      BY DEF ConfigInv
    <3>3. edits + 1 \in Nat
      BY <3>2
    <3>4. QED
      BY <3>1, <3>2, <3>3 DEF Config!With
  <2>3. /\ used' \in [Config!Setting -> Nat]
        /\ \A s \in Config!Setting : used'[s] \in {used[s], live'[s]}
    BY <2>1, <2>2 DEF ConfigInv
  <2>4. saver' \in [Savers -> Nat] /\ gone' = {}
    <3>1. saver \in [Savers -> Nat] /\ gone = {}
      BY DEF ConfigInv
    <3>2. QED
      BY <2>1, <2>2, <3>1
  <2>5. QED
    BY <2>1, <2>3, <2>4, SavedSettles
<1>3. CASE Config!ApplyCad(r)
  <2>1. PICK say : told' = [s \in Config!Setting |-> IF s \in {"cad"} THEN [say |-> say, by |-> "cad"]
                                                     ELSE told[s]]
    BY <1>3 DEF Config!ApplyCad, Config!Tell
  <2>2. /\ used' = [used EXCEPT !["cad"] = saver[r]] \/ used' = used
        /\ saver' = [saver EXCEPT ![r] = 0]
        /\ UNCHANGED <<saved, file, live, gone, edits>>
    BY <1>3 DEF Config!ApplyCad
  <2>3. saver[r] \in Nat /\ used \in [Config!Setting -> Nat]
    BY DEF ConfigInv
  <2>4. used' \in [Config!Setting -> Nat]
        /\ \A s \in Config!Setting \ {"cad"} : used'[s] = used[s]
    BY <2>2, <2>3
  <2>5. ASSUME NEW s \in Config!Setting PROVE Settled(s)'
    <3>1. CASE s = "cad"
      BY <2>1, <3>1 DEF Settled, Config!AuthorsExcused
    <3>2. CASE s # "cad"
      <4>1. Settled(s) /\ told'[s] = told[s] /\ used'[s] = used[s]
        BY <2>1, <2>4, <3>2 DEF ConfigInv
      <4>2. QED
        BY <2>2, <4>1 DEF Settled
    <3>3. QED
      BY <3>1, <3>2
  <2>6. told' = [s \in Config!Setting |-> told'[s]] /\ saver' \in [Savers -> Nat]
    BY <2>1, <2>2 DEF ConfigInv
  <2>7. QED
    BY <2>2, <2>4, <2>5, <2>6 DEF ConfigInv
<1>4. QED
  BY <1>1, <1>2, <1>3 DEF Config!SaveCad

(* Commands over the mesh.                                                 *)
LEMMA CommandKeeps ==
    ASSUME Config!AuthorsExcused, ConfigInv, NEW s \in Config!Setting, Config!CommandSet(s)
    PROVE  ConfigInv'
<1>1. CASE Config!Fails({s})
  BY <1>1, FailsKeeps
<1>2. CASE ~Config!Fails({s})
  <2>1. PICK sections, failed, say :
           /\ Config!Save({s}) /\ Config!Publish(sections, failed)
           /\ Config!Tell({s}, say, "cli") /\ UNCHANGED <<saver, gone>>
    BY <1>2 DEF Config!CommandSet
  <2>2. /\ used' \in [Config!Setting -> Nat]
        /\ \A z \in Config!Setting : used'[z] \in {used[z], live'[z]}
    BY <2>1, PublishReads
  <2>3. saver' \in [Savers -> Nat] /\ gone' = {} /\ "cli" \in Excused
    BY <2>1 DEF ConfigInv, Config!AuthorsExcused
  <2>4. QED
    BY <2>1, <2>2, <2>3, SavedSettles
<1>3. QED
  BY <1>1, <1>2

(* Certificates: the answer depends on the consumer, the file does not.    *)
LEMMA RenewKeeps ==
    ASSUME ConfigInv, Config!RenewCertificates
    PROVE  ConfigInv'
<1>1. CASE Config!Fails({"certs"})
  BY <1>1, FailsKeeps
<1>2. CASE ~Config!Fails({"certs"})
  <2> DEFINE Say(failed) == IF failed = {} THEN "applied" ELSE "restart"
  <2>1. PICK failed :
           /\ Config!Save({"certs"}) /\ Config!Publish({"glass"}, failed)
           /\ Config!Tell({"certs"}, Say(failed), "manager")
           /\ gone' = gone /\ saver' = saver
    BY <1>2 DEF Config!RenewCertificates, Config!RemoveUnlessSaved
  <2>2. /\ used' \in [Config!Setting -> Nat]
        /\ \A s \in Config!Setting :
              /\ used'[s] \in {used[s], live'[s]}
              /\ s \in Config!Direct \cup (Config!Refreshed({"glass"}) \ failed)
                    => used'[s] = live'[s]
    BY <2>1, PublishReads
  <2>3. Say(failed) = "applied" => \A s \in {"certs"} \cap Config!Setting : used'[s] = live'[s]
    BY <2>2 DEF Config!Refreshed
  <2>4. saver' \in [Savers -> Nat] /\ gone' = {}
    BY <2>1 DEF ConfigInv
  <2> HIDE DEF Say
  <2>5. QED
    BY <2>1, <2>2, <2>3, <2>4, SavedSettles
<1>3. QED
  BY <1>1, <1>2

(* What is for the next start only.                                        *)
LEMMA LaterKeeps ==
    ASSUME ConfigInv, NEW s, NEW by, Config!ForLater(s, by)
    PROVE  ConfigInv'
<1>1. /\ edits' = edits + 1 /\ saved' = Config!With(saved, {s})
      /\ file' = Config!With(file, {s})
      /\ told' = [z \in Config!Setting |-> IF z \in {s} THEN [say |-> "restart", by |-> by]
                                           ELSE told[z]]
      /\ UNCHANGED <<live, used, saver, gone>>
  BY DEF Config!ForLater, Config!FromFile, Config!Tell
<1>2. {saved', file', live', used'} \subseteq [Config!Setting -> Nat] /\ file' = saved'
  BY <1>1 DEF ConfigInv, Config!With
<1>3. ASSUME NEW z \in Config!Setting PROVE Settled(z)'
  <2>1. CASE z = s
    BY <1>1, <2>1 DEF Settled
  <2>2. CASE z # s
    <3>1. Settled(z) /\ told'[z] = told[z] /\ saved'[z] = saved[z]
      BY <1>1, <2>2 DEF ConfigInv, Config!With
    <3>2. QED
      BY <1>1, <3>1 DEF Settled
  <2>3. QED
    BY <2>1, <2>2
<1>4. told' = [z \in Config!Setting |-> told'[z]] /\ edits' \in Nat
  BY <1>1 DEF ConfigInv
<1>5. QED
  BY <1>1, <1>2, <1>3, <1>4 DEF ConfigInv

(* The daemon starts with what the file has.                               *)
LEMMA ConfigStart == (Config!Init => ConfigInv) /\ (ConfigInv /\ Config!Restart => ConfigInv')
<1>1. ASSUME Config!Init PROVE ConfigInv
  BY <1>1 DEF Config!Init, ConfigInv, Settled
<1>2. ASSUME ConfigInv, Config!Restart PROVE ConfigInv'
  BY <1>2 DEF Config!Restart, ConfigInv, Settled
<1>3. QED
  BY <1>1, <1>2

(* Every step keeps the invariant.                                         *)
LEMMA ConfigStep ==
    ASSUME Config!AuthorsExcused, ConfigInv, [Config!Next]_(Config!vars)
    PROVE  ConfigInv'
<1>1. CASE UNCHANGED Config!vars
  BY <1>1 DEF Config!vars, ConfigInv, Settled
<1>2. CASE Config!RoomCommand
  BY <1>2, LaterKeeps, FailsKeeps DEF Config!RoomCommand
<1>3. CASE \E s \in Config!Setting : Config!Stage(s)
  BY <1>3, LaterKeeps DEF Config!Stage
<1>4. CASE \E wanted \in Config!Batches({"airtime", "enforced"}) : Config!UpdateDutyCycle(wanted)
  <2>1. PICK wanted \in Config!Batches({"airtime", "enforced"}) : Config!UpdateDutyCycle(wanted)
    BY <1>4
  <2>2. wanted \subseteq {"airtime", "enforced"} /\ wanted \subseteq Config!Setting
    BY <2>1, SettingsBySection DEF Config!Batches
  <2>3. QED
    BY <2>1, <2>2, BatchKeeps
<1>5. CASE \E wanted \in Config!Batches({"modem", "delays", "mode", "hops", "route", "loop",
                                          "port"}) : Config!UpdateRadio(wanted)
  <2> DEFINE S == {"modem", "delays", "mode", "hops", "route", "loop", "port"}
  <2>1. PICK wanted \in Config!Batches(S) : Config!UpdateRadio(wanted)
    BY <1>5
  <2>2. wanted \subseteq S
    BY <2>1 DEF Config!Batches
  <2>3. S \subseteq Config!Setting
    BY SettingsBySection
  <2>4. QED
    BY <2>1, <2>2, <2>3, BatchKeeps
<1>6. CASE \E wanted \in Config!Batches(Config!Of({"repeater", "mesh", "radio", "delays",
                                        "web", "glass", "radio_type"})) : Config!Import(wanted)
  <2> DEFINE S == Config!Of({"repeater", "mesh", "radio", "delays", "web", "glass",
                             "radio_type"})
  <2>1. PICK wanted \in Config!Batches(S) : Config!Import(wanted)
    BY <1>6
  <2>2. S \subseteq Config!Setting
    BY DEF Config!Of
  <2> HIDE DEF S
  <2>3. wanted \subseteq S
    BY <2>1 DEF Config!Batches
  <2>4. QED
    BY <2>1, <2>2, <2>3, BatchKeeps
<1>7. CASE \E wanted \in Config!Batches(Config!Of({"repeater", "mesh", "delays", "duty_cycle",
                                        "glass", "web"}) \ {"identity"}), replace \in BOOLEAN :
              Config!ManagerUpdate(wanted, replace)
  <2> DEFINE S == Config!Of({"repeater", "mesh", "delays", "duty_cycle", "glass",
                             "web"}) \ {"identity"}
  <2>1. PICK wanted \in Config!Batches(S), replace \in BOOLEAN :
           Config!ManagerUpdate(wanted, replace)
    BY <1>7
  <2>2. S \subseteq Config!Setting \ {"identity"}
    BY DEF Config!Of
  <2> HIDE DEF S
  <2>3. wanted \subseteq S
    BY <2>1 DEF Config!Batches
  <2>4. QED
    BY <2>1, <2>2, <2>3, BatchKeeps
<1>8. CASE \E r \in Savers : Config!SaveCad(r) \/ Config!ApplyCad(r)
  BY <1>8, CadKeeps
<1>9. CASE \E s \in {"mode", "password", "adverts", "hops", "delays", "route", "loop", "modem"} :
              Config!CommandSet(s)
  <2>1. {"mode", "password", "adverts", "hops", "delays", "route", "loop", "modem"}
           \subseteq Config!Setting
    BY SettingsBySection
  <2>2. QED
    BY <1>9, <2>1, CommandKeeps
<1>10. CASE Config!RenewCertificates
  BY <1>10, RenewKeeps
<1>11. CASE Config!Restart
  BY <1>11, ConfigStart
<1>12. CASE \/ Config!SetMode \/ Config!SetDutyCycle \/ Config!UpdateAdvertLimits
            \/ Config!DefaultRegion \/ Config!UnscopedFlood \/ Config!ChangePassword
            \/ Config!GuestPassword \/ Config!GpsFix \/ Config!UpdateWeb
            \/ Config!UpdateBrokers \/ Config!VanityKey \/ Config!Setup
  BY <1>12, WebKeeps
<1>13. QED
  BY <1>1, <1>2, <1>3, <1>4, <1>5, <1>6, <1>7, <1>8, <1>9, <1>10, <1>11, <1>12
     DEF Config!Next

(* The invariant holds throughout, for any number of savers, edits and     *)
(* failures.                                                               *)
THEOREM ConfigInvariant == Config!AuthorsExcused => (Config!Spec => []ConfigInv)
<1> SUFFICES ASSUME Config!AuthorsExcused PROVE Config!Spec => []ConfigInv
  OBVIOUS
<1>1. Config!Init => ConfigInv
  BY ConfigStart
<1>2. ConfigInv /\ [Config!Next]_(Config!vars) => ConfigInv'
  BY ConfigStep
<1>3. QED
  BY <1>1, <1>2, PTL DEF Config!Spec

(* Whoever changes settings and whatever fails, the file has what was last *)
(* asked for, and an answer that it applies is true, but for the authors   *)
(* that are excused (config_manager.py:379).                               *)
THEOREM SettingsKept == Config!AuthorsExcused => (Config!Spec => []Config!Kept)
<1> SUFFICES ASSUME Config!AuthorsExcused PROVE Config!Spec => []Config!Kept
  OBVIOUS
<1>1. ConfigInv => Config!Kept
  BY DEF ConfigInv, Settled, Config!Kept
<1>2. QED
  BY <1>1, ConfigInvariant, PTL
=============================================================================
