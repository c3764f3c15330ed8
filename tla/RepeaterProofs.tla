--------------------------- MODULE RepeaterProofs ---------------------------
(***************************************************************************)
(* Theorems about Repeater, PacketRouter and PacketPolicy, through which   *)
(* every packet of the daemon goes.                                        *)
(*                                                                         *)
(* The engine's count of forwarded packets is right for any number of      *)
(* sending tasks, keys and packets, and its memory holds exactly the       *)
(* latest keys that are not expired, for any size and lifetime.            *)
(*                                                                         *)
(* The router asks no recipient twice at a time nor again while it owns    *)
(* the packet, and counts its tasks and the users of its locks right, for  *)
(* any number of calls, packets and recipients and any sizes.              *)
(*                                                                         *)
(* That the eviction may stop at the first fresh entry rests on the order  *)
(* of the memory: every mark moves its key to the end, so that entries are *)
(* never younger than those behind them (OrderInv).  That the router's     *)
(* copies share one answer rests on its locks: who is busy with a key is   *)
(* among its users, one of them holds it while the recipient is at work    *)
(* (LockInv), and between two questions the two dictionaries agree         *)
(* (CacheInv), though a cancelled caller leaves the lock to the recipient. *)
(*                                                                         *)
(* The policy: what runs is what was accepted last, and consumers of a     *)
(* packet get the same answer from one engine, however documents and       *)
(* packets interleave. A receipt names the engine that wrote it, and while *)
(* it does no other has that number (ReceiptRight); a packet that goes on  *)
(* after an answer carries the receipt of the latest (DecisionRight).      *)
(***************************************************************************)
EXTENDS Repeater, FiniteSetTheorems, WellFoundedInduction, TLAPS

JobType == [stage : {"none", "delay", "lock", "sending"},
            role : {"relay", "local", "extra"}, again : BOOLEAN]

(* The tasks whose packet was counted before it is sent.                   *)
CountedBefore(jobs) == {j \in Jobs : jobs[j] # NoJob /\ jobs[j].role # "extra"}

CountInv ==
    /\ job \in [Jobs -> JobType]
    /\ forwarded \in Int
    /\ sent \in Nat /\ elsewhere \in Nat /\ abandoned \in Nat
    /\ forwarded = sent + elsewhere + abandoned + Cardinality(CountedBefore(job))

-----------------------------------------------------------------------------
(* What a change of one task does to the number of counted ones.           *)

(* The counted tasks are finitely many, so their number is one.            *)
LEMMA CountIsNat ==
    ASSUME IsFiniteSet(Jobs), NEW jobs
    PROVE  /\ IsFiniteSet(CountedBefore(jobs))
           /\ Cardinality(CountedBefore(jobs)) \in Nat
<1>1. CountedBefore(jobs) \subseteq Jobs
  BY DEF CountedBefore
<1>2. IsFiniteSet(CountedBefore(jobs))
  BY <1>1, FS_Subset
<1> QED
  BY <1>2, FS_CardinalityType

(* A task that begins to be counted raises the count by one.               *)
LEMMA CountOneMore ==
    ASSUME IsFiniteSet(Jobs), NEW jobs, NEW new, NEW j \in Jobs,
           j \notin CountedBefore(jobs),
           CountedBefore(new) = CountedBefore(jobs) \cup {j}
    PROVE  Cardinality(CountedBefore(new)) = Cardinality(CountedBefore(jobs)) + 1
BY CountIsNat, FS_AddElement

(* A task that ceases to be counted lowers it by one.                      *)
LEMMA CountOneLess ==
    ASSUME IsFiniteSet(Jobs), NEW jobs, NEW new, NEW j \in Jobs,
           j \in CountedBefore(jobs),
           CountedBefore(new) = CountedBefore(jobs) \ {j}
    PROVE  Cardinality(CountedBefore(new)) = Cardinality(CountedBefore(jobs)) - 1
BY CountIsNat, FS_RemoveElement

-----------------------------------------------------------------------------
LEMMA CountInit == ASSUME Init PROVE CountInv
<1>1. CountedBefore(job) = {}
  BY DEF Init, CountedBefore
<1>2. job \in [Jobs -> JobType]
  BY DEF Init, NoJob, JobType
<1>3. Cardinality(CountedBefore(job)) = 0
  BY <1>1, FS_EmptySet
<1>4. forwarded = 0 /\ sent = 0 /\ elsewhere = 0 /\ abandoned = 0
  BY DEF Init
<1> QED
  BY <1>2, <1>3, <1>4 DEF CountInv

LEMMA CountStep ==
    ASSUME IsFiniteSet(Jobs), CountInv, [Next]_vars
    PROVE  CountInv'
<1> USE DEF CountInv, outcomes
<1>0. Cardinality(CountedBefore(job)) \in Nat
  BY CountIsNat
<1>1. CASE UNCHANGED <<job, forwarded, outcomes>>
  BY <1>1 DEF CountedBefore
<1>2. ASSUME NEW p \in Packets, NEW ack \in BOOLEAN, NEW allowed \in BOOLEAN,
             NEW j \in Jobs, NEW x \in Jobs, Relay(p, ack, j, x, allowed)
      PROVE  CountInv'
  <2>1. job' \in [Jobs -> JobType]
    BY <1>2 DEF Relay, Begun, JobType
  <2>2. CASE allowed
    <3>1. CountedBefore(job') = CountedBefore(job) \cup {j}
      BY <1>2, <2>2 DEF Relay, Begun, CountedBefore, NoJob
    <3>2. j \notin CountedBefore(job)
      BY <1>2 DEF Relay, CountedBefore
    <3>3. Cardinality(CountedBefore(job')) = Cardinality(CountedBefore(job)) + 1
      BY <3>1, <3>2, CountOneMore
    <3> QED
      BY <1>0, <1>2, <2>1, <2>2, <3>3 DEF Relay
  <2>3. CASE ~allowed
    <3>1. CountedBefore(job') = CountedBefore(job)
      BY <1>2, <2>3 DEF Relay, Begun, CountedBefore, NoJob
    <3> QED
      BY <1>2, <2>1, <2>3, <3>1 DEF Relay, CountedBefore
  <2> QED
    BY <2>2, <2>3
<1>3. ASSUME NEW k \in Keys, NEW j \in Jobs, Originate(k, j)
      PROVE  CountInv'
  <2>1. CASE mode = "no_tx"
    BY <1>1, <1>3, <2>1 DEF Originate
  <2>2. CASE mode # "no_tx"
    <3>0. job[j] = NoJob /\ job' = [job EXCEPT ![j] = Begun("local")]
      BY <1>3, <2>2 DEF Originate
    <3>1. job' \in [Jobs -> JobType]
      <4>1. Begun("local") \in JobType
        BY DEF Begun, JobType
      <4> QED
        BY <3>0, <4>1
    <3>2. CountedBefore(job') = CountedBefore(job) \cup {j}
      BY <3>0 DEF Begun, CountedBefore, NoJob
    <3>3. j \notin CountedBefore(job)
      BY <1>3 DEF Originate, CountedBefore
    <3>4. Cardinality(CountedBefore(job')) = Cardinality(CountedBefore(job)) + 1
      BY <3>2, <3>3, CountOneMore
    <3> QED
      BY <1>0, <1>3, <2>2, <3>1, <3>4 DEF Originate
  <2> QED
    BY <2>1, <2>2
<1>4. ASSUME NEW j \in Jobs, Wake(j) \/ Transmit(j)
      PROVE  CountInv'
  <2>1. job' \in [Jobs -> JobType]
    BY <1>4 DEF Wake, Transmit, JobType
  <2>2. CountedBefore(job') = CountedBefore(job)
    BY <1>4 DEF Wake, Transmit, Enter, CountedBefore, NoJob, JobType
  <2> QED
    BY <1>4, <2>1, <2>2 DEF Wake, Transmit, CountedBefore
(* The end of a task that is not tried again.                              *)
<1>5. ASSUME NEW j \in Jobs, job[j] # NoJob, job' = [job EXCEPT ![j] = NoJob]
      PROVE  /\ job' \in [Jobs -> JobType]
             /\ Cardinality(CountedBefore(job')) =
                   IF job[j].role = "extra" THEN Cardinality(CountedBefore(job))
                   ELSE Cardinality(CountedBefore(job)) - 1
  <2>1. job' \in [Jobs -> JobType]
    BY <1>5 DEF NoJob, JobType
  <2>2. CountedBefore(job') = CountedBefore(job) \ {j}
    BY <1>5 DEF CountedBefore
  <2>3. CASE job[j].role = "extra"
    <3>1. CountedBefore(job') = CountedBefore(job)
      BY <2>2, <2>3 DEF CountedBefore
    <3> QED
      BY <2>1, <2>3, <3>1
  <2>4. CASE job[j].role # "extra"
    <3>1. j \in CountedBefore(job)
      BY <1>5, <2>4 DEF CountedBefore
    <3> QED
      BY <2>1, <2>2, <2>4, <3>1, CountOneLess
  <2> QED
    BY <2>3, <2>4
<1>6. ASSUME NEW j \in Jobs, Refuse(j) \/ Sent(j)
      PROVE  CountInv'
  <2>1. job[j] # NoJob /\ job' = [job EXCEPT ![j] = NoJob]
    BY <1>6 DEF Refuse, Sent, Enter, NoJob
  <2> QED
    <3> DEFINE left == Cardinality(CountedBefore(job'))
    <3>1. /\ job' \in [Jobs -> JobType]
          /\ left = IF job[j].role = "extra" THEN Cardinality(CountedBefore(job))
                    ELSE Cardinality(CountedBefore(job)) - 1
      BY <1>5, <2>1
    <3>2. forwarded' = sent' + elsewhere' + abandoned' + left
      BY <1>0, <1>6, <3>1 DEF Refuse, Sent
    <3>3. forwarded' \in Int /\ sent' \in Nat /\ elsewhere' \in Nat /\ abandoned' \in Nat
      BY <1>6 DEF Refuse, Sent
    <3> QED
      BY <3>1, <3>2, <3>3
<1>7. ASSUME NEW j \in Jobs, Fails(j)
      PROVE  CountInv'
  <2>1. CASE job[j].role = "local" /\ ~job[j].again
    <3> DEFINE waiting == [job[j] EXCEPT !.stage = "delay", !.again = TRUE]
    <3>0. job[j].stage = "sending" /\ job' = [job EXCEPT ![j] = waiting]
      BY <1>7, <2>1 DEF Fails
    <3>1. /\ waiting \in JobType
          /\ waiting # NoJob
          /\ waiting.role = job[j].role
      BY <2>1 DEF JobType, NoJob
    <3> HIDE DEF waiting
    <3>2. job' \in [Jobs -> JobType]
      BY <3>0, <3>1
    <3>3. CountedBefore(job') = CountedBefore(job)
      BY <3>0, <3>1 DEF CountedBefore, NoJob
    <3> QED
      BY <1>7, <2>1, <3>2, <3>3 DEF Fails
  <2>2. CASE ~(job[j].role = "local" /\ ~job[j].again)
    <3>1. job[j] # NoJob /\ job' = [job EXCEPT ![j] = NoJob]
      BY <1>7, <2>2 DEF Fails, NoJob
    <3>2. /\ job' \in [Jobs -> JobType]
          /\ Cardinality(CountedBefore(job')) =
                IF job[j].role = "extra" THEN Cardinality(CountedBefore(job))
                ELSE Cardinality(CountedBefore(job)) - 1
      BY <1>5, <3>1
    <3>3. UNCHANGED outcomes /\ forwarded' \in Int
      BY <1>7, <2>2 DEF Fails
    <3>4. forwarded' = sent' + elsewhere' + abandoned' + Cardinality(CountedBefore(job'))
      BY <1>0, <1>7, <2>2, <3>2 DEF Fails
    <3> QED
      BY <3>2, <3>3, <3>4
  <2> QED
    BY <2>1, <2>2
<1>8. ASSUME NEW p \in Packets, Ignore(p) \/ RelayByBridge(p)
      PROVE  CountInv'
  BY <1>1, <1>8 DEF Ignore, RelayByBridge
<1>9. ASSUME NEW k \in Keys, Announced(k)
      PROVE  CountInv'
  BY <1>1, <1>9 DEF Announced
<1>10. ASSUME NEW m \in {"forward", "monitor", "no_tx"}, SetMode(m)
       PROVE  CountInv'
  BY <1>1, <1>10 DEF SetMode
<1>11. CASE CleanUp \/ Tick \/ UNCHANGED vars
  BY <1>1, <1>11 DEF CleanUp, Tick, vars
<1>12. ASSUME NEW j \in Jobs, Cancelled(j)
       PROVE  CountInv'
  <2>1. job[j] # NoJob /\ job' = [job EXCEPT ![j] = NoJob]
    BY <1>12 DEF Cancelled
  <2> DEFINE left == Cardinality(CountedBefore(job'))
  <2>2. /\ job' \in [Jobs -> JobType]
        /\ left = IF job[j].role = "extra" THEN Cardinality(CountedBefore(job))
                  ELSE Cardinality(CountedBefore(job)) - 1
    BY <1>5, <2>1
  <2>3. forwarded' = sent' + elsewhere' + abandoned' + left
    BY <1>0, <1>12, <2>2 DEF Cancelled
  <2>4. forwarded' \in Int /\ sent' \in Nat /\ elsewhere' \in Nat /\ abandoned' \in Nat
    BY <1>12 DEF Cancelled
  <2> QED
    BY <2>2, <2>3, <2>4
<1>13. CASE CountElsewhere
  BY <1>0, <1>13 DEF CountElsewhere, CountedBefore
<1> QED
  BY <1>2, <1>3, <1>4, <1>6, <1>7, <1>8, <1>9, <1>10, <1>11, <1>12, <1>13 DEF Next, Send

(* forwarded_count is raised before a packet is sent and put right in four *)
(* places of engine.py: with finitely many tasks it is what was sent, what *)
(* is being sent and what others counted, and exceeds that by the packets  *)
(* whose task was cancelled.                                               *)
THEOREM CountAlwaysRight ==
    ASSUME IsFiniteSet(Jobs)
    PROVE  Spec => []ForwardedCounted
<1>1. CountInv => ForwardedCounted
  BY DEF CountInv, ForwardedCounted, CountedBefore
<1> QED
  BY <1>1, CountInit, CountStep, PTL DEF Spec

-----------------------------------------------------------------------------
(* The memory of the packets seen.  What is kept is told by the positions  *)
(* that are kept: here for all from one on, and for all but one.           *)

(* All from position f on.                                                 *)
LEMMA KeptFrom ==
    ASSUME NEW S, NEW s \in Seq(S), NEW T, NEW f \in 1..(Len(s) + 1),
           \A i \in 1..Len(s) : s[i] \in T <=> i >= f
    PROVE  Kept(s, T) = SubSeq(s, f, Len(s))
<1> DEFINE n == Len(s)
<1> DEFINE at == {i \in DOMAIN s : s[i] \in T}
<1> DEFINE nth(j) == CHOOSE i \in at : Cardinality({h \in at : h <= i}) = j
<1>1. n \in Nat /\ f \in Nat \ {0} /\ DOMAIN s = 1..n
  OBVIOUS
<1>2. at = f..n
  BY <1>1
<1>3. Cardinality(at) = n - f + 1
  <2>1. n \in Int /\ f \in Int /\ f <= n + 1
    BY <1>1
  <2> HIDE DEF n, at
  <2>2. Cardinality(f..n) = n - f + 1
    <3>1. Cardinality(f..n) = IF f > n THEN 0 ELSE n - f + 1
      BY <2>1, FS_Interval, Zenon
    <3>2. QED
      BY <2>1, <3>1
  <2>3. QED
    BY <1>2, <2>2, Zenon
<1>4. ASSUME NEW j \in 1..(n - f + 1)
      PROVE  nth(j) = f + j - 1
  <2>1. ASSUME NEW i \in at
        PROVE  Cardinality({h \in at : h <= i}) = i - f + 1
    <3>1. {h \in at : h <= i} = f..i /\ i \in Int /\ f <= i
      BY <1>1, <1>2
    <3>2. Cardinality(f..i) = i - f + 1
      BY <1>1, <3>1, FS_Interval
    <3>3. QED
      BY <3>1, <3>2, Zenon
  <2>2. f + j - 1 \in at
    BY <1>1, <1>2
  <2>3. \A i \in at : i \in Int
    BY <1>1, <1>2
  <2> HIDE DEF at, n
  <2>4. \A i \in at : Cardinality({h \in at : h <= i}) = j <=> i = f + j - 1
    BY <1>1, <2>1, <2>3
  <2>5. QED
    BY <2>2, <2>4
<1>5. Kept(s, T) = [j \in 1..(n - f + 1) |-> s[f + j - 1]]
  <2>1. Kept(s, T) = [j \in 1..Cardinality(at) |-> s[nth(j)]]
    BY DEF Kept
  <2> HIDE DEF at, nth, n
  <2>2. QED
    BY <1>3, <1>4, <2>1
<1>6. SubSeq(s, f, n) = [j \in 1..(n - f + 1) |-> s[f + j - 1]]
  BY <1>1
<1>7. QED
  BY <1>5, <1>6

(* All but position p.                                                     *)
LEMMA KeptBut ==
    ASSUME NEW S, NEW s \in Seq(S), NEW T, NEW p \in 1..Len(s),
           \A i \in 1..Len(s) : s[i] \in T <=> i # p
    PROVE  Kept(s, T) = [j \in 1..(Len(s) - 1) |-> IF j < p THEN s[j] ELSE s[j+1]]
<1> DEFINE n == Len(s)
<1> DEFINE at == {i \in DOMAIN s : s[i] \in T}
<1> DEFINE nth(j) == CHOOSE i \in at : Cardinality({h \in at : h <= i}) = j
<1>1. n \in Nat \ {0} /\ p \in 1..n /\ DOMAIN s = 1..n
  OBVIOUS
<1>2. at = (1..n) \ {p}
  BY <1>1
<1>3. Cardinality(at) = n - 1
  <2>1. IsFiniteSet(1..n) /\ Cardinality(1..n) = n
    BY <1>1, FS_Interval
  <2>2. QED
    BY <1>1, <1>2, <2>1, FS_RemoveElement
<1>4. ASSUME NEW j \in 1..(n - 1)
      PROVE  nth(j) = IF j < p THEN j ELSE j + 1
  <2>1. ASSUME NEW i \in at
        PROVE  Cardinality({h \in at : h <= i}) = IF i < p THEN i ELSE i - 1
    <3>1. IsFiniteSet(1..i) /\ Cardinality(1..i) = i /\ i \in 1..n
      BY <1>1, <1>2, FS_Interval
    <3>2. CASE i < p
      <4>1. {h \in at : h <= i} = 1..i
        BY <1>1, <1>2, <3>1, <3>2
      <4>2. QED
        BY <3>1, <3>2, <4>1
    <3>3. CASE ~(i < p)
      <4>1. {h \in at : h <= i} = (1..i) \ {p} /\ p \in 1..i
        BY <1>1, <1>2, <3>1, <3>3
      <4>2. QED
        BY <3>1, <3>3, <4>1, FS_RemoveElement
    <3>4. QED
      BY <3>2, <3>3
  <2> DEFINE x == IF j < p THEN j ELSE j + 1
  <2>2. x \in at /\ x \in Int
    BY <1>1, <1>2
  <2>3. \A i \in at : i \in 1..n /\ i # p
    BY <1>1, <1>2
  <2> HIDE DEF at, n
  <2>4. \A i \in at : Cardinality({h \in at : h <= i}) = j <=> i = x
    BY <1>1, <2>1, <2>3
  <2>5. QED
    BY <2>2, <2>4
<1>5. Kept(s, T) = [j \in 1..(n - 1) |-> s[IF j < p THEN j ELSE j + 1]]
  <2>1. Kept(s, T) = [j \in 1..Cardinality(at) |-> s[nth(j)]]
    BY DEF Kept
  <2> HIDE DEF at, nth, n
  <2>2. QED
    BY <1>3, <1>4, <2>1
<1>6. QED
  BY <1>5

LessThan == {p \in Nat \X Nat : p[1] < p[2]}

(* Every nonempty set of naturals has a least element.                     *)
LEMMA LeastNumber ==
    ASSUME NEW T, T \subseteq Nat, T # {}
    PROVE  \E x \in T : \A y \in T : x <= y
<1>1. IsWellFoundedOn(LessThan, Nat)
  <2>1. LessThan = OpToRel(<, Nat)
    BY Zenon DEF LessThan, OpToRel
  <2>2. QED
    BY <2>1, NatLessThanWellFounded, Zenon
<1>2. PICK x \in T : \A y \in T : ~ (<<y, x>> \in LessThan)
  BY <1>1, WFMin
<1>3. ASSUME NEW y \in T
      PROVE  x <= y
  <2>1. x \in Nat /\ y \in Nat
    OBVIOUS
  <2>2. <<y, x>> \in Nat \X Nat
    BY <2>1
  <2>3. ~ (<<y, x>>[1] < <<y, x>>[2])
    BY <1>2, <2>2, Zenon DEF LessThan
  <2>4. QED
    BY <2>1, <2>3
<1>4. QED
  BY <1>3

(* recent lists the keys from the longest to the shortest unmarked.        *)
OrderInv ==
    /\ recent \in Seq(Keys)
    /\ stamp \in [Keys -> Nat]
    /\ \A i, j \in 1..Len(recent) : recent[i] = recent[j] => i = j
    /\ \A i, j \in 1..Len(recent) : i <= j => stamp[recent[j]] <= stamp[recent[i]]

(* The memory s is the end of recent; what is not in it was not among the  *)
(* MaxSeen latest or is expired.                                           *)
Remembers(s) ==
    LET gap == Len(recent) - Len(s)
    IN  /\ s \in Seq(Keys)
        /\ Len(s) <= MaxSeen
        /\ gap >= 0
        /\ \A i \in 1..Len(s) : s[i] = recent[gap + i]
        /\ \A i \in 1..gap : i > Len(recent) - MaxSeen => stamp[recent[i]] > TTL

Limits == MaxSeen \in Nat /\ TTL \in Nat

(* Expired entries may leave from the front.                               *)
LEMMA ExpiredLeave ==
    ASSUME Limits, OrderInv, NEW s, Remembers(s), NEW f \in 1..(Len(s) + 1),
           \A i \in 1..Len(s) : i < f => stamp[s[i]] > TTL
    PROVE  Remembers(SubSeq(s, f, Len(s)))
<1> DEFINE n == Len(recent)
<1> DEFINE m == Len(s)
<1> DEFINE t == SubSeq(s, f, m)
<1> DEFINE gap == n - m
<1>1. /\ n \in Nat /\ m \in Nat /\ f \in Nat \ {0} /\ f <= m + 1 /\ gap \in Nat
      /\ s \in Seq(Keys) /\ m <= MaxSeen /\ MaxSeen \in Nat
  BY DEF Remembers, OrderInv, Limits
<1>2. /\ t \in Seq(Keys) /\ Len(t) = m - f + 1
      /\ \A i \in 1..Len(t) : t[i] = s[f + i - 1]
  BY <1>1
<1>3. \A i \in 1..m : s[i] = recent[gap + i]
  BY DEF Remembers
<1>4. \A i \in 1..gap : i > n - MaxSeen => stamp[recent[i]] > TTL
  BY DEF Remembers
<1>5. n - Len(t) = gap + f - 1 /\ n - Len(t) >= 0 /\ Len(t) <= MaxSeen
  BY <1>1, <1>2
<1> HIDE DEF t, gap, n, m
<1>6. \A i \in 1..Len(t) : t[i] = recent[gap + f - 1 + i]
  <2> SUFFICES ASSUME NEW i \in 1..Len(t)
               PROVE  t[i] = recent[gap + f - 1 + i]
    OBVIOUS
  <2>1. f + i - 1 \in 1..m /\ gap + (f + i - 1) = gap + f - 1 + i
    BY <1>1, <1>2
  <2>2. QED
    BY <1>2, <1>3, <2>1
<1>7. ASSUME NEW i \in 1..(gap + f - 1), i > n - MaxSeen
      PROVE  stamp[recent[i]] > TTL
  <2>1. CASE i <= gap
    BY <1>1, <1>4, <1>7, <2>1
  <2>2. CASE i > gap
    <3>1. i - gap \in 1..m /\ i - gap < f /\ gap + (i - gap) = i
      BY <1>1, <2>2
    <3>2. QED
      BY <1>3, <3>1 DEF m
  <2>3. QED
    BY <1>1, <2>1, <2>2
<1>8. QED
  BY <1>2, <1>5, <1>6, <1>7 DEF Remembers, t, n, m

(* In the memory the fresh entries are behind the expired ones.            *)
LEMMA FreshAreLast ==
    ASSUME Limits, OrderInv, NEW s, Remembers(s)
    PROVE  \E f \in 1..(Len(s) + 1) :
              /\ \A i \in 1..Len(s) : stamp[s[i]] <= TTL <=> i >= f
              /\ Evicted(s) = SubSeq(s, f, Len(s))
<1> DEFINE gap == Len(recent) - Len(s)
<1>1. /\ s \in Seq(Keys) /\ Len(s) \in Nat /\ gap \in Nat /\ gap + Len(s) = Len(recent)
      /\ DOMAIN s = 1..Len(s) /\ TTL \in Nat
      /\ \A i \in 1..Len(s) : s[i] = recent[gap + i] /\ stamp[s[i]] \in Nat
  BY DEF Remembers, OrderInv, Limits
<1>2. \A i, j \in 1..Len(s) : i <= j => stamp[s[j]] <= stamp[s[i]]
  <2> SUFFICES ASSUME NEW i \in 1..Len(s), NEW j \in 1..Len(s), i <= j
               PROVE  stamp[s[j]] <= stamp[s[i]]
    OBVIOUS
  <2>1. gap + i \in 1..Len(recent) /\ gap + j \in 1..Len(recent) /\ gap + i <= gap + j
    BY <1>1
  <2>2. QED
    BY <1>1, <2>1 DEF OrderInv
<1>3. CASE \E i \in DOMAIN s : stamp[s[i]] <= TTL
  <2> DEFINE First(i) == stamp[s[i]] <= TTL /\ \A j \in 1..(i - 1) : stamp[s[j]] > TTL
  <2>1. \E i \in DOMAIN s : First(i)
    <3> DEFINE T == {i \in 1..Len(s) : stamp[s[i]] <= TTL}
    <3>1. T \subseteq Nat /\ T # {} /\ T \subseteq 1..Len(s)
      BY <1>1, <1>3
    <3> HIDE DEF T
    <3>2. PICK i \in T : \A j \in T : i <= j
      BY <3>1, LeastNumber
    <3>3. \A j \in 1..(i - 1) : j \in 1..Len(s) /\ ~(i <= j)
      BY <1>1, <3>1
    <3>4. i \in DOMAIN s /\ stamp[s[i]] <= TTL
      BY <1>1, <3>2 DEF T
    <3>5. ASSUME NEW j \in 1..(i - 1)
          PROVE  stamp[s[j]] > TTL
      <4>1. j \in 1..Len(s) /\ j \notin T
        BY <3>2, <3>3, <3>5
      <4>2. QED
        BY <1>1, <4>1 DEF T
    <3>6. QED
      BY <3>4, <3>5
  <2> DEFINE f == CHOOSE i \in DOMAIN s : First(i)
  <2>2. f \in DOMAIN s /\ First(f)
    BY <2>1
  <2>3. Evicted(s) = SubSeq(s, f, Len(s))
    BY <1>3 DEF Evicted
  <2> HIDE DEF f
  <2>4. \A i \in 1..Len(s) : stamp[s[i]] <= TTL <=> i >= f
    <3> SUFFICES ASSUME NEW i \in 1..Len(s)
                 PROVE  stamp[s[i]] <= TTL <=> i >= f
      OBVIOUS
    <3>1. CASE i >= f
      BY <1>1, <1>2, <2>2, <3>1
    <3>2. CASE ~(i >= f)
      <4>1. i \in 1..(f - 1)
        BY <1>1, <2>2, <3>2
      <4>2. QED
        BY <1>1, <2>2, <3>2, <4>1
    <3>3. QED
      BY <3>1, <3>2
  <2>5. f \in 1..(Len(s) + 1)
    BY <1>1, <2>2
  <2>6. QED
    BY <2>3, <2>4, <2>5
<1>4. CASE ~ \E i \in DOMAIN s : stamp[s[i]] <= TTL
  <2>1. Evicted(s) = <<>>
    BY <1>4 DEF Evicted
  <2>2. SubSeq(s, Len(s) + 1, Len(s)) = <<>>
    BY <1>1
  <2>3. \A i \in 1..Len(s) : stamp[s[i]] <= TTL <=> i >= Len(s) + 1
    BY <1>1, <1>4
  <2>4. Len(s) + 1 \in 1..(Len(s) + 1) /\ Evicted(s) = SubSeq(s, Len(s) + 1, Len(s))
    BY <1>1, <2>1, <2>2
  <2>5. QED
    BY <2>3, <2>4
<1>5. QED
  BY <1>3, <1>4

(* The eviction lets all expired entries go, and no other.                 *)
LEMMA EvictingKeeps ==
    ASSUME Limits, OrderInv, NEW s, Remembers(s)
    PROVE  Remembers(Evicted(s))
<1>1. PICK f \in 1..(Len(s) + 1) :
              /\ \A i \in 1..Len(s) : stamp[s[i]] <= TTL <=> i >= f
              /\ Evicted(s) = SubSeq(s, f, Len(s))
  BY FreshAreLast
<1>2. \A i \in 1..Len(s) : stamp[s[i]] \in Nat /\ i \in Int
  BY DEF Remembers, OrderInv
<1>3. \A i \in 1..Len(s) : i < f => stamp[s[i]] > TTL
  BY <1>1, <1>2 DEF Limits
<1>4. QED
  BY <1>1, <1>3, ExpiredLeave

(* So does the clean-up, which looks at every entry.                       *)
LEMMA CleaningKeeps ==
    ASSUME Limits, OrderInv, Remembers(seen)
    PROVE  Kept(seen, {k \in Keys : stamp[k] <= TTL}) = Evicted(seen)
<1>1. PICK f \in 1..(Len(seen) + 1) :
              /\ \A i \in 1..Len(seen) : stamp[seen[i]] <= TTL <=> i >= f
              /\ Evicted(seen) = SubSeq(seen, f, Len(seen))
  BY FreshAreLast
<1>2. seen \in Seq(Keys)
  BY DEF Remembers
<1>3. \A i \in 1..Len(seen) : seen[i] \in {k \in Keys : stamp[k] <= TTL} <=> i >= f
  BY <1>1, <1>2
<1>4. QED
  BY <1>1, <1>2, <1>3, KeptFrom

-----------------------------------------------------------------------------
(* No key is there twice.                                                  *)
Once(s) == \A i, j \in 1..Len(s) : s[i] = s[j] => i = j

(* A key that is marked moves to the end, and nothing else moves.          *)
LEMMA MovedNew ==
    ASSUME NEW s \in Seq(Keys), NEW k \in Keys, k \notin Elements(s)
    PROVE  Moved(s, k) = Append(s, k)
<1>1. \A i \in 1..Len(s) : s[i] \in Keys \ {k} <=> i >= 1
  BY DEF Elements
<1>2. 1 \in 1..(Len(s) + 1)
  OBVIOUS
<1>3. Kept(s, Keys \ {k}) = SubSeq(s, 1, Len(s))
  BY <1>1, <1>2, KeptFrom
<1>4. SubSeq(s, 1, Len(s)) = s
  OBVIOUS
<1>5. QED
  BY <1>3, <1>4 DEF Moved

LEMMA MovedKnown ==
    ASSUME NEW s \in Seq(Keys), Once(s), NEW p \in 1..Len(s)
    PROVE  /\ Moved(s, s[p]) \in Seq(Keys)
           /\ Len(Moved(s, s[p])) = Len(s)
           /\ \A i \in 1..Len(s) :
                 Moved(s, s[p])[i] = IF i < p THEN s[i]
                                     ELSE IF i < Len(s) THEN s[i+1]
                                     ELSE s[p]
<1> DEFINE k == s[p]
<1> DEFINE u == [j \in 1..(Len(s) - 1) |-> IF j < p THEN s[j] ELSE s[j+1]]
<1>1. \A i \in 1..Len(s) : s[i] \in Keys \ {k} <=> i # p
  BY DEF Once
<1>2. Kept(s, Keys \ {k}) = u
  BY <1>1, KeptBut
<1>3. u \in Seq(Keys) /\ Len(u) = Len(s) - 1
  OBVIOUS
<1>4. Moved(s, k) = Append(u, k) /\ k \in Keys
  <2>1. k \in Keys
    OBVIOUS
  <2> HIDE DEF k, u
  <2>2. QED
    BY <1>2, <2>1, Zenon DEF Moved
<1>5. \A i \in 1..(Len(s) - 1) : u[i] = IF i < p THEN s[i] ELSE s[i+1]
  OBVIOUS
<1> HIDE DEF u
<1>6. QED
  BY <1>3, <1>4, <1>5

(* The order of the keys after one is marked.                              *)
LEMMA MarkingKeepsOrder ==
    ASSUME OrderInv, NEW s, NEW k \in Keys, MarkSeen(s, k)
    PROVE  OrderInv'
<1>1. /\ recent' = Moved(recent, k) /\ stamp' = [stamp EXCEPT ![k] = 0]
      /\ recent \in Seq(Keys) /\ stamp \in [Keys -> Nat] /\ Once(recent)
  BY DEF MarkSeen, OrderInv, Once
<1>2. /\ stamp' \in [Keys -> Nat] /\ stamp'[k] = 0
      /\ \A x \in Keys : x # k => stamp'[x] = stamp[x]
  BY <1>1
<1>3. CASE k \notin Elements(recent)
  <2>1. recent' = Append(recent, k)
    BY <1>1, <1>3, MovedNew
  <2>2. PICK r \in Seq(Keys) : r = Append(recent, k)
    <3>1. Append(recent, k) \in Seq(Keys)
      BY <1>1
    <3>2. QED
      BY <3>1, Zenon
  <2>3. /\ Len(r) = Len(recent) + 1 /\ r[Len(r)] = k
        /\ \A i \in 1..Len(r) : i # Len(r) => i \in 1..Len(recent) /\ r[i] = recent[i] /\ r[i] # k
    BY <1>1, <1>3, <2>2 DEF Elements
  <2>4. \A i, j \in 1..Len(r) : r[i] = r[j] => i = j
    BY <1>1, <2>3 DEF Once
  <2>5. \A i, j \in 1..Len(r) : i <= j => stamp'[r[j]] <= stamp'[r[i]]
    <3> SUFFICES ASSUME NEW i \in 1..Len(r), NEW j \in 1..Len(r), i <= j
                 PROVE  stamp'[r[j]] <= stamp'[r[i]]
      OBVIOUS
    <3>1. r[i] \in Keys /\ r[j] \in Keys
      OBVIOUS
    <3>2. CASE j = Len(r)
      BY <1>2, <2>3, <3>1, <3>2
    <3>3. CASE j # Len(r)
      <4>1. i # Len(r)
        BY <3>3
      <4>2. stamp[recent[j]] <= stamp[recent[i]] /\ recent[j] # k /\ recent[i] # k
        BY <2>3, <3>3, <4>1 DEF OrderInv
      <4>3. QED
        BY <1>2, <2>3, <3>1, <3>3, <4>1, <4>2
    <3>4. QED
      BY <3>2, <3>3
  <2>6. QED
    BY <1>2, <2>1, <2>2, <2>4, <2>5 DEF OrderInv
<1>4. CASE k \in Elements(recent)
  <2>1. PICK p \in 1..Len(recent) : recent[p] = k
    BY <1>1, <1>4 DEF Elements
  <2>2. PICK r : r = Moved(recent, recent[p])
    OBVIOUS
  <2>3. /\ r \in Seq(Keys) /\ Len(r) = Len(recent) /\ recent' = r
        /\ \A i \in 1..Len(recent) :
              r[i] = IF i < p THEN recent[i]
                     ELSE IF i < Len(recent) THEN recent[i+1] ELSE recent[p]
    BY <1>1, <2>1, <2>2, MovedKnown
  <2> DEFINE at(i) == IF i < p THEN i ELSE IF i < Len(recent) THEN i + 1 ELSE p
  <2>4. \A i \in 1..Len(r) :
           /\ at(i) \in 1..Len(recent) /\ r[i] = recent[at(i)]
           /\ i < Len(r) => at(i) # p
           /\ i = Len(r) => at(i) = p
    BY <1>1, <2>3
  <2>5. \A i, j \in 1..Len(r) : i < j => at(i) # at(j) /\ (j < Len(r) => at(i) <= at(j))
    BY <1>1, <2>3
  <2> HIDE DEF at
  <2>6. \A i, j \in 1..Len(r) : r[i] = r[j] => i = j
    <3> SUFFICES ASSUME NEW i \in 1..Len(r), NEW j \in 1..Len(r), r[i] = r[j], i < j
                 PROVE  FALSE
      BY <2>3
    <3>1. at(i) = at(j)
      BY <1>1, <2>4 DEF Once
    <3>2. QED
      BY <2>5, <3>1
  <2>7. \A i, j \in 1..Len(r) : i <= j => stamp'[r[j]] <= stamp'[r[i]]
    <3> SUFFICES ASSUME NEW i \in 1..Len(r), NEW j \in 1..Len(r), i <= j
                 PROVE  stamp'[r[j]] <= stamp'[r[i]]
      OBVIOUS
    <3>1. r[i] \in Keys /\ r[j] \in Keys /\ Len(r) \in Nat
      BY <2>3
    <3>2. CASE j = Len(r)
      <4>1. r[j] = k
        BY <2>1, <2>4, <3>2
      <4>2. QED
        BY <1>2, <3>1, <4>1
    <3>3. CASE i = j
      BY <1>2, <3>1, <3>3
    <3>4. CASE i < j /\ j < Len(r)
      <4>1. at(i) <= at(j) /\ at(i) # p /\ at(j) # p
        BY <2>4, <2>5, <3>1, <3>4
      <4>2. stamp[r[j]] <= stamp[r[i]]
        BY <2>4, <4>1 DEF OrderInv
      <4>3. r[i] # k /\ r[j] # k
        BY <1>1, <2>1, <2>4, <4>1 DEF Once
      <4>4. QED
        BY <1>2, <3>1, <4>2, <4>3
    <3>5. QED
      BY <3>1, <3>2, <3>3, <3>4
  <2>8. QED
    BY <1>2, <2>3, <2>6, <2>7 DEF OrderInv
<1>5. QED
  BY <1>3, <1>4

(* The memory stays the end of recent when a key is marked in both.        *)
LEMMA MarkingKeeps ==
    ASSUME Limits, OrderInv, NEW s, Remembers(s), NEW k \in Keys, MarkSeen(s, k)
    PROVE  Remembers(seen)'
<1> DEFINE n == Len(recent)
<1> DEFINE m == Len(s)
<1> DEFINE gap == n - m
<1>1. /\ recent' = Moved(recent, k) /\ stamp' = [stamp EXCEPT ![k] = 0]
      /\ seen' = Bounded(Moved(s, k))
      /\ recent \in Seq(Keys) /\ stamp \in [Keys -> Nat] /\ Once(recent)
  BY DEF MarkSeen, Marked, OrderInv, Once
<1>2. /\ s \in Seq(Keys) /\ n \in Nat /\ m \in Nat /\ gap \in Nat /\ m <= MaxSeen
      /\ n = gap + m /\ MaxSeen \in Nat
      /\ \A i \in 1..m : s[i] = recent[gap + i]
      /\ \A i \in 1..gap : i > n - MaxSeen => stamp[recent[i]] > TTL
  BY DEF Remembers, OrderInv, Limits
<1>3. Once(s)
  <2> SUFFICES ASSUME NEW i \in 1..m, NEW j \in 1..m, s[i] = s[j]
               PROVE  i = j
    BY DEF Once
  <2>1. gap + i \in 1..n /\ gap + j \in 1..n /\ recent[gap + i] = recent[gap + j]
    BY <1>2
  <2>2. gap + i = gap + j
    BY <1>1, <2>1 DEF Once
  <2>3. QED
    BY <1>2, <2>2
<1>4. \A x \in Keys : x # k => stamp'[x] = stamp[x]
  BY <1>1
(* What has to be shown of the two sequences.                              *)
<1>5. ASSUME NEW r \in Seq(Keys), NEW t \in Seq(Keys), recent' = r, seen' = t,
             Len(t) <= MaxSeen, Len(t) <= Len(r),
             \A i \in 1..Len(t) : t[i] = r[Len(r) - Len(t) + i],
             \A i \in 1..(Len(r) - Len(t)) :
                i > Len(r) - MaxSeen => r[i] # k /\ stamp[r[i]] > TTL
      PROVE  Remembers(seen)'
  <2>1. Len(r) \in Nat /\ Len(t) \in Nat
    OBVIOUS
  <2>2. \A i \in 1..(Len(r) - Len(t)) : i > Len(r) - MaxSeen => stamp'[r[i]] > TTL
    BY <1>4, <1>5, <2>1
  <2>3. Len(r) - Len(t) >= 0
    BY <1>5, <2>1
  <2>4. QED
    BY <1>5, <2>2, <2>3 DEF Remembers
<1> HIDE DEF n, m, gap
<1>6. CASE k \notin Elements(recent)
  <2>1. k \notin Elements(s)
    <3> SUFFICES ASSUME NEW i \in 1..m, s[i] = k
                 PROVE  FALSE
      BY <1>2 DEF Elements, m
    <3>1. gap + i \in 1..n /\ recent[gap + i] = k
      BY <1>2
    <3>2. QED
      BY <1>1, <1>6, <3>1 DEF Elements, n
  <2>2. recent' = Append(recent, k) /\ seen' = Bounded(Append(s, k))
    BY <1>1, <1>2, <1>6, <2>1, MovedNew
  <2>3. PICK r, a : r = Append(recent, k) /\ a = Append(s, k)
    OBVIOUS
  <2>4. /\ r \in Seq(Keys) /\ Len(r) = n + 1 /\ r[n + 1] = k
        /\ \A i \in 1..n : r[i] = recent[i] /\ r[i] # k
        /\ a \in Seq(Keys) /\ Len(a) = m + 1 /\ a[m + 1] = k
        /\ \A i \in 1..m : a[i] = s[i]
    <3>1. \A i \in 1..n : recent[i] # k
      BY <1>1, <1>6 DEF n, Elements
    <3>2. /\ r \in Seq(Keys) /\ Len(r) = n + 1 /\ r[n + 1] = k
          /\ \A i \in 1..n : r[i] = recent[i]
      BY <1>1, <2>3 DEF n
    <3>3. /\ a \in Seq(Keys) /\ Len(a) = m + 1 /\ a[m + 1] = k
          /\ \A i \in 1..m : a[i] = s[i]
      BY <1>2, <2>3 DEF m
    <3>4. QED
      BY <3>1, <3>2, <3>3
  <2>5. \A i \in 1..(m + 1) : a[i] = r[gap + i]
    <3> SUFFICES ASSUME NEW i \in 1..(m + 1)
                 PROVE  a[i] = r[gap + i]
      OBVIOUS
    <3>1. CASE i = m + 1
      <4>1. gap + i = n + 1
        BY <1>2, <3>1
      <4>2. QED
        BY <2>4, <3>1, <4>1
    <3>2. CASE i # m + 1
      <4>1. i \in 1..m /\ gap + i \in 1..n
        BY <1>2, <3>2
      <4>2. QED
        BY <1>2, <2>4, <4>1
    <3>3. QED
      BY <3>1, <3>2
  <2>6. CASE m < MaxSeen
    <3>1. seen' = a
      BY <1>2, <2>2, <2>3, <2>4, <2>6 DEF Bounded
    <3>2. Len(r) - Len(a) = gap
      BY <1>2, <2>4
    <3>3. \A i \in 1..gap : i > n + 1 - MaxSeen => r[i] # k /\ stamp[r[i]] > TTL
      <4> SUFFICES ASSUME NEW i \in 1..gap, i > n + 1 - MaxSeen
                   PROVE  r[i] # k /\ stamp[r[i]] > TTL
        OBVIOUS
      <4>1. i \in 1..n /\ i > n - MaxSeen
        BY <1>2
      <4>2. QED
        BY <1>2, <2>4, <4>1
    <3>4. Len(a) <= MaxSeen /\ Len(a) <= Len(r)
      BY <1>2, <2>4, <2>6
    <3>5. /\ \A i \in 1..Len(a) : a[i] = r[Len(r) - Len(a) + i]
          /\ \A i \in 1..(Len(r) - Len(a)) :
                i > Len(r) - MaxSeen => r[i] # k /\ stamp[r[i]] > TTL
      <4>1. \A i \in 1..Len(a) : a[i] = r[Len(r) - Len(a) + i]
        BY <2>4, <2>5, <3>2
      <4>2. \A i \in 1..(Len(r) - Len(a)) :
               i > Len(r) - MaxSeen => r[i] # k /\ stamp[r[i]] > TTL
        BY <1>2, <2>4, <3>2, <3>3
      <4>3. QED
        BY <4>1, <4>2
    <3>6. QED
      BY <1>5, <2>2, <2>3, <2>4, <3>1, <3>4, <3>5
  <2>7. CASE m = MaxSeen
    <3>1. seen' = Tail(a)
      BY <1>2, <2>2, <2>3, <2>4, <2>7 DEF Bounded
    <3>2. PICK t : t = Tail(a)
      OBVIOUS
    <3>3. t \in Seq(Keys) /\ Len(t) = m /\ \A i \in 1..m : t[i] = a[i + 1]
      BY <1>2, <2>4, <3>2
    <3>4. Len(r) - Len(t) = gap + 1 /\ Len(t) <= MaxSeen /\ Len(t) <= Len(r)
      BY <1>2, <2>4, <2>7, <3>3
    <3>5. \A i \in 1..m : t[i] = r[gap + 1 + i]
      <4> SUFFICES ASSUME NEW i \in 1..m
                   PROVE  t[i] = r[gap + 1 + i]
        OBVIOUS
      <4>1. i + 1 \in 1..(m + 1) /\ gap + (i + 1) = gap + 1 + i
        BY <1>2
      <4>2. QED
        BY <2>5, <3>3, <4>1
    <3>6. \A i \in 1..(gap + 1) : ~(i > n + 1 - MaxSeen)
      BY <1>2, <2>7
    <3>7. /\ \A i \in 1..Len(t) : t[i] = r[Len(r) - Len(t) + i]
          /\ \A i \in 1..(Len(r) - Len(t)) :
                i > Len(r) - MaxSeen => r[i] # k /\ stamp[r[i]] > TTL
      <4>1. \A i \in 1..Len(t) : t[i] = r[Len(r) - Len(t) + i]
        BY <3>3, <3>4, <3>5
      <4>2. \A i \in 1..(Len(r) - Len(t)) : ~(i > Len(r) - MaxSeen)
        <5>1. Len(r) - Len(t) = gap + 1 /\ Len(r) - MaxSeen = n + 1 - MaxSeen
          BY <1>2, <2>4, <3>4
        <5>2. QED
          BY <3>6, <5>1
      <4>3. QED
        BY <4>1, <4>2
    <3>8. QED
      BY <1>5, <2>2, <2>3, <2>4, <3>1, <3>2, <3>3, <3>4, <3>7
  <2>8. QED
    BY <1>2, <2>6, <2>7
<1>7. CASE k \in Elements(recent)
  <2>1. PICK p \in 1..n : recent[p] = k
    BY <1>1, <1>7 DEF Elements, n
  <2>2. PICK r : r = Moved(recent, recent[p])
    OBVIOUS
  <2>3. /\ r \in Seq(Keys) /\ Len(r) = n /\ recent' = r
        /\ \A i \in 1..n : r[i] = IF i < p THEN recent[i]
                                  ELSE IF i < n THEN recent[i+1] ELSE recent[p]
    BY <1>1, <2>1, <2>2, MovedKnown DEF n
  <2>4. \A i \in 1..n : i < n => r[i] # k
    <3> SUFFICES ASSUME NEW i \in 1..n, i < n
                 PROVE  r[i] # k
      OBVIOUS
    <3>1. CASE i < p
      BY <1>1, <2>1, <2>3, <3>1 DEF Once, n
    <3>2. CASE ~(i < p)
      <4>1. i + 1 \in 1..n /\ i + 1 # p /\ r[i] = recent[i + 1]
        BY <1>2, <2>3, <3>2
      <4>2. QED
        BY <1>1, <2>1, <4>1 DEF Once, n
    <3>3. QED
      BY <3>1, <3>2
  <2>5. CASE p > gap
    <3>1. /\ p - gap \in 1..m /\ s[p - gap] = k
      <4>1. p - gap \in 1..m /\ gap + (p - gap) = p
        BY <1>2, <2>1, <2>5
      <4>2. QED
        BY <1>2, <2>1, <4>1
    <3>2. PICK q \in 1..m : q = p - gap
      BY <3>1
    <3>3. PICK t : t = Moved(s, s[q])
      OBVIOUS
    <3>4. /\ t \in Seq(Keys) /\ Len(t) = m /\ t = Moved(s, k)
          /\ \A i \in 1..m : t[i] = IF i < q THEN s[i]
                                    ELSE IF i < m THEN s[i+1] ELSE s[q]
      BY <1>2, <1>3, <3>1, <3>2, <3>3, MovedKnown DEF m
    <3>5. seen' = t
      BY <1>1, <1>2, <3>4 DEF Bounded
    <3>6. \A i \in 1..m : t[i] = r[gap + i]
      <4> SUFFICES ASSUME NEW i \in 1..m
                   PROVE  t[i] = r[gap + i]
        OBVIOUS
      <4>1. gap + i \in 1..n /\ (i < q <=> gap + i < p) /\ (i < m <=> gap + i < n)
        BY <1>2, <3>2
      <4>2. CASE i < q
        BY <1>2, <2>3, <3>4, <4>1, <4>2
      <4>3. CASE ~(i < q) /\ i < m
        <5>1. i + 1 \in 1..m /\ gap + (i + 1) = gap + i + 1
          BY <1>2, <4>3
        <5>2. t[i] = s[i+1] /\ r[gap + i] = recent[gap + i + 1]
          BY <2>3, <3>4, <4>1, <4>3
        <5>3. QED
          BY <1>2, <5>1, <5>2
      <4>4. CASE ~(i < q) /\ ~(i < m)
        BY <2>1, <2>3, <3>1, <3>2, <3>4, <4>1, <4>4
      <4>5. QED
        BY <4>2, <4>3, <4>4
    <3>7. \A i \in 1..gap : i > n - MaxSeen => r[i] # k /\ stamp[r[i]] > TTL
      <4> SUFFICES ASSUME NEW i \in 1..gap, i > n - MaxSeen
                   PROVE  r[i] # k /\ stamp[r[i]] > TTL
        OBVIOUS
      <4>1. i \in 1..n /\ i < n /\ i < p
        BY <1>2, <2>1, <2>5
      <4>2. QED
        BY <1>2, <2>3, <2>4, <4>1
    <3>8. Len(r) - Len(t) = gap /\ Len(t) <= MaxSeen /\ Len(t) <= Len(r)
      BY <1>2, <2>3, <3>4
    <3>9. QED
      BY <1>5, <2>3, <3>4, <3>5, <3>6, <3>7, <3>8
  <2>6. CASE ~(p > gap)
    <3>1. k \notin Elements(s)
      <4> SUFFICES ASSUME NEW i \in 1..m, s[i] = k
                   PROVE  FALSE
        BY <1>2 DEF Elements, m
      <4>1. gap + i \in 1..n /\ recent[gap + i] = k /\ gap + i # p
        BY <1>2, <2>1, <2>6
      <4>2. QED
        BY <1>1, <2>1, <4>1 DEF Once, n
    <3>2. PICK a : a = Append(s, k)
      OBVIOUS
    <3>3. /\ a \in Seq(Keys) /\ Len(a) = m + 1 /\ a[m + 1] = k
          /\ \A i \in 1..m : a[i] = s[i]
      BY <1>2, <3>2 DEF m
    <3>4. seen' = Bounded(a)
      BY <1>1, <1>2, <3>1, <3>2, MovedNew
    <3>5. \A i \in 1..(m + 1) : a[i] = r[gap - 1 + i]
      <4> SUFFICES ASSUME NEW i \in 1..(m + 1)
                   PROVE  a[i] = r[gap - 1 + i]
        OBVIOUS
      <4>1. gap - 1 + i \in 1..n /\ ~(gap - 1 + i < p)
        BY <1>2, <2>1, <2>6
      <4>2. CASE i = m + 1
        <5>1. gap - 1 + i = n
          BY <1>2, <4>2
        <5>2. QED
          BY <2>1, <2>3, <3>3, <4>1, <4>2, <5>1
      <4>3. CASE i # m + 1
        <5>1. i \in 1..m /\ gap - 1 + i < n /\ gap - 1 + i + 1 = gap + i
          BY <1>2, <4>3
        <5>2. r[gap - 1 + i] = recent[gap + i]
          BY <2>3, <4>1, <5>1
        <5>3. QED
          BY <1>2, <3>3, <5>1, <5>2
      <4>4. QED
        BY <4>2, <4>3
    <3>6. \A i \in 1..(gap - 1) : i > n - MaxSeen => r[i] # k /\ stamp[r[i]] > TTL
      <4> SUFFICES ASSUME NEW i \in 1..(gap - 1), i > n - MaxSeen
                   PROVE  r[i] # k /\ stamp[r[i]] > TTL
        OBVIOUS
      <4>1. i \in 1..n /\ i < n /\ i \in 1..gap /\ i + 1 \in 1..gap /\ i + 1 > n - MaxSeen
        BY <1>2
      <4>2. r[i] = recent[i] \/ r[i] = recent[i + 1]
        BY <2>3, <4>1
      <4>3. QED
        BY <1>2, <2>4, <4>1, <4>2
    <3>7. CASE m < MaxSeen
      <4>1. seen' = a
        BY <1>2, <3>3, <3>4, <3>7 DEF Bounded
      <4>2. Len(r) - Len(a) = gap - 1 /\ Len(a) <= MaxSeen /\ Len(a) <= Len(r)
        BY <1>2, <2>1, <2>3, <2>6, <3>3, <3>7
      <4>3. QED
        BY <1>5, <2>3, <3>3, <3>5, <3>6, <4>1, <4>2
    <3>8. CASE m = MaxSeen
      <4>1. seen' = Tail(a)
        BY <1>2, <3>3, <3>4, <3>8 DEF Bounded
      <4>2. PICK t : t = Tail(a)
        OBVIOUS
      <4>3. t \in Seq(Keys) /\ Len(t) = m /\ \A i \in 1..m : t[i] = a[i + 1]
        BY <1>2, <3>3, <4>2
      <4>4. \A i \in 1..m : t[i] = r[gap + i]
        <5> SUFFICES ASSUME NEW i \in 1..m
                     PROVE  t[i] = r[gap + i]
          OBVIOUS
        <5>1. i + 1 \in 1..(m + 1) /\ gap - 1 + (i + 1) = gap + i
          BY <1>2
        <5>2. QED
          BY <3>5, <4>3, <5>1
      <4>5. \A i \in 1..gap : ~(i > n - MaxSeen)
        BY <1>2, <3>8
      <4>6. Len(r) - Len(t) = gap /\ Len(t) <= MaxSeen /\ Len(t) <= Len(r)
        BY <1>2, <2>3, <4>3
      <4>7. QED
        BY <1>5, <2>3, <4>1, <4>2, <4>3, <4>4, <4>5, <4>6
    <3>9. QED
      BY <1>2, <3>7, <3>8
  <2>7. QED
    BY <2>5, <2>6
<1>8. QED
  BY <1>6, <1>7

(* A tick makes every key older and keeps their order.                     *)
LEMMA TickKeeps ==
    ASSUME Limits, OrderInv, Remembers(seen), UNCHANGED <<seen, recent>>,
           stamp' = Older(stamp)
    PROVE  OrderInv' /\ Remembers(seen)'
<1>1. /\ stamp \in [Keys -> Nat] /\ recent \in Seq(Keys) /\ TTL \in Nat
      /\ Len(recent) \in Nat /\ Len(seen) \in Nat
  BY DEF OrderInv, Limits, Remembers
<1>2. PICK old \in [Keys -> Nat] : old = Older(stamp)
  <2>1. Older(stamp) \in [Keys -> Nat]
    BY <1>1 DEF Older
  <2>2. QED
    BY <2>1, Zenon
<1>3. /\ \A k \in Keys : stamp[k] > TTL => old[k] > TTL
      /\ \A k, l \in Keys : stamp[k] <= stamp[l] => old[k] <= old[l]
  BY <1>1, <1>2 DEF Older
<1>4. OrderInv'
  BY <1>1, <1>2, <1>3 DEF OrderInv
<1>5. Remembers(seen)'
  <2>1. \A i \in 1..(Len(recent) - Len(seen)) : recent[i] \in Keys
    BY <1>1
  <2>2. QED
    BY <1>1, <1>2, <1>3, <2>1 DEF Remembers
<1>6. QED
  BY <1>4, <1>5

(* A step marks a key, lets expired entries go, is a tick, or leaves the   *)
(* memory alone.                                                           *)
LEMMA MemorySteps ==
    ASSUME [Next]_vars
    PROVE  \/ UNCHANGED memory
           \/ UNCHANGED <<stamp, recent>> /\ seen' = Evicted(seen)
           \/ \E k \in Keys : MarkSeen(seen, k) \/ MarkSeen(Evicted(seen), k)
           \/ CleanUp
           \/ UNCHANGED <<seen, recent>> /\ stamp' = Older(stamp)
<1>1. CASE \E p \in Packets : Ignore(p)
  BY <1>1 DEF Ignore, Asked, memory
<1>2. ASSUME NEW p \in Packets, RelayByBridge(p)
      PROVE  \/ UNCHANGED memory
             \/ UNCHANGED <<stamp, recent>> /\ seen' = Evicted(seen)
             \/ MarkSeen(Evicted(seen), p.key)
  BY <1>2 DEF RelayByBridge, Asked, memory
<1>3. CASE \E p \in Packets : \E ack, allowed \in BOOLEAN, j, x \in Jobs :
              Relay(p, ack, j, x, allowed)
  BY <1>3 DEF Relay, Packets
<1>4. CASE \E k \in Keys : Announced(k) \/ \E j \in Jobs : Originate(k, j)
  BY <1>4 DEF Announced, Originate
<1>5. CASE CountElsewhere \/ \E j \in Jobs : Send(j)
  BY <1>5 DEF CountElsewhere, Send, Wake, Transmit, Refuse, Sent, Fails, Cancelled
<1>6. CASE \E m \in {"forward", "monitor", "no_tx"} : SetMode(m)
  BY <1>6 DEF SetMode
<1>7. CASE Tick
  BY <1>7 DEF Tick
<1>8. CASE UNCHANGED vars
  BY <1>8 DEF vars
<1>9. \A p \in Packets : p.key \in Keys
  BY DEF Packets
<1> QED
  BY <1>1, <1>2, <1>3, <1>4, <1>5, <1>6, <1>7, <1>8, <1>9 DEF Next

(* The memory holds exactly the latest keys that are not expired, in spite *)
(* of the eviction that stops at the first fresh entry, for every size and *)
(* lifetime of the memory and however packets are marked.                  *)
THEOREM LatestRemembered ==
    ASSUME MaxSeen \in Nat, TTL \in Nat
    PROVE  Spec => []RememberedExactly
<1> DEFINE Inv == OrderInv /\ Remembers(seen)
<1>0. Limits
  BY DEF Limits
<1>1. Init => Inv
  BY DEF Init, OrderInv, Remembers
<1>2. Inv /\ [Next]_vars => Inv'
  <2> SUFFICES ASSUME Inv, [Next]_vars
               PROVE  Inv'
    OBVIOUS
  <2>1. CASE UNCHANGED memory
    BY <2>1 DEF memory, OrderInv, Remembers
  <2>2. CASE UNCHANGED <<stamp, recent>> /\ seen' = Evicted(seen)
    <3>1. Remembers(Evicted(seen))
      BY <1>0, EvictingKeeps
    <3>2. QED
      BY <2>2, <3>1 DEF OrderInv, Remembers
  <2>3. ASSUME NEW k \in Keys, MarkSeen(seen, k) \/ MarkSeen(Evicted(seen), k)
        PROVE  Inv'
    BY <1>0, <2>3, EvictingKeeps, MarkingKeepsOrder, MarkingKeeps
  <2>4. CASE CleanUp
    <3>1. Remembers(Evicted(seen)) /\ seen' = Evicted(seen)
      BY <1>0, <2>4, EvictingKeeps, CleaningKeeps DEF CleanUp
    <3>2. QED
      BY <2>4, <3>1 DEF CleanUp, OrderInv, Remembers
  <2>5. CASE UNCHANGED <<seen, recent>> /\ stamp' = Older(stamp)
    BY <1>0, <2>5, TickKeeps
  <2> QED
    BY <2>1, <2>2, <2>3, <2>4, <2>5, MemorySteps
<1>3. Inv => RememberedExactly
  <2> SUFFICES ASSUME Inv, NEW k \in Keys
               PROVE  Duplicate(k) <=>
                        \E i \in DOMAIN recent : /\ recent[i] = k
                                                 /\ i > Len(recent) - MaxSeen
                                                 /\ stamp[k] <= TTL
    BY DEF RememberedExactly
  <2> DEFINE gap == Len(recent) - Len(seen)
  <2>1. PICK f \in 1..(Len(seen) + 1) :
           /\ \A i \in 1..Len(seen) : stamp[seen[i]] <= TTL <=> i >= f
           /\ Evicted(seen) = SubSeq(seen, f, Len(seen))
    BY <1>0, FreshAreLast
  <2>2. /\ seen \in Seq(Keys) /\ gap \in Nat /\ Len(seen) \in Nat /\ DOMAIN recent = 1..Len(recent)
        /\ Len(recent) = gap + Len(seen) /\ Len(seen) <= MaxSeen /\ MaxSeen \in Nat
        /\ \A i \in 1..Len(seen) : seen[i] = recent[gap + i]
        /\ \A i \in 1..gap : i > Len(recent) - MaxSeen => stamp[recent[i]] > TTL
        /\ stamp[k] \in Nat
    BY DEF Remembers, OrderInv
  <2>3. Duplicate(k) <=> \E i \in 1..Len(seen) : i >= f /\ seen[i] = k
    <3>1. /\ Len(SubSeq(seen, f, Len(seen))) = Len(seen) - f + 1
          /\ DOMAIN SubSeq(seen, f, Len(seen)) = 1..(Len(seen) - f + 1)
          /\ \A i \in 1..(Len(seen) - f + 1) :
                SubSeq(seen, f, Len(seen))[i] = seen[f + i - 1]
      BY <2>2
    <3>2. Duplicate(k) <=> \E i \in 1..(Len(seen) - f + 1) : k = seen[f + i - 1]
      BY <2>1, <3>1 DEF Duplicate, Elements
    <3>3. ASSUME NEW i \in 1..(Len(seen) - f + 1), k = seen[f + i - 1]
          PROVE  f + i - 1 \in 1..Len(seen) /\ f + i - 1 >= f
      BY <2>2
    <3>4. ASSUME NEW i \in 1..Len(seen), i >= f, seen[i] = k
          PROVE  i - f + 1 \in 1..(Len(seen) - f + 1) /\ f + (i - f + 1) - 1 = i
      BY <2>2, <3>4
    <3>5. QED
      BY <3>2, <3>3, <3>4
  <2>4. ASSUME NEW i \in 1..Len(seen), i >= f, seen[i] = k
        PROVE  /\ gap + i \in DOMAIN recent /\ recent[gap + i] = k
               /\ gap + i > Len(recent) - MaxSeen /\ stamp[k] <= TTL
    BY <2>1, <2>2, <2>4
  <2>5. ASSUME NEW i \in DOMAIN recent, recent[i] = k, i > Len(recent) - MaxSeen,
               stamp[k] <= TTL
        PROVE  i - gap \in 1..Len(seen) /\ i - gap >= f /\ seen[i - gap] = k
    <3>0. i \notin 1..gap
      <4> SUFFICES ASSUME i \in 1..gap
                   PROVE  FALSE
        OBVIOUS
      <4>1. stamp[k] > TTL
        BY <2>2, <2>5
      <4>2. QED
        BY <1>0, <2>2, <2>5, <4>1 DEF Limits
    <3>1. i \in 1..Len(recent) /\ ~(i \in 1..gap)
      BY <2>2, <2>5, <3>0
    <3>2. i - gap \in 1..Len(seen) /\ gap + (i - gap) = i
      BY <2>2, <3>1
    <3>3. seen[i - gap] = k
      BY <2>2, <2>5, <3>2
    <3>4. QED
      BY <2>1, <2>5, <3>2, <3>3
  <2>6. QED
    BY <2>3, <2>4, <2>5
<1> QED
  BY <1>1, <1>2, <1>3, PTL DEF Spec

-----------------------------------------------------------------------------
(* The packet router.                                                      *)

CONSTANTS Slots, Copies, Recipients, QueueMax, MaxInFlight, CacheMax, PruneAbove,
          RouterTTL, Absent, MaxArrivals, MaxTicks
VARIABLES queue, inFlight, phase, kind, packet, todo, pc, recipient, cancelled, owned,
          delivered, results, users, holder, arrivals, ticks, took

Router == INSTANCE PacketRouter WITH
    Packets <- Copies, TTL <- RouterTTL, MaxClock <- MaxTicks, clock <- ticks

(* The packet and the recipient a route call is busy with.                 *)
Key(t) == <<packet[t], recipient[t]>>

(* A slot is in use while its call is somewhere, which has a recipient at  *)
(* hand while it waits for the lock or the answer, and is cancelled only   *)
(* there.                                                                  *)
CallInv ==
    \A t \in Slots :
       /\ kind[t] = "free" <=> pc[t] = "free"
       /\ pc[t] # "free" => packet[t] \in Copies
       /\ pc[t] \in {"lock", "asking"} <=> recipient[t] # Absent
       /\ t \in cancelled => pc[t] = "asking"

(* A lock is used by those who are busy with its key, and held by the one  *)
(* whose recipient is at work.                                             *)
LockInv ==
    /\ \A k \in Router!Keys : \A t \in Slots :
          t \in users[k] <=> pc[t] \in {"lock", "asking"} /\ k = Key(t)
    /\ \A k \in Router!Keys : \A t \in Slots :
          holder[k] = t <=> pc[t] = "asking" /\ k = Key(t)

(* Between two questions an entry is an ownership that was kept, and while *)
(* the last one is fresh it is the entry.                                  *)
CacheInv ==
    \A k \in Router!Keys :
       /\ k \in results <=> delivered[k] # Absent /\ holder[k] = Absent
       /\ Router!Fresh(took[k]) => holder[k] = Absent /\ delivered[k] = took[k]

(* The counter counts the tasks, and none is left after stop().            *)
TaskInv ==
    /\ inFlight = Cardinality(Router!Tasks)
    /\ phase = "stopped" => Router!Tasks = {}

RouterInv == Router!TypeOK /\ CallInv /\ LockInv /\ CacheInv /\ TaskInv

(* What the router counts with is what the library's theorems count with.  *)
LEMMA SameCardinality ==
    ASSUME NEW S
    PROVE  Router!Cardinality(S) = Cardinality(S)
BY DEF Router!Cardinality, Cardinality

(* The tasks are finitely many.                                            *)
LEMMA TasksFinite == Router!RouterAssumption => IsFiniteSet(Router!Tasks)
<1> SUFFICES ASSUME Router!RouterAssumption PROVE IsFiniteSet(Router!Tasks)
  OBVIOUS
<1>1. Router!IsFiniteSet(Slots)
  BY DEF Router!RouterAssumption
<1>2. IsFiniteSet(Slots)
  BY <1>1 DEF Router!IsFiniteSet, IsFiniteSet
<1>3. QED
  BY <1>2, FS_Subset DEF Router!Tasks

(* The router starts with nothing.                                         *)
LEMMA RouterInit == Router!RouterAssumption /\ Router!Init => RouterInv
<1> SUFFICES ASSUME Router!RouterAssumption, Router!Init PROVE RouterInv
  OBVIOUS
<1> USE DEF Router!RouterAssumption, Router!Init
<1>1. Router!TypeOK
  BY DEF Router!TypeOK, Router!Keys
<1>2. CallInv
  BY DEF CallInv
<1>3. LockInv
  BY DEF LockInv, Router!Keys
<1>4. CacheInv
  BY DEF CacheInv, Router!Fresh
<1>5. TaskInv
  BY FS_EmptySet DEF TaskInv, Router!Tasks
<1>6. QED
  BY <1>1, <1>2, <1>3, <1>4, <1>5 DEF RouterInv

(* A step that leaves the calls alone.                                     *)
LEMMA CallsAlone ==
    ASSUME RouterInv, UNCHANGED Router!callVars
    PROVE  /\ CallInv'
           /\ UNCHANGED Router!lockVars => LockInv'
           /\ UNCHANGED <<Router!lockVars, Router!cacheVars, took>> => CacheInv'
           /\ inFlight' = inFlight /\ (phase' = "stopped" => phase = "stopped" \/ Router!Tasks = {})
                 => TaskInv'
<1> USE DEF RouterInv, Router!callVars
<1>1. CallInv'
  BY DEF CallInv
<1>2. UNCHANGED Router!lockVars => LockInv'
  BY DEF LockInv, Router!lockVars, Key
<1>3. UNCHANGED <<Router!lockVars, Router!cacheVars, took>> => CacheInv'
  BY DEF CacheInv, Router!lockVars, Router!cacheVars, Router!Fresh
<1>4. inFlight' = inFlight /\ (phase' = "stopped" => phase = "stopped" \/ Router!Tasks = {})
         => TaskInv'
  BY DEF TaskInv, Router!Tasks
<1>5. QED
  BY <1>1, <1>2, <1>3, <1>4

(* A call begins where none was.                                           *)
LEMMA BeginKeeps ==
    ASSUME Router!RouterAssumption, RouterInv,
           NEW t \in Slots, NEW p \in Copies, NEW as \in {"task", "call"},
           Router!Begin(t, p, as)
    PROVE  /\ CallInv' /\ LockInv' /\ CacheInv'
           /\ t \notin Router!Tasks
           /\ Router!Tasks' = IF as = "task" THEN Router!Tasks \cup {t} ELSE Router!Tasks
<1> USE DEF RouterInv, Router!Begin, Router!callVars, Router!lockVars, Router!cacheVars
<1> kind \in [Slots -> {"free", "task", "call"}] /\ pc[t] = "free"
  BY DEF Router!TypeOK, CallInv
<1>1. CallInv'
  BY DEF CallInv, Router!TypeOK, Router!RouterAssumption
<1>2. \A u \in Slots : u # t => Key(u)' = Key(u) /\ pc'[u] = pc[u]
  BY DEF Key, Router!TypeOK
<1>3. LockInv'
  BY <1>2 DEF LockInv, Router!TypeOK, Key
<1>4. CacheInv'
  BY DEF CacheInv, Router!Fresh
<1>5. t \notin Router!Tasks
  BY DEF Router!Tasks
<1>6. Router!Tasks' = IF as = "task" THEN Router!Tasks \cup {t} ELSE Router!Tasks
  BY DEF Router!Tasks
<1>7. QED
  BY <1>1, <1>3, <1>4, <1>5, <1>6

(* The loop takes a packet from the queue and starts its task.             *)
LEMMA TakeKeeps ==
    ASSUME Router!RouterAssumption, RouterInv, NEW t \in Slots, Router!Take(t)
    PROVE  RouterInv'
<1> USE DEF RouterInv, Router!Take
<1>1. Head(queue) \in Copies /\ queue' \in Seq(Copies)
  BY DEF Router!TypeOK
<1>2. CASE inFlight >= MaxInFlight
  <2>1. CallInv' /\ LockInv' /\ CacheInv' /\ TaskInv'
    BY <1>2, CallsAlone
  <2>2. Router!TypeOK'
    BY <1>1, <1>2 DEF Router!TypeOK, Router!callVars, Router!lockVars, Router!cacheVars
  <2>3. QED
    BY <2>1, <2>2
<1>3. CASE ~(inFlight >= MaxInFlight)
  <2>1. inFlight' = inFlight + 1 /\ Router!Begin(t, Head(queue), "task")
    BY <1>3
  <2>2. CallInv' /\ LockInv' /\ CacheInv' /\ t \notin Router!Tasks
        /\ Router!Tasks' = Router!Tasks \cup {t}
    BY <1>1, <2>1, BeginKeeps
  <2>3. Router!TypeOK'
    BY <1>1, <2>1 DEF Router!TypeOK, Router!Begin, Router!lockVars, Router!cacheVars
  <2>4. TaskInv'
    <3>1. IsFiniteSet(Router!Tasks)
      BY TasksFinite
    <3>2. Cardinality(Router!Tasks') = Cardinality(Router!Tasks) + 1
      BY <2>2, <3>1, FS_AddElement
    <3>3. QED
      BY <2>1, <3>2 DEF TaskInv
  <2>5. QED
    BY <2>2, <2>3, <2>4
<1>4. QED
  BY <1>2, <1>3

(* The bridge routes a packet directly.                                    *)
LEMMA CallKeeps ==
    ASSUME Router!RouterAssumption, RouterInv, NEW t \in Slots, NEW p \in Copies, Router!Call(t, p)
    PROVE  RouterInv'
<1> USE DEF RouterInv, Router!Call
<1>1. CallInv' /\ LockInv' /\ CacheInv' /\ Router!Tasks' = Router!Tasks
  BY BeginKeeps
<1>2. TaskInv'
  BY <1>1 DEF TaskInv
<1>3. Router!TypeOK'
  BY DEF Router!TypeOK, Router!Begin, Router!lockVars, Router!cacheVars
<1>4. QED
  BY <1>1, <1>2, <1>3

(* A packet arrives, perhaps at the cost of the oldest one waiting.        *)
LEMMA EnqueueKeeps ==
    ASSUME Router!RouterAssumption, RouterInv, NEW p \in Copies, Router!Enqueue(p)
    PROVE  RouterInv'
<1> USE DEF RouterInv, Router!Enqueue
<1>1. CallInv' /\ LockInv' /\ CacheInv' /\ TaskInv'
  BY CallsAlone
<1>2. queue' \in Seq(Copies)
  <2>1. Len(queue) = QueueMax => Tail(queue) \in Seq(Copies)
    BY DEF Router!TypeOK, Router!RouterAssumption
  <2>2. QED
    BY <2>1 DEF Router!TypeOK
<1>3. Router!TypeOK'
  BY <1>2 DEF Router!TypeOK, Router!callVars, Router!lockVars, Router!cacheVars
<1>4. QED
  BY <1>1, <1>3

(* A call ends, and its task is counted out.                               *)
LEMMA DoneKeeps ==
    ASSUME Router!RouterAssumption, RouterInv, NEW t \in Slots, Router!OnRouteDone(t)
    PROVE  RouterInv'
<1> USE DEF RouterInv, Router!OnRouteDone, Router!lockVars, Router!cacheVars
<1> kind \in [Slots -> {"free", "task", "call"}] /\ kind[t] # "free"
  BY DEF Router!TypeOK, CallInv
<1>1. CallInv'
  BY DEF CallInv, Router!TypeOK, Router!RouterAssumption
<1>2. \A u \in Slots : u # t => Key(u)' = Key(u) /\ pc'[u] = pc[u]
  BY DEF Key, Router!TypeOK
<1>3. LockInv'
  BY <1>2 DEF LockInv, Router!TypeOK, Key
<1>4. CacheInv'
  BY DEF CacheInv, Router!Fresh
<1>5. IsFiniteSet(Router!Tasks)
  BY TasksFinite
<1>6. TaskInv' /\ inFlight' \in Nat
  <2>1. CASE kind[t] = "task"
    <3>1. Router!Tasks' = Router!Tasks \ {t} /\ t \in Router!Tasks
      BY <2>1 DEF Router!Tasks
    <3>2. Cardinality(Router!Tasks') = Cardinality(Router!Tasks) - 1
      BY <1>5, <3>1, FS_RemoveElement
    <3>3. Cardinality(Router!Tasks') \in Nat
      BY <1>5, <3>1, FS_RemoveElement, FS_CardinalityType
    <3>4. QED
      BY <2>1, <3>1, <3>2, <3>3 DEF TaskInv
  <2>2. CASE kind[t] # "task"
    <3>1. Router!Tasks' = Router!Tasks
      BY <2>2 DEF Router!Tasks
    <3>2. QED
      BY <2>2, <3>1 DEF TaskInv, Router!TypeOK
  <2>3. QED
    BY <2>1, <2>2
<1>7. Router!TypeOK'
  BY <1>6, SMTT(30) DEF Router!TypeOK
<1>8. QED
  BY <1>1, <1>3, <1>4, <1>6, <1>7

(* Steps of one call that leave all tasks tasks.                           *)
LEMMA SameTasks ==
    ASSUME RouterInv, UNCHANGED <<kind, inFlight, phase>>
    PROVE  TaskInv'
BY DEF RouterInv, TaskInv, Router!Tasks

(* A call turns to a recipient and becomes a user of the lock.             *)
LEMMA UseLockKeeps ==
    ASSUME Router!RouterAssumption, RouterInv, NEW t \in Slots, Router!UseLock(t)
    PROVE  RouterInv'
<1> USE DEF RouterInv, Router!UseLock, Router!cacheVars
<1> PICK r \in todo[t] : /\ recipient' = [recipient EXCEPT ![t] = r]
                         /\ todo' = [todo EXCEPT ![t] = @ \ {r}]
                         /\ users' = [users EXCEPT ![<<packet[t], r>>] = @ \cup {t}]
  OBVIOUS
<1>1. r \in Recipients /\ pc[t] = "next" /\ packet[t] \in Copies /\ recipient[t] = Absent
      /\ r # Absent
  <2>1. Absent \notin Recipients
    BY DEF Router!RouterAssumption
  <2>2. QED
    BY <2>1 DEF CallInv, Router!TypeOK
<1>2. <<packet[t], r>> \in Router!Keys
  BY <1>1 DEF Router!Keys
<1>3. /\ pc' = [pc EXCEPT ![t] = "lock"] /\ pc'[t] = "lock" /\ recipient'[t] = r
      /\ Key(t)' = <<packet[t], r>>
  BY DEF Key, Router!TypeOK
<1>4. \A u \in Slots : u # t => Key(u)' = Key(u) /\ pc'[u] = pc[u]
  BY DEF Key, Router!TypeOK
<1>5. CallInv'
  BY <1>1 DEF CallInv, Router!TypeOK
<1>6. LockInv'
  <2>1. ASSUME NEW k \in Router!Keys, NEW u \in Slots
        PROVE  /\ u \in users'[k] <=> pc'[u] \in {"lock", "asking"} /\ k = Key(u)'
               /\ holder'[k] = u <=> pc'[u] = "asking" /\ k = Key(u)'
    <3>1. users'[k] = IF k = <<packet[t], r>> THEN users[k] \cup {t} ELSE users[k]
      BY <1>2 DEF Router!TypeOK
    <3>2. CASE u = t
      BY <1>1, <1>3, <3>1, <3>2 DEF LockInv
    <3>3. CASE u # t
      BY <1>4, <3>1, <3>3 DEF LockInv
    <3>4. QED
      BY <3>2, <3>3
  <2>2. QED
    BY <2>1 DEF LockInv
<1>7. CacheInv'
  BY DEF CacheInv, Router!Fresh
<1>8. TaskInv'
  BY SameTasks
<1>9. Router!TypeOK'
  <2>1. users' \in [Router!Keys -> SUBSET Slots]
    <3>1. users \in [Router!Keys -> SUBSET Slots]
      BY DEF Router!TypeOK
    <3>2. users[<<packet[t], r>>] \cup {t} \in SUBSET Slots
      BY <1>2, <3>1
    <3>3. QED
      BY <3>1, <3>2
  <2>2. todo' \in [Slots -> SUBSET Recipients]
    BY DEF Router!TypeOK
  <2>3. recipient' \in [Slots -> Recipients \cup {Absent}]
    BY <1>1 DEF Router!TypeOK
  <2>4. QED
    BY <2>1, <2>2, <2>3 DEF Router!TypeOK
<1>10. QED
  BY <1>5, <1>6, <1>7, <1>8, <1>9

(* Pruning drops entries with their answers and leaves what is fresh.      *)
LEMMA PrunedOld ==
    ASSUME Router!RouterAssumption, RouterInv
    PROVE  /\ Router!Pruned \subseteq Router!Keys
           /\ \A k \in Router!Pruned :
                 delivered[k] = RouterTTL /\ ~Router!Fresh(delivered[k]) /\ holder[k] = Absent
           /\ Router!Kept \in [Router!Keys -> (0..RouterTTL) \cup {Absent}]
           /\ \A k \in Router!Keys :
                 Router!Kept[k] = IF k \in Router!Pruned THEN Absent ELSE delivered[k]
<1> USE DEF RouterInv
<1>1. Router!Pruned \subseteq Router!Keys
  BY DEF Router!Pruned
<1>2. ASSUME NEW k \in Router!Pruned
      PROVE  delivered[k] = RouterTTL /\ ~Router!Fresh(delivered[k]) /\ holder[k] = Absent
  <2>1. k \in Router!Keys /\ delivered[k] = RouterTTL /\ users[k] = {}
    BY DEF Router!Pruned
  <2>2. \A u \in Slots : holder[k] # u
    BY <2>1 DEF LockInv
  <2>3. holder[k] = Absent
    BY <2>1, <2>2 DEF Router!TypeOK
  <2>4. QED
    BY <2>1, <2>3 DEF Router!Fresh, Router!RouterAssumption
<1>3. Router!Kept \in [Router!Keys -> (0..RouterTTL) \cup {Absent}]
  BY DEF Router!Kept, Router!TypeOK
<1>4. QED
  BY <1>1, <1>2, <1>3 DEF Router!Kept

(* A copy finds the answer in the dictionaries.                            *)
LEMMA RepeatedKeeps ==
    ASSUME Router!RouterAssumption, RouterInv, NEW t \in Slots, Router!Repeated(t)
    PROVE  RouterInv'
<1> DEFINE key == <<packet[t], recipient[t]>>
<1> USE DEF RouterInv, Router!Repeated, Router!Leave
<1>1. pc[t] = "lock" /\ holder[key] = Absent
  OBVIOUS
<1>2. key \in Router!Keys
  BY <1>1 DEF Router!Keys, CallInv, Router!TypeOK
<1>3. \A u \in Slots : u # t => Key(u)' = Key(u) /\ pc'[u] = pc[u]
  BY DEF Key, Router!TypeOK
<1>4. pc'[t] = "next" /\ recipient'[t] = Absent
  BY DEF Router!TypeOK
<1>5. CallInv'
  BY <1>1, <1>4 DEF CallInv, Router!TypeOK
<1>6. \A k \in Router!Keys : holder'[k] = holder[k]
  BY <1>1 DEF Router!TypeOK
<1>7. LockInv'
  <2>1. ASSUME NEW k \in Router!Keys, NEW u \in Slots
        PROVE  /\ u \in users'[k] <=> pc'[u] \in {"lock", "asking"} /\ k = Key(u)'
               /\ holder'[k] = u <=> pc'[u] = "asking" /\ k = Key(u)'
    <3>1. users'[k] = IF k = key THEN users[k] \ {t} ELSE users[k]
      BY DEF Router!TypeOK
    <3>2. CASE u = t
      BY <1>1, <1>4, <1>6, <3>1, <3>2 DEF LockInv, Key
    <3>3. CASE u # t
      BY <1>3, <1>6, <3>1, <3>3 DEF LockInv
    <3>4. QED
      BY <3>2, <3>3
  <2>2. QED
    BY <2>1 DEF LockInv
<1>8. CacheInv'
  <2> SUFFICES ASSUME NEW k \in Router!Keys
               PROVE  /\ k \in results' <=> delivered'[k] # Absent /\ holder'[k] = Absent
                      /\ Router!Fresh(took'[k]) => holder'[k] = Absent /\ delivered'[k] = took'[k]
    BY DEF CacheInv, Router!Fresh
  <2>1. delivered'[k] = IF k \in Router!Pruned THEN Absent ELSE delivered[k]
    BY PrunedOld
  <2>2. k \in results' <=> k \in results /\ k \notin Router!Pruned
    OBVIOUS
  <2>3. took' = took
    OBVIOUS
  <2>4. QED
    BY <1>6, <2>1, <2>2, <2>3, PrunedOld DEF CacheInv
<1>9. TaskInv'
  BY SameTasks
<1>10. Router!TypeOK'
  <2>1. users' \in [Router!Keys -> SUBSET Slots] /\ holder' \in [Router!Keys -> Slots \cup {Absent}]
    BY DEF Router!TypeOK
  <2>2. delivered' \in [Router!Keys -> (0..RouterTTL) \cup {Absent}]
    BY PrunedOld
  <2>3. QED
    BY <2>1, <2>2 DEF Router!TypeOK
<1>11. QED
  BY <1>5, <1>7, <1>8, <1>9, <1>10

(* A call takes the lock and asks, and what is too old has been pruned.    *)
LEMMA AskKeeps ==
    ASSUME Router!RouterAssumption, RouterInv, NEW t \in Slots, Router!Ask(t)
    PROVE  RouterInv'
<1> DEFINE key == <<packet[t], recipient[t]>>
<1> USE DEF RouterInv, Router!Ask
<1>1. pc[t] = "lock" /\ holder[key] = Absent /\ ~Router!Fresh(delivered[key])
  OBVIOUS
<1>2. key \in Router!Keys
  BY <1>1 DEF Router!Keys, CallInv, Router!TypeOK
<1>3. \A u \in Slots : Key(u)' = Key(u) /\ (u # t => pc'[u] = pc[u])
  BY DEF Key, Router!TypeOK
<1>4. pc'[t] = "asking"
  BY DEF Router!TypeOK
<1>5. CallInv'
  BY <1>1, <1>4 DEF CallInv, Router!TypeOK
<1>6. \A k \in Router!Keys : holder'[k] = IF k = key THEN t ELSE holder[k]
  BY DEF Router!TypeOK
<1>7. LockInv'
  <2>1. ASSUME NEW k \in Router!Keys, NEW u \in Slots
        PROVE  /\ u \in users'[k] <=> pc'[u] \in {"lock", "asking"} /\ k = Key(u)'
               /\ holder'[k] = u <=> pc'[u] = "asking" /\ k = Key(u)'
    <3>1. CASE u = t
      BY <1>1, <1>3, <1>4, <1>6, <3>1 DEF LockInv, Key
    <3>2. CASE u # t
      <4>1. holder[key] # u
        BY <1>1 DEF Router!RouterAssumption
      <4>2. QED
        BY <1>2, <1>3, <1>6, <3>2, <4>1 DEF LockInv
    <3>3. QED
      BY <3>1, <3>2
  <2>2. QED
    BY <2>1 DEF LockInv
<1>8. \E x \in {0, Absent} : delivered' = [Router!Kept EXCEPT ![key] = x]
  OBVIOUS
<1>9. \A k \in Router!Keys :
         k # key => delivered'[k] = IF k \in Router!Pruned THEN Absent ELSE delivered[k]
  BY <1>8, PrunedOld
<1>10. CacheInv'
  <2> SUFFICES ASSUME NEW k \in Router!Keys
               PROVE  /\ k \in results' <=> delivered'[k] # Absent /\ holder'[k] = Absent
                      /\ Router!Fresh(took'[k]) => holder'[k] = Absent /\ delivered'[k] = took'[k]
    BY DEF CacheInv, Router!Fresh
  <2>1. took' = took
    OBVIOUS
  <2>2. CASE k = key
    <3>1. k \notin results' /\ holder'[k] # Absent
      BY <1>6, <2>2 DEF Router!RouterAssumption
    <3>2. ~Router!Fresh(took[k])
      BY <1>1, <2>2 DEF CacheInv
    <3>3. QED
      BY <2>1, <3>1, <3>2
  <2>3. CASE k # key
    <3>1. k \in results' <=> k \in results /\ k \notin Router!Pruned
      BY <2>3
    <3>2. holder'[k] = holder[k]
      BY <1>6, <2>3
    <3>3. QED
      BY <1>9, <2>1, <2>3, <3>1, <3>2, PrunedOld DEF CacheInv
  <2>4. QED
    BY <2>2, <2>3
<1>11. TaskInv'
  BY SameTasks
<1>12. Router!TypeOK'
  <2>1. holder' \in [Router!Keys -> Slots \cup {Absent}]
    BY DEF Router!TypeOK
  <2>2. delivered' \in [Router!Keys -> (0..RouterTTL) \cup {Absent}]
    <3>1. PICK x \in {0, Absent} : delivered' = [Router!Kept EXCEPT ![key] = x]
      BY <1>8
    <3>2. x \in (0..RouterTTL) \cup {Absent}
      BY DEF Router!RouterAssumption
    <3>3. QED
      BY <3>1, <3>2, PrunedOld
  <2>3. QED
    BY <2>1, <2>2 DEF Router!TypeOK
<1>13. QED
  BY <1>5, <1>7, <1>10, <1>11, <1>12

(* The recipient answers, whether or not its caller was cancelled.         *)
LEMMA SettleKeeps ==
    ASSUME Router!RouterAssumption, RouterInv, NEW t \in Slots,
           NEW answer \in {"owned", "not_ours", "raised", "lost"}, Router!Settle(t, answer)
    PROVE  RouterInv'
<1> DEFINE key == <<packet[t], recipient[t]>>
           keep == answer = "owned" /\ delivered[key] # Absent
<1> USE DEF RouterInv, Router!Settle, Router!Leave
<1>1. pc[t] = "asking"
  OBVIOUS
<1>2. key \in Router!Keys
  BY <1>1 DEF Router!Keys, CallInv, Router!TypeOK
<1>3. PICK n \in {"next", "done"} : pc' = [pc EXCEPT ![t] = n]
  OBVIOUS
<1>4. /\ pc'[t] \in {"next", "done"} /\ recipient'[t] = Absent
      /\ cancelled' = cancelled \ {t}
  BY <1>3 DEF Router!TypeOK
<1>5. \A u \in Slots : u # t => Key(u)' = Key(u) /\ pc'[u] = pc[u] /\ recipient'[u] = recipient[u]
  BY <1>3 DEF Key, Router!TypeOK
<1>6. CallInv'
  <2> SUFFICES ASSUME NEW u \in Slots
               PROVE  /\ kind'[u] = "free" <=> pc'[u] = "free"
                      /\ pc'[u] # "free" => packet'[u] \in Copies
                      /\ pc'[u] \in {"lock", "asking"} <=> recipient'[u] # Absent
                      /\ u \in cancelled' => pc'[u] = "asking"
    BY DEF CallInv
  <2>1. kind' = kind /\ packet' = packet
    OBVIOUS
  <2>2. CASE u = t
    BY <1>1, <1>4, <2>1, <2>2 DEF CallInv
  <2>3. CASE u # t
    BY <1>4, <1>5, <2>1, <2>3 DEF CallInv
  <2>4. QED
    BY <2>2, <2>3
<1>7. \A k \in Router!Keys : holder'[k] = IF k = key THEN Absent ELSE holder[k]
  BY DEF Router!TypeOK
<1>8. holder[key] = t
  BY <1>1, <1>2 DEF LockInv, Key
<1>9. LockInv'
  <2>1. ASSUME NEW k \in Router!Keys, NEW u \in Slots
        PROVE  /\ u \in users'[k] <=> pc'[u] \in {"lock", "asking"} /\ k = Key(u)'
               /\ holder'[k] = u <=> pc'[u] = "asking" /\ k = Key(u)'
    <3>1. users'[k] = IF k = key THEN users[k] \ {t} ELSE users[k]
      BY DEF Router!TypeOK
    <3>2. u # Absent
      BY DEF Router!RouterAssumption
    <3>3. CASE u = t
      BY <1>1, <1>4, <1>7, <3>1, <3>2, <3>3 DEF LockInv, Key
    <3>4. CASE u # t
      BY <1>2, <1>5, <1>7, <1>8, <3>1, <3>2, <3>4 DEF LockInv
    <3>5. QED
      BY <3>3, <3>4
  <2>2. QED
    BY <2>1 DEF LockInv
<1>10. CacheInv'
  <2> SUFFICES ASSUME NEW k \in Router!Keys
               PROVE  /\ k \in results' <=> delivered'[k] # Absent /\ holder'[k] = Absent
                      /\ Router!Fresh(took'[k]) => holder'[k] = Absent /\ delivered'[k] = took'[k]
    BY DEF CacheInv, Router!Fresh
  <2>1. delivered'[k] = (IF k = key THEN IF keep THEN 0 ELSE Absent ELSE delivered[k])
        /\ took'[k] = (IF k = key THEN IF keep THEN 0 ELSE Absent ELSE took[k])
    BY DEF Router!TypeOK
  <2>2. k \in results' <=> IF k = key THEN keep ELSE k \in results
    BY <1>2
  <2>3. 0 # Absent
    BY DEF Router!RouterAssumption
  <2>4. CASE k = key
    BY <1>7, <2>1, <2>2, <2>3, <2>4 DEF Router!Fresh
  <2>5. CASE k # key
    BY <1>7, <2>1, <2>2, <2>5 DEF CacheInv
  <2>6. QED
    BY <2>4, <2>5
<1>11. TaskInv'
  BY SameTasks
<1>12. Router!TypeOK'
  <2>1. pc' \in [Slots -> {"free", "next", "lock", "asking", "done"}]
    BY <1>3 DEF Router!TypeOK
  <2>2. users' \in [Router!Keys -> SUBSET Slots] /\ holder' \in [Router!Keys -> Slots \cup {Absent}]
    BY DEF Router!TypeOK
  <2>3. 0 \in 0..RouterTTL
    BY DEF Router!RouterAssumption
  <2>4. delivered' \in [Router!Keys -> (0..RouterTTL) \cup {Absent}]
    BY <2>3 DEF Router!TypeOK
  <2>5. took' \in [Router!Keys -> (0..RouterTTL) \cup {Absent}]
    BY <2>3 DEF Router!TypeOK
  <2>6. owned' \in SUBSET Slots /\ cancelled' \in SUBSET Slots
    BY DEF Router!TypeOK
  <2>7. results' \in SUBSET Router!Keys
    BY <1>2 DEF Router!TypeOK
  <2>8. recipient' \in [Slots -> Recipients \cup {Absent}]
    BY DEF Router!TypeOK
  <2>9. QED
    BY <2>1, <2>2, <2>4, <2>5, <2>6, <2>7, <2>8 DEF Router!TypeOK
<1>13. QED
  BY <1>6, <1>9, <1>10, <1>11, <1>12

(* A call has asked all its recipients.                                    *)
LEMMA RestKeeps ==
    ASSUME Router!RouterAssumption, RouterInv, NEW t \in Slots, Router!Rest(t)
    PROVE  RouterInv'
<1> USE DEF RouterInv, Router!Rest, Router!cacheVars, Router!lockVars
<1>1. pc[t] = "next" /\ pc'[t] = "done"
  BY DEF Router!TypeOK
<1>2. \A u \in Slots : Key(u)' = Key(u) /\ (u # t => pc'[u] = pc[u])
  BY DEF Key, Router!TypeOK
<1>3. CallInv'
  BY <1>1, <1>2 DEF CallInv
<1>4. LockInv'
  BY <1>1, <1>2 DEF LockInv
<1>5. CacheInv'
  BY DEF CacheInv, Router!Fresh
<1>6. TaskInv'
  BY SameTasks
<1>7. Router!TypeOK'
  BY DEF Router!TypeOK
<1>8. QED
  BY <1>3, <1>4, <1>5, <1>6, <1>7

(* Who is cancelled while waiting for a lock is counted out of it.         *)
LEMMA CancelledKeeps ==
    ASSUME Router!RouterAssumption, RouterInv, NEW S \in SUBSET Slots, Router!Cancelled(S),
           phase' \in {phase, "cancelling"}
    PROVE  RouterInv'
<1> DEFINE waiting == {t \in S : pc[t] \in {"next", "lock"}}
<1> USE DEF RouterInv, Router!Cancelled, Router!cacheVars
<1>1. \A u \in Slots : /\ pc'[u] = (IF u \in waiting THEN "done" ELSE pc[u])
                       /\ recipient'[u] = (IF u \in waiting THEN Absent ELSE recipient[u])
  BY DEF Router!TypeOK
<1>2. \A u \in Slots : u \notin waiting => Key(u)' = Key(u)
  BY <1>1 DEF Key
<1>3. \A u \in waiting : u \in Slots /\ pc[u] \in {"next", "lock"} /\ pc'[u] = "done"
  BY <1>1
<1>4. CallInv'
  BY <1>1, <1>3 DEF CallInv
<1>5. LockInv'
  <2>1. ASSUME NEW k \in Router!Keys, NEW u \in Slots
        PROVE  /\ u \in users'[k] <=> pc'[u] \in {"lock", "asking"} /\ k = Key(u)'
               /\ holder'[k] = u <=> pc'[u] = "asking" /\ k = Key(u)'
    <3>1. users'[k] = users[k] \ waiting /\ holder'[k] = holder[k]
      OBVIOUS
    <3>2. CASE u \in waiting
      BY <1>3, <3>1, <3>2 DEF LockInv
    <3>3. CASE u \notin waiting
      BY <1>1, <1>2, <3>1, <3>3 DEF LockInv
    <3>4. QED
      BY <3>2, <3>3
  <2>2. QED
    BY <2>1 DEF LockInv
<1>6. CacheInv'
  BY DEF CacheInv, Router!Fresh
<1>7. TaskInv'
  BY DEF TaskInv, Router!Tasks
<1>8. Router!TypeOK'
  <2>1. pc' \in [Slots -> {"free", "next", "lock", "asking", "done"}]
    BY DEF Router!TypeOK
  <2>2. recipient' \in [Slots -> Recipients \cup {Absent}]
    BY DEF Router!TypeOK
  <2>3. users' \in [Router!Keys -> SUBSET Slots] /\ cancelled' \in SUBSET Slots
    BY DEF Router!TypeOK
  <2>4. QED
    BY <2>1, <2>2, <2>3 DEF Router!TypeOK
<1>9. QED
  BY <1>4, <1>5, <1>6, <1>7, <1>8

(* Entries and the last ownership age together.                            *)
LEMMA RouterTickKeeps ==
    ASSUME Router!RouterAssumption, RouterInv, Router!Tick
    PROVE  RouterInv'
<1> USE DEF RouterInv, Router!Tick
<1>1. CallInv' /\ LockInv' /\ TaskInv'
  BY CallsAlone
<1>2. \A k \in Router!Keys :
         /\ delivered'[k] = IF delivered[k] = Absent \/ delivered[k] = RouterTTL
                            THEN delivered[k] ELSE delivered[k] + 1
         /\ took'[k] = IF took[k] = Absent \/ took[k] = RouterTTL THEN took[k] ELSE took[k] + 1
  BY DEF Router!Older
<1>3. ASSUME NEW a \in (0..RouterTTL) \cup {Absent}, a # Absent, a # RouterTTL
      PROVE  a + 1 \in 0..RouterTTL /\ a + 1 # Absent /\ (a + 1 < RouterTTL => a < RouterTTL)
  BY <1>3 DEF Router!RouterAssumption
<1>4. Router!TypeOK'
  <2>1. delivered' \in [Router!Keys -> (0..RouterTTL) \cup {Absent}]
    BY <1>3 DEF Router!TypeOK, Router!Older
  <2>2. took' \in [Router!Keys -> (0..RouterTTL) \cup {Absent}]
    BY <1>3 DEF Router!TypeOK, Router!Older
  <2>3. QED
    BY <2>1, <2>2 DEF Router!TypeOK, Router!callVars, Router!lockVars
<1>5. CacheInv'
  <2> SUFFICES ASSUME NEW k \in Router!Keys
               PROVE  /\ k \in results' <=> delivered'[k] # Absent /\ holder'[k] = Absent
                      /\ Router!Fresh(took'[k]) => holder'[k] = Absent /\ delivered'[k] = took'[k]
    BY DEF CacheInv, Router!Fresh
  <2>1. delivered[k] \in (0..RouterTTL) \cup {Absent} /\ took[k] \in (0..RouterTTL) \cup {Absent}
    BY DEF Router!TypeOK
  <2>2. holder' = holder /\ results' = results
    BY DEF Router!lockVars
  <2>3. delivered'[k] = Absent <=> delivered[k] = Absent
    BY <1>2, <1>3, <2>1
  <2>4. Router!Fresh(took'[k]) => Router!Fresh(took[k])
    BY <1>2, <1>3, <2>1 DEF Router!Fresh
  <2>5. QED
    BY <1>2, <2>2, <2>3, <2>4 DEF CacheInv
<1>6. QED
  BY <1>1, <1>4, <1>5

(* The invariant is inductive.                                             *)
LEMMA RouterKeeps ==
    ASSUME Router!RouterAssumption, RouterInv, [Router!Next]_(Router!vars)
    PROVE  RouterInv'
<1>1. CASE \E p \in Copies : Router!Enqueue(p)
  BY <1>1, EnqueueKeeps
<1>2. CASE \E t \in Slots, p \in Copies : Router!Call(t, p)
  BY <1>2, CallKeeps
<1>3. CASE \E t \in Slots : Router!Step(t)
  <2>1. PICK t \in Slots : Router!Step(t)
    BY <1>3
  <2>2. QED
    BY <2>1, TakeKeeps, DoneKeeps, UseLockKeeps, RepeatedKeeps, AskKeeps, SettleKeeps,
       RestKeeps DEF Router!Step
<1>4. CASE \E t \in Slots : Router!CancelCall(t)
  <2>1. PICK t \in Slots : Router!CancelCall(t)
    BY <1>4
  <2>2. Router!Cancelled({t}) /\ phase' = phase
    BY <2>1 DEF Router!CancelCall
  <2>3. QED
    BY <2>2, CancelledKeeps
<1>5. CASE Router!Stop \/ Router!Drained
  <2>1. CallInv' /\ LockInv' /\ CacheInv' /\ TaskInv'
    BY <1>5, CallsAlone DEF Router!Stop, Router!Drained
  <2>2. Router!TypeOK'
    BY <1>5 DEF RouterInv, Router!TypeOK, Router!Stop, Router!Drained, Router!callVars,
       Router!cacheVars, Router!lockVars
  <2>3. QED
    BY <2>1, <2>2 DEF RouterInv
<1>6. CASE Router!DrainTimeout
  <2>1. Router!Cancelled(Router!Tasks) /\ phase' = "cancelling" /\ Router!Tasks \in SUBSET Slots
    BY <1>6 DEF Router!DrainTimeout, Router!Tasks
  <2>2. QED
    BY <2>1, CancelledKeeps
<1>7. CASE Router!Tick
  BY <1>7, RouterTickKeeps
<1>8. CASE UNCHANGED Router!vars
  <2>1. CallInv' /\ LockInv' /\ CacheInv' /\ TaskInv'
    BY <1>8, CallsAlone DEF Router!vars
  <2>2. Router!TypeOK'
    BY <1>8 DEF RouterInv, Router!TypeOK, Router!vars, Router!callVars, Router!cacheVars,
       Router!lockVars
  <2>3. QED
    BY <2>1, <2>2 DEF RouterInv
<1>9. QED
  BY <1>1, <1>2, <1>3, <1>4, <1>5, <1>6, <1>7, <1>8 DEF Router!Next

(* It holds always.                                                        *)
LEMMA RouterInvariant == Router!RouterAssumption => (Router!Spec => []RouterInv)
<1> SUFFICES ASSUME Router!RouterAssumption PROVE Router!Spec => []RouterInv
  OBVIOUS
<1>1. Router!Init => RouterInv
  BY RouterInit
<1>2. RouterInv /\ [Router!Next]_(Router!vars) => RouterInv'
  BY RouterKeeps
<1>3. QED
  BY <1>1, <1>2, PTL DEF Router!Spec

(* Two copies of a packet are never with a recipient at once, nobody is    *)
(* asked again while an ownership is remembered, and an entry comes with   *)
(* its answer (packet_router.py:31-32, 63-64, 203-255), for any calls,     *)
(* cancellations, sizes and lifetimes.                                     *)
THEOREM AskedOnce ==
    Router!RouterAssumption => (Router!Spec => []Router!RecipientAskedOnce)
<1> SUFFICES ASSUME Router!RouterAssumption PROVE Router!Spec => []Router!RecipientAskedOnce
  OBVIOUS
<1>1. RouterInv => Router!RecipientAskedOnce
  <2> SUFFICES ASSUME RouterInv, NEW k \in Router!Keys
               PROVE  /\ Cardinality(Router!Asking(k)) <= 1
                      /\ Router!Asking(k) # {} => ~Router!Fresh(took[k])
                      /\ Router!Fresh(delivered[k]) /\ Router!Asking(k) = {} => k \in results
    BY SameCardinality DEF Router!RecipientAskedOnce
  <2>1. Router!Asking(k) = {t \in Slots : holder[k] = t}
    BY DEF RouterInv, LockInv, Router!Asking, Key
  <2>2. holder[k] \in Slots \cup {Absent} /\ Absent \notin Slots
    BY DEF RouterInv, Router!TypeOK, Router!RouterAssumption
  <2>3. CASE holder[k] = Absent
    <3>1. Router!Asking(k) = {}
      BY <2>1, <2>2, <2>3
    <3>2. QED
      BY <2>3, <3>1, FS_EmptySet DEF RouterInv, CacheInv, Router!Fresh
  <2>4. CASE holder[k] \in Slots
    <3>1. Router!Asking(k) = {holder[k]}
      BY <2>1, <2>4
    <3>2. Cardinality(Router!Asking(k)) = 1
      BY <3>1, FS_Singleton
    <3>3. ~Router!Fresh(took[k])
      BY <2>2, <2>4 DEF RouterInv, CacheInv
    <3>4. QED
      BY <3>1, <3>2, <3>3
  <2>5. QED
    BY <2>2, <2>3, <2>4
<1>2. QED
  BY <1>1, RouterInvariant, PTL

(* The number of tasks in flight is right, stop() leaves none, and a lock  *)
(* stays as long as somebody uses it (packet_router.py:92-136, 203-211).   *)
THEOREM RouterLeavesNothing ==
    Router!RouterAssumption => (Router!Spec => []Router!NothingLeftBehind)
<1> SUFFICES ASSUME Router!RouterAssumption PROVE Router!Spec => []Router!NothingLeftBehind
  OBVIOUS
<1>1. RouterInv => Router!NothingLeftBehind
  <2> SUFFICES ASSUME RouterInv PROVE Router!NothingLeftBehind
    OBVIOUS
  <2>1. ASSUME NEW k \in Router!Keys
        PROVE  users[k] =
          {t \in Slots : pc[t] \in {"lock", "asking"} /\ k = <<packet[t], recipient[t]>>}
    <3>1. users[k] \subseteq Slots
      BY DEF RouterInv, Router!TypeOK
    <3>2. QED
      BY <3>1 DEF RouterInv, LockInv, Key
  <2>2. QED
    BY <2>1, SameCardinality DEF RouterInv, TaskInv, Router!NothingLeftBehind
<1>2. QED
  BY <1>1, RouterInvariant, PTL

-----------------------------------------------------------------------------
(* The policy that packets are judged by: PacketPolicy.                    *)
CONSTANTS Judged, Channels, Groups, Objects, Malformed, Signals, MaxVersions, MaxRefusals
VARIABLES file, edited, running, engine, version, installed, chain, decisions, refusals

Policy == INSTANCE PacketPolicy WITH
    Packets <- Judged, None <- Absent, MaxFaults <- MaxRefusals, faults <- refusals

(* What a packet carries from consumer to consumer, and what they were told. *)
ReceiptType == [engine : Objects, by : Nat, drop : BOOLEAN]
(* What is known of a packet under way.                                    *)
ChainType == [channel : Channels, signal : Signals, at : 1..4,
              receipt : ReceiptType \cup {Absent}]
(* A packet has not come to its end.                                       *)
UnderWay(p) == chain[p] # Absent
(* The receipt it carries, if any.                                         *)
ReceiptOf(p) == chain[p].receipt
(* An answer to a consumer.                                                *)
DecisionType ==
    [packet : Judged, at : {"bridge", "handler", "router", "engine"}, now : Nat, by : Nat,
     drop : BOOLEAN]

(* The document.                                                           *)
DocumentInv ==
    /\ running = installed
    /\ edited \/ file = installed
    /\ Policy!Compiles(running)
    /\ engine \in Objects
    /\ version \in Nat

(* A receipt names no engine that is yet to come, and that of the engine   *)
(* that runs its number.                                                   *)
ReceiptRight(p) ==
    UnderWay(p) /\ ReceiptOf(p) # Absent =>
       /\ ReceiptOf(p).by <= version
       /\ ReceiptOf(p).engine = engine => ReceiptOf(p).by = version

(* A packet that goes on after a decision has the receipt of the latest.   *)
DecisionRight(d) ==
    /\ d.by = d.now
    /\ d.by <= version
    /\ UnderWay(d.packet) =>
          /\ ReceiptOf(d.packet) # Absent
          /\ d.by = version => ReceiptOf(d.packet).engine = engine
          /\ d.by = ReceiptOf(d.packet).by => d.drop = ReceiptOf(d.packet).drop

(* Decisions on a packet by one engine are the same.                       *)
SameAnswers ==
    \A a, b \in decisions : a.packet = b.packet /\ a.by = b.by => a.drop = b.drop

(* The inductive invariant of the policy.                                  *)
PolicyInv ==
    /\ DocumentInv
    /\ chain \in [Judged -> ChainType \cup {Absent}]
    /\ decisions \subseteq DecisionType
    /\ \A p \in Judged : ReceiptRight(p)
    /\ \A d \in decisions : DecisionRight(d)
    /\ SameAnswers

(* The invariant holds at the start.                                       *)
LEMMA PolicyStart == Policy!ReceiptsApart /\ Policy!Init => PolicyInv
<1> SUFFICES ASSUME Policy!ReceiptsApart, Policy!Init PROVE PolicyInv
  OBVIOUS
<1>1. DocumentInv
  <2>1. engine \in Objects
    BY DEF Policy!Init, Policy!ReceiptsApart
  <2>2. file.drops = {}
    BY DEF Policy!Init, Policy!Default
  <2>3. QED
    BY <2>1, <2>2 DEF Policy!Init, Policy!Compiles, DocumentInv
<1>2. chain = [p \in Judged |-> Absent] /\ decisions = {}
  BY DEF Policy!Init
<1>3. QED
  BY <1>1, <1>2 DEF PolicyInv, SameAnswers, ReceiptRight, UnderWay

(* Another document is in force, with another engine.                      *)
LEMMA ActivateKeeps ==
    ASSUME PolicyInv, NEW d, Policy!Compiles(d), Policy!Activate(d),
           file' = d, installed' = d, UNCHANGED <<chain, decisions>>
    PROVE  PolicyInv'
<1>1. /\ running' = d /\ engine' \in Objects /\ engine' \notin Policy!Held
      /\ version \in Nat /\ version' = version + 1
  BY DEF Policy!Activate, PolicyInv, DocumentInv
<1>2. DocumentInv'
  BY <1>1 DEF DocumentInv, Policy!Compiles
<1>3. ASSUME NEW p \in Judged PROVE ReceiptRight(p)'
  <2>1. UnderWay(p) /\ ReceiptOf(p) # Absent => ReceiptOf(p).engine # engine'
    BY <1>1 DEF Policy!Held, UnderWay, ReceiptOf
  <2>2. ReceiptRight(p)
    BY DEF PolicyInv
  <2>3. UnderWay(p)' = UnderWay(p) /\ ReceiptOf(p)' = ReceiptOf(p)
    BY DEF UnderWay, ReceiptOf
  <2>4. UnderWay(p) /\ ReceiptOf(p) # Absent => ReceiptOf(p).by \in Nat
    BY DEF PolicyInv, ChainType, ReceiptType, UnderWay, ReceiptOf
  <2>5. QED
    BY <1>1, <2>1, <2>2, <2>3, <2>4 DEF ReceiptRight
<1>4. ASSUME NEW e \in decisions PROVE DecisionRight(e)'
  <2>1. DecisionRight(e) /\ e.by \in Nat
    BY DEF PolicyInv, DecisionType
  <2>2. QED
    BY <1>1, <2>1 DEF DecisionRight, UnderWay, ReceiptOf
<1>5. QED
  BY <1>2, <1>3, <1>4 DEF PolicyInv, SameAnswers

(* A request saves a document, or is refused.                              *)
LEMMA SaveKeeps ==
    ASSUME PolicyInv, NEW d, Policy!Save(d)
    PROVE  PolicyInv'
<1>1. CASE Policy!Compiles(d) /\ Policy!Activate(d) /\ file' = d /\ installed' = d
  BY <1>1, ActivateKeeps DEF Policy!Save
<1>2. CASE UNCHANGED <<file, edited, running, engine, version, installed>>
  BY <1>2 DEF Policy!Save, PolicyInv, DocumentInv, Policy!Compiles, ReceiptRight,
              DecisionRight, SameAnswers, UnderWay, ReceiptOf
<1>3. QED
  BY <1>1, <1>2 DEF Policy!Save, Policy!NotPersisted

(* A packet arrives, of which nothing was decided.                         *)
LEMMA ArriveKeeps ==
    ASSUME PolicyInv, NEW p \in Judged, NEW c \in Channels, NEW g \in Signals, Policy!Arrive(p, c, g)
    PROVE  PolicyInv'
<1>1. /\ chain' = [chain EXCEPT ![p] = [channel |-> c, signal |-> g, at |-> 1,
                                       receipt |-> Absent]]
      /\ decisions' = {d \in decisions : d.packet # p}
      /\ UNCHANGED <<file, edited, running, engine, version, installed>>
  BY DEF Policy!Arrive
<1>2. chain'[p].receipt = Absent /\ \A q \in Judged \ {p} : chain'[q] = chain[q]
  BY <1>1 DEF PolicyInv
<1>3. DocumentInv'
  BY <1>1 DEF PolicyInv, DocumentInv, Policy!Compiles
<1>4. ASSUME NEW q \in Judged PROVE ReceiptRight(q)'
  BY <1>1, <1>2 DEF PolicyInv, ReceiptRight, UnderWay, ReceiptOf
<1>5. ASSUME NEW d \in decisions' PROVE DecisionRight(d)'
  <2>1. d \in decisions /\ d.packet \in Judged \ {p}
    BY <1>1 DEF PolicyInv, DecisionType
  <2>2. DecisionRight(d)
    BY <2>1 DEF PolicyInv
  <2>3. QED
    BY <1>1, <1>2, <2>1, <2>2 DEF DecisionRight, UnderWay, ReceiptOf
<1>6. chain' \in [Judged -> ChainType \cup {Absent}] /\ decisions' \subseteq DecisionType
  BY <1>1 DEF PolicyInv, ChainType
<1>7. SameAnswers'
  BY <1>1 DEF PolicyInv, SameAnswers
<1>8. QED
  BY <1>3, <1>4, <1>5, <1>6, <1>7 DEF PolicyInv

(* A packet goes on, or ends, with a receipt.                              *)
LEMMA ProceedMoves ==
    ASSUME PolicyInv, NEW p \in Judged, UnderWay(p),
           NEW r \in ReceiptType \cup {Absent}, Policy!Proceed(p, r)
    PROVE  /\ chain' \in [Judged -> ChainType \cup {Absent}]
           /\ \A q \in Judged \ {p} : chain'[q] = chain[q]
           /\ UnderWay(p)' => ReceiptOf(p)' = r
<1> DEFINE c == chain[p]
           n == c.at + 1
           x == [c EXCEPT !.at = n, !.receipt = r]
           v == IF c.at = 4 THEN Absent ELSE x
<1>1. chain' = [chain EXCEPT ![p] = v]
  BY DEF Policy!Proceed
<1>2. c \in ChainType
  BY DEF PolicyInv, UnderWay
<1>3. ASSUME c.at # 4 PROVE x \in ChainType /\ x.receipt = r
  <2>1. n \in 1..4
    BY <1>2, <1>3 DEF ChainType
  <2> HIDE DEF n, c
  <2>2. QED
    BY <1>2, <2>1 DEF ChainType
<1> HIDE DEF c, n, x
<1>4. v \in ChainType \cup {Absent} /\ (v # Absent => v.receipt = r)
  BY <1>3
<1> HIDE DEF v
<1>5. QED
  BY <1>1, <1>4 DEF PolicyInv, UnderWay, ReceiptOf

(* The engine is off, and the packet goes on as it is.                     *)
LEMMA PassKeeps ==
    ASSUME PolicyInv, NEW p \in Judged, Policy!Pass(p)
    PROVE  PolicyInv'
<1>1. /\ UnderWay(p) /\ Policy!Proceed(p, ReceiptOf(p))
      /\ UNCHANGED <<file, edited, running, engine, version, installed, decisions>>
  BY DEF Policy!Pass, UnderWay, ReceiptOf
<1>2. /\ chain' \in [Judged -> ChainType \cup {Absent}]
      /\ \A q \in Judged \ {p} : chain'[q] = chain[q]
      /\ UnderWay(p)' => ReceiptOf(p)' = ReceiptOf(p)
  <2>1. ReceiptOf(p) \in ReceiptType \cup {Absent}
    BY <1>1 DEF PolicyInv, ChainType, UnderWay, ReceiptOf
  <2>2. QED
    BY <1>1, <2>1, ProceedMoves
<1>3. \A q \in Judged : UnderWay(q)' => UnderWay(q) /\ ReceiptOf(q)' = ReceiptOf(q)
  BY <1>1, <1>2 DEF UnderWay, ReceiptOf
<1>4. DocumentInv' /\ SameAnswers'
  BY <1>1 DEF PolicyInv, DocumentInv, Policy!Compiles, SameAnswers
<1>5. ASSUME NEW q \in Judged PROVE ReceiptRight(q)'
  BY <1>1, <1>3 DEF PolicyInv, ReceiptRight
<1>6. ASSUME NEW d \in decisions PROVE DecisionRight(d)'
  <2>1. DecisionRight(d) /\ d.packet \in Judged
    BY DEF PolicyInv, DecisionType
  <2>2. QED
    BY <1>1, <1>3, <2>1 DEF DecisionRight
<1>7. QED
  BY <1>1, <1>2, <1>4, <1>5, <1>6 DEF PolicyInv

(* A consumer asks, and is told what the receipt says or the engine.       *)
LEMMA PolicyAskKeeps ==
    ASSUME Policy!ReceiptsApart, PolicyInv, NEW p \in Judged, Policy!Ask(p)
    PROVE  PolicyInv'
<1> DEFINE r == Policy!Receipt(p)
           new == [packet |-> p, at |-> Policy!Stages[chain[p].at], now |-> version,
                   by |-> r.by, drop |-> r.drop]
<1>1. /\ UnderWay(p) /\ decisions' = decisions \cup {new}
      /\ IF r.drop THEN chain' = [chain EXCEPT ![p] = Absent] ELSE Policy!Proceed(p, r)
      /\ UNCHANGED <<file, edited, running, engine, version, installed>>
  BY DEF Policy!Ask, UnderWay
<1>2. chain[p] \in ChainType /\ ReceiptOf(p) \in ReceiptType \cup {Absent}
      /\ version \in Nat /\ engine \in Objects
  BY <1>1 DEF PolicyInv, DocumentInv, ChainType, UnderWay, ReceiptOf
<1>3. /\ r \in ReceiptType /\ r.engine = engine /\ r.by = version
      /\ ReceiptOf(p) # Absent /\ ReceiptOf(p).engine = engine => r = ReceiptOf(p)
  <2>1. CASE Policy!Reusable(p)
    <3>1. r = ReceiptOf(p) /\ ReceiptOf(p) # Absent /\ ReceiptOf(p).engine = engine
      BY <2>1 DEF Policy!Receipt, Policy!Reusable, ReceiptOf
    <3>2. ReceiptRight(p)
      BY DEF PolicyInv
    <3>3. QED
      BY <1>1, <1>2, <3>1, <3>2 DEF ReceiptRight
  <2>2. CASE ~Policy!Reusable(p)
    <3> DEFINE v == Policy!Drops(running, p, chain[p].at)
    <3>1. v \in BOOLEAN
      BY DEF Policy!Drops
    <3>2. r = [engine |-> engine, by |-> version, drop |-> v]
      BY <2>2 DEF Policy!Receipt
    <3> HIDE DEF v, r
    <3>3. r \in ReceiptType /\ r.engine = engine /\ r.by = version
      BY <1>2, <3>1, <3>2 DEF ReceiptType
    <3>4. ~(ReceiptOf(p) # Absent /\ ReceiptOf(p).engine = engine)
      BY <2>2 DEF Policy!Reusable, ReceiptOf
    <3>5. QED
      BY <3>3, <3>4
  <2>3. QED
    BY <2>1, <2>2
<1> HIDE DEF r
<1>4. r # Absent
  BY <1>3 DEF ReceiptType, Policy!ReceiptsApart
<1>5. /\ new.packet = p /\ new.now = version /\ new.by = version /\ new.drop = r.drop
      /\ new \in DecisionType
  <2>1. Policy!Stages[chain[p].at] \in {"bridge", "handler", "router", "engine"}
    <3>1. chain[p].at \in 1..4
      BY <1>2 DEF ChainType
    <3>2. chain[p].at = 1 \/ chain[p].at = 2 \/ chain[p].at = 3 \/ chain[p].at = 4
      BY <3>1
    <3>3. QED
      BY <3>2 DEF Policy!Stages
  <2>2. QED
    BY <1>2, <1>3, <2>1 DEF DecisionType, ReceiptType
<1> HIDE DEF new
<1>6. /\ chain' \in [Judged -> ChainType \cup {Absent}]
      /\ \A q \in Judged \ {p} : chain'[q] = chain[q]
      /\ UnderWay(p)' => ReceiptOf(p)' = r
  <2>1. CASE r.drop
    <3>1. chain' = [chain EXCEPT ![p] = Absent]
      BY <1>1, <2>1
    <3>2. QED
      BY <3>1 DEF PolicyInv, UnderWay
  <2>2. CASE ~r.drop
    BY <1>1, <1>3, <2>2, ProceedMoves
  <2>3. QED
    BY <2>1, <2>2
<1>7. DocumentInv'
  BY <1>1 DEF PolicyInv, DocumentInv, Policy!Compiles
<1>8. ASSUME NEW q \in Judged PROVE ReceiptRight(q)'
  <2>1. CASE q = p
    BY <1>1, <1>2, <1>3, <1>6, <2>1 DEF ReceiptRight
  <2>2. CASE q # p
    <3>1. ReceiptRight(q) /\ UnderWay(q)' = UnderWay(q) /\ ReceiptOf(q)' = ReceiptOf(q)
      BY <1>6, <2>2 DEF PolicyInv, UnderWay, ReceiptOf
    <3>2. QED
      BY <1>1, <3>1 DEF ReceiptRight
  <2>3. QED
    BY <2>1, <2>2
<1>9. ASSUME NEW d \in decisions, d.packet = p, d.by = version
      PROVE  d.drop = r.drop
  <2>1. DecisionRight(d) /\ ReceiptRight(p)
    BY DEF PolicyInv
  <2>2. ReceiptOf(p) # Absent /\ ReceiptOf(p).engine = engine
    BY <1>1, <1>9, <2>1 DEF DecisionRight
  <2>3. r = ReceiptOf(p) /\ r.by = version
    BY <1>3, <2>2
  <2>4. QED
    BY <1>1, <1>9, <2>1, <2>3 DEF DecisionRight
<1>10. ASSUME NEW d \in decisions PROVE DecisionRight(d)'
  <2>1. DecisionRight(d) /\ d.packet \in Judged
    BY DEF PolicyInv, DecisionType
  <2>2. CASE d.packet = p
    BY <1>1, <1>3, <1>4, <1>6, <1>9, <2>1, <2>2 DEF DecisionRight
  <2>3. CASE d.packet # p
    <3>1. UnderWay(d.packet)' = UnderWay(d.packet) /\ ReceiptOf(d.packet)' = ReceiptOf(d.packet)
      BY <1>6, <2>1, <2>3 DEF UnderWay, ReceiptOf
    <3>2. QED
      BY <1>1, <2>1, <3>1 DEF DecisionRight
  <2>4. QED
    BY <2>2, <2>3
<1>11. ASSUME NEW d, d = new PROVE DecisionRight(d)'
  BY <1>11, <1>1, <1>2, <1>3, <1>4, <1>5, <1>6 DEF DecisionRight
<1>12. SameAnswers'
  <2> SUFFICES ASSUME NEW a \in decisions', NEW b \in decisions',
                      a.packet = b.packet, a.by = b.by
               PROVE  a.drop = b.drop
    BY DEF SameAnswers
  <2>1. CASE a \in decisions /\ b \in decisions
    BY <2>1 DEF PolicyInv, SameAnswers
  <2>2. CASE a = new
    BY <1>1, <1>5, <1>9, <2>2
  <2>3. CASE b = new
    BY <1>1, <1>5, <1>9, <2>3
  <2>4. QED
    BY <1>1, <2>1, <2>2, <2>3
<1>13. decisions' \subseteq DecisionType
  BY <1>1, <1>5 DEF PolicyInv
<1>14. QED
  BY <1>1, <1>6, <1>7, <1>8, <1>10, <1>11, <1>12, <1>13 DEF PolicyInv

(* The file is edited by hand, or the daemon started from it.              *)
LEMMA FileKeeps ==
    ASSUME Policy!ReceiptsApart, PolicyInv, Policy!Edit \/ Policy!Restart
    PROVE  PolicyInv'
<1>1. CASE Policy!Edit
  BY <1>1 DEF Policy!Edit, PolicyInv, DocumentInv, Policy!Compiles, ReceiptRight,
              DecisionRight, SameAnswers, UnderWay, ReceiptOf
<1>2. CASE Policy!Restart
  <2>1. /\ running' = file /\ installed' = file /\ file' = file
        /\ engine' \in Objects /\ version' = version + 1
        /\ chain' = [p \in Judged |-> Absent] /\ decisions' = {} /\ Policy!Compiles(file)
    BY <1>2 DEF Policy!Restart, Policy!Readable
  <2>2. DocumentInv'
    BY <2>1 DEF PolicyInv, DocumentInv, Policy!Compiles
  <2>3. QED
    BY <2>1, <2>2 DEF PolicyInv, SameAnswers, ReceiptRight, UnderWay
<1>3. QED
  BY <1>1, <1>2

(* Every step keeps the invariant.                                         *)
LEMMA PolicyStep ==
    ASSUME Policy!ReceiptsApart, PolicyInv, [Policy!Next]_(Policy!vars)
    PROVE  PolicyInv'
<1>1. CASE UNCHANGED Policy!vars
  BY <1>1 DEF Policy!vars, PolicyInv, DocumentInv, Policy!Compiles, ReceiptRight,
              DecisionRight, SameAnswers, UnderWay, ReceiptOf
<1>2. CASE \E d : Policy!Save(d)
  BY <1>2, SaveKeeps
<1>3. CASE \E p \in Judged : \/ \E c \in Channels, g \in Signals : Policy!Arrive(p, c, g)
                           \/ Policy!Pass(p) \/ Policy!Ask(p)
  BY <1>3, ArriveKeeps, PassKeeps, PolicyAskKeeps
<1>4. CASE Policy!Edit \/ Policy!Restart
  BY <1>4, FileKeeps
<1>5. ASSUME NEW on \in BOOLEAN, NEW far \in BOOLEAN, NEW drops, NEW groups,
             Policy!Update(on, far, drops, groups)
      PROVE  \E d : Policy!Save(d)
  BY <1>5 DEF Policy!Update
<1>6. ASSUME NEW g \in Groups, Policy!AddGroup(g) \/ Policy!DeleteGroup(g)
      PROVE  \E d : Policy!Save(d)
  BY <1>6 DEF Policy!AddGroup, Policy!DeleteGroup
<1>7. ASSUME NEW g \in Groups, NEW c \in Channels, Policy!AddEntry(g, c) \/ Policy!DeleteEntry(g, c)
      PROVE  \E d : Policy!Save(d)
  BY <1>7 DEF Policy!AddEntry, Policy!DeleteEntry
<1>8. QED
  BY <1>1, <1>2, <1>3, <1>4, <1>5, <1>6, <1>7 DEF Policy!Next

(* The invariant holds throughout, for any packets, channels, groups,      *)
(* engine objects and documents.                                           *)
THEOREM PolicyInvariant == Policy!ReceiptsApart => (Policy!Spec => []PolicyInv)
<1> SUFFICES ASSUME Policy!ReceiptsApart PROVE Policy!Spec => []PolicyInv
  OBVIOUS
<1>1. Policy!Init => PolicyInv
  BY PolicyStart
<1>2. PolicyInv /\ [Policy!Next]_(Policy!vars) => PolicyInv'
  BY PolicyStep
<1>3. QED
  BY <1>1, <1>2, PTL DEF Policy!Spec

(* Whatever the console saves, fails to save or finds edited, what runs is *)
(* what was accepted last; and consumers of a packet are told the same by  *)
(* the same engine (policy_service.py:366-376, policy_runtime.py:55-58).   *)
THEOREM PolicyIsOne == Policy!ReceiptsApart => (Policy!Spec => []Policy!OnePolicy)
<1> SUFFICES ASSUME Policy!ReceiptsApart PROVE Policy!Spec => []Policy!OnePolicy
  OBVIOUS
<1>1. PolicyInv => Policy!OnePolicy
  BY DEF PolicyInv, DocumentInv, DecisionRight, SameAnswers, Policy!OnePolicy, Policy!Compiles
<1>2. QED
  BY <1>1, PolicyInvariant, PTL
=============================================================================
