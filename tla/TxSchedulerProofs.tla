------------------------- MODULE TxSchedulerProofs -------------------------
(***************************************************************************)
(* Theorems about TxScheduler and TxOrder, for every number of requests    *)
(* and channels, every queue size, lifetime, retry limit and overflow      *)
(* policy.                                                                 *)
(*                                                                         *)
(* RefusedNeverOnAir is not inductive.  That a refused packet was never on *)
(* the air rests on where the code refuses: a request in a queue, or in    *)
(* the worker's hands before the radio.  So the invariant must say that    *)
(* what is queued or held was never on the air (SpentInv), which in turn   *)
(* needs that a request is in one place only (OnePlace).  All that follows *)
(* builds on this invariant: that nothing is forgotten, that TxService is  *)
(* implemented, the order of first attempts, and the share of every queue. *)
(***************************************************************************)
EXTENDS TxOrder, WellFoundedInduction, TLAPS

(***************************************************************************)
(* What turning a queue once around does to it, for every queue: the       *)
(* requests whose futures are done are gone, the others are all there, in  *)
(* the order they were in.                                                 *)
(*                                                                         *)
(* The library's induction theorems take the induction predicate as a      *)
(* parameter, which the provers cannot instantiate.  Induction here is the *)
(* least-number principle over a set of naturals, from the library's       *)
(* theorem that < is well founded on Nat.                                  *)
(***************************************************************************)

LessThan == {p \in Nat \X Nat : p[1] < p[2]}

(* Every nonempty set of naturals has a least element.                     *)
LEMMA LeastNumber ==
    ASSUME NEW T, T \subseteq Nat, T # {}
    PROVE  \E x \in T : \A y \in T : x <= y
<1>1. IsWellFoundedOn(LessThan, Nat)
  <2>1. LessThan = OpToRel(<, Nat)
    BY Zenon DEF LessThan, OpToRel
  <2>2. QED
    BY <2>1, NatLessThanWellFounded, Zenon
<1>2. PICK x \in T : \A y \in T : ~ (<<y, x>> \in LessThan)
  BY <1>1, WFMin
<1>3. ASSUME NEW y \in T
      PROVE  x <= y
  <2>1. x \in Nat /\ y \in Nat
    OBVIOUS
  <2>2. <<y, x>> \in Nat \X Nat
    BY <2>1
  <2>3. ~ (<<y, x>>[1] < <<y, x>>[2])
    BY <1>2, <2>2, Zenon DEF LessThan
  <2>4. QED
    BY <2>1, <2>3
<1>4. QED
  BY <1>3

(* One turn of the loop: take the head, put it back unless it is done.     *)
Turn(q, done) ==
    IF Head(q) \in done THEN Tail(q) ELSE Append(Tail(q), Head(q))

(* A run of n turns starting from q.                                       *)
IsRun(f, n, q, done) ==
    f = [i \in 0..n |-> IF i = 0 THEN q ELSE Turn(f[i-1], done)]

(* The recursion in Turned has a solution, so Turned is one.               *)
LEMMA RunExists ==
    ASSUME NEW q, NEW done
    PROVE  \A n \in Nat : \E f : IsRun(f, n, q, done)
<1> DEFINE T == {n \in Nat : ~ \E f : IsRun(f, n, q, done)}
<1> SUFFICES T = {}
  OBVIOUS
<1> SUFFICES ASSUME T # {}
             PROVE  FALSE
  OBVIOUS
<1>1. PICK n \in T : \A m \in T : n <= m
  <2> T \subseteq Nat
    OBVIOUS
  <2> HIDE DEF T
  <2> QED
    BY LeastNumber
<1>2. CASE n = 0
  <2> DEFINE f == [i \in 0..0 |-> q]
  <2>1. f = [i \in 0..0 |-> IF i = 0 THEN q ELSE Turn(f[i-1], done)]
    BY DEF f
  <2>2. IsRun(f, 0, q, done)
    BY <2>1 DEF IsRun
  <2>3. QED
    BY <1>1, <1>2, <2>2
<1>3. CASE n # 0
  <2>1. n - 1 \in Nat /\ n - 1 \notin T /\ n \in Nat
    BY <1>1, <1>3
  <2>2. PICK g : IsRun(g, n - 1, q, done)
    BY <2>1
  <2> DEFINE f == [i \in 0..n |-> IF i = 0 THEN q ELSE Turn(g[i-1], done)]
  <2>3. \A i \in 0..(n-1) : f[i] = g[i]
    BY <2>1, <2>2 DEF IsRun
  <2>4. f = [i \in 0..n |-> IF i = 0 THEN q ELSE Turn(f[i-1], done)]
    <3>1. ASSUME NEW i \in 0..n, i # 0
          PROVE  g[i-1] = f[i-1]
      <4> HIDE DEF f
      <4>1. i - 1 \in 0..(n-1)
        BY <2>1, <3>1
      <4>2. QED
        BY <2>3, <4>1
    <3> HIDE DEF f
    <3>2. f = [i \in 0..n |-> IF i = 0 THEN q ELSE Turn(g[i-1], done)]
      BY DEF f
    <3>3. [i \in 0..n |-> IF i = 0 THEN q ELSE Turn(g[i-1], done)]
            = [i \in 0..n |-> IF i = 0 THEN q ELSE Turn(f[i-1], done)]
      BY <3>1
    <3>4. QED
      BY <3>2, <3>3
  <2> HIDE DEF f
  <2>5. IsRun(f, n, q, done)
    BY <2>4 DEF IsRun
  <2>6. QED
    BY <1>1, <2>5
<1>4. QED
  BY <1>2, <1>3

LEMMA TurnedIsRun ==
    ASSUME NEW S, NEW q \in Seq(S), NEW done
    PROVE  IsRun(Turned(q, done), Len(q), q, done)
<1>1. Len(q) \in Nat
  OBVIOUS
<1>2. PICK f : IsRun(f, Len(q), q, done)
  BY <1>1, RunExists
<1>3. QED
  BY <1>2 DEF Turned, IsRun, Turn

-----------------------------------------------------------------------------
(* After i turns the queue is what is left of q followed by the live       *)
(* requests among the first i, in their order.                             *)
AfterTurns(t, i, q, done) ==
    /\ t \in Seq(Elements(q))
    /\ Len(q) - i <= Len(t)
    /\ Len(t) <= Len(q)
    /\ \A k \in 1..(Len(q) - i) : t[k] = q[i+k]
    /\ \A k \in (Len(q) - i + 1)..Len(t) :
          \E m \in 1..i : t[k] = q[m] /\ q[m] \notin done
    /\ \A m \in 1..i :
          q[m] \notin done => \E k \in (Len(q) - i + 1)..Len(t) : t[k] = q[m]
    /\ \A k, l \in (Len(q) - i + 1)..Len(t) :
          k < l => \E m, n \in 1..i : m < n /\ t[k] = q[m] /\ t[l] = q[n]

LEMMA TurnKeeps ==
    ASSUME NEW S, NEW q \in Seq(S), NEW done, NEW t,
           NEW i \in Nat, i < Len(q), AfterTurns(t, i, q, done)
    PROVE  AfterTurns(Turn(t, done), i + 1, q, done)
<1> DEFINE n == Len(q)
<1> DEFINE u == Turn(t, done)
<1>0. /\ n \in Nat /\ i + 1 \in 1..n
      /\ t \in Seq(Elements(q)) /\ Len(t) \in Nat /\ Len(t) >= 1
      /\ t # <<>> /\ Head(t) = t[1] /\ t[1] = q[i+1]
  BY DEF AfterTurns
<1>1. CASE q[i+1] \in done
  <2>1. u = Tail(t)
    BY <1>0, <1>1 DEF Turn
  <2>2. /\ u \in Seq(Elements(q)) /\ Len(u) = Len(t) - 1
        /\ \A k \in 1..Len(u) : u[k] = t[k+1]
    BY <1>0, <2>1
  <2> HIDE DEF u
  <2>3. n - (i+1) <= Len(u) /\ Len(u) <= n
    BY <1>0, <2>2 DEF AfterTurns
  <2>4. \A k \in 1..(n - (i+1)) : u[k] = q[(i+1)+k]
    BY <1>0, <2>2, <2>3 DEF AfterTurns
  <2>5. \A k \in (n - (i+1) + 1)..Len(u) :
          \E m \in 1..(i+1) : u[k] = q[m] /\ q[m] \notin done
    <3> SUFFICES ASSUME NEW k \in (n - (i+1) + 1)..Len(u)
                 PROVE  \E m \in 1..(i+1) : u[k] = q[m] /\ q[m] \notin done
      OBVIOUS
    <3>1. k + 1 \in (n - i + 1)..Len(t) /\ u[k] = t[k+1]
      BY <1>0, <2>2
    <3>2. PICK m \in 1..i : t[k+1] = q[m] /\ q[m] \notin done
      BY <3>1 DEF AfterTurns
    <3>3. m \in 1..(i+1)
      OBVIOUS
    <3>4. QED
      BY <3>1, <3>2, <3>3
  <2>6. \A m \in 1..(i+1) :
          q[m] \notin done => \E k \in (n - (i+1) + 1)..Len(u) : u[k] = q[m]
    <3> SUFFICES ASSUME NEW m \in 1..(i+1), q[m] \notin done
                 PROVE  \E k \in (n - (i+1) + 1)..Len(u) : u[k] = q[m]
      OBVIOUS
    <3>1. m \in 1..i
      BY <1>0, <1>1
    <3>2. PICK k \in (n - i + 1)..Len(t) : t[k] = q[m]
      BY <3>1 DEF AfterTurns
    <3>3. k - 1 \in (n - (i+1) + 1)..Len(u) /\ u[k-1] = q[m]
      BY <1>0, <2>2, <3>2
    <3>4. QED
      BY <3>3
  <2>7. \A k, l \in (n - (i+1) + 1)..Len(u) :
          k < l => \E m, p \in 1..(i+1) : m < p /\ u[k] = q[m] /\ u[l] = q[p]
    <3> SUFFICES ASSUME NEW k \in (n - (i+1) + 1)..Len(u),
                        NEW l \in (n - (i+1) + 1)..Len(u), k < l
                 PROVE  \E m, p \in 1..(i+1) :
                           m < p /\ u[k] = q[m] /\ u[l] = q[p]
      OBVIOUS
    <3>1. /\ k + 1 \in (n - i + 1)..Len(t) /\ l + 1 \in (n - i + 1)..Len(t)
          /\ u[k] = t[k+1] /\ u[l] = t[l+1] /\ k + 1 < l + 1
      BY <1>0, <2>2
    <3>2. PICK m, p \in 1..i : m < p /\ t[k+1] = q[m] /\ t[l+1] = q[p]
      BY <3>1 DEF AfterTurns
    <3>3. m \in 1..(i+1) /\ p \in 1..(i+1)
      OBVIOUS
    <3>4. QED
      BY <3>1, <3>2, <3>3
  <2>8. QED
    BY <2>2, <2>3, <2>4, <2>5, <2>6, <2>7 DEF AfterTurns, u
<1>2. CASE q[i+1] \notin done
  <2>1. u = Append(Tail(t), t[1])
    BY <1>0, <1>2 DEF Turn
  <2>2. /\ u \in Seq(Elements(q)) /\ Len(u) = Len(t)
        /\ \A k \in 1..(Len(u) - 1) : u[k] = t[k+1]
        /\ u[Len(u)] = q[i+1]
    BY <1>0, <2>1
  <2> HIDE DEF u
  <2>3. n - (i+1) <= Len(u) /\ Len(u) <= n
    BY <1>0, <2>2 DEF AfterTurns
  <2>4. \A k \in 1..(n - (i+1)) : u[k] = q[(i+1)+k]
    BY <1>0, <2>2, <2>3 DEF AfterTurns
  <2>5. \A k \in (n - (i+1) + 1)..Len(u) :
          \E m \in 1..(i+1) : u[k] = q[m] /\ q[m] \notin done
    <3> SUFFICES ASSUME NEW k \in (n - (i+1) + 1)..Len(u)
                 PROVE  \E m \in 1..(i+1) : u[k] = q[m] /\ q[m] \notin done
      OBVIOUS
    <3>1. CASE k = Len(u)
      <4>1. i + 1 \in 1..(i+1)
        OBVIOUS
      <4>2. u[k] = q[i+1]
        BY <2>2, <3>1
      <4>3. QED
        BY <1>2, <4>1, <4>2
    <3>2. CASE k # Len(u)
      <4>1. k + 1 \in (n - i + 1)..Len(t) /\ u[k] = t[k+1]
        BY <1>0, <2>2, <3>2
      <4>2. PICK m \in 1..i : t[k+1] = q[m] /\ q[m] \notin done
        BY <4>1 DEF AfterTurns
      <4>3. QED
        BY <4>1, <4>2
    <3>3. QED
      BY <3>1, <3>2
  <2>6. \A m \in 1..(i+1) :
          q[m] \notin done => \E k \in (n - (i+1) + 1)..Len(u) : u[k] = q[m]
    <3> SUFFICES ASSUME NEW m \in 1..(i+1), q[m] \notin done
                 PROVE  \E k \in (n - (i+1) + 1)..Len(u) : u[k] = q[m]
      OBVIOUS
    <3>1. CASE m = i + 1
      <4>1. Len(u) \in (n - (i+1) + 1)..Len(u)
        BY <1>0, <2>2 DEF AfterTurns
      <4>2. QED
        BY <2>2, <3>1, <4>1
    <3>2. CASE m # i + 1
      <4>1. m \in 1..i
        BY <3>2
      <4>2. PICK k \in (n - i + 1)..Len(t) : t[k] = q[m]
        BY <4>1 DEF AfterTurns
      <4>3. k - 1 \in (n - (i+1) + 1)..Len(u) /\ u[k-1] = q[m]
        BY <1>0, <2>2, <4>2
      <4>4. QED
        BY <4>3
    <3>3. QED
      BY <3>1, <3>2
  <2>7. \A k, l \in (n - (i+1) + 1)..Len(u) :
          k < l => \E m, p \in 1..(i+1) : m < p /\ u[k] = q[m] /\ u[l] = q[p]
    <3> SUFFICES ASSUME NEW k \in (n - (i+1) + 1)..Len(u),
                        NEW l \in (n - (i+1) + 1)..Len(u), k < l
                 PROVE  \E m, p \in 1..(i+1) :
                           m < p /\ u[k] = q[m] /\ u[l] = q[p]
      OBVIOUS
    <3>1. k + 1 \in (n - i + 1)..Len(t) /\ u[k] = t[k+1]
      BY <1>0, <2>2
    <3>2. CASE l = Len(u)
      <4>1. PICK m \in 1..i : t[k+1] = q[m]
        BY <3>1 DEF AfterTurns
      <4>2. m \in 1..(i+1) /\ i + 1 \in 1..(i+1) /\ m < i + 1
        OBVIOUS
      <4>3. QED
        BY <2>2, <3>1, <3>2, <4>1, <4>2
    <3>3. CASE l # Len(u)
      <4>1. l + 1 \in (n - i + 1)..Len(t) /\ u[l] = t[l+1] /\ k + 1 < l + 1
        BY <1>0, <2>2, <3>3
      <4>2. PICK m, p \in 1..i : m < p /\ t[k+1] = q[m] /\ t[l+1] = q[p]
        BY <3>1, <4>1 DEF AfterTurns
      <4>3. m \in 1..(i+1) /\ p \in 1..(i+1)
        OBVIOUS
      <4>4. QED
        BY <3>1, <4>1, <4>2, <4>3
    <3>4. QED
      BY <3>2, <3>3
  <2>8. QED
    BY <2>2, <2>3, <2>4, <2>5, <2>6, <2>7 DEF AfterTurns, u
<1>3. QED
  BY <1>1, <1>2

LEMMA AllTurnsKeep ==
    ASSUME NEW S, NEW q \in Seq(S), NEW done
    PROVE  \A i \in 0..Len(q) : AfterTurns(Turned(q, done)[i], i, q, done)
<1> DEFINE f == Turned(q, done)
<1> DEFINE T == {i \in 0..Len(q) : ~ AfterTurns(f[i], i, q, done)}
<1> SUFFICES ASSUME T # {}
             PROVE  FALSE
  OBVIOUS
<1>1. /\ Len(q) \in Nat
      /\ f = [i \in 0..Len(q) |-> IF i = 0 THEN q ELSE Turn(f[i-1], done)]
  BY TurnedIsRun DEF IsRun
<1> HIDE DEF f
<1>2. PICK i \in T : \A m \in T : i <= m
  <2> T \subseteq Nat
    OBVIOUS
  <2> HIDE DEF T
  <2> QED
    BY LeastNumber
<1>3. CASE i = 0
  <2>1. f[0] = q
    BY <1>1
  <2>2. AfterTurns(q, 0, q, done)
    <3>1. q \in Seq(Elements(q))
      BY <1>1 DEF Elements
    <3>2. QED
      BY <1>1, <3>1 DEF AfterTurns
  <2>3. QED
    BY <1>2, <1>3, <2>1, <2>2
<1>4. CASE i # 0
  <2>1. i - 1 \in Nat /\ i - 1 < Len(q) /\ i - 1 \in 0..Len(q) /\ i - 1 \notin T
    BY <1>1, <1>2, <1>4
  <2>2. AfterTurns(f[i-1], i - 1, q, done)
    BY <2>1
  <2>3. AfterTurns(Turn(f[i-1], done), (i - 1) + 1, q, done)
    BY <2>1, <2>2, TurnKeeps
  <2>4. f[i] = Turn(f[i-1], done) /\ (i - 1) + 1 = i
    BY <1>1, <1>2, <1>4
  <2>5. QED
    BY <1>2, <2>3, <2>4
<1>5. QED
  BY <1>3, <1>4

(* A purge of a channel's queue removes exactly the requests whose futures *)
(* are done and keeps the others in their order: an admission, a timeout   *)
(* or a cancelled caller never disturbs the FIFO of the live requests.     *)
THEOREM PurgeKeepsLiveInOrder ==
    ASSUME NEW S, NEW q \in Seq(S), NEW done
    PROVE  LET p == DiscardCompleted(q, done)
           IN  /\ p \in Seq(S)
               /\ Len(p) <= Len(q)
               /\ Elements(p) = Elements(q) \ done
               /\ \A k, l \in 1..Len(p) :
                     k < l => \E m, n \in 1..Len(q) :
                                 m < n /\ p[k] = q[m] /\ p[l] = q[n]
<1> DEFINE p == DiscardCompleted(q, done)
<1>1. Len(q) \in Nat /\ Len(q) \in 0..Len(q)
  OBVIOUS
<1>2. AfterTurns(p, Len(q), q, done)
  BY <1>1, AllTurnsKeep DEF DiscardCompleted
<1> HIDE DEF p
<1>3. /\ p \in Seq(Elements(q)) /\ Len(p) \in Nat /\ Len(p) <= Len(q)
      /\ \A k \in 1..Len(p) : \E m \in 1..Len(q) : p[k] = q[m] /\ q[m] \notin done
      /\ \A m \in 1..Len(q) : q[m] \notin done => \E k \in 1..Len(p) : p[k] = q[m]
      /\ \A k, l \in 1..Len(p) :
            k < l => \E m, n \in 1..Len(q) : m < n /\ p[k] = q[m] /\ p[l] = q[n]
  <2>1. Len(q) - Len(q) + 1 = 1
    BY <1>1
  <2>2. QED
    BY <1>1, <1>2, <2>1 DEF AfterTurns
<1>4. p \in Seq(S)
  <2>1. Elements(q) \subseteq S
    BY DEF Elements
  <2>2. QED
    BY <1>3, <2>1
<1>5. Elements(p) = Elements(q) \ done
  <2>1. ASSUME NEW x \in Elements(p)
        PROVE  x \in Elements(q) \ done
    <3>1. PICK k \in 1..Len(p) : x = p[k]
      BY DEF Elements
    <3>2. QED
      BY <1>3, <3>1 DEF Elements
  <2>2. ASSUME NEW x \in Elements(q) \ done
        PROVE  x \in Elements(p)
    <3>1. PICK m \in 1..Len(q) : x = q[m]
      BY DEF Elements
    <3>2. QED
      BY <1>3, <3>1 DEF Elements
  <2>3. QED
    BY <2>1, <2>2
<1>6. QED
  BY <1>3, <1>4, <1>5 DEF p

(* A queue without repetitions stays without repetitions.                  *)
LEMMA PurgeKeepsDistinct ==
    ASSUME NEW S, NEW q \in Seq(S), NEW done, NoRepeats(q)
    PROVE  NoRepeats(DiscardCompleted(q, done))
<1> DEFINE p == DiscardCompleted(q, done)
<1>1. /\ Len(p) \in Nat
      /\ \A k, l \in 1..Len(p) :
            k < l => \E m, n \in 1..Len(q) : m < n /\ p[k] = q[m] /\ p[l] = q[n]
  BY PurgeKeepsLiveInOrder
<1> HIDE DEF p
<1>2. ASSUME NEW a \in 1..Len(p), NEW b \in 1..Len(p), a < b
      PROVE  p[a] # p[b]
  <2>1. PICK m, n \in 1..Len(q) : m < n /\ p[a] = q[m] /\ p[b] = q[n]
    BY <1>1, <1>2
  <2>2. QED
    BY <2>1 DEF NoRepeats
<1>3. \A k, l \in 1..Len(p) : p[k] = p[l] => k = l
  BY <1>1, <1>2
<1>4. QED
  BY <1>3 DEF p, NoRepeats

(* Admission and retry put a request at the tail.                          *)
LEMMA AppendFacts ==
    ASSUME NEW S, NEW q \in Seq(S), NEW x \in S
    PROVE  /\ Append(q, x) \in Seq(S)
           /\ Elements(Append(q, x)) = Elements(q) \cup {x}
           /\ NoRepeats(q) /\ x \notin Elements(q) => NoRepeats(Append(q, x))
<1>1. /\ Append(q, x) \in Seq(S) /\ Len(q) \in Nat
      /\ Len(Append(q, x)) = Len(q) + 1
      /\ \A i \in 1..Len(q) : Append(q, x)[i] = q[i]
      /\ Append(q, x)[Len(q) + 1] = x
  OBVIOUS
<1> DEFINE p == Append(q, x)
<1> HIDE DEF p
<1>2. Elements(p) = Elements(q) \cup {x}
  <2>1. ASSUME NEW y \in Elements(p)
        PROVE  y \in Elements(q) \cup {x}
    BY <1>1 DEF Elements, p
  <2>2. ASSUME NEW y \in Elements(q)
        PROVE  y \in Elements(p)
    <3>1. PICK i \in 1..Len(q) : y = q[i]
      BY DEF Elements
    <3>2. i \in 1..Len(p) /\ p[i] = y
      BY <1>1, <3>1 DEF p
    <3>3. QED
      BY <3>2 DEF Elements
  <2>3. x \in Elements(p)
    <3>1. Len(q) + 1 \in 1..Len(p) /\ p[Len(q) + 1] = x
      BY <1>1 DEF p
    <3>2. QED
      BY <3>1 DEF Elements
  <2>4. QED
    BY <2>1, <2>2, <2>3
<1>3. ASSUME NoRepeats(q), x \notin Elements(q)
      PROVE  NoRepeats(p)
  <2>1. \A i \in 1..Len(q) : q[i] # x
    BY <1>3 DEF Elements
  <2>2. QED
    BY <1>1, <1>3, <2>1 DEF NoRepeats, p
<1>4. QED
  BY <1>1, <1>2, <1>3 DEF p

(* The worker takes the head.                                              *)
LEMMA TailFacts ==
    ASSUME NEW S, NEW q \in Seq(S), q # <<>>
    PROVE  /\ Tail(q) \in Seq(S)
           /\ Head(q) \in Elements(q)
           /\ Head(q) \in S
           /\ Elements(q) = Elements(Tail(q)) \cup {Head(q)}
           /\ NoRepeats(q) => /\ NoRepeats(Tail(q))
                              /\ Head(q) \notin Elements(Tail(q))
<1>1. /\ Tail(q) \in Seq(S) /\ Len(q) \in Nat /\ Len(q) >= 1 /\ Head(q) = q[1]
      /\ Len(Tail(q)) = Len(q) - 1 /\ q[1] \in S
      /\ \A i \in 1..(Len(q) - 1) : Tail(q)[i] = q[i+1]
  OBVIOUS
<1> DEFINE p == Tail(q)
<1> HIDE DEF p
<1>2. Elements(p) \subseteq Elements(q)
  BY <1>1 DEF Elements, p
<1>3. Head(q) \in Elements(q)
  BY <1>1 DEF Elements
<1>4. Elements(q) \subseteq Elements(p) \cup {Head(q)}
  <2>1. ASSUME NEW i \in 1..Len(q)
        PROVE  q[i] \in Elements(p) \cup {Head(q)}
    <3>1. CASE i = 1
      BY <1>1, <3>1
    <3>2. CASE i # 1
      <4>1. i - 1 \in 1..Len(p) /\ p[i-1] = q[i]
        BY <1>1, <3>2 DEF p
      <4>2. QED
        BY <4>1 DEF Elements
    <3>3. QED
      BY <3>1, <3>2
  <2>2. QED
    BY <2>1 DEF Elements
<1>5. ASSUME NoRepeats(q)
      PROVE  NoRepeats(p) /\ Head(q) \notin Elements(p)
  BY <1>1, <1>5 DEF NoRepeats, Elements, p
<1>6. QED
  BY <1>1, <1>2, <1>3, <1>4, <1>5 DEF p

LEMMA ElementsFacts ==
    ASSUME NEW S, NEW q \in Seq(S)
    PROVE  Elements(q) \subseteq S
BY DEF Elements

LEMMA EmptyFacts ==
    ASSUME NEW S
    PROVE  <<>> \in Seq(S) /\ Elements(<<>>) = {} /\ NoRepeats(<<>>)
BY DEF Elements, NoRepeats

-----------------------------------------------------------------------------
(* The inductive invariant.                                                *)

HeldInv ==
    /\ cur # NoRequest <=> pc \in Sleeps \cup {"air"}
    /\ cur # NoRequest => future[cur] \in GivenUp \cup {"pending"}

QueuedInv ==
    \A c \in Channels : \A r \in Elements(queue[c]) :
        future[r] \in GivenUp \cup {"pending"}

(* A request that may have been on the air has had its last attempt.       *)
SpentInv ==
    \A r \in Requests :
        aired[r] # 0 \/ charged[r] # 0 =>
            /\ future[r] \in GivenUp \cup Results
            /\ r # cur
            /\ \A c \in Channels : r \notin Elements(queue[c])

IInv ==
    /\ TypeOK
    /\ OnePlace
    /\ HeldInv
    /\ QueuedInv
    /\ SpentInv
    /\ OnAirAtMostOnce
    /\ AirtimeAccounted

-----------------------------------------------------------------------------
LEMMA VisitedIsChannel ==
    ASSUME TypeOK, visited < NumChannels
    PROVE  Visited \in Channels
<1>1. /\ NumChannels \in Nat \ {0} /\ turn \in 0..(NumChannels-1)
      /\ visited \in 0..NumChannels
  BY ConstantsAssumption DEF TypeOK, NumChannels
<1>2. (turn + visited) % NumChannels \in 0..(NumChannels - 1)
  BY <1>1
<1>3. QED
  BY <1>1, <1>2 DEF Visited, Channels, NumChannels

LEMMA InitIInv == Init => IInv
<1> SUFFICES ASSUME Init
             PROVE  IInv
  OBVIOUS
<1>1. TypeOK
  <2>1. queue \in [Channels -> Seq(Requests)]
    BY EmptyFacts DEF Init
  <2>2. /\ age \in [Requests -> 0..Deadline]
        /\ retries \in [Requests -> 0..MaxRetries]
        /\ turn \in 0..(NumChannels - 1)
        /\ visited \in 0..NumChannels
    BY ConstantsAssumption DEF Init, Deadline, NumChannels
  <2>3. QED
    BY <2>1, <2>2 DEF Init, TypeOK
<1>2. OnePlace /\ QueuedInv
  BY EmptyFacts DEF Init, OnePlace, QueuedInv
<1>3. HeldInv
  BY DEF Init, HeldInv, Sleeps
<1>4. SpentInv /\ OnAirAtMostOnce /\ AirtimeAccounted
  BY DEF Init, SpentInv, OnAirAtMostOnce, AirtimeAccounted
<1>5. QED
  BY <1>1, <1>2, <1>3, <1>4 DEF IInv

(* What a purge leaves of a channel's queue.                               *)
LEMMA PurgedQueue ==
    ASSUME TypeOK, OnePlace, QueuedInv, NEW c \in Channels
    PROVE  LET live == DiscardCompleted(queue[c], Done)
           IN  /\ live \in Seq(Requests)
               /\ Elements(live) \subseteq Elements(queue[c])
               /\ NoRepeats(live)
               /\ \A r \in Elements(live) : future[r] = "pending"
<1> DEFINE live == DiscardCompleted(queue[c], Done)
<1>1. queue[c] \in Seq(Requests) /\ NoRepeats(queue[c])
  BY DEF TypeOK, OnePlace
<1>2. live \in Seq(Requests) /\ Elements(live) = Elements(queue[c]) \ Done
  BY <1>1, PurgeKeepsLiveInOrder
<1>3. NoRepeats(live)
  BY <1>1, PurgeKeepsDistinct
<1> HIDE DEF live
<1>4. \A r \in Elements(live) : future[r] = "pending"
  <2>1. \A r \in Elements(queue[c]) : r \in Requests
    BY <1>1 DEF Elements
  <2>2. QED
    BY <1>2, <2>1 DEF QueuedInv, Done, Replies
<1>5. QED
  BY <1>2, <1>3, <1>4 DEF live

LEMMA EnqueueKeepsIInv ==
    ASSUME IInv, NEW r \in Requests,
           EnqueueRefused(r) \/ EnqueueAdmitted(r)
             \/ EnqueueDropsNewest(r) \/ EnqueueDropsOldest(r)
    PROVE  IInv'
<1> DEFINE c == chan[r]
<1> DEFINE live == DiscardCompleted(queue[c], Done)
<1> USE DEF IInv
<1>1. c \in Channels
  BY DEF TypeOK
<1>2. /\ live \in Seq(Requests)
      /\ Elements(live) \subseteq Elements(queue[c])
      /\ NoRepeats(live)
      /\ \A x \in Elements(live) : future[x] = "pending"
  BY <1>1, PurgedQueue
<1> HIDE DEF live, c
<1>3. CASE EnqueueRefused(r)
  BY <1>3 DEF EnqueueRefused, TypeOK, OnePlace, HeldInv, QueuedInv, SpentInv,
     OnAirAtMostOnce, AirtimeAccounted, callerVars, roundVars, stopVars, airVars,
     Fresh, Refusals, GivenUp, Results, Replies
<1>3a. /\ future[r] = "none" => /\ r # cur
                               /\ \A d \in Channels : r \notin Elements(queue[d])
       /\ aired[r] # 0 \/ charged[r] # 0 => future[r] # "none"
  BY ConstantsAssumption
     DEF HeldInv, QueuedInv, SpentInv, GivenUp, Results, TypeOK
<1>3b. /\ Append(live, r) \in Seq(Requests)
       /\ Elements(Append(live, r)) = Elements(live) \cup {r}
       /\ r \notin Elements(live) => NoRepeats(Append(live, r))
  BY <1>2, AppendFacts
<1>4. CASE EnqueueAdmitted(r)
  <2>0. /\ future[r] = "none"
        /\ queue' = [queue EXCEPT ![c] = Append(live, r)]
        /\ future' = [future EXCEPT ![r] = "pending"]
        /\ UNCHANGED <<retries, pc, cur, chan, returned, age, turn, visited,
                       sentAny, running, cancelled, stopping, stopped, aired,
                       charged, faulted>>
    BY <1>4 DEF EnqueueAdmitted, Fresh, live, c, callerVars, roundVars, stopVars,
       airVars
  <2> DEFINE q == Append(live, r)
  <2>1. /\ q \in Seq(Requests) /\ NoRepeats(q)
        /\ Elements(q) = Elements(live) \cup {r}
    BY <1>1, <1>2, <1>3a, <1>3b, <2>0
  <2> HIDE DEF q
  <2>2. TypeOK'
    BY <1>1, <2>0, <2>1 DEF TypeOK, q
  <2>3. OnePlace'
    BY <1>1, <1>2, <1>3a, <2>0, <2>1 DEF OnePlace, TypeOK, q, c
  <2>4. HeldInv'
    BY <1>3a, <2>0 DEF HeldInv, TypeOK
  <2>5. QueuedInv'
    <3> SUFFICES ASSUME NEW d \in Channels, NEW x \in Elements(queue'[d])
                 PROVE  future'[x] \in GivenUp \cup {"pending"}
      BY DEF QueuedInv
    <3>1. future'[r] = "pending" /\ \A y : y # r => future'[y] = future[y]
      BY <2>0 DEF TypeOK
    <3>2. x = r \/ x \in Elements(queue[d])
      BY <1>1, <1>2, <2>0, <2>1 DEF TypeOK, q
    <3>3. QED
      BY <3>1, <3>2 DEF QueuedInv
  <2>6. SpentInv'
    BY <1>1, <1>2, <1>3a, <2>0, <2>1 DEF SpentInv, TypeOK, q
  <2>7. OnAirAtMostOnce' /\ AirtimeAccounted'
    BY <2>0 DEF OnAirAtMostOnce, AirtimeAccounted, TypeOK
  <2>8. QED
    BY <2>2, <2>3, <2>4, <2>5, <2>6, <2>7
<1>5. CASE EnqueueDropsNewest(r)
  <2>0. /\ future[r] = "none"
        /\ queue' = [queue EXCEPT ![c] = live]
        /\ future' = [future EXCEPT ![r] = "dropped_overflow"]
        /\ returned' = [returned EXCEPT ![r] = TRUE]
        /\ UNCHANGED <<retries, pc, cur, chan, age, turn, visited,
                       sentAny, running, cancelled, stopping, stopped, aired,
                       charged, faulted>>
    BY <1>5 DEF EnqueueDropsNewest, Fresh, live, c, callerVars, roundVars,
       stopVars, airVars
  <2>2. TypeOK'
    BY <1>1, <1>2, <2>0 DEF TypeOK, Replies, Refusals
  <2>3. OnePlace'
    BY <1>1, <1>2, <1>3a, <2>0 DEF OnePlace, TypeOK
  <2>4. HeldInv'
    BY <1>3a, <2>0 DEF HeldInv, TypeOK
  <2>5. QueuedInv'
    BY <1>1, <1>2, <1>3a, <2>0 DEF QueuedInv, TypeOK
  <2>6. SpentInv'
    BY <1>1, <1>2, <1>3a, <2>0 DEF SpentInv, TypeOK
  <2>7. OnAirAtMostOnce' /\ AirtimeAccounted'
    BY <2>0 DEF OnAirAtMostOnce, AirtimeAccounted, TypeOK
  <2>8. QED
    BY <2>2, <2>3, <2>4, <2>5, <2>6, <2>7
<1>6. CASE EnqueueDropsOldest(r)
  <2> DEFINE old == Head(live)
  <2> DEFINE rest == Tail(live)
  <2> DEFINE q == Append(rest, r)
  <2>0. /\ future[r] = "none"
        /\ Len(live) >= QueueSize
        /\ queue' = [queue EXCEPT ![c] = q]
        /\ future' = [future EXCEPT
                        ![old] = IF @ = "pending" THEN "dropped_overflow" ELSE @,
                        ![r] = "pending"]
        /\ UNCHANGED <<retries, pc, cur, chan, returned, age, turn, visited,
                       sentAny, running, cancelled, stopping, stopped, aired,
                       charged, faulted>>
    BY <1>6 DEF EnqueueDropsOldest, Fresh, live, c, callerVars, roundVars,
       stopVars, airVars
  <2>1. live # <<>>
    BY <1>2, <2>0, ConstantsAssumption
  <2>2. /\ rest \in Seq(Requests) /\ NoRepeats(rest)
        /\ old \in Requests /\ old \in Elements(live)
        /\ Elements(live) = Elements(rest) \cup {old}
        /\ old \notin Elements(rest)
    BY <1>2, <2>1, TailFacts
  <2> HIDE DEF old, rest
  <2>3. r \notin Elements(rest) /\ r # old
    BY <1>1, <1>2, <1>3a, <2>0, <2>2
  <2>4. /\ q \in Seq(Requests) /\ NoRepeats(q)
        /\ Elements(q) = Elements(rest) \cup {r}
    BY <2>2, <2>3, AppendFacts
  <2> HIDE DEF q
  <2>5. future[old] = "pending" /\ old \in Elements(queue[c])
    BY <1>2, <2>2
  <2>5a. future' = [future EXCEPT ![old] = "dropped_overflow", ![r] = "pending"]
    BY <2>0, <2>5
  <2>5b. old # cur /\ \A d \in Channels \ {c} : old \notin Elements(queue[d])
    BY <1>1, <2>5 DEF OnePlace, TypeOK
  <2>5c. /\ queue'[c] = q
         /\ \A d \in Channels \ {c} : queue'[d] = queue[d]
         /\ future'[old] = "dropped_overflow"
         /\ future'[r] = "pending"
         /\ \A x \in Requests \ {r, old} : future'[x] = future[x]
    BY <1>1, <2>0, <2>2, <2>3, <2>5a DEF TypeOK
  <2>6. TypeOK'
    BY <1>1, <2>0, <2>2, <2>4, <2>5a DEF TypeOK, Replies, Refusals
  <2>7. OnePlace'
    BY <1>1, <1>2, <1>3a, <2>0, <2>2, <2>4, <2>5c DEF OnePlace, c
  <2>8. HeldInv'
    BY <1>3a, <2>0, <2>5b, <2>5c DEF HeldInv, TypeOK
  <2>9. QueuedInv'
    <3> SUFFICES ASSUME NEW d \in Channels, NEW x \in Elements(queue'[d])
                 PROVE  future'[x] \in GivenUp \cup {"pending"}
      BY DEF QueuedInv
    <3>1. x \in Requests
      <4>1. queue'[d] \in Seq(Requests)
        BY <2>6 DEF TypeOK
      <4>2. QED
        BY <4>1, ElementsFacts
    <3>2. CASE d = c
      BY <1>2, <2>2, <2>4, <2>5c, <3>1, <3>2
    <3>3. CASE d # c
      BY <1>3a, <2>0, <2>5b, <2>5c, <3>1, <3>3 DEF QueuedInv
    <3>4. QED
      BY <3>2, <3>3
  <2>10. aired[old] = 0 /\ charged[old] = 0
    BY <1>1, <2>2, <2>5 DEF SpentInv
  <2>11. SpentInv'
    BY <1>1, <1>2, <1>3a, <2>0, <2>2, <2>4, <2>5c, <2>10 DEF SpentInv, TypeOK
  <2>12. OnAirAtMostOnce' /\ AirtimeAccounted'
    BY <2>0, <2>2, <2>5c DEF OnAirAtMostOnce, AirtimeAccounted, TypeOK
  <2>13. QED
    BY <2>6, <2>7, <2>8, <2>9, <2>11, <2>12
<1>7. QED
  BY <1>3, <1>4, <1>5, <1>6

LEMMA GivingUpKeepsIInv ==
    ASSUME IInv, NEW r \in Requests, WaitTimesOut(r) \/ CallerCancelled(r)
    PROVE  IInv'
<1> USE DEF IInv
<1>1. PICK g \in GivenUp :
         /\ future[r] = "pending"
         /\ future' = [future EXCEPT ![r] = g]
         /\ UNCHANGED <<queue, retries, pc, cur, chan, returned, age, turn,
                        visited, sentAny, running, cancelled, stopping,
                        stopped, aired, charged, faulted>>
  BY DEF WaitTimesOut, CallerCancelled, GivenUp, callerVars, roundVars, stopVars,
     airVars
<1>2. TypeOK'
  BY <1>1 DEF TypeOK, Replies
<1>3. OnePlace' /\ HeldInv' /\ QueuedInv'
  BY <1>1 DEF TypeOK, OnePlace, HeldInv, QueuedInv
<1>4. SpentInv' /\ OnAirAtMostOnce' /\ AirtimeAccounted'
  BY <1>1 DEF TypeOK, SpentInv, OnAirAtMostOnce, AirtimeAccounted, GivenUp
<1>5. QED
  BY <1>2, <1>3, <1>4

LEMMA ReturnKeepsIInv ==
    ASSUME IInv, NEW r \in Requests, EnqueueReturns(r)
    PROVE  IInv'
<1> DEFINE c == chan[r]
<1> DEFINE live == DiscardCompleted(queue[c], Done)
<1> USE DEF IInv
<1>1. c \in Channels
  BY DEF TypeOK
<1>2. /\ live \in Seq(Requests)
      /\ Elements(live) \subseteq Elements(queue[c])
      /\ NoRepeats(live)
  BY <1>1, PurgedQueue
<1> HIDE DEF live, c
<1>3. /\ queue' = [queue EXCEPT ![c] = live]
      /\ returned' = [returned EXCEPT ![r] = TRUE]
      /\ age' = [age EXCEPT ![r] = 0]
      /\ UNCHANGED <<future, retries, pc, cur, chan, turn, visited, sentAny,
                     running, cancelled, stopping, stopped, aired, charged, faulted>>
  BY DEF EnqueueReturns, live, c, roundVars, stopVars, airVars
<1>4. TypeOK'
  <2>1. age' \in [Requests -> 0..Deadline]
    BY <1>3, ConstantsAssumption DEF TypeOK, Deadline
  <2>2. QED
    BY <1>1, <1>2, <1>3, <2>1 DEF TypeOK
<1>5. OnePlace' /\ QueuedInv'
  BY <1>1, <1>2, <1>3 DEF TypeOK, OnePlace, QueuedInv
<1>6. HeldInv' /\ OnAirAtMostOnce' /\ AirtimeAccounted'
  BY <1>3 DEF HeldInv, OnAirAtMostOnce, AirtimeAccounted
<1>7. SpentInv'
  BY <1>1, <1>2, <1>3 DEF TypeOK, SpentInv
<1>8. QED
  BY <1>4, <1>5, <1>6, <1>7

LEMMA TickKeepsIInv ==
    ASSUME IInv, Tick
    PROVE  IInv'
<1> USE DEF IInv
<1>1. /\ age' = [r \in Requests |->
                   IF future[r] = "pending" /\ age[r] < Deadline
                   THEN age[r] + 1 ELSE age[r]]
      /\ UNCHANGED <<queue, future, retries, pc, cur, chan, returned, turn,
                     visited, sentAny, running, cancelled, stopping, stopped,
                     aired, charged, faulted>>
  BY DEF Tick, roundVars, stopVars, airVars
<1>2. age' \in [Requests -> 0..Deadline]
  <2>1. Deadline \in Nat /\ age \in [Requests -> 0..Deadline]
    BY ConstantsAssumption DEF TypeOK, Deadline
  <2>2. ASSUME NEW r \in Requests, age[r] < Deadline
        PROVE  age[r] + 1 \in 0..Deadline
    BY <2>1, <2>2
  <2> QED
    BY <1>1, <2>1, <2>2
<1>3. TypeOK'
  BY <1>1, <1>2 DEF TypeOK
<1>4. OnePlace' /\ HeldInv' /\ QueuedInv' /\ SpentInv'
  BY <1>1 DEF OnePlace, HeldInv, QueuedInv, SpentInv
<1>5. OnAirAtMostOnce' /\ AirtimeAccounted'
  BY <1>1 DEF OnAirAtMostOnce, AirtimeAccounted
<1>6. QED
  BY <1>3, <1>4, <1>5

-----------------------------------------------------------------------------
(* The worker.                                                             *)

(* The head of the queue being visited, and what is left without it.       *)
LEMMA HeadOfVisited ==
    ASSUME IInv, visited < NumChannels, queue[Visited] # <<>>
    PROVE  LET c == Visited
               h == Head(queue[c])
           IN  /\ c \in Channels
               /\ h \in Requests
               /\ h \in Elements(queue[c])
               /\ chan[h] = c
               /\ h # cur
               /\ future[h] \in GivenUp \cup {"pending"}
               /\ aired[h] = 0 /\ charged[h] = 0
               /\ Tail(queue[c]) \in Seq(Requests)
               /\ NoRepeats(Tail(queue[c]))
               /\ Elements(queue[c]) = Elements(Tail(queue[c])) \cup {h}
               /\ h \notin Elements(Tail(queue[c]))
<1> DEFINE c == Visited
<1> DEFINE q == queue[c]
<1> USE DEF IInv
<1>1. c \in Channels
  BY VisitedIsChannel
<1>2. q \in Seq(Requests) /\ q # <<>> /\ NoRepeats(q)
  BY <1>1 DEF TypeOK, OnePlace
<1> HIDE DEF c
<1>3. /\ Tail(q) \in Seq(Requests) /\ Head(q) \in Elements(q)
      /\ Head(q) \in Requests
      /\ Elements(q) = Elements(Tail(q)) \cup {Head(q)}
      /\ NoRepeats(Tail(q)) /\ Head(q) \notin Elements(Tail(q))
  BY <1>2, TailFacts
<1>4. /\ chan[Head(q)] = c /\ Head(q) # cur
      /\ future[Head(q)] \in GivenUp \cup {"pending"}
      /\ aired[Head(q)] = 0 /\ charged[Head(q)] = 0
  BY <1>1, <1>3 DEF OnePlace, QueuedInv, SpentInv, TypeOK
<1>5. QED
  BY <1>1, <1>3, <1>4 DEF c

LEMMA TakeExpiredKeepsIInv ==
    ASSUME IInv, TakeExpired
    PROVE  IInv'
<1> DEFINE c == Visited
<1> DEFINE h == Head(queue[c])
<1> DEFINE q == Tail(queue[c])
<1>1. /\ pc = "visit" /\ visited < NumChannels /\ queue[c] # <<>>
      /\ visited' = visited + 1
      /\ queue' = [queue EXCEPT ![c] = q]
      /\ future' = [r \in Requests |->
                      IF r = h /\ future[r] = "pending"
                      THEN "ttl_expired" ELSE future[r]]
      /\ UNCHANGED <<retries, pc, cur, chan, returned, age, turn, sentAny,
                     running, cancelled, stopping, stopped, aired, charged, faulted>>
  BY DEF TakeExpired, Visit, Resolve, callerVars, stopVars, airVars
<1>2. /\ c \in Channels /\ h \in Requests /\ h \in Elements(queue[c])
      /\ chan[h] = c /\ h # cur /\ aired[h] = 0 /\ charged[h] = 0
      /\ q \in Seq(Requests) /\ NoRepeats(q)
      /\ Elements(queue[c]) = Elements(q) \cup {h} /\ h \notin Elements(q)
  BY <1>1, HeadOfVisited
<1> HIDE DEF c, h, q
<1> USE DEF IInv
<1>3. TypeOK'
  <2>1. future' \in [Requests -> Replies \cup {"none", "pending"}]
    BY <1>1 DEF TypeOK, Replies, Refusals
  <2>2. visited' \in 0..NumChannels
    BY <1>1, ConstantsAssumption DEF TypeOK, NumChannels
  <2>3. QED
    BY <1>1, <1>2, <2>1, <2>2 DEF TypeOK
<1>4. OnePlace'
  BY <1>1, <1>2 DEF OnePlace, TypeOK
<1>5. HeldInv'
  BY <1>1, <1>2, ConstantsAssumption DEF HeldInv, TypeOK
<1>6. QueuedInv'
  <2>1. \A d \in Channels : /\ Elements(queue'[d]) \subseteq Elements(queue[d])
                            /\ h \notin Elements(queue'[d])
    BY <1>1, <1>2 DEF OnePlace, TypeOK
  <2>2. \A d \in Channels : Elements(queue[d]) \subseteq Requests
    BY ElementsFacts DEF TypeOK
  <2>3. QED
    BY <1>1, <2>1, <2>2 DEF QueuedInv
<1>7. SpentInv'
  BY <1>1, <1>2 DEF SpentInv, TypeOK
<1>8. OnAirAtMostOnce' /\ AirtimeAccounted'
  BY <1>1 DEF OnAirAtMostOnce, AirtimeAccounted
<1>9. QED
  BY <1>3, <1>4, <1>5, <1>6, <1>7, <1>8

LEMMA TakeRequestKeepsIInv ==
    ASSUME IInv, TakeRequest
    PROVE  IInv'
<1> DEFINE c == Visited
<1> DEFINE h == Head(queue[c])
<1> DEFINE q == Tail(queue[c])
<1>1. /\ pc = "visit" /\ visited < NumChannels /\ queue[c] # <<>>
      /\ visited' = visited + 1
      /\ queue' = [queue EXCEPT ![c] = q]
      /\ cur' = h
      /\ pc' \in Sleeps \cup {"air"}
      /\ UNCHANGED <<future, retries, chan, returned, age, turn, sentAny,
                     running, cancelled, stopping, stopped, aired, charged, faulted>>
  BY DEF TakeRequest, Visit, After, Sleeps, callerVars, stopVars, airVars
<1>2. /\ c \in Channels /\ h \in Requests /\ h \in Elements(queue[c])
      /\ chan[h] = c /\ h # cur /\ aired[h] = 0 /\ charged[h] = 0
      /\ future[h] \in GivenUp \cup {"pending"}
      /\ q \in Seq(Requests) /\ NoRepeats(q)
      /\ Elements(queue[c]) = Elements(q) \cup {h} /\ h \notin Elements(q)
  BY <1>1, HeadOfVisited
<1> HIDE DEF c, h, q
<1> USE DEF IInv
<1>3. TypeOK'
  <2>1. visited' \in 0..NumChannels
    BY <1>1, ConstantsAssumption DEF TypeOK, NumChannels
  <2>2. QED
    BY <1>1, <1>2, <2>1 DEF TypeOK, Awaits
<1>4. OnePlace'
  <2>1. /\ queue'[c] = q
        /\ \A d \in Channels \ {c} : queue'[d] = queue[d]
    BY <1>1, <1>2 DEF TypeOK
  <2>2. \A d \in Channels \ {c} : h \notin Elements(queue[d])
    BY <1>2 DEF OnePlace
  <2>3. QED
    BY <1>1, <1>2, <2>1, <2>2 DEF OnePlace
<1>5. HeldInv'
  BY <1>1, <1>2, ConstantsAssumption DEF HeldInv
<1>6. QueuedInv'
  BY <1>1, <1>2 DEF QueuedInv, TypeOK
<1>7. SpentInv'
  BY <1>1, <1>2 DEF SpentInv, TypeOK
<1>8. OnAirAtMostOnce' /\ AirtimeAccounted'
  BY <1>1 DEF OnAirAtMostOnce, AirtimeAccounted
<1>9. QED
  BY <1>3, <1>4, <1>5, <1>6, <1>7, <1>8

(* Steps of the worker that touch neither queue nor outcome.               *)
LEMMA PacingKeepsIInv ==
    ASSUME IInv, SkipEmptyQueue \/ MoveOn \/ EndRound \/ EndNap
    PROVE  IInv'
<1> USE DEF IInv
<1>1. /\ UNCHANGED <<queue, future, retries, cur, chan, returned, age, running,
                     cancelled, stopping, stopped, aired, charged, faulted>>
      /\ pc' \in Awaits \cup {"visit", "ended"}
      /\ pc \in Sleeps \cup {"air"} <=> pc' \in Sleeps \cup {"air"}
  BY DEF SkipEmptyQueue, MoveOn, EndRound, EndNap, TopOfLoop, Visit, After,
     Sleeps, Awaits, TypeOK, callerVars, roundVars, stopVars, airVars
<1>2. turn' \in 0..(NumChannels - 1)
  <2>1. NumChannels \in Nat \ {0} /\ turn \in 0..(NumChannels - 1)
    BY ConstantsAssumption DEF TypeOK, NumChannels
  <2>2. turn' = turn \/ turn' = (turn + 1) % NumChannels
    BY DEF SkipEmptyQueue, MoveOn, EndRound, EndNap, roundVars
  <2>3. QED
    BY <2>1, <2>2
<1>3. visited' \in 0..NumChannels /\ sentAny' \in BOOLEAN
  <2>1. NumChannels \in Nat \ {0} /\ visited \in 0..NumChannels
    BY ConstantsAssumption DEF TypeOK, NumChannels
  <2>2. \/ visited' = visited
        \/ visited' = 0
        \/ visited < NumChannels /\ visited' = visited + 1
    BY DEF SkipEmptyQueue, MoveOn, EndRound, EndNap, TopOfLoop, Visit, roundVars
  <2>3. sentAny' \in {sentAny, FALSE}
    BY DEF SkipEmptyQueue, MoveOn, EndRound, EndNap, TopOfLoop, roundVars
  <2>4. visited' \in 0..NumChannels
    BY <2>1, <2>2
  <2>5. sentAny' \in BOOLEAN
    BY <2>3 DEF TypeOK
  <2>6. QED
    BY <2>4, <2>5
<1>4. TypeOK'
  BY <1>1, <1>2, <1>3 DEF TypeOK
<1>5. OnePlace' /\ HeldInv' /\ QueuedInv' /\ SpentInv'
  BY <1>1 DEF OnePlace, HeldInv, QueuedInv, SpentInv
<1>6. OnAirAtMostOnce' /\ AirtimeAccounted'
  BY <1>1 DEF OnAirAtMostOnce, AirtimeAccounted
<1>7. QED
  BY <1>4, <1>5, <1>6

LEMMA DropExpiredKeepsIInv ==
    ASSUME IInv, DropExpired \/ BudgetRaises
    PROVE  IInv'
<1> USE DEF IInv
<1>1. /\ pc \in Sleeps /\ pc' \in {"visit", "failed"} /\ cur' = NoRequest
      /\ sentAny' \in {sentAny, TRUE}
      /\ \/ future' = [r \in Requests |->
                         IF r = cur /\ future[r] = "pending"
                         THEN "ttl_expired" ELSE future[r]]
         \/ future' = future
      /\ UNCHANGED <<queue, retries, chan, returned, age, turn, visited,
                     running, cancelled, stopping, stopped, aired, charged, faulted>>
  BY DEF DropExpired, BudgetRaises, Resolve, Sleeps, callerVars, roundVars,
     stopVars, airVars
<1>2. cur \in Requests /\ aired[cur] = 0 /\ charged[cur] = 0
  BY <1>1 DEF HeldInv, SpentInv, TypeOK
<1>3. \A r \in Requests : future'[r] = future[r] \/ (r = cur /\ future'[r] = "ttl_expired")
  BY <1>1 DEF TypeOK
<1>4. TypeOK'
  <2>1. future' \in [Requests -> Replies \cup {"none", "pending"}]
    BY <1>1 DEF TypeOK, Replies, Refusals
  <2>2. QED
    BY <1>1, <2>1 DEF TypeOK
<1>5. OnePlace'
  BY <1>1, ConstantsAssumption, ElementsFacts DEF OnePlace, TypeOK
<1>6. HeldInv'
  BY <1>1 DEF HeldInv, Sleeps
<1>7. QueuedInv'
  <2>1. \A d \in Channels : \A r \in Elements(queue[d]) : r \in Requests /\ r # cur
    BY ElementsFacts DEF OnePlace, TypeOK
  <2>2. QED
    BY <1>1, <1>3, <2>1 DEF QueuedInv
<1>8. SpentInv'
  BY <1>1, <1>2, <1>3, ConstantsAssumption DEF SpentInv
<1>9. OnAirAtMostOnce' /\ AirtimeAccounted'
  BY <1>1, <1>3 DEF OnAirAtMostOnce, AirtimeAccounted
<1>10. QED
  BY <1>4, <1>5, <1>6, <1>7, <1>8, <1>9

LEMMA RetryKeepsIInv ==
    ASSUME IInv, NEW o \in Outcomes, SendRetried(o)
    PROVE  IInv'
<1> DEFINE c == chan[cur]
<1> DEFINE q == Append(queue[c], cur)
<1> USE DEF IInv
<1>1. /\ pc = "air" /\ pc' = "visit" /\ cur' = NoRequest
      /\ cancelled' = FALSE /\ sentAny' = TRUE
      /\ retries[cur] < MaxRetries
      /\ retries' = [retries EXCEPT ![cur] = @ + 1]
      /\ queue' = [queue EXCEPT ![c] = q]
      /\ UNCHANGED <<future, chan, returned, age, turn, visited, running,
                     stopping, stopped, aired, charged, faulted>>
  <2>1. o = "dropped" /\ AiredBy(o) = {0} /\ ChargedBy(o) = 0
    BY DEF SendRetried, Retriable, AiredBy, ChargedBy
  <2>2. /\ aired' = [aired EXCEPT ![cur] = @ + 0]
        /\ charged' = [charged EXCEPT ![cur] = @ + 0]
    BY <2>1 DEF SendRetried, SendDone
  <2>3. aired' = aired /\ charged' = charged /\ faulted' = faulted
    BY <2>1, <2>2 DEF TypeOK, SendRetried, SendDone
  <2>4. QED
    BY <2>3 DEF SendRetried, SendDone, Retriable, callerVars
<1>2. /\ cur \in Requests /\ c \in Channels
      /\ future[cur] \in GivenUp \cup {"pending"}
      /\ aired[cur] = 0 /\ charged[cur] = 0
      /\ \A d \in Channels : cur \notin Elements(queue[d])
  BY <1>1 DEF HeldInv, OnePlace, SpentInv, TypeOK
<1>3. /\ q \in Seq(Requests) /\ NoRepeats(q)
      /\ Elements(q) = Elements(queue[c]) \cup {cur}
  BY <1>2, AppendFacts DEF OnePlace, TypeOK
<1>4. /\ queue'[c] = q
      /\ \A d \in Channels \ {c} : queue'[d] = queue[d]
  BY <1>1, <1>2 DEF TypeOK
<1> HIDE DEF q
<1>5. TypeOK'
  <2>1. retries' \in [Requests -> 0..MaxRetries]
    BY <1>1, <1>2, ConstantsAssumption DEF TypeOK
  <2>2. QED
    BY <1>1, <1>2, <1>3, <2>1 DEF TypeOK
<1>6. OnePlace'
  <2> SUFFICES ASSUME NEW d \in Channels
               PROVE  /\ NoRepeats(queue'[d])
                      /\ \A r \in Elements(queue'[d]) : chan[r] = d /\ r # NoRequest
    BY <1>1 DEF OnePlace
  <2>1. \A r \in Elements(queue[d]) : r # NoRequest
    BY ElementsFacts, ConstantsAssumption DEF TypeOK
  <2>2. QED
    BY <1>2, <1>3, <1>4, <2>1, ConstantsAssumption DEF OnePlace
<1>7. HeldInv'
  BY <1>1 DEF HeldInv, Sleeps
<1>8. QueuedInv'
  BY <1>1, <1>2, <1>3, <1>4 DEF QueuedInv
<1>9. SpentInv'
  BY <1>1, <1>2, <1>3, <1>4, ConstantsAssumption DEF SpentInv
<1>10. OnAirAtMostOnce' /\ AirtimeAccounted'
  BY <1>1 DEF OnAirAtMostOnce, AirtimeAccounted
<1>11. QED
  BY <1>5, <1>6, <1>7, <1>8, <1>9, <1>10

(* An attempt is over for good, by its outcome or by a cancellation.       *)
AttemptOver(n, m, reply) ==
    /\ n \in {0, 1} /\ m \in {0, 1}
    /\ n <= m \/ cur \in faulted'
    /\ faulted \subseteq faulted' /\ faulted' \subseteq faulted \cup {cur}
    /\ reply \in Results /\ (reply = "ok" => n = 1)
    /\ pc = "air" /\ pc' \in {"visit", "ended"}
    /\ cur' = NoRequest
    /\ Resolve({cur}, reply)
    /\ aired' = [aired EXCEPT ![cur] = @ + n]
    /\ charged' = [charged EXCEPT ![cur] = @ + m]
    /\ visited' \in {visited, 0} /\ sentAny' \in BOOLEAN
    /\ cancelled' \in BOOLEAN
    /\ UNCHANGED <<queue, retries, chan, returned, age, turn, running,
                   stopping, stopped>>

LEMMA AttemptOverKeepsIInv ==
    ASSUME IInv, NEW n, NEW m, NEW reply, AttemptOver(n, m, reply)
    PROVE  IInv'
<1> USE DEF IInv, AttemptOver
<1>1. /\ cur \in Requests
      /\ future[cur] \in GivenUp \cup {"pending"}
      /\ aired[cur] = 0 /\ charged[cur] = 0
      /\ \A d \in Channels : cur \notin Elements(queue[d])
  BY DEF HeldInv, OnePlace, SpentInv, TypeOK
<1>2. /\ \A r \in Requests \ {cur} : /\ future'[r] = future[r]
                                     /\ aired'[r] = aired[r]
                                     /\ charged'[r] = charged[r]
      /\ future[cur] = "pending" => future'[cur] = reply
      /\ future[cur] # "pending" => future'[cur] = future[cur]
      /\ aired'[cur] = n /\ charged'[cur] = m
  BY <1>1 DEF Resolve, TypeOK
<1>3. TypeOK'
  <2>1. future' \in [Requests -> Replies \cup {"none", "pending"}]
    BY DEF Resolve, TypeOK, Replies
  <2>2. visited' \in 0..NumChannels
    BY ConstantsAssumption DEF TypeOK, NumChannels
  <2>3. aired' \in [Requests -> Nat] /\ charged' \in [Requests -> Nat]
    BY <1>1 DEF TypeOK
  <2>4. QED
    BY <2>1, <2>2, <2>3 DEF TypeOK, Awaits
<1>4. OnePlace'
  BY ConstantsAssumption, ElementsFacts DEF OnePlace, TypeOK
<1>5. HeldInv'
  BY DEF HeldInv, Sleeps
<1>6. QueuedInv'
  <2>1. \A d \in Channels : \A r \in Elements(queue[d]) : r \in Requests /\ r # cur
    BY ElementsFacts DEF OnePlace, TypeOK
  <2>2. QED
    BY <1>2, <2>1 DEF QueuedInv
<1>7. SpentInv'
  BY <1>1, <1>2, ConstantsAssumption DEF SpentInv
<1>8. OnAirAtMostOnce'
  BY <1>1, <1>2 DEF OnAirAtMostOnce, GivenUp, Results
<1>9. AirtimeAccounted'
  BY <1>1, <1>2 DEF AirtimeAccounted
<1>10. QED
  BY <1>3, <1>4, <1>5, <1>6, <1>7, <1>8, <1>9

LEMMA SendConcludedKeepsIInv ==
    ASSUME IInv, NEW o \in Outcomes, SendConcluded(o)
    PROVE  IInv'
<1> DEFINE reply == IF o = "ok" THEN "ok" ELSE "failed"
<1> DEFINE m == ChargedBy(o)
<1>1. PICK n \in AiredBy(o) :
         /\ pc = "air" /\ cur' = NoRequest /\ pc' = "visit"
         /\ cancelled' = FALSE /\ sentAny' = TRUE
         /\ aired' = [aired EXCEPT ![cur] = @ + n]
         /\ charged' = [charged EXCEPT ![cur] = @ + m]
         /\ faulted' = IF o = "send_failed" THEN faulted \cup {cur} ELSE faulted
         /\ Resolve({cur}, reply)
         /\ UNCHANGED <<queue, retries, chan, returned, age, turn, visited,
                        running, stopping, stopped>>
  BY DEF SendConcluded, SendDone, callerVars
<1>2. /\ n \in {0, 1} /\ m \in {0, 1} /\ (n <= m \/ o = "send_failed")
      /\ reply \in Results /\ (reply = "ok" => n = 1)
  BY DEF AiredBy, ChargedBy, Outcomes, Results
<1> HIDE DEF reply, m
<1>3. AttemptOver(n, m, reply)
  BY <1>1, <1>2 DEF AttemptOver
<1>4. QED
  BY <1>3, AttemptOverKeepsIInv

LEMMA CancelKeepsIInv ==
    ASSUME IInv, CancelDelivered
    PROVE  IInv'
<1>1. /\ pc \in Awaits /\ cur' = NoRequest /\ pc' = "ended"
      /\ cancelled' = FALSE /\ sentAny' = FALSE /\ visited' = 0
      /\ Resolve({cur}, "scheduler_stopped")
      /\ UNCHANGED <<queue, retries, chan, returned, age, turn, running,
                     stopping, stopped>>
  BY DEF CancelDelivered, callerVars
<1>2. CASE pc = "air"
  <2>1. PICK n \in {0, 1} : /\ aired' = [aired EXCEPT ![cur] = @ + n]
                           /\ charged' = [charged EXCEPT ![cur] = @ + 1]
    BY <1>2 DEF CancelDelivered
  <2>2. AttemptOver(n, 1, "scheduler_stopped")
    <3>1. n <= 1 /\ "scheduler_stopped" \in Results
      BY DEF Results
    <3>2. sentAny' \in BOOLEAN /\ cancelled' \in BOOLEAN /\ faulted' = faulted
      BY <1>1 DEF CancelDelivered
    <3>3. QED
      BY <1>1, <1>2, <2>1, <3>1, <3>2 DEF AttemptOver
  <2>3. QED
    BY <2>2, AttemptOverKeepsIInv
<1>3. CASE pc # "air"
  <2> USE DEF IInv
  <2>1. UNCHANGED <<aired, charged, faulted>>
    BY <1>3 DEF CancelDelivered
  <2>2. cur \in Requests => aired[cur] = 0 /\ charged[cur] = 0
    BY DEF SpentInv
  <2>3. \A r \in Requests :
           \/ future'[r] = future[r]
           \/ r = cur /\ future'[r] = "scheduler_stopped"
    BY <1>1 DEF Resolve
  <2>4. TypeOK'
    <3>1. future' \in [Requests -> Replies \cup {"none", "pending"}]
      BY <1>1 DEF Resolve, TypeOK, Replies, Results
    <3>2. visited' \in 0..NumChannels
      BY <1>1, ConstantsAssumption DEF NumChannels
    <3>3. QED
      BY <1>1, <2>1, <3>1, <3>2 DEF TypeOK
  <2>5. OnePlace'
    BY <1>1, ConstantsAssumption, ElementsFacts DEF OnePlace, TypeOK
  <2>6. HeldInv'
    BY <1>1 DEF HeldInv, Sleeps
  <2>7. QueuedInv'
    <3>1. \A d \in Channels : \A r \in Elements(queue[d]) : r \in Requests /\ r # cur
      BY ElementsFacts DEF OnePlace, TypeOK
    <3>2. QED
      BY <1>1, <2>3, <3>1 DEF QueuedInv
  <2>8. SpentInv'
    BY <1>1, <2>1, <2>2, <2>3, ConstantsAssumption DEF SpentInv
  <2>9. OnAirAtMostOnce' /\ AirtimeAccounted'
    BY <2>1, <2>3 DEF OnAirAtMostOnce, AirtimeAccounted
  <2>10. QED
    BY <2>4, <2>5, <2>6, <2>7, <2>8, <2>9
<1>4. QED
  BY <1>2, <1>3

-----------------------------------------------------------------------------
(* Start and stop.                                                         *)

LEMMA StartKeepsIInv ==
    ASSUME IInv, Start
    PROVE  IInv'
<1> USE DEF IInv
<1>1. /\ pc = "off" /\ pc' = "nap" /\ running' = TRUE /\ turn' = 0
      /\ visited' = 0 /\ sentAny' = FALSE
      /\ stopped' = [c \in Channels |-> FALSE]
      /\ UNCHANGED <<queue, future, retries, cur, chan, returned, age,
                     cancelled, stopping, aired, charged, faulted>>
  BY DEF Start, callerVars, airVars
<1>2. 0 \in 0..(NumChannels - 1) /\ 0 \in 0..NumChannels
  BY ConstantsAssumption DEF NumChannels
<1>3. TypeOK'
  BY <1>1, <1>2 DEF TypeOK, Awaits
<1>4. OnePlace' /\ HeldInv' /\ QueuedInv' /\ SpentInv'
  BY <1>1 DEF OnePlace, HeldInv, QueuedInv, SpentInv, Sleeps
<1>5. OnAirAtMostOnce' /\ AirtimeAccounted'
  BY <1>1 DEF OnAirAtMostOnce, AirtimeAccounted
<1>6. QED
  BY <1>3, <1>4, <1>5

LEMMA StopKeepsIInv ==
    ASSUME IInv, StopBegin \/ StopEnd
    PROVE  IInv'
<1> USE DEF IInv
<1> DEFINE Queued == UNION {Elements(queue[c]) : c \in Channels}
<1>1. /\ stopped' = [c \in Channels |-> TRUE]
      /\ queue' = [c \in Channels |-> <<>>]
      /\ Resolve(Queued, "queue_stopped")
      /\ UNCHANGED <<retries, cur, chan, returned, age, turn, visited, sentAny,
                     aired, charged, faulted>>
      /\ running' \in {running, FALSE}
      /\ cancelled' \in BOOLEAN
      /\ stopping' \in BOOLEAN
      /\ pc' = pc \/ (pc \in {"off", "ended", "failed"} /\ pc' \in {"off", "retired"})
  <2>1. CASE StopBegin
    <3>1. cancelled' \in BOOLEAN
      BY <2>1 DEF StopBegin
    <3>2. stopping' = TRUE /\ running' = FALSE
      BY <2>1 DEF StopBegin
    <3>3. QED
      BY <2>1, <3>1, <3>2 DEF StopBegin, StopQueues, callerVars, roundVars, airVars
  <2>2. CASE StopEnd
    BY <2>2 DEF StopEnd, StopQueues, callerVars, roundVars, airVars
  <2>3. QED
    BY <2>1, <2>2
<1>2. \A r \in Queued : /\ r \in Requests /\ r # cur
                       /\ aired[r] = 0 /\ charged[r] = 0
  <2> SUFFICES ASSUME NEW c \in Channels, NEW r \in Elements(queue[c])
               PROVE  /\ r \in Requests /\ r # cur
                      /\ aired[r] = 0 /\ charged[r] = 0
    OBVIOUS
  <2>1. r \in Requests
    BY ElementsFacts DEF TypeOK
  <2>2. QED
    BY <2>1 DEF OnePlace, SpentInv
<1> HIDE DEF Queued
<1>3. \A r \in Requests :
         \/ future'[r] = future[r]
         \/ r \in Queued /\ future[r] = "pending" /\ future'[r] = "queue_stopped"
  BY <1>1 DEF Resolve
<1>4. TypeOK'
  <2>1. future' \in [Requests -> Replies \cup {"none", "pending"}]
    BY <1>1 DEF Resolve, TypeOK, Replies, Refusals
  <2>2. queue' \in [Channels -> Seq(Requests)]
    BY <1>1, EmptyFacts
  <2>3. running' \in BOOLEAN
    BY <1>1 DEF TypeOK
  <2>4. pc' \in Awaits \cup {"off", "visit", "ended", "failed", "retired"}
    BY <1>1 DEF TypeOK
  <2>5. QED
    BY <1>1, <2>1, <2>2, <2>3, <2>4 DEF TypeOK
<1>5. \A c \in Channels : NoRepeats(queue'[c]) /\ Elements(queue'[c]) = {}
  BY <1>1, EmptyFacts
<1>6. OnePlace' /\ QueuedInv'
  BY <1>5 DEF OnePlace, QueuedInv
<1>7. HeldInv'
  BY <1>1, <1>2, <1>3, ConstantsAssumption DEF HeldInv, Sleeps, TypeOK
<1>8. SpentInv'
  BY <1>1, <1>2, <1>3, <1>5 DEF SpentInv
<1>9. OnAirAtMostOnce' /\ AirtimeAccounted'
  BY <1>1, <1>3 DEF OnAirAtMostOnce, AirtimeAccounted
<1>10. QED
  BY <1>4, <1>6, <1>7, <1>8, <1>9

-----------------------------------------------------------------------------
(* The theorems.                                                           *)

LEMMA NextKeepsIInv == IInv /\ [Next]_vars => IInv'
<1> SUFFICES ASSUME IInv, [Next]_vars
             PROVE  IInv'
  OBVIOUS
<1>1. ASSUME NEW r \in Requests, Caller(r)
      PROVE  IInv'
  BY <1>1, EnqueueKeepsIInv, GivingUpKeepsIInv, ReturnKeepsIInv DEF Caller
<1>2. CASE Worker
  BY <1>2, PacingKeepsIInv, TakeExpiredKeepsIInv, TakeRequestKeepsIInv,
     DropExpiredKeepsIInv, RetryKeepsIInv, SendConcludedKeepsIInv, CancelKeepsIInv
     DEF Worker
<1>3. CASE BudgetRaises
  BY <1>3, DropExpiredKeepsIInv
<1>4. CASE Start \/ StopBegin \/ StopEnd
  BY <1>4, StartKeepsIInv, StopKeepsIInv
<1>5. CASE Tick
  BY <1>5, TickKeepsIInv
<1>6. CASE UNCHANGED vars
  BY <1>6 DEF vars, callerVars, roundVars, stopVars, airVars, IInv, TypeOK,
     OnePlace, HeldInv, QueuedInv, SpentInv, OnAirAtMostOnce, AirtimeAccounted
<1>7. QED
  BY <1>1, <1>2, <1>3, <1>4, <1>5, <1>6 DEF Next

(* The inductive invariant holds in every reachable state.                 *)
THEOREM Invariance == Spec => []IInv
BY InitIInv, NextKeepsIInv, PTL DEF Spec

(* Every variable keeps its type: in particular queues hold requests only, *)
(* ages stay within the caller's timeout and the retry counter within its  *)
(* limit.                                                                  *)
THEOREM TypeCorrect == Spec => []TypeOK
<1>1. IInv => TypeOK
  BY DEF IInv
<1>2. QED
  BY Invariance, <1>1, PTL

(* A request is never in a queue twice, nor queued while the worker holds  *)
(* it, through any purge, overflow, retry, drain and cancellation.         *)
THEOREM OnePlaceOnly == Spec => []OnePlace
<1>1. IInv => OnePlace
  BY DEF IInv
<1>2. QED
  BY Invariance, <1>1, PTL

(* A caller told "overflow", "expired" or "stopped" may submit its packet  *)
(* again: it never was, and never will be, on the air.                     *)
THEOREM RefusalIsFinal == Spec => []RefusedNeverOnAir
<1>1. IInv => RefusedNeverOnAir
  BY DEF IInv, TypeOK, SpentInv, RefusedNeverOnAir, Refusals, GivenUp, Results
<1>2. QED
  BY Invariance, <1>1, PTL

(* No packet is on the air twice, and "ok" is said only of one that was.   *)
THEOREM AirOnce == Spec => []OnAirAtMostOnce
<1>1. IInv => OnAirAtMostOnce
  BY DEF IInv
<1>2. QED
  BY Invariance, <1>1, PTL

(* Whatever was on the air was charged to the duty budget, and once only,  *)
(* but for what the forwarder called a failed send.                        *)
THEOREM AirtimeCharged == Spec => []AirtimeAccounted
<1>1. IInv => AirtimeAccounted
  BY DEF IInv
<1>2. QED
  BY Invariance, <1>1, PTL

-----------------------------------------------------------------------------
(* A purge takes no request from its queue whose caller still waits.       *)
LEMMA PurgeKeepsWaiting ==
    ASSUME TypeOK, NEW c \in Channels
    PROVE  LET live == DiscardCompleted(queue[c], Done)
           IN  /\ live \in Seq(Requests)
               /\ Elements(live) \subseteq Elements(queue[c])
               /\ \A r \in Elements(queue[c]) :
                     future[r] = "pending" => r \in Elements(live)
<1> DEFINE live == DiscardCompleted(queue[c], Done)
<1>1. queue[c] \in Seq(Requests)
  BY DEF TypeOK
<1>2. live \in Seq(Requests) /\ Elements(live) = Elements(queue[c]) \ Done
  BY <1>1, PurgeKeepsLiveInOrder
<1>3. \A r \in Requests : future[r] = "pending" => r \notin Done
  BY DEF Done, Replies, Refusals, GivenUp, Results
<1>4. Elements(queue[c]) \subseteq Requests
  BY <1>1, ElementsFacts
<1> HIDE DEF live
<1>5. QED
  BY <1>2, <1>3, <1>4 DEF live

LEMMA CallerKeepsAll ==
    ASSUME IInv, NothingLost, NEW r \in Requests, Caller(r)
    PROVE  NothingLost'
<1> DEFINE c == chan[r]
<1> DEFINE live == DiscardCompleted(queue[c], Done)
<1> USE DEF IInv
<1>1. c \in Channels
  BY DEF TypeOK
<1>2. /\ live \in Seq(Requests)
      /\ Elements(live) \subseteq Elements(queue[c])
      /\ \A x \in Elements(queue[c]) : future[x] = "pending" => x \in Elements(live)
  BY <1>1, PurgeKeepsWaiting
<1>3. /\ Append(live, r) \in Seq(Requests)
      /\ Elements(Append(live, r)) = Elements(live) \cup {r}
  BY <1>2, AppendFacts
<1> HIDE DEF live, c
<1>4. UNCHANGED <<pc, cur, chan>>
  BY DEF Caller, EnqueueRefused, EnqueueAdmitted, EnqueueDropsNewest,
     EnqueueDropsOldest, WaitTimesOut, CallerCancelled, EnqueueReturns, callerVars
<1>5. CASE EnqueueRefused(r) \/ WaitTimesOut(r) \/ CallerCancelled(r)
  <2>1. /\ queue' = queue
        /\ \A x \in Requests : future'[x] = "pending" => future[x] = "pending"
    BY <1>5 DEF EnqueueRefused, WaitTimesOut, CallerCancelled, TypeOK
  <2>2. QED
    BY <1>4, <2>1 DEF NothingLost
<1>6. CASE EnqueueAdmitted(r)
  <2>1. /\ queue' = [queue EXCEPT ![c] = Append(live, r)]
        /\ future' = [future EXCEPT ![r] = "pending"]
    BY <1>6 DEF EnqueueAdmitted, live, c
  <2>2. QED
    BY <1>1, <1>2, <1>3, <1>4, <2>1 DEF NothingLost, TypeOK, c
<1>7. CASE EnqueueDropsNewest(r) \/ EnqueueReturns(r)
  <2>1. /\ queue' = [queue EXCEPT ![c] = live]
        /\ \A x \in Requests : future'[x] = "pending" => future[x] = "pending"
    BY <1>7 DEF EnqueueDropsNewest, EnqueueReturns, live, c, TypeOK
  <2>2. QED
    BY <1>1, <1>2, <1>4, <2>1 DEF NothingLost, TypeOK
<1>8. CASE EnqueueDropsOldest(r)
  <2> DEFINE rest == Tail(live)
  <2> DEFINE q == Append(rest, r)
  <2>1. /\ Len(live) >= QueueSize
        /\ queue' = [queue EXCEPT ![c] = q]
        /\ future' = [future EXCEPT
                        ![Head(live)] = IF @ = "pending" THEN "dropped_overflow" ELSE @,
                        ![r] = "pending"]
    BY <1>8 DEF EnqueueDropsOldest, live, c
  <2>2. live # <<>>
    BY <1>2, <2>1, ConstantsAssumption
  <2>3. /\ rest \in Seq(Requests)
        /\ Head(live) \in Requests
        /\ Elements(live) = Elements(rest) \cup {Head(live)}
    BY <1>2, <2>2, TailFacts
  <2> HIDE DEF rest
  <2>4. Elements(q) = Elements(rest) \cup {r}
    BY <2>3, AppendFacts
  <2> HIDE DEF q
  <2>5. \A x \in Requests : future'[x] = "pending" =>
           x = r \/ (future[x] = "pending" /\ x # Head(live))
    BY <2>1, <2>3 DEF TypeOK
  <2>6. QED
    BY <1>1, <1>2, <1>4, <2>1, <2>3, <2>4, <2>5 DEF NothingLost, TypeOK, c
<1>9. QED
  BY <1>5, <1>6, <1>7, <1>8 DEF Caller

LEMMA TakeKeepsAll ==
    ASSUME IInv, NothingLost, TakeExpired \/ TakeRequest
    PROVE  NothingLost'
<1> DEFINE c == Visited
<1> DEFINE h == Head(queue[c])
<1> DEFINE q == Tail(queue[c])
<1>1. /\ pc = "visit" /\ visited < NumChannels /\ queue[c] # <<>>
      /\ queue' = [queue EXCEPT ![c] = q]
      /\ chan' = chan
      /\ \/ cur' = h /\ future' = future
         \/ cur' = cur /\ Resolve({h}, "ttl_expired")
  BY DEF TakeExpired, TakeRequest, Visit, callerVars
<1>2. /\ c \in Channels /\ h \in Requests /\ chan[h] = c
      /\ Elements(queue[c]) = Elements(q) \cup {h}
  BY <1>1, HeadOfVisited
<1>3. cur = NoRequest
  BY <1>1 DEF IInv, HeldInv, Sleeps
<1> HIDE DEF c, h, q
<1>4. \A r \in Requests : future'[r] = "pending" =>
         future[r] = "pending" /\ (r = h => r = cur')
  BY <1>1, <1>2 DEF Resolve
<1>5. QED
  BY <1>1, <1>2, <1>3, <1>4, ConstantsAssumption DEF NothingLost, IInv, TypeOK

(* Every other step of the worker answers the request it lets go of, or    *)
(* puts it back.                                                           *)
LEMMA WorkerKeepsAll ==
    ASSUME IInv, NothingLost, Worker \/ BudgetRaises
    PROVE  NothingLost'
<1> USE DEF IInv
<1>1. CASE SkipEmptyQueue \/ MoveOn \/ EndRound \/ EndNap
  <2>1. UNCHANGED <<queue, future, cur, chan>> /\ pc \notin {"failed", "retired"}
    BY <1>1 DEF SkipEmptyQueue, MoveOn, EndRound, EndNap, Visit, Sleeps, callerVars
  <2>2. QED
    BY <2>1 DEF NothingLost
<1>2. CASE TakeExpired \/ TakeRequest
  BY <1>2, TakeKeepsAll
<1>3. CASE BudgetRaises
  BY <1>3 DEF BudgetRaises, NothingLost
<1>4. ASSUME NEW o \in Outcomes, SendRetried(o)
      PROVE  NothingLost'
  <2>1. /\ pc = "air" /\ cur' = NoRequest
        /\ queue' = [queue EXCEPT ![chan[cur]] = Append(@, cur)]
        /\ UNCHANGED <<future, chan>>
    BY <1>4 DEF SendRetried, SendDone, callerVars
  <2>2. cur \in Requests /\ chan[cur] \in Channels
    BY <2>1 DEF HeldInv, TypeOK
  <2>3. Elements(Append(queue[chan[cur]], cur)) = Elements(queue[chan[cur]]) \cup {cur}
    BY <2>2, AppendFacts DEF TypeOK
  <2>4. QED
    BY <2>1, <2>2, <2>3 DEF NothingLost, TypeOK
<1>5. ASSUME \/ DropExpired \/ CancelDelivered
             \/ \E o \in Outcomes : SendConcluded(o)
      PROVE  NothingLost'
  <2>1. PICK reply \in Replies : Resolve({cur}, reply)
    BY <1>5 DEF DropExpired, CancelDelivered, SendConcluded, Replies, Refusals, Results
  <2>2. UNCHANGED <<queue, chan>> /\ pc \notin {"failed", "retired"}
    BY <1>5 DEF DropExpired, CancelDelivered, SendConcluded, SendDone, callerVars,
       Sleeps, Awaits
  <2>3. \A r \in Requests : future'[r] = "pending" => future[r] = "pending" /\ r # cur
    BY <2>1 DEF Resolve, Replies, Refusals, GivenUp, Results
  <2>4. QED
    BY <2>2, <2>3 DEF NothingLost
<1>6. QED
  BY <1>1, <1>2, <1>3, <1>4, <1>5 DEF Worker

LEMMA StartStopKeepsAll ==
    ASSUME IInv, NothingLost, Start \/ StopBegin \/ StopEnd
    PROVE  NothingLost'
<1> USE DEF IInv
<1>1. CASE Start
  BY <1>1 DEF Start, NothingLost, callerVars
<1>2. CASE StopBegin \/ StopEnd
  <2>1. /\ StopQueues
        /\ UNCHANGED <<cur, chan>>
        /\ pc' \notin {"failed", "retired"} => pc \notin {"failed", "retired"}
    BY <1>2 DEF StopBegin, StopEnd, callerVars
  <2>2. \A r \in Requests : future'[r] = "pending" =>
           future[r] = "pending" /\ r \notin Elements(queue[chan[r]])
    BY <2>1 DEF StopQueues, Resolve, TypeOK
  <2>3. QED
    BY <2>1, <2>2 DEF NothingLost
<1>3. QED
  BY <1>1, <1>2

LEMMA NextKeepsAll == IInv /\ NothingLost /\ [Next]_vars => NothingLost'
<1> SUFFICES ASSUME IInv, NothingLost, [Next]_vars
             PROVE  NothingLost'
  OBVIOUS
<1>1. CASE Tick
  BY <1>1 DEF Tick, NothingLost
<1>2. CASE UNCHANGED vars
  BY <1>2 DEF vars, callerVars, NothingLost
<1>3. QED
  BY <1>1, <1>2, CallerKeepsAll, WorkerKeepsAll, StartStopKeepsAll DEF Next

(* A request whose caller still waits is in its queue or in the worker's   *)
(* hands: no purge, overflow, retry or drain makes the code forget one.    *)
THEOREM NoneForgotten == Spec => []NothingLost
<1>1. Init => NothingLost
  BY DEF Init, NothingLost
<1>2. QED
  BY <1>1, Invariance, NextKeepsAll, PTL DEF Spec

(* The radio is asked to send for callers that wait, within the lifetime   *)
(* of their requests, whatever held the worker up before.                  *)
THEOREM SendsForTheLiving == Spec => SendsOnlyLive
<1>1. ASSUME IInv, [Next]_vars, pc # "air", pc' = "air"
      PROVE  future[cur'] = "pending" /\ age[cur'] < TTL
  <2> USE DEF IInv
  <2>1. ~ UNCHANGED vars
    BY <1>1 DEF vars
  <2>2. CASE TakeRequest
    <3>1. ~Expired(cur') /\ cur' \in Requests /\ future[cur'] \in GivenUp \cup {"pending"}
      BY <1>1, <2>2, HeadOfVisited DEF TakeRequest, Visit
    <3>2. QED
      BY <1>1, <3>1, ConstantsAssumption DEF Expired, Done, Replies, TypeOK, Deadline
  <2>3. CASE MoveOn
    <3>1. /\ ~Expired(cur) /\ cur' = cur /\ cur \in Requests
          /\ future[cur] \in GivenUp \cup {"pending"}
      BY <1>1, <2>3 DEF MoveOn, HeldInv, TypeOK
    <3>2. QED
      BY <1>1, <3>1, ConstantsAssumption DEF Expired, Done, Replies, TypeOK, Deadline
  <2>4. TakeRequest \/ MoveOn
    BY <1>1, <2>1 DEF Next, Caller, EnqueueRefused, EnqueueAdmitted,
       EnqueueDropsNewest, EnqueueDropsOldest, WaitTimesOut, CallerCancelled,
       EnqueueReturns, Start, StopBegin, StopEnd, Worker, SkipEmptyQueue,
       TakeExpired, EndRound, TopOfLoop, EndNap, DropExpired, SendRetried,
       SendConcluded, SendDone, CancelDelivered, BudgetRaises, Tick, Visit
  <2>5. QED
    BY <2>2, <2>3, <2>4
<1>2. QED
  BY <1>1, Invariance, PTL DEF Spec, SendsOnlyLive

(* When stop() is over every admitted caller has its answer and no queue   *)
(* holds anything, unless the budget raised an exception: that ends the    *)
(* worker with a request in its hands (tx_queue.py:1015).                  *)
THEOREM StopLeavesNobody ==
    ASSUME ~BudgetMayRaise
    PROVE  Spec => StopAnswersEveryone
<1> DEFINE Alive == pc \notin {"failed", "retired"}
<1>1. Init => Alive
  BY DEF Init
<1>2. Alive /\ [Next]_vars => Alive'
  <2> SUFFICES ASSUME Alive, [Next]_vars
               PROVE  Alive'
    OBVIOUS
  <2>1. CASE UNCHANGED vars
    BY <2>1 DEF vars
  <2>2. CASE Worker
    BY <2>2 DEF Worker, SkipEmptyQueue, TakeExpired, TakeRequest, EndRound, TopOfLoop,
       EndNap, MoveOn, DropExpired, SendRetried, SendConcluded, SendDone,
       CancelDelivered, Visit, After, Sleeps
  <2>3. ~BudgetRaises
    BY DEF BudgetRaises
  <2>4. QED
    BY <2>1, <2>2, <2>3 DEF Next, Caller, EnqueueRefused, EnqueueAdmitted,
       EnqueueDropsNewest, EnqueueDropsOldest, WaitTimesOut, CallerCancelled,
       EnqueueReturns, Start, StopBegin, StopEnd, Tick
<1>3. ASSUME IInv, NothingLost, Alive, [Next]_vars, stopping, ~stopping'
      PROVE  \A r \in Requests :
                future'[r] # "pending" /\ r \notin Elements(queue'[chan[r]])
  <2> USE DEF IInv
  <2>1. StopEnd
    BY <1>3 DEF Next, vars, stopVars, Caller, EnqueueRefused, EnqueueAdmitted,
       EnqueueDropsNewest, EnqueueDropsOldest, WaitTimesOut, CallerCancelled,
       EnqueueReturns, Start, StopBegin, Tick, Worker, SkipEmptyQueue,
       TakeExpired, TakeRequest, EndRound, EndNap, MoveOn, DropExpired,
       SendRetried, SendConcluded, SendDone, CancelDelivered, BudgetRaises
  <2>2. cur = NoRequest
    BY <1>3, <2>1 DEF StopEnd, HeldInv, Sleeps
  <2>3. \A r \in Requests : chan[r] \in Channels /\ r # cur
    BY <1>3, <2>2, ConstantsAssumption DEF TypeOK
  <2>4. \A r \in Requests : future'[r] # "pending"
    BY <1>3, <2>1, <2>3 DEF StopEnd, StopQueues, Resolve, NothingLost
  <2>5. \A r \in Requests : Elements(queue'[chan[r]]) = {}
    BY <2>1, <2>3, EmptyFacts DEF StopEnd, StopQueues
  <2>6. QED
    BY <2>4, <2>5
<1>4. QED
  BY <1>1, <1>2, <1>3, Invariance, NoneForgotten, PTL DEF Spec, StopAnswersEveryone

-----------------------------------------------------------------------------
Moves(r) ==
    \/ Service!Idle(r) \/ Service!Accept(r) \/ Service!Refuse(r)
    \/ Service!GiveUp(r) \/ Service!Attempt(r)

(* Who enqueues is accepted or refused, and so may be the oldest in line.  *)
LEMMA CallerMoves ==
    ASSUME IInv, NEW x \in Requests, Caller(x)
    PROVE  aired' = aired /\ \A r \in Requests : Moves(r)
<1> USE DEF IInv, Moves, Service!Idle
<1>1. aired' = aired
  BY DEF Caller, EnqueueRefused, EnqueueAdmitted, EnqueueDropsNewest,
     EnqueueDropsOldest, WaitTimesOut, CallerCancelled, EnqueueReturns, airVars
<1>2. CASE EnqueueRefused(x) \/ EnqueueAdmitted(x) \/ EnqueueDropsNewest(x)
  <2>1. PICK a \in {"pending", "dropped_overflow", "queue_stopped"} :
           future[x] = "none" /\ future' = [future EXCEPT ![x] = a]
    BY <1>2 DEF EnqueueRefused, EnqueueAdmitted, EnqueueDropsNewest, Fresh
  <2>2. QED
    BY <1>1, <2>1 DEF Service!Accept, TypeOK
<1>3. CASE EnqueueDropsOldest(x)
  <2> DEFINE c == chan[x]
  <2> DEFINE live == DiscardCompleted(queue[c], Done)
  <2> DEFINE old == Head(live)
  <2>1. /\ future[x] = "none"
        /\ Len(live) >= QueueSize
        /\ future' = [future EXCEPT
                        ![old] = IF @ = "pending" THEN "dropped_overflow" ELSE @,
                        ![x] = "pending"]
    BY <1>3 DEF EnqueueDropsOldest, Fresh
  <2>2. c \in Channels
    BY DEF TypeOK
  <2>3. /\ live \in Seq(Requests)
        /\ Elements(live) \subseteq Elements(queue[c])
        /\ \A r \in Elements(live) : future[r] = "pending"
    BY <2>2, PurgedQueue
  <2> HIDE DEF live, c
  <2>4. live # <<>>
    BY <2>1, <2>3, ConstantsAssumption
  <2>5. old \in Elements(queue[c]) /\ old \in Requests /\ future[old] = "pending"
    BY <2>3, <2>4, TailFacts
  <2> HIDE DEF old
  <2>6. aired[old] = 0 /\ old # x
    BY <2>1, <2>2, <2>5 DEF SpentInv
  <2>7. /\ future'[x] = "pending" /\ future'[old] = "dropped_overflow"
        /\ \A r \in Requests \ {x, old} : future'[r] = future[r]
    BY <2>1, <2>5, <2>6 DEF TypeOK
  <2>8. QED
    BY <1>1, <2>1, <2>5, <2>6, <2>7 DEF Service!Accept, Service!Refuse, Service!Refusals
<1>4. CASE WaitTimesOut(x) \/ CallerCancelled(x)
  <2>1. PICK g \in GivenUp :
           future[x] = "pending" /\ future' = [future EXCEPT ![x] = g]
    BY <1>4 DEF WaitTimesOut, CallerCancelled, GivenUp
  <2>2. QED
    BY <1>1, <2>1 DEF Service!GiveUp, Service!GivenUp, GivenUp, TypeOK
<1>5. CASE EnqueueReturns(x)
  BY <1>1, <1>5 DEF EnqueueReturns
<1>6. QED
  BY <1>1, <1>2, <1>3, <1>4, <1>5 DEF Caller

(* What is refused in the worker's sight was never on the air.             *)
LEMMA RefusalMoves ==
    ASSUME IInv, TakeExpired \/ DropExpired \/ StopBegin \/ StopEnd
    PROVE  \A r \in Requests : Moves(r)
<1> USE DEF IInv
<1> DEFINE Queued == UNION {Elements(queue[c]) : c \in Channels}
<1>1. ASSUME NEW S, NEW a \in Refusals, Resolve(S, a), aired' = aired,
             \A r \in Requests : r \in S => aired[r] = 0
      PROVE  \A r \in Requests : Moves(r)
  <2>1. \A r \in Requests :
           \/ future'[r] = future[r]
           \/ r \in S /\ future[r] = "pending" /\ future'[r] = a
    BY <1>1 DEF Resolve
  <2>2. QED
    BY <1>1, <2>1 DEF Moves, Service!Idle, Service!Refuse, Service!Refusals, Refusals
<1>2. CASE TakeExpired
  <2>1. visited < NumChannels /\ queue[Visited] # <<>>
    BY <1>2 DEF TakeExpired, Visit
  <2>2. aired[Head(queue[Visited])] = 0
    BY <2>1, HeadOfVisited
  <2>3. /\ Resolve({Head(queue[Visited])}, "ttl_expired")
        /\ aired' = aired /\ "ttl_expired" \in Refusals
    BY <1>2 DEF TakeExpired, Refusals, airVars
  <2>4. QED
    BY <1>1, <2>2, <2>3
<1>3. CASE DropExpired
  <2>1. \A r \in Requests : r \in {cur} => aired[r] = 0
    BY DEF SpentInv
  <2>2. /\ Resolve({cur}, "ttl_expired")
        /\ aired' = aired /\ "ttl_expired" \in Refusals
    BY <1>3 DEF DropExpired, Refusals, airVars
  <2>3. QED
    BY <1>1, <2>1, <2>2
<1>4. CASE StopBegin \/ StopEnd
  <2>1. \A r \in Requests : r \in Queued => aired[r] = 0
    BY DEF SpentInv
  <2>2. /\ Resolve(Queued, "queue_stopped")
        /\ aired' = aired /\ "queue_stopped" \in Refusals
    BY <1>4 DEF StopBegin, StopEnd, StopQueues, Refusals, airVars
  <2> HIDE DEF Queued
  <2>3. QED
    BY <1>1, <2>1, <2>2
<1>5. QED
  BY <1>2, <1>3, <1>4

(* An attempt ends, by its outcome or by a cancellation.                   *)
LEMMA AttemptMoves ==
    ASSUME IInv, CancelDelivered \/ \E o \in Outcomes : SendRetried(o) \/ SendConcluded(o)
    PROVE  \A r \in Requests : Moves(r)
<1> USE DEF IInv
<1> DEFINE Ends(n, reply) ==
      /\ Resolve({cur}, reply)
      /\ aired' = [aired EXCEPT ![cur] = @ + n]
<1>1. ASSUME NEW n \in {0, 1}, NEW reply \in Results, reply = "ok" => n = 1,
             cur \in Requests, Ends(n, reply)
      PROVE  \A r \in Requests : Moves(r)
  <2>1. aired[cur] = 0 /\ future[cur] \in GivenUp \cup {"pending"}
    BY <1>1, ConstantsAssumption DEF HeldInv, SpentInv
  <2>2. aired'[cur] = n
    BY <1>1, <2>1 DEF TypeOK
  <2>3. IF future[cur] = "pending" THEN future'[cur] = reply
                                   ELSE future'[cur] = future[cur]
    BY <1>1 DEF Resolve
  <2>4. Service!Attempt(cur)
    BY <1>1, <2>1, <2>2, <2>3 DEF Service!Attempt, Service!GivenUp, Service!Results,
       GivenUp, Results
  <2>5. \A r \in Requests \ {cur} : Service!Idle(r)
    BY <1>1 DEF Service!Idle, Resolve, TypeOK
  <2>6. QED
    BY <2>4, <2>5 DEF Moves
<1>2. ASSUME NEW o \in Outcomes, SendRetried(o)
      PROVE  \A r \in Requests : Moves(r)
  <2>1. cur \in Requests /\ o = "dropped" /\ future' = future
    BY <1>2 DEF SendRetried, SendDone, Retriable, HeldInv, TypeOK
  <2>2. aired' = [aired EXCEPT ![cur] = @ + 0]
    BY <1>2, <2>1 DEF SendRetried, SendDone, AiredBy
  <2>3. aired' = aired
    BY <2>1, <2>2 DEF TypeOK
  <2>4. QED
    BY <2>1, <2>3 DEF Moves, Service!Idle
<1>3. ASSUME NEW o \in Outcomes, SendConcluded(o)
      PROVE  \A r \in Requests : Moves(r)
  <2> DEFINE reply == IF o = "ok" THEN "ok" ELSE "failed"
  <2>1. cur \in Requests
    BY <1>3 DEF SendConcluded, SendDone, HeldInv, TypeOK
  <2>2. PICK n \in AiredBy(o) : Ends(n, reply)
    BY <1>3 DEF SendConcluded, SendDone
  <2>3. n \in {0, 1} /\ reply \in Results /\ (reply = "ok" => n = 1)
    BY DEF AiredBy, Outcomes, Results
  <2> HIDE DEF reply, Ends
  <2>4. QED
    BY <1>1, <2>1, <2>2, <2>3
<1>4. CASE CancelDelivered
  <2>0. "scheduler_stopped" \in Results
    BY DEF Results
  <2>1. CASE pc = "air"
    <3>1. cur \in Requests
      BY <2>1 DEF HeldInv, TypeOK
    <3>2. PICK n \in {0, 1} : Ends(n, "scheduler_stopped")
      BY <1>4, <2>1 DEF CancelDelivered
    <3> HIDE DEF Ends
    <3>3. QED
      BY <1>1, <2>0, <3>1, <3>2
  <2>2. CASE pc # "air"
    <3>1. aired' = aired /\ Resolve({cur}, "scheduler_stopped")
      BY <1>4, <2>2 DEF CancelDelivered
    <3>2. CASE cur \in Requests
      <4>1. aired[cur] = 0
        BY <3>1, <3>2, ConstantsAssumption DEF HeldInv, SpentInv, TypeOK
      <4>2. aired' = [aired EXCEPT ![cur] = @ + 0]
        BY <3>1, <4>1, <3>2 DEF TypeOK
      <4>3. Ends(0, "scheduler_stopped")
        BY <3>1, <4>2
      <4> HIDE DEF Ends
      <4>4. QED
        BY <1>1, <2>0, <3>2, <4>3
    <3>3. CASE cur \notin Requests
      <4>1. future' = future
        BY <3>1, <3>3 DEF Resolve, TypeOK
      <4>2. QED
        BY <3>1, <4>1 DEF Moves, Service!Idle
    <3>4. QED
      BY <3>2, <3>3
  <2>3. QED
    BY <2>1, <2>2
<1>5. QED
  BY <1>2, <1>3, <1>4

LEMMA NextMoves ==
    ASSUME IInv, Next
    PROVE  \A r \in Requests : Moves(r)
<1>1. CASE \/ SkipEmptyQueue \/ TakeRequest \/ MoveOn \/ EndRound \/ EndNap
           \/ BudgetRaises \/ Start \/ Tick
  <2>1. future' = future /\ aired' = aired
    BY <1>1 DEF SkipEmptyQueue, TakeRequest, MoveOn, EndRound, EndNap, BudgetRaises,
       Start, Tick, airVars
  <2>2. QED
    BY <2>1 DEF Moves, Service!Idle
<1>2. QED
  BY <1>1, CallerMoves, RefusalMoves, AttemptMoves DEF Next, Worker

(* The transmit path keeps the promise of TxService: one reply per request *)
(* that is never revised, on the air at most once, "ok" said only of what  *)
(* was on the air and a refusal only of what never is.  Every step of the  *)
(* queues and their worker is a step of the service or does not concern it.*)
THEOREM ImplementsService == Spec => KeepsPromise
<1>1. Init => Service!Init
  BY DEF Init, Service!Init
<1>2. ASSUME IInv, [Next]_vars, IInv'
      PROVE  [Service!Next]_<<future, aired>>
  <2>1. CASE Next
    <3>1. \A r \in Requests : Moves(r)
      BY <1>2, <2>1, NextMoves
    <3>2. future' \in [Requests -> Service!Replies \cup {"none", "pending"}]
      BY <1>2 DEF IInv, TypeOK, Replies, Refusals, GivenUp, Results, Service!Replies,
         Service!Refusals, Service!GivenUp, Service!Results
    <3>3. aired' \in [Requests -> {0, 1}]
      <4>1. aired' \in [Requests -> Nat] /\ \A r \in Requests : aired'[r] <= 1
        BY <1>2 DEF IInv, TypeOK, OnAirAtMostOnce
      <4>2. \A n \in Nat : n <= 1 => n \in {0, 1}
        OBVIOUS
      <4>3. QED
        BY <4>1, <4>2
    <3>4. QED
      BY <3>1, <3>2, <3>3 DEF Moves, Service!Next
  <2>2. CASE UNCHANGED vars
    BY <2>2 DEF vars, airVars
  <2>3. QED
    BY <1>2, <2>1, <2>2
<1>3. QED
  BY <1>1, <1>2, Invariance, PTL DEF Spec, KeepsPromise, Service!Spec

-----------------------------------------------------------------------------
orderVars == <<vars, before, overtaken>>

(* p holds, in their order, requests of q.                                 *)
Thins(p, q) ==
    /\ Elements(p) \subseteq Elements(q)
    /\ \A k, l \in 1..Len(p) :
          k < l => \E m, n \in 1..Len(q) : m < n /\ p[k] = q[m] /\ p[l] = q[n]

(* What the step at hand takes to have been admitted in this order.        *)
Follows(r, s) ==
    <<r, s>> \in before \/ (r \in Requests \ Entering /\ s \in Entering)

(* Taking the head, purging and emptying a queue thin it.                  *)
LEMMA TailThins ==
    ASSUME NEW S, NEW q \in Seq(S), q # <<>>
    PROVE  Thins(Tail(q), q)
<1>1. /\ Len(q) \in Nat \ {0} /\ Len(Tail(q)) = Len(q) - 1
      /\ \A k \in 1..Len(Tail(q)) : k+1 \in 1..Len(q) /\ Tail(q)[k] = q[k+1]
  OBVIOUS
<1>2. Elements(Tail(q)) \subseteq Elements(q)
  BY TailFacts
<1>3. ASSUME NEW k \in 1..Len(Tail(q)), NEW l \in 1..Len(Tail(q)), k < l
      PROVE  \E m, n \in 1..Len(q) : m < n /\ Tail(q)[k] = q[m] /\ Tail(q)[l] = q[n]
  <2>1. k+1 < l+1
    BY <1>1, <1>3
  <2>2. QED
    BY <1>1, <2>1
<1>4. QED
  BY <1>2, <1>3 DEF Thins

LEMMA PurgeThins ==
    ASSUME NEW S, NEW q \in Seq(S), NEW done
    PROVE  DiscardCompleted(q, done) \in Seq(S) /\ Thins(DiscardCompleted(q, done), q)
BY PurgeKeepsLiveInOrder DEF Thins

LEMMA ThinsTwice ==
    ASSUME NEW p, NEW q, NEW s, Thins(p, q), Thins(q, s)
    PROVE  Thins(p, s)
<1>1. Elements(p) \subseteq Elements(s)
  BY DEF Thins
<1>2. ASSUME NEW k \in 1..Len(p), NEW l \in 1..Len(p), k < l
      PROVE  \E m, n \in 1..Len(s) : m < n /\ p[k] = s[m] /\ p[l] = s[n]
  <2>1. PICK m \in 1..Len(q), n \in 1..Len(q) : m < n /\ p[k] = q[m] /\ p[l] = q[n]
    BY <1>2 DEF Thins
  <2>2. \E i, j \in 1..Len(s) : i < j /\ q[m] = s[i] /\ q[n] = s[j]
    BY <2>1 DEF Thins
  <2>3. QED
    BY <2>1, <2>2
<1>3. QED
  BY <1>1, <1>2 DEF Thins

LEMMA SameThins == \A q : Thins(q, q)
BY DEF Thins

LEMMA EmptyThins ==
    ASSUME NEW S, NEW q \in Seq(S)
    PROVE  Thins(<<>>, q)
<1>1. Len(<<>>) = 0 /\ Elements(<<>>) = {}
  BY EmptyFacts
<1>2. QED
  BY <1>1 DEF Thins

(* The order of admission covers every queue if it covers what the step    *)
(* makes of the queues and of the worker's hands.                          *)
LEMMA OrderFollows ==
    ASSUME IInv', Observe, chan' = chan,
           \A c \in Channels : \A k, l \in 1..Len(queue'[c]) :
              k < l /\ retries'[queue'[c][k]] = 0 /\ retries'[queue'[c][l]] = 0
                => Follows(queue'[c][k], queue'[c][l]),
           cur' # NoRequest /\ retries'[cur'] = 0
             => \A r \in Elements(queue'[chan[cur']]) :
                   retries'[r] = 0 => Follows(cur', r)
    PROVE  FirstAttemptsInOrder'
<1>1. ASSUME NEW r \in Requests, NEW s \in Requests,
             Follows(r, s), Untouched(r)', Untouched(s)'
      PROVE  <<r, s>> \in before'
  BY <1>1 DEF Follows, Observe
<1>2. ASSUME NEW c \in Channels, NEW r \in Elements(queue'[c])
      PROVE  /\ r \in Requests
             /\ retries'[r] = 0 => Untouched(r)'
  <2>1. Elements(queue'[c]) \subseteq Requests
    BY ElementsFacts DEF IInv, TypeOK
  <2>2. chan'[r] = c
    BY DEF IInv, OnePlace
  <2>3. QED
    BY <1>2, <2>1, <2>2 DEF Untouched, Untried
<1>3. cur' # NoRequest => /\ cur' \in Requests
                          /\ retries'[cur'] = 0 => Untouched(cur)'
  BY DEF IInv, TypeOK, Untouched, Untried
<1>4. ASSUME NEW c \in Channels, NEW k \in 1..Len(queue'[c]), NEW l \in 1..Len(queue'[c]),
             k < l, retries'[queue'[c][k]] = 0, retries'[queue'[c][l]] = 0
      PROVE  <<queue'[c][k], queue'[c][l]>> \in before'
  <2>1. queue'[c][k] \in Elements(queue'[c]) /\ queue'[c][l] \in Elements(queue'[c])
    BY DEF Elements
  <2>2. QED
    BY <1>1, <1>2, <1>4, <2>1
<1>5. ASSUME cur' # NoRequest, retries'[cur'] = 0, NEW c \in Channels, chan[cur'] = c,
             NEW r \in Elements(queue'[c]), retries'[r] = 0
      PROVE  <<cur', r>> \in before'
  BY <1>1, <1>2, <1>3, <1>5
<1>6. QED
  BY <1>4, <1>5 DEF FirstAttemptsInOrder, Untried

(* Steps that only take from the queues.                                   *)
LEMMA ThinningKeepsOrder ==
    ASSUME IInv, IInv', FirstAttemptsInOrder, Observe,
           chan' = chan, retries' = retries, cur' \in {cur, NoRequest},
           \A c \in Channels : Thins(queue'[c], queue[c])
    PROVE  FirstAttemptsInOrder'
<1>1. ASSUME NEW c \in Channels, NEW k \in 1..Len(queue'[c]), NEW l \in 1..Len(queue'[c]),
             k < l, retries'[queue'[c][k]] = 0, retries'[queue'[c][l]] = 0
      PROVE  Follows(queue'[c][k], queue'[c][l])
  <2>1. \E m, n \in 1..Len(queue[c]) :
           m < n /\ queue'[c][k] = queue[c][m] /\ queue'[c][l] = queue[c][n]
    BY <1>1 DEF Thins
  <2>2. QED
    BY <1>1, <2>1 DEF FirstAttemptsInOrder, Untried, Follows
<1>2. ASSUME cur' # NoRequest, retries'[cur'] = 0,
             NEW r \in Elements(queue'[chan[cur']]), retries'[r] = 0
      PROVE  Follows(cur', r)
  <2>1. cur' = cur /\ chan[cur] \in Channels
    BY <1>2 DEF IInv, TypeOK
  <2>2. r \in Elements(queue[chan[cur]])
    BY <1>2, <2>1 DEF Thins
  <2>3. QED
    BY <1>2, <2>1, <2>2 DEF FirstAttemptsInOrder, Untried, Follows
<1>3. QED
  BY <1>1, <1>2, OrderFollows

(* A request that enters stands behind all others of its queue.            *)
LEMMA EnteringKeepsOrder ==
    ASSUME IInv, IInv', FirstAttemptsInOrder, Observe, NEW r \in Requests,
           EnqueueAdmitted(r) \/ EnqueueDropsOldest(r)
    PROVE  FirstAttemptsInOrder'
<1> DEFINE c == chan[r]
<1> DEFINE live == DiscardCompleted(queue[c], Done)
<1>0. c \in Channels /\ queue[c] \in Seq(Requests)
  BY DEF IInv, TypeOK
<1>1. live \in Seq(Requests) /\ Thins(live, queue[c])
  BY <1>0, PurgeThins
<1>2. /\ future[r] = "none" /\ future'[r] = "pending"
      /\ UNCHANGED <<retries, cur, chan>>
  BY DEF EnqueueAdmitted, EnqueueDropsOldest, Fresh, callerVars, IInv, TypeOK
<1>3. PICK p \in Seq(Requests) :
         /\ Thins(p, queue[c])
         /\ queue' = [queue EXCEPT ![c] = Append(p, r)]
  <2>1. CASE EnqueueAdmitted(r)
    BY <1>1, <2>1 DEF EnqueueAdmitted
  <2>2. CASE EnqueueDropsOldest(r)
    <3>1. Len(live) >= QueueSize /\ queue' = [queue EXCEPT ![c] = Append(Tail(live), r)]
      BY <2>2 DEF EnqueueDropsOldest
    <3> HIDE DEF live, c
    <3>2. live # <<>>
      BY <1>1, <3>1, ConstantsAssumption
    <3>3. Tail(live) \in Seq(Requests) /\ Thins(Tail(live), queue[c])
      BY <1>1, <3>2, TailThins, ThinsTwice
    <3>4. QED
      BY <3>1, <3>3
  <2>3. QED
    BY <2>1, <2>2
<1> HIDE DEF live, c
<1>4. r \in Entering
  BY <1>2 DEF Entering, Fresh
<1>5. /\ \A d \in Channels : \A x \in Elements(queue[d]) : x \in Requests \ Entering
      /\ cur # NoRequest => cur \in Requests \ Entering
  <2>1. \A d \in Channels : Elements(queue[d]) \subseteq Requests
    BY ElementsFacts DEF IInv, TypeOK
  <2>2. QED
    BY <2>1 DEF IInv, QueuedInv, HeldInv, TypeOK, Entering, Fresh, GivenUp
<1>6. /\ Len(Append(p, r)) = Len(p) + 1 /\ Len(p) \in Nat
      /\ \A k \in 1..Len(p) : Append(p, r)[k] = p[k] /\ p[k] \in Elements(p)
      /\ Append(p, r)[Len(p) + 1] = r
      /\ Elements(Append(p, r)) = Elements(p) \cup {r}
  BY AppendFacts DEF Elements
<1>7. /\ queue'[c] = Append(p, r)
      /\ \A d \in Channels \ {c} : queue'[d] = queue[d]
  BY <1>0, <1>3 DEF IInv, TypeOK
<1>8. ASSUME NEW d \in Channels, NEW k \in 1..Len(queue'[d]), NEW l \in 1..Len(queue'[d]),
             k < l, retries'[queue'[d][k]] = 0, retries'[queue'[d][l]] = 0
      PROVE  Follows(queue'[d][k], queue'[d][l])
  <2>1. CASE d # c
    BY <1>2, <1>7, <1>8, <2>1 DEF FirstAttemptsInOrder, Untried, Follows
  <2>2. CASE d = c /\ l # Len(p) + 1
    <3>1. k \in 1..Len(p) /\ l \in 1..Len(p)
      BY <1>6, <1>7, <1>8, <2>2
    <3>2. PICK m \in 1..Len(queue[c]), n \in 1..Len(queue[c]) :
             m < n /\ p[k] = queue[c][m] /\ p[l] = queue[c][n]
      BY <1>3, <1>8, <3>1 DEF Thins
    <3>3. queue'[d][k] = queue[c][m] /\ queue'[d][l] = queue[c][n]
      BY <1>6, <1>7, <2>2, <3>1, <3>2
    <3>4. retries[queue[c][m]] = 0 /\ retries[queue[c][n]] = 0
      BY <1>2, <1>8, <3>3
    <3>5. QED
      BY <1>0, <3>2, <3>3, <3>4 DEF FirstAttemptsInOrder, Untried, Follows
  <2>3. CASE d = c /\ l = Len(p) + 1
    <3>1. k \in 1..Len(p)
      BY <1>6, <1>7, <1>8, <2>3
    <3>2. p[k] \in Elements(queue[c])
      BY <1>3, <1>6, <3>1 DEF Thins
    <3>3. QED
      BY <1>0, <1>4, <1>5, <1>6, <1>7, <2>3, <3>1, <3>2 DEF Follows
  <2>4. QED
    BY <2>1, <2>2, <2>3
<1>9. ASSUME cur' # NoRequest, retries'[cur'] = 0,
             NEW x \in Elements(queue'[chan[cur']]), retries'[x] = 0
      PROVE  Follows(cur', x)
  <2>1. cur \in Requests \ Entering /\ chan[cur] \in Channels /\ cur' = cur
    BY <1>2, <1>5, <1>9 DEF IInv, TypeOK
  <2>2. x = r \/ x \in Elements(queue[chan[cur]])
    BY <1>3, <1>6, <1>7, <1>9, <2>1 DEF Thins
  <2>3. QED
    BY <1>2, <1>4, <1>9, <2>1, <2>2 DEF FirstAttemptsInOrder, Untried, Follows
<1>10. QED
  BY <1>2, <1>8, <1>9, OrderFollows

(* The worker takes the first in line.                                     *)
LEMMA TakingKeepsOrder ==
    ASSUME IInv, IInv', FirstAttemptsInOrder, Observe, TakeRequest
    PROVE  FirstAttemptsInOrder'
<1> DEFINE c == Visited
<1> DEFINE q == queue[c]
<1>1. /\ visited < NumChannels /\ q # <<>>
      /\ queue' = [queue EXCEPT ![c] = Tail(q)]
      /\ cur' = Head(q)
      /\ UNCHANGED <<retries, chan>>
  BY DEF TakeRequest, Visit, callerVars
<1>2. /\ c \in Channels /\ Head(q) \in Requests /\ chan[Head(q)] = c
  BY <1>1, HeadOfVisited
<1>3. q \in Seq(Requests)
  BY <1>2 DEF IInv, TypeOK
<1> HIDE DEF c
<1>4. /\ queue'[c] = Tail(q)
      /\ \A d \in Channels \ {c} : queue'[d] = queue[d]
  BY <1>1, <1>2 DEF IInv, TypeOK
<1>5. \A d \in Channels : Thins(queue'[d], queue[d])
  BY <1>1, <1>3, <1>4, TailThins, SameThins
<1>6. ASSUME NEW d \in Channels, NEW k \in 1..Len(queue'[d]), NEW l \in 1..Len(queue'[d]),
             k < l, retries'[queue'[d][k]] = 0, retries'[queue'[d][l]] = 0
      PROVE  Follows(queue'[d][k], queue'[d][l])
  <2>1. \E m, n \in 1..Len(queue[d]) :
           m < n /\ queue'[d][k] = queue[d][m] /\ queue'[d][l] = queue[d][n]
    BY <1>5, <1>6 DEF Thins
  <2>2. QED
    BY <1>1, <1>6, <2>1 DEF FirstAttemptsInOrder, Untried, Follows
<1>7. ASSUME retries'[cur'] = 0, NEW r \in Elements(queue'[c]), retries'[r] = 0
      PROVE  Follows(cur', r)
  <2>1. PICK k \in 1..Len(Tail(q)) : r = Tail(q)[k]
    BY <1>4 DEF Elements
  <2>2. /\ 1 \in 1..Len(q) /\ k + 1 \in 1..Len(q) /\ 1 < k + 1
        /\ Head(q) = q[1] /\ r = q[k+1]
    BY <1>1, <1>3, <2>1
  <2>3. QED
    BY <1>1, <1>2, <1>7, <2>2 DEF FirstAttemptsInOrder, Untried, Follows
<1>8. QED
  BY <1>1, <1>2, <1>6, <1>7, OrderFollows

(* A retried request stands last, and its first attempt is over.           *)
LEMMA RetryKeepsOrder ==
    ASSUME IInv, IInv', FirstAttemptsInOrder, Observe,
           NEW o \in Outcomes, SendRetried(o)
    PROVE  FirstAttemptsInOrder'
<1> DEFINE c == chan[cur]
<1> DEFINE p == queue[c]
<1>1. /\ pc = "air" /\ cur' = NoRequest /\ chan' = chan
      /\ retries' = [retries EXCEPT ![cur] = @ + 1]
      /\ queue' = [queue EXCEPT ![c] = Append(p, cur)]
  BY DEF SendRetried, SendDone, callerVars
<1>2. cur \in Requests /\ c \in Channels /\ p \in Seq(Requests)
  BY <1>1 DEF IInv, HeldInv, TypeOK
<1>3. retries'[cur] # 0 /\ \A r \in Requests \ {cur} : retries'[r] = retries[r]
  BY <1>1, <1>2, ConstantsAssumption DEF IInv, TypeOK
<1> HIDE DEF c
<1>4. /\ queue'[c] = Append(p, cur)
      /\ \A d \in Channels \ {c} : queue'[d] = queue[d]
      /\ Len(Append(p, cur)) = Len(p) + 1 /\ Len(p) \in Nat
      /\ \A k \in 1..Len(p) : Append(p, cur)[k] = p[k]
      /\ Append(p, cur)[Len(p) + 1] = cur
  BY <1>1, <1>2 DEF IInv, TypeOK
<1>5. ASSUME NEW d \in Channels, NEW k \in 1..Len(queue'[d]), NEW l \in 1..Len(queue'[d]),
             k < l, retries'[queue'[d][k]] = 0, retries'[queue'[d][l]] = 0
      PROVE  Follows(queue'[d][k], queue'[d][l])
  <2>1. /\ k \in 1..Len(queue[d]) /\ l \in 1..Len(queue[d])
        /\ queue'[d][k] = queue[d][k] /\ queue'[d][l] = queue[d][l]
    <3>1. CASE d # c
      BY <1>4, <3>1
    <3>2. CASE d = c
      <4>1. l # Len(p) + 1
        BY <1>3, <1>4, <1>5, <3>2
      <4>2. k \in 1..Len(p) /\ l \in 1..Len(p)
        BY <1>4, <1>5, <3>2, <4>1
      <4>3. QED
        BY <1>4, <3>2, <4>2
    <3>3. QED
      BY <3>1, <3>2
  <2>2. queue[d][k] \in Requests /\ queue[d][l] \in Requests
    <3>1. queue[d] \in Seq(Requests)
      BY DEF IInv, TypeOK
    <3>2. QED
      BY <2>1, <3>1
  <2>3. retries[queue[d][k]] = 0 /\ retries[queue[d][l]] = 0
    BY <1>3, <1>5, <2>1, <2>2
  <2>4. QED
    BY <1>5, <2>1, <2>3 DEF FirstAttemptsInOrder, Untried, Follows
<1>6. QED
  BY <1>1, <1>5, OrderFollows

LEMMA NextKeepsOrder ==
    ASSUME IInv, IInv', FirstAttemptsInOrder, OrderNext
    PROVE  FirstAttemptsInOrder'
<1> USE DEF OrderNext
<1>1. CASE \/ \E r \in Requests : Caller(r) /\ ~EnqueueAdmitted(r) /\ ~EnqueueDropsOldest(r)
           \/ Start \/ StopBegin \/ StopEnd \/ Tick \/ BudgetRaises
           \/ Worker /\ ~TakeRequest /\ ~(\E o \in Outcomes : SendRetried(o))
  <2>1. chan' = chan /\ retries' = retries /\ cur' \in {cur, NoRequest}
    BY <1>1 DEF Caller, EnqueueRefused, EnqueueDropsNewest, WaitTimesOut,
       CallerCancelled, EnqueueReturns, Start, StopBegin, StopEnd, Tick, BudgetRaises,
       Worker, SkipEmptyQueue, TakeExpired, EndRound, EndNap, MoveOn, DropExpired,
       SendConcluded, SendDone, CancelDelivered, callerVars
  <2>2. queue \in [Channels -> Seq(Requests)]
    BY DEF IInv, TypeOK
  <2>3. \A c \in Channels :
           \/ queue'[c] = queue[c]
           \/ queue'[c] = <<>>
           \/ queue'[c] = DiscardCompleted(queue[c], Done)
           \/ queue[c] # <<>> /\ queue'[c] = Tail(queue[c])
    <3>1. CASE \/ \E r \in Requests : Caller(r) /\ ~EnqueueAdmitted(r) /\ ~EnqueueDropsOldest(r)
               \/ Start \/ StopBegin \/ StopEnd \/ Tick \/ BudgetRaises
      BY <2>2, <3>1 DEF Caller, EnqueueRefused, EnqueueDropsNewest, WaitTimesOut,
         CallerCancelled, EnqueueReturns, Start, StopBegin, StopEnd, StopQueues, Tick,
         BudgetRaises
    <3>2. CASE Worker /\ ~TakeRequest /\ ~(\E o \in Outcomes : SendRetried(o))
      BY <2>2, <3>2 DEF Worker, SkipEmptyQueue, TakeExpired, EndRound, EndNap, MoveOn,
         DropExpired, SendConcluded, SendDone, CancelDelivered
    <3>3. QED
      BY <1>1, <3>1, <3>2
  <2>4. \A c \in Channels : Thins(queue'[c], queue[c])
    BY <2>2, <2>3, SameThins, EmptyThins, PurgeThins, TailThins
  <2>5. QED
    BY <2>1, <2>4, ThinningKeepsOrder
<1>2. QED
  BY <1>1, EnteringKeepsOrder, TakingKeepsOrder, RetryKeepsOrder DEF Next

(* The observers do not disturb the scheduler: its invariant holds.        *)
THEOREM OrderInvariance == OrderSpec => []IInv
<1>1. OrderInit => IInv
  BY InitIInv DEF OrderInit
<1>2. IInv /\ [OrderNext]_orderVars => IInv'
  BY NextKeepsIInv DEF OrderNext, orderVars
<1>3. QED
  BY <1>1, <1>2, PTL DEF OrderSpec, orderVars

(* Within a channel first attempts are made in the order of admission,     *)
(* whatever purges, overflows and retries happen to the queue meanwhile.   *)
THEOREM FirstComeFirstTried == OrderSpec => []FirstAttemptsInOrder
<1>1. OrderInit => FirstAttemptsInOrder
  <2> SUFFICES ASSUME OrderInit
               PROVE  FirstAttemptsInOrder
    OBVIOUS
  <2>1. cur = NoRequest /\ \A c \in Channels : queue[c] = <<>>
    BY DEF OrderInit, Init
  <2>2. Len(<<>>) = 0
    OBVIOUS
  <2>3. QED
    BY <2>1, <2>2 DEF FirstAttemptsInOrder
<1>2. IInv /\ IInv' /\ FirstAttemptsInOrder /\ [OrderNext]_orderVars
        => FirstAttemptsInOrder'
  <2>1. CASE UNCHANGED orderVars
    BY <2>1 DEF orderVars, vars, callerVars, FirstAttemptsInOrder, Untried
  <2>2. QED
    BY <2>1, NextKeepsOrder
<1>3. QED
  BY <1>1, <1>2, OrderInvariance, PTL DEF OrderSpec, orderVars

-----------------------------------------------------------------------------
InRound == pc \in {"visit", "nap", "air"} \cup Sleeps

(* The position was visited in the round under way.                        *)
VisitedBefore(p) == \E i \in 0..(visited - 1) : ((turn + i) % NumChannels) + 1 = p

(* Since its last visit a queue was passed by what was left of its last    *)
(* round and, unless it had its turn already, by what this round visited.  *)
ShareInv ==
    /\ overtaken \in [Channels -> Nat]
    /\ pc = "nap" => visited = 0
    /\ \A p \in 1..NumChannels :
          LET share == overtaken[ChannelOrder[p]]
          IN  IF ~InRound THEN share <= 2 * (NumChannels - 1)
              ELSE IF VisitedBefore(p) THEN share <= visited - 1
              ELSE share <= NumChannels - 1 + visited

LEMMA Remainders ==
    ASSUME NEW n \in Nat \ {0}, NEW x \in Nat
    PROVE  /\ x < n => x % n = x
           /\ n <= x /\ x < 2 * n => x % n = x - n
<1>1. x % n \in 0..(n-1) /\ x = n * (x \div n) + (x % n) /\ x \div n \in Int
  OBVIOUS
<1>2. QED
  BY <1>1

(* A full round visits every position.                                     *)
LEMMA RoundVisitsAll ==
    ASSUME TypeOK, visited = NumChannels, NEW p \in 1..NumChannels
    PROVE  VisitedBefore(p)
<1>1. NumChannels \in Nat \ {0} /\ turn \in 0..(NumChannels - 1)
  BY ConstantsAssumption DEF TypeOK, NumChannels
<1>2. CASE p - 1 >= turn
  <2>1. p - 1 - turn \in 0..(NumChannels - 1) /\ turn + (p - 1 - turn) = p - 1
    BY <1>1, <1>2
  <2>2. (p - 1) % NumChannels = p - 1
    <3>1. p - 1 \in Nat /\ p - 1 < NumChannels
      BY <1>1
    <3>2. QED
      BY <1>1, <3>1, Remainders
  <2>3. QED
    BY <2>1, <2>2 DEF VisitedBefore
<1>3. CASE p - 1 < turn
  <2>1. /\ p - 1 - turn + NumChannels \in 0..(NumChannels - 1)
        /\ turn + (p - 1 - turn + NumChannels) = p - 1 + NumChannels
    BY <1>1, <1>3
  <2>2. (p - 1 + NumChannels) % NumChannels = p - 1
    <3> DEFINE x == p - 1 + NumChannels
    <3>1. /\ x \in Nat /\ NumChannels <= x /\ x < 2 * NumChannels
          /\ x - NumChannels = p - 1
      BY <1>1
    <3> HIDE DEF x
    <3>2. x % NumChannels = x - NumChannels
      BY <1>1, <3>1, Remainders
    <3>3. QED
      BY <3>1, <3>2 DEF x
  <2>3. QED
    BY <2>1, <2>2 DEF VisitedBefore
<1>4. QED
  BY <1>1, <1>2, <1>3

LEMMA ShareIsFair ==
    ASSUME TypeOK, ShareInv, NEW p \in 1..NumChannels
    PROVE  /\ overtaken[ChannelOrder[p]] \in Nat
           /\ overtaken[ChannelOrder[p]] <= 2 * (NumChannels - 1)
           /\ InRound /\ visited \in {0, NumChannels}
                => overtaken[ChannelOrder[p]] <= NumChannels - 1
<1>1. NumChannels \in Nat \ {0} /\ visited \in 0..NumChannels
  BY ConstantsAssumption DEF TypeOK, NumChannels
<1>2. overtaken[ChannelOrder[p]] \in Nat
  BY DEF ShareInv, Channels, NumChannels
<1>3. visited = NumChannels => VisitedBefore(p)
  BY RoundVisitsAll
<1>4. QED
  BY <1>1, <1>2, <1>3 DEF ShareInv

(* The visit of a queue passes every other one by at most one request.     *)
LEMMA VisitKeepsShare ==
    ASSUME TypeOK, ShareInv, Observe, Visit, turn' = turn, ~Starts,
           pc' \in {"visit", "air"} \cup Sleeps
    PROVE  ShareInv'
<1>1. /\ NumChannels \in Nat \ {0} /\ visited \in 0..NumChannels
      /\ pc = "visit" /\ visited < NumChannels /\ visited' = visited + 1
      /\ turn \in 0..(NumChannels - 1)
  BY ConstantsAssumption DEF TypeOK, NumChannels, Visit
<1>2. \A c \in Channels :
         /\ overtaken'[c] = IF VisitEnds(c) THEN 0
                            ELSE IF Taken THEN overtaken[c] + 1 ELSE overtaken[c]
         /\ overtaken[c] \in Nat
  BY DEF Observe, ShareInv
<1>3. overtaken' \in [Channels -> Nat]
  BY <1>2 DEF Observe, ShareInv
<1>4. ASSUME NEW p \in 1..NumChannels
      PROVE  IF VisitedBefore(p)' THEN overtaken'[ChannelOrder[p]] <= visited' - 1
             ELSE overtaken'[ChannelOrder[p]] <= NumChannels - 1 + visited'
  <2>1. ChannelOrder[p] \in Channels
    BY DEF Channels, NumChannels
  <2>2. VisitedBefore(p)' => VisitedBefore(p) \/ VisitEnds(ChannelOrder[p])
    <3> SUFFICES ASSUME NEW i \in 0..(visited' - 1), ((turn + i) % NumChannels) + 1 = p
                 PROVE  VisitedBefore(p) \/ VisitEnds(ChannelOrder[p])
      BY DEF VisitedBefore
    <3>1. i \in 0..(visited - 1) \/ i = visited
      BY <1>1
    <3>2. QED
      BY <1>1, <3>1 DEF VisitedBefore, VisitEnds, Visited
  <2>3. VisitedBefore(p) => VisitedBefore(p)'
    BY <1>1 DEF VisitedBefore
  <2>4. IF VisitedBefore(p) THEN overtaken[ChannelOrder[p]] <= visited - 1
        ELSE overtaken[ChannelOrder[p]] <= NumChannels - 1 + visited
    BY <1>1 DEF ShareInv, InRound
  <2> HIDE DEF VisitedBefore
  <2>5. QED
    BY <1>1, <1>2, <2>1, <2>2, <2>3, <2>4
<1>5. InRound'
  BY DEF InRound
<1>6. QED
  BY <1>3, <1>4, <1>5 DEF ShareInv, NumChannels, Sleeps

(* Every other step takes nothing from a queue.                            *)
LEMMA RestKeepsShare ==
    ASSUME TypeOK, TypeOK', ShareInv, Observe, ~Taken,
           pc' = "nap" => visited' = 0,
           \/ UNCHANGED <<turn, visited>> /\ (InRound' => InRound \/ Starts)
           \/ Starts
           \/ ~InRound'
           \/ InRound /\ visited \in {0, NumChannels} /\ visited' = 0
    PROVE  ShareInv'
<1>1. /\ NumChannels \in Nat \ {0}
      /\ visited \in 0..NumChannels /\ visited' \in 0..NumChannels
  BY ConstantsAssumption DEF TypeOK, NumChannels
<1>2. \A c \in Channels : overtaken[c] \in Nat
  BY DEF ShareInv
<1>3. overtaken' \in [Channels -> Nat]
  BY <1>2 DEF Observe
<1>4. \A c \in Channels : overtaken'[c] \in {0, overtaken[c]}
  BY DEF Observe
<1>5. Starts => \A c \in Channels : overtaken'[c] = 0
  BY DEF Observe
<1>6. ASSUME NEW p \in 1..NumChannels
      PROVE  LET share == overtaken'[ChannelOrder[p]]
             IN  IF ~InRound' THEN share <= 2 * (NumChannels - 1)
                 ELSE IF VisitedBefore(p)' THEN share <= visited' - 1
                 ELSE share <= NumChannels - 1 + visited'
  <2> DEFINE old == overtaken[ChannelOrder[p]]
  <2> DEFINE share == overtaken'[ChannelOrder[p]]
  <2>1. ChannelOrder[p] \in Channels
    BY DEF Channels, NumChannels
  <2>2. /\ old \in Nat /\ share \in {0, old} /\ old <= 2 * (NumChannels - 1)
        /\ InRound /\ visited \in {0, NumChannels} => old <= NumChannels - 1
    BY <1>2, <1>4, <2>1, ShareIsFair
  <2>3. Starts => share = 0
    BY <1>5, <2>1
  <2>4. VisitedBefore(p)' => visited' - 1 >= 0
    <3>1. visited' \in Nat
      BY <1>1
    <3>2. \A n \in Nat : 0..(n - 1) # {} => n - 1 >= 0
      OBVIOUS
    <3>3. VisitedBefore(p)' => 0..(visited' - 1) # {}
      BY Zenon DEF VisitedBefore
    <3>4. QED
      BY <3>1, <3>2, <3>3
  <2>5. UNCHANGED <<turn, visited>> => (VisitedBefore(p)' <=> VisitedBefore(p))
    BY DEF VisitedBefore
  <2>6. IF ~InRound THEN TRUE
        ELSE IF VisitedBefore(p) THEN old <= visited - 1
        ELSE old <= NumChannels - 1 + visited
    BY DEF ShareInv
  <2> HIDE DEF old, share, VisitedBefore
  <2>7. /\ ~InRound' => share <= 2 * (NumChannels - 1)
        /\ InRound' /\ VisitedBefore(p)' => share <= visited' - 1
        /\ InRound' /\ ~VisitedBefore(p)' => share <= NumChannels - 1 + visited'
    <3>0. PICK v \in 0..NumChannels : visited' = v
      BY <1>1
    <3>1. CASE Starts
      BY <1>1, <2>2, <2>3, <2>4, <3>0, <3>1
    <3>2. CASE ~InRound'
      <4>1. share <= 2 * (NumChannels - 1)
        BY <1>1, <2>2
      <4>2. QED
        BY Zenon, <3>2, <4>1
    <3>3. CASE InRound' /\ ~Starts /\ UNCHANGED <<turn, visited>>
      <4>1. InRound /\ visited' = visited /\ (VisitedBefore(p)' <=> VisitedBefore(p))
        BY <2>5, <3>3
      <4>2. share <= old
        BY <2>2
      <4>3. CASE VisitedBefore(p)
        BY <1>1, <2>2, <2>6, <4>1, <4>2, <4>3
      <4>4. CASE ~VisitedBefore(p)
        BY <1>1, <2>2, <2>6, <4>1, <4>2, <4>4
      <4>5. QED
        BY <4>3, <4>4
    <3>4. CASE InRound /\ visited \in {0, NumChannels} /\ visited' = 0
      BY <1>1, <2>2, <2>4, <3>0, <3>4
    <3>5. QED
      BY <3>1, <3>2, <3>3, <3>4
  <2>8. QED
    BY <2>7 DEF share
<1>7. QED
  BY <1>3, <1>6 DEF ShareInv, NumChannels

LEMMA NextKeepsShare ==
    ASSUME IInv, IInv', ShareInv, OrderNext
    PROVE  ShareInv'
<1> USE DEF OrderNext, IInv
<1>1. CASE SkipEmptyQueue \/ TakeExpired \/ TakeRequest
  <2>1. /\ Visit /\ turn' = turn /\ ~Starts
        /\ pc' \in {"visit", "air"} \cup Sleeps
    BY <1>1 DEF SkipEmptyQueue, TakeExpired, TakeRequest, Visit, After, Sleeps, Starts,
       stopVars
  <2>2. QED
    BY <2>1, VisitKeepsShare
<1>2. CASE EndRound \/ EndNap
  <2>1. /\ ~Taken /\ pc \in {"visit", "nap"} /\ visited' = 0
        /\ pc = "visit" => visited = NumChannels
    BY <1>2 DEF EndRound, EndNap, TopOfLoop, Taken
  <2>2. CASE pc = "nap"
    <3>1. visited = 0
      BY <2>2 DEF ShareInv
    <3>2. QED
      BY <2>1, <2>2, <3>1, RestKeepsShare DEF InRound
  <2>3. CASE pc = "visit"
    BY <2>1, <2>3, RestKeepsShare DEF InRound
  <2>4. QED
    BY <2>1, <2>2, <2>3
<1>3. CASE CancelDelivered \/ BudgetRaises
  <2>1. ~Taken /\ ~InRound' /\ pc' # "nap"
    BY <1>3 DEF CancelDelivered, BudgetRaises, Taken, InRound, Sleeps, HeldInv
  <2>2. QED
    BY <2>1, RestKeepsShare
<1>4. CASE Start
  <2>1. ~Taken /\ Starts /\ visited' = 0
    BY <1>4 DEF Start, Taken, Starts
  <2>2. QED
    BY <2>1, RestKeepsShare
<1>5. CASE \/ StopBegin \/ StopEnd \/ Tick \/ MoveOn \/ DropExpired
           \/ \E r \in Requests : Caller(r)
           \/ \E o \in Outcomes : SendRetried(o) \/ SendConcluded(o)
  <2>1. /\ ~Taken /\ UNCHANGED <<turn, visited>> /\ (InRound' => InRound)
        /\ pc' = "nap" => visited' = 0
    <3>1. CASE \E r \in Requests : Caller(r)
      BY <3>1 DEF Caller, EnqueueRefused, EnqueueAdmitted, EnqueueDropsNewest,
         EnqueueDropsOldest, WaitTimesOut, CallerCancelled, EnqueueReturns, roundVars,
         Taken, InRound, ShareInv
    <3>2. CASE StopBegin \/ StopEnd \/ Tick
      BY <3>2 DEF StopBegin, StopEnd, Tick, roundVars, Taken, InRound, Sleeps, ShareInv
    <3>3. CASE \/ MoveOn \/ DropExpired
               \/ \E o \in Outcomes : SendRetried(o) \/ SendConcluded(o)
      BY <3>3 DEF MoveOn, DropExpired, After, SendRetried, SendConcluded, SendDone,
         roundVars, Taken, InRound, Sleeps, HeldInv
    <3>4. QED
      BY <1>5, <3>1, <3>2, <3>3
  <2>2. QED
    BY <2>1, RestKeepsShare
<1>6. QED
  BY <1>1, <1>2, <1>3, <1>4, <1>5 DEF Next, Worker

(* Between two visits to a queue the worker takes at most two requests of  *)
(* each other queue, for any number of queues, whatever ends its rounds.   *)
THEOREM NoQueueStarves == OrderSpec => []RoundRobinFair
<1>1. OrderInit => ShareInv
  <2> SUFFICES ASSUME OrderInit
               PROVE  ShareInv
    OBVIOUS
  <2>1. NumChannels \in Nat \ {0} /\ ~InRound
    BY ConstantsAssumption DEF NumChannels, OrderInit, Init, InRound, Sleeps
  <2>2. \A p \in 1..NumChannels : ChannelOrder[p] \in Channels
    BY DEF Channels, NumChannels
  <2>3. QED
    BY <2>1, <2>2 DEF OrderInit, Init, ShareInv
<1>2. IInv /\ IInv' /\ ShareInv /\ [OrderNext]_orderVars => ShareInv'
  <2>1. CASE UNCHANGED orderVars
    BY <2>1 DEF orderVars, vars, roundVars, ShareInv, InRound, VisitedBefore
  <2>2. QED
    BY <2>1, NextKeepsShare
<1>3. IInv /\ ShareInv => RoundRobinFair
  <2> SUFFICES ASSUME IInv, ShareInv, NEW c \in Channels
               PROVE  overtaken[c] <= 2 * (NumChannels - 1)
    BY DEF RoundRobinFair
  <2>1. PICK p \in 1..NumChannels : c = ChannelOrder[p]
    BY DEF Channels, NumChannels
  <2>2. QED
    BY <2>1, ShareIsFair DEF IInv
<1>4. QED
  BY <1>1, <1>2, <1>3, OrderInvariance, PTL DEF OrderSpec, orderVars

=============================================================================
