----------------------------- MODULE RxPathProofs -----------------------------
(***************************************************************************)
(* Proofs about RxPath: nothing a radio was given is lost, doubled or      *)
(* passed by another on its way through the reader's lock, the loop's      *)
(* callbacks and the receive loop; the repeater's handler, which injects   *)
(* into the bridge that awaits it, does so one level deep only; and a      *)
(* packet of another node goes out at most once on each antenna, by rule   *)
(* lists that know one way to it.                                          *)
(***************************************************************************)
EXTENDS RxPath, FiniteSetTheorems, SequenceTheorems,
        WellFoundedInduction, TLAPS

-----------------------------------------------------------------------------
(* Counting callbacks.                                                     *)

(* The callbacks for r behind the first n of s.                            *)
CountOf(s, r, n) == Cardinality({i \in (n + 1)..Len(s) : s[i][1] = r})

Entries == Radios \X Contents

LEMMA CountIsNat ==
    ASSUME NEW s \in Seq(Entries), NEW r, NEW n \in Nat
    PROVE  /\ IsFiniteSet({i \in (n + 1)..Len(s) : s[i][1] = r})
           /\ CountOf(s, r, n) \in Nat
<1>1. IsFiniteSet((n + 1)..Len(s))
  BY FS_Interval
<1>2. IsFiniteSet({i \in (n + 1)..Len(s) : s[i][1] = r})
  BY <1>1, FS_Subset
<1>3. QED
  BY <1>2, FS_CardinalityType DEF CountOf

(* A callback at the end counts for all before it.                         *)
LEMMA CountAppend ==
    ASSUME NEW s \in Seq(Entries), NEW e \in Entries, NEW r, NEW n \in 0..Len(s)
    PROVE  /\ CountOf(Append(s, e), r, n) =
                IF e[1] = r THEN CountOf(s, r, n) + 1 ELSE CountOf(s, r, n)
           /\ CountOf(Append(s, e), r, Len(s) + 1) = 0
<1> DEFINE t == Append(s, e)
<1> DEFINE old == {i \in (n + 1)..Len(s) : s[i][1] = r}
<1> DEFINE new == {i \in (n + 1)..Len(t) : t[i][1] = r}
<1>1. /\ Len(s) \in Nat /\ Len(t) = Len(s) + 1 /\ t[Len(s) + 1] = e
      /\ \A i \in 1..Len(s) : t[i] = s[i]
  OBVIOUS
<1>2. IsFiniteSet(old) /\ Cardinality(old) \in Nat
  <2>1. n \in Nat
    BY <1>1
  <2>2. QED
    BY <2>1, CountIsNat DEF CountOf
<1> HIDE DEF t
<1>3. ASSUME e[1] = r
      PROVE  CountOf(t, r, n) = CountOf(s, r, n) + 1
  <2>1. new = old \cup {Len(s) + 1} /\ Len(s) + 1 \notin old
    BY <1>1, <1>3
  <2> HIDE DEF old, new
  <2>2. Cardinality(new) = Cardinality(old) + 1
    BY <1>2, <2>1, FS_AddElement
  <2>3. QED
    BY <2>2 DEF CountOf, old, new
<1>4. ASSUME e[1] # r
      PROVE  CountOf(t, r, n) = CountOf(s, r, n)
  <2>1. new = old
    BY <1>1, <1>4
  <2>2. QED
    BY <2>1, Zenon DEF CountOf
<1>5. CountOf(t, r, Len(s) + 1) = 0
  <2>1. {i \in ((Len(s) + 1) + 1)..Len(t) : t[i][1] = r} = {}
    BY <1>1
  <2>2. QED
    BY <2>1, FS_EmptySet DEF CountOf
<1>6. QED
  BY <1>3, <1>4, <1>5 DEF t

(* When the first callback has run, the others move up.                    *)
LEMMA CountTail ==
    ASSUME NEW s \in Seq(Entries), s # <<>>, NEW r, NEW n \in Nat
    PROVE  /\ CountOf(Tail(s), r, n) = CountOf(s, r, n + 1)
           /\ CountOf(s, r, 0) = IF s[1][1] = r THEN CountOf(s, r, 1) + 1
                                 ELSE CountOf(s, r, 1)
<1>1. CountOf(Tail(s), r, n) = CountOf(s, r, n + 1)
  <2> DEFINE t == Tail(s)
  <2> DEFINE A == {i \in (n + 1)..Len(t) : t[i][1] = r}
  <2> DEFINE C == {i \in ((n + 1) + 1)..Len(s) : s[i][1] = r}
  <2> DEFINE f == [i \in A |-> i + 1]
  <2>1. Len(t) = Len(s) - 1 /\ Len(s) \in Nat \ {0} /\ \A i \in 1..Len(t) : t[i] = s[i + 1]
    OBVIOUS
  <2> HIDE DEF t
  <2>2. \A i \in A : i \in Int /\ i + 1 \in C
    BY <2>1
  <2>3. \A j \in C : j - 1 \in A /\ (j - 1) + 1 = j
    BY <2>1
  <2>4. IsFiniteSet(A)
    <3>1. IsFiniteSet((n + 1)..Len(t))
      BY <2>1, FS_Interval
    <3>2. QED
      BY <3>1, FS_Subset
  <2> HIDE DEF A, C
  <2>5. f \in Bijection(A, C)
    <3>1. f \in Injection(A, C)
      BY <2>2 DEF Injection, IsInjective
    <3>2. f \in Surjection(A, C)
      BY <2>2, <2>3 DEF Surjection
    <3>3. QED
      BY <3>1, <3>2 DEF Bijection
  <2> HIDE DEF f
  <2>6. Cardinality(A) = Cardinality(C)
    BY <2>4, <2>5, FS_Bijection DEF ExistsBijection
  <2>7. QED
    BY <2>6 DEF CountOf, A, C, t
<1>2. CountOf(s, r, 0) = IF s[1][1] = r THEN CountOf(s, r, 1) + 1 ELSE CountOf(s, r, 1)
  <2> DEFINE all == {i \in (0 + 1)..Len(s) : s[i][1] = r}
  <2> DEFINE rest == {i \in (1 + 1)..Len(s) : s[i][1] = r}
  <2>1. Len(s) \in Nat \ {0}
    OBVIOUS
  <2>2. IsFiniteSet(rest) /\ Cardinality(rest) \in Nat
    BY CountIsNat DEF CountOf
  <2>3. CASE s[1][1] = r
    <3>1. all = rest \cup {1} /\ 1 \notin rest
      BY <2>1, <2>3
    <3> HIDE DEF all, rest
    <3>2. Cardinality(all) = Cardinality(rest) + 1
      BY <2>2, <3>1, FS_AddElement
    <3>3. QED
      BY <2>3, <3>2 DEF CountOf, all, rest
  <2>4. CASE s[1][1] # r
    <3>1. all = rest
      BY <2>1, <2>4
    <3>2. QED
      BY <2>4, <3>1 DEF CountOf
  <2>5. QED
    BY <2>3, <2>4
<1>3. QED
  BY <1>1, <1>2

(* Behind the callbacks of s comes a row of others.                        *)
LEMMA Joined ==
    ASSUME NEW s \in Seq(Entries), NEW row \in Seq(Entries)
    PROVE  /\ s \o row \in Seq(Entries)
           /\ Len(s) \in Nat /\ Len(row) \in Nat
           /\ Len(s \o row) = Len(s) + Len(row)
           /\ \A i \in 1..Len(s) : (s \o row)[i] = s[i]
           /\ \A i \in 1..Len(row) : (s \o row)[Len(s) + i] = row[i]
           /\ \A i \in 1..Len(s \o row) :
                 i \in 1..Len(s) \/ \E k \in 1..Len(row) : i = Len(s) + k
<1>1. /\ s \o row \in Seq(Entries)
      /\ Len(s) \in Nat /\ Len(row) \in Nat
      /\ Len(s \o row) = Len(s) + Len(row)
      /\ \A i \in 1..Len(s) : (s \o row)[i] = s[i]
  OBVIOUS
<1>2. ASSUME NEW i \in 1..Len(row)
      PROVE  (s \o row)[Len(s) + i] = row[i]
  <2>1. Len(s) + i \in 1..(Len(s) + Len(row)) /\ Len(s) + i > Len(s)
    BY <1>1
  <2>2. (s \o row)[Len(s) + i] = row[(Len(s) + i) - Len(s)]
    BY <2>1
  <2>3. (Len(s) + i) - Len(s) = i
    BY <1>1
  <2>4. QED
    BY <2>2, <2>3
<1>3. ASSUME NEW i \in 1..Len(s \o row)
      PROVE  i \in 1..Len(s) \/ \E k \in 1..Len(row) : i = Len(s) + k
  <2>1. i \in 1..Len(s) \/ (i - Len(s) \in 1..Len(row) /\ i = Len(s) + (i - Len(s)))
    BY <1>1
  <2>2. QED
    BY <2>1
<1>4. QED
  BY <1>1, <1>2, <1>3

RowFor(row, r) == \A i \in 1..Len(row) : row[i][1] = r

(* A row of callbacks for one radio counts for all before it.              *)
LEMMA CountRow ==
    ASSUME NEW s \in Seq(Entries), NEW row \in Seq(Entries), NEW r,
           RowFor(row, r)
    PROVE  /\ \A n \in 0..Len(s) : CountOf(s \o row, r, n) = CountOf(s, r, n) + Len(row)
           /\ \A n \in 0..Len(row) : CountOf(s \o row, r, Len(s) + n) = Len(row) - n
<1> DEFINE t == s \o row
<1>1. Len(s) \in Nat /\ Len(row) \in Nat
  OBVIOUS
<1>2. /\ Len(t) = Len(s) + Len(row)
      /\ \A i \in 1..Len(s) : t[i] = s[i]
      /\ \A i \in (Len(s) + 1)..Len(t) : t[i][1] = r
  <2>1. /\ Len(t) = Len(s) + Len(row)
        /\ \A i \in 1..Len(s) : t[i] = s[i]
        /\ \A i \in (Len(s) + 1)..Len(t) :
              t[i] = row[i - Len(s)] /\ i - Len(s) \in 1..Len(row)
    BY <1>1
  <2>2. QED
    BY <1>1, <2>1 DEF RowFor
<1> HIDE DEF t
<1>3. ASSUME NEW n \in 0..Len(row)
      PROVE  CountOf(t, r, Len(s) + n) = Len(row) - n
  <2>1. {i \in ((Len(s) + n) + 1)..Len(t) : t[i][1] = r} = (Len(s) + n + 1)..Len(t)
    BY <1>1, <1>2
  <2>2. PICK a \in Int, b \in Int : a = Len(s) + n + 1 /\ b = Len(t) /\ a <= b + 1
    BY <1>1, <1>2
  <2>3. Cardinality(a..b) = IF a > b THEN 0 ELSE b - a + 1
    BY FS_Interval, Zenon
  <2>4. Cardinality(a..b) = Len(row) - n
    BY <1>1, <1>2, <2>2, <2>3
  <2>5. QED
    BY <2>1, <2>2, <2>4, Zenon DEF CountOf
<1>4. ASSUME NEW n \in 0..Len(s)
      PROVE  CountOf(t, r, n) = CountOf(s, r, n) + Len(row)
  <2> DEFINE old == {i \in (n + 1)..Len(s) : s[i][1] = r}
  <2> DEFINE new == {i \in (n + 1)..Len(t) : t[i][1] = r}
  <2> DEFINE tail == (Len(s) + 1)..Len(t)
  <2>1. new = old \cup tail /\ old \cap tail = {}
    BY <1>1, <1>2
  <2>2. IsFiniteSet(old) /\ Cardinality(old) \in Nat
    <3>1. n \in Nat
      BY <1>1
    <3>2. QED
      BY <3>1, CountIsNat DEF CountOf
  <2>3. IsFiniteSet(tail) /\ Cardinality(tail) = Len(row)
    <3>1. PICK a \in Int, b \in Int : a = Len(s) + 1 /\ b = Len(t) /\ a <= b + 1
      BY <1>1, <1>2
    <3>2. IsFiniteSet(a..b) /\ Cardinality(a..b) = IF a > b THEN 0 ELSE b - a + 1
      BY FS_Interval, Zenon
    <3>3. Cardinality(a..b) = Len(row)
      BY <1>1, <1>2, <3>1, <3>2
    <3>4. QED
      BY <3>1, <3>2, <3>3, Zenon
  <2> HIDE DEF old, new, tail
  <2>4. Cardinality(new) = Cardinality(old) + Cardinality(tail) - Cardinality(old \cap tail)
    BY <2>1, <2>2, <2>3, FS_Union
  <2>5. Cardinality(old \cap tail) = 0
    BY <2>1, FS_EmptySet
  <2>6. Cardinality(new) = Cardinality(old) + Len(row)
    BY <1>1, <2>2, <2>3, <2>4, <2>5
  <2>7. QED
    BY <2>6 DEF CountOf, old, new
<1>5. QED
  BY <1>3, <1>4 DEF t

(* It does not count for the others.                                       *)
LEMMA CountOtherRow ==
    ASSUME NEW s \in Seq(Entries), NEW row \in Seq(Entries), NEW r,
           RowFor(row, r), NEW x, x # r, NEW n \in 0..Len(s)
    PROVE  CountOf(s \o row, x, n) = CountOf(s, x, n)
<1> DEFINE t == s \o row
<1>1. /\ Len(s) \in Nat /\ Len(row) \in Nat
      /\ Len(t) = Len(s) + Len(row)
      /\ \A i \in 1..Len(s) : t[i] = s[i]
      /\ \A i \in (Len(s) + 1)..Len(t) :
            t[i] = row[i - Len(s)] /\ i - Len(s) \in 1..Len(row)
  OBVIOUS
<1>2. \A i \in (Len(s) + 1)..Len(t) : t[i][1] = r
  BY <1>1 DEF RowFor
<1> HIDE DEF t
<1>3. {i \in (n + 1)..Len(t) : t[i][1] = x} = {i \in (n + 1)..Len(s) : s[i][1] = x}
  BY <1>1, <1>2
<1>4. QED
  BY <1>3, Zenon DEF CountOf, t

(* A callback for r that is not past the first n counts for more than those*)
(* behind it.                                                              *)
LEMMA CountLess ==
    ASSUME NEW s \in Seq(Entries), NEW r, NEW i \in 1..Len(s), s[i][1] = r
    PROVE  CountOf(s, r, i) + 1 <= CountOf(s, r, 0)
<1> DEFINE behind == {j \in (i + 1)..Len(s) : s[j][1] = r}
<1> DEFINE all == {j \in (0 + 1)..Len(s) : s[j][1] = r}
<1>1. Len(s) \in Nat /\ i \in Nat
  OBVIOUS
<1>2. behind \cup {i} \subseteq all /\ i \notin behind
  BY <1>1
<1>3. IsFiniteSet(behind) /\ CountOf(s, r, i) \in Nat
  BY <1>1, CountIsNat
<1>4. IsFiniteSet(all) /\ CountOf(s, r, 0) \in Nat
  BY CountIsNat
<1>5. CountOf(s, r, i) = Cardinality(behind) /\ CountOf(s, r, 0) = Cardinality(all)
  BY DEF CountOf
<1> HIDE DEF behind, all
<1>6. Cardinality(behind \cup {i}) = Cardinality(behind) + 1
  BY <1>2, <1>3, FS_AddElement
<1>7. Cardinality(behind \cup {i}) <= Cardinality(all)
  BY <1>2, <1>4, FS_Subset
<1>8. QED
  BY <1>5, <1>6, <1>7

-----------------------------------------------------------------------------
(* The order of one radio's packets, through every step there is.          *)

(* HandoverInOrder of a radio r that was given h, keeps p for a loop and   *)
(* has q in its queue, while the loop has the callbacks s.                 *)
InOrder(r, h, p, q, s) ==
    LET given == Len(h) - Len(p)
        taken == given - CountOf(s, r, 0) - Len(q)
    IN /\ taken >= 0
       /\ \A i \in DOMAIN q : q[i] = h[taken + i]
       /\ \A i \in DOMAIN s : s[i][1] = r => s[i][2] = h[given - CountOf(s, r, i)]
       /\ \A i \in DOMAIN p : p[i] = h[given + i]

(* The positions of h that it names.                                       *)
InPlaces(r, h, p, q, s, taken, given) ==
    /\ taken \in Nat /\ given \in Nat
    /\ Len(h) = given + Len(p)
    /\ given = taken + Len(q) + CountOf(s, r, 0)
    /\ \A i \in 1..Len(q) : q[i] = h[taken + i]
    /\ \A i \in 1..Len(s) : s[i][1] = r => s[i][2] = h[given - CountOf(s, r, i)]
    /\ \A i \in 1..Len(p) : p[i] = h[given + i]

LEMMA Places ==
    ASSUME NEW r, NEW h \in Seq(Contents), NEW p \in Seq(Contents),
           NEW q \in Seq(Contents), NEW s \in Seq(Entries)
    PROVE  /\ InOrder(r, h, p, q, s) =>
                 \E taken, given \in Nat : InPlaces(r, h, p, q, s, taken, given)
           /\ \A taken, given \in Nat :
                 InPlaces(r, h, p, q, s, taken, given) => InOrder(r, h, p, q, s)
<1>1. /\ Len(h) \in Nat /\ Len(p) \in Nat /\ Len(q) \in Nat /\ Len(s) \in Nat
      /\ DOMAIN p = 1..Len(p) /\ DOMAIN q = 1..Len(q) /\ DOMAIN s = 1..Len(s)
      /\ CountOf(s, r, 0) \in Nat
  <2>1. CountOf(s, r, 0) \in Nat
    BY CountIsNat
  <2>2. QED
    BY <2>1
<1>2. ASSUME InOrder(r, h, p, q, s)
      PROVE  \E taken, given \in Nat : InPlaces(r, h, p, q, s, taken, given)
  <2> DEFINE given == Len(h) - Len(p)
  <2> DEFINE taken == given - CountOf(s, r, 0) - Len(q)
  <2>1. /\ taken >= 0
        /\ \A i \in DOMAIN q : q[i] = h[taken + i]
        /\ \A i \in DOMAIN s : s[i][1] = r => s[i][2] = h[given - CountOf(s, r, i)]
        /\ \A i \in DOMAIN p : p[i] = h[given + i]
    BY <1>2 DEF InOrder
  <2>2. /\ taken \in Nat /\ given \in Nat
        /\ Len(h) = given + Len(p)
        /\ given = taken + Len(q) + CountOf(s, r, 0)
    BY <1>1, <2>1
  <2> HIDE DEF taken, given
  <2>3. InPlaces(r, h, p, q, s, taken, given)
    BY <1>1, <2>1, <2>2 DEF InPlaces
  <2>4. QED
    BY <2>2, <2>3
<1>3. ASSUME NEW taken \in Nat, NEW given \in Nat,
             InPlaces(r, h, p, q, s, taken, given)
      PROVE  InOrder(r, h, p, q, s)
  <2> DEFINE count == CountOf(s, r, 0)
  <2>0. /\ Len(h) = given + Len(p) /\ given = taken + Len(q) + count
        /\ count \in Nat
    BY <1>1, <1>3 DEF InPlaces
  <2> HIDE DEF count
  <2>1. given = Len(h) - Len(p) /\ taken = given - count - Len(q)
    BY <1>1, <2>0
  <2>2. taken >= 0
    OBVIOUS
  <2>3. /\ \A i \in DOMAIN q : q[i] = h[taken + i]
        /\ \A i \in DOMAIN s : s[i][1] = r => s[i][2] = h[given - CountOf(s, r, i)]
        /\ \A i \in DOMAIN p : p[i] = h[given + i]
    BY <1>1, <1>3 DEF InPlaces
  <2>4. QED
    BY <2>1, <2>2, <2>3, Zenon DEF InOrder, count
<1>4. QED
  BY <1>2, <1>3

(* The places of the callbacks are places of h.                            *)
LEMMA CallbackPlace ==
    ASSUME NEW r, NEW h \in Seq(Contents), NEW p \in Seq(Contents),
           NEW q \in Seq(Contents), NEW s \in Seq(Entries),
           NEW taken \in Nat, NEW given \in Nat,
           InPlaces(r, h, p, q, s, taken, given)
    PROVE  /\ \A i \in 1..Len(q) : taken + i \in 1..Len(h)
           /\ \A i \in 1..Len(s) : s[i][1] = r =>
                 /\ CountOf(s, r, i) \in Nat
                 /\ given - CountOf(s, r, i) \in 1..Len(h)
           /\ \A i \in 1..Len(p) : given + i \in 1..Len(h)
<1>1. /\ Len(h) \in Nat /\ Len(p) \in Nat /\ Len(q) \in Nat /\ Len(s) \in Nat
      /\ CountOf(s, r, 0) \in Nat
  <2>1. CountOf(s, r, 0) \in Nat
    BY CountIsNat
  <2>2. QED
    BY <2>1
<1>2. PICK a \in Nat, b \in Nat, all \in Nat :
         a = Len(p) /\ b = Len(q) /\ all = CountOf(s, r, 0)
  BY <1>1
<1>3. Len(h) = given + a /\ given = taken + b + all
  BY <1>2 DEF InPlaces
<1>4. ASSUME NEW i \in 1..Len(s), s[i][1] = r
      PROVE  CountOf(s, r, i) \in Nat /\ given - CountOf(s, r, i) \in 1..Len(h)
  <2>1. i \in Nat
    BY <1>1
  <2>2. PICK behind \in Nat : behind = CountOf(s, r, i)
    BY <2>1, CountIsNat
  <2>3. behind + 1 <= all
    BY <1>2, <1>4, <2>2, CountLess
  <2>4. given - behind \in 1..(given + a)
    BY <1>3, <2>3
  <2>5. QED
    BY <1>3, <2>2, <2>4
<1>5. ASSUME NEW i \in 1..b
      PROVE  taken + i \in 1..(given + a)
  BY <1>3
<1>6. ASSUME NEW i \in 1..a
      PROVE  given + i \in 1..(given + a)
  OBVIOUS
<1>7. QED
  BY <1>2, <1>3, <1>4, <1>5, <1>6

(* A packet is kept for a loop that is not there yet.                      *)
LEMMA OrderKept ==
    ASSUME NEW r, NEW h \in Seq(Contents), NEW p \in Seq(Contents),
           NEW q \in Seq(Contents), NEW s \in Seq(Entries), NEW c \in Contents,
           InOrder(r, h, p, q, s)
    PROVE  InOrder(r, Append(h, c), Append(p, c), q, s)
<1> DEFINE g == Append(h, c)
<1> DEFINE o == Append(p, c)
<1>1. /\ g \in Seq(Contents) /\ o \in Seq(Contents)
      /\ Len(g) = Len(h) + 1 /\ Len(o) = Len(p) + 1
      /\ Len(h) \in Nat /\ Len(p) \in Nat
      /\ \A i \in 1..Len(h) : g[i] = h[i]
      /\ g[Len(h) + 1] = c
      /\ \A i \in 1..Len(p) : o[i] = p[i]
      /\ o[Len(p) + 1] = c
  OBVIOUS
<1>2. PICK taken \in Nat, given \in Nat : InPlaces(r, h, p, q, s, taken, given)
  BY Places
<1> HIDE DEF g, o
<1>3. /\ \A i \in 1..Len(q) : taken + i \in 1..Len(h)
      /\ \A i \in 1..Len(s) : s[i][1] = r => given - CountOf(s, r, i) \in 1..Len(h)
      /\ \A i \in 1..Len(p) : given + i \in 1..Len(h)
  BY <1>2, CallbackPlace
<1>4. /\ Len(g) = given + Len(o)
      /\ given = taken + Len(q) + CountOf(s, r, 0)
      /\ given + Len(o) = Len(h) + 1
  BY <1>1, <1>2 DEF InPlaces
<1>5. /\ \A i \in 1..Len(q) : q[i] = g[taken + i]
      /\ \A i \in 1..Len(s) : s[i][1] = r => s[i][2] = g[given - CountOf(s, r, i)]
      /\ \A i \in 1..Len(p) : p[i] = g[given + i]
  BY <1>1, <1>2, <1>3 DEF InPlaces
<1>6. ASSUME NEW i \in 1..Len(o)
      PROVE  o[i] = g[given + i]
  <2>1. i \in 1..Len(p) \/ i = Len(o)
    BY <1>1
  <2>2. CASE i \in 1..Len(p)
    BY <1>1, <1>5, <2>2
  <2>3. CASE i = Len(o)
    BY <1>1, <1>4, <2>3
  <2>4. QED
    BY <2>1, <2>2, <2>3
<1>7. InPlaces(r, g, o, q, s, taken, given)
  BY <1>4, <1>5, <1>6 DEF InPlaces
<1>8. QED
  BY <1>1, <1>7, Places DEF g, o

(* A packet is given to the loop, as one more callback.                    *)
LEMMA OrderScheduled ==
    ASSUME NEW r \in Radios, NEW h \in Seq(Contents), NEW q \in Seq(Contents),
           NEW s \in Seq(Entries), NEW c \in Contents,
           InOrder(r, h, <<>>, q, s)
    PROVE  InOrder(r, Append(h, c), <<>>, q, Append(s, <<r, c>>))
<1> DEFINE g == Append(h, c)
<1> DEFINE e == <<r, c>>
<1> DEFINE t == Append(s, e)
<1>1. /\ e \in Entries /\ e[1] = r /\ e[2] = c
      /\ <<>> \in Seq(Contents) /\ Len(<<>>) = 0
  BY DEF Entries
<1> HIDE DEF e
<1>2. /\ g \in Seq(Contents) /\ t \in Seq(Entries)
      /\ Len(g) = Len(h) + 1 /\ Len(t) = Len(s) + 1
      /\ Len(h) \in Nat /\ Len(s) \in Nat /\ Len(q) \in Nat
      /\ \A i \in 1..Len(h) : g[i] = h[i]
      /\ g[Len(h) + 1] = c
      /\ \A i \in 1..Len(s) : t[i] = s[i]
      /\ t[Len(s) + 1] = e
  BY <1>1
<1>3. /\ \A n \in 0..Len(s) : CountOf(t, r, n) = CountOf(s, r, n) + 1
      /\ CountOf(t, r, Len(s) + 1) = 0
      /\ CountOf(s, r, 0) \in Nat
  <2>1. \A n \in 0..Len(s) : CountOf(t, r, n) = CountOf(s, r, n) + 1
    BY <1>1, CountAppend
  <2>2. CountOf(t, r, Len(s) + 1) = 0
    <3>1. 0 \in 0..Len(s)
      BY <1>2
    <3>2. QED
      BY <1>1, <3>1, CountAppend
  <2>3. CountOf(s, r, 0) \in Nat
    BY CountIsNat
  <2> HIDE DEF t
  <2>4. QED
    BY <2>1, <2>2, <2>3
<1> HIDE DEF g, t
<1>4. PICK taken \in Nat, given \in Nat : InPlaces(r, h, <<>>, q, s, taken, given)
  BY <1>1, Places
<1>5. /\ \A i \in 1..Len(q) : taken + i \in 1..Len(h)
      /\ \A i \in 1..Len(s) : s[i][1] = r =>
            CountOf(s, r, i) \in Nat /\ given - CountOf(s, r, i) \in 1..Len(h)
  BY <1>1, <1>4, CallbackPlace
<1>6. /\ Len(g) = (given + 1) + Len(<<>>)
      /\ given + 1 = taken + Len(q) + CountOf(t, r, 0)
      /\ given = Len(h)
  BY <1>1, <1>2, <1>3, <1>4 DEF InPlaces
<1>7. /\ \A i \in 1..Len(q) : q[i] = g[taken + i]
      /\ \A i \in 1..Len(s) : s[i][1] = r => s[i][2] = g[given - CountOf(s, r, i)]
  BY <1>2, <1>4, <1>5 DEF InPlaces
<1>8. ASSUME NEW i \in 1..Len(t), t[i][1] = r
      PROVE  t[i][2] = g[(given + 1) - CountOf(t, r, i)]
  <2>1. i \in 1..Len(s) \/ i = Len(s) + 1
    BY <1>2
  <2>2. CASE i \in 1..Len(s)
    <3>1. t[i] = s[i] /\ CountOf(t, r, i) = CountOf(s, r, i) + 1 /\ CountOf(s, r, i) \in Nat
      BY <1>2, <1>3, <1>5, <1>8, <2>2
    <3>2. (given + 1) - CountOf(t, r, i) = given - CountOf(s, r, i)
      BY <3>1
    <3>3. QED
      BY <1>7, <1>8, <2>2, <3>1, <3>2
  <2>3. CASE i = Len(s) + 1
    BY <1>1, <1>2, <1>3, <1>6, <2>3
  <2>4. QED
    BY <2>1, <2>2, <2>3
<1>9. InPlaces(r, g, <<>>, q, t, taken, given + 1)
  BY <1>1, <1>6, <1>7, <1>8 DEF InPlaces
<1>10. InOrder(r, g, <<>>, q, t)
  <2>1. given + 1 \in Nat
    OBVIOUS
  <2>2. QED
    BY <1>1, <1>2, <1>9, <2>1, Places
<1>11. QED
  BY <1>10 DEF g, t, e

(* A callback for another radio changes nothing for this one.              *)
LEMMA OrderOther ==
    ASSUME NEW r, NEW h \in Seq(Contents), NEW p \in Seq(Contents),
           NEW q \in Seq(Contents), NEW s \in Seq(Entries), NEW e \in Entries,
           e[1] # r, InOrder(r, h, p, q, s)
    PROVE  InOrder(r, h, p, q, Append(s, e))
<1> DEFINE t == Append(s, e)
<1>1. /\ Len(s) \in Nat /\ DOMAIN s = 1..Len(s) /\ DOMAIN t = 1..(Len(s) + 1)
      /\ \A i \in 1..Len(s) : t[i] = s[i]
      /\ t[Len(s) + 1] = e
  OBVIOUS
<1>2. \A n \in 0..Len(s) : CountOf(t, r, n) = CountOf(s, r, n)
  BY CountAppend
<1> HIDE DEF t
<1>3. CountOf(t, r, 0) = CountOf(s, r, 0)
  BY <1>1, <1>2
<1>4. \A i \in DOMAIN t : t[i][1] = r =>
         i \in DOMAIN s /\ t[i] = s[i] /\ CountOf(t, r, i) = CountOf(s, r, i)
  BY <1>1, <1>2
<1>5. QED
  BY <1>3, <1>4 DEF InOrder, t

(* The callbacks of what was kept for a loop.                              *)
LEMMA RowOf ==
    ASSUME NEW r \in Radios, NEW p \in Seq(Contents)
    PROVE  LET row == [i \in 1..Len(p) |-> <<r, p[i]>>]
           IN  /\ row \in Seq(Entries) /\ Len(row) = Len(p)
               /\ \A i \in 1..Len(row) : row[i][1] = r /\ row[i][2] = p[i]
BY DEF Entries

(* The loop is there: what was kept is scheduled in its order.             *)
LEMMA OrderAttached ==
    ASSUME NEW r \in Radios, NEW h \in Seq(Contents), NEW p \in Seq(Contents),
           NEW q \in Seq(Contents), NEW s \in Seq(Entries),
           NEW row \in Seq(Entries), Len(row) = Len(p),
           \A i \in 1..Len(row) : row[i][1] = r /\ row[i][2] = p[i],
           InOrder(r, h, p, q, s)
    PROVE  InOrder(r, h, <<>>, q, s \o row)
<1> DEFINE t == s \o row
<1>1. /\ Len(p) \in Nat /\ Len(s) \in Nat /\ Len(q) \in Nat /\ Len(h) \in Nat
      /\ \A i \in 1..Len(p) : row[i][1] = r /\ row[i][2] = p[i]
      /\ <<>> \in Seq(Contents) /\ Len(<<>>) = 0
  OBVIOUS
<1>2. /\ \A n \in 0..Len(s) : CountOf(t, r, n) = CountOf(s, r, n) + Len(p)
      /\ \A n \in 0..Len(p) : CountOf(t, r, Len(s) + n) = Len(p) - n
  <2>1. RowFor(row, r)
    BY DEF RowFor
  <2>2. ASSUME NEW n \in 0..Len(s)
        PROVE  CountOf(t, r, n) = CountOf(s, r, n) + Len(row)
    BY <2>1, CountRow, Zenon
  <2>3. ASSUME NEW n \in 0..Len(row)
        PROVE  CountOf(t, r, Len(s) + n) = Len(row) - n
    BY <2>1, CountRow, Zenon
  <2>4. QED
    BY <2>2, <2>3, Zenon
<1>3. /\ t \in Seq(Entries)
      /\ Len(t) = Len(s) + Len(p)
      /\ \A i \in 1..Len(s) : t[i] = s[i]
      /\ \A i \in 1..Len(p) : t[Len(s) + i] = row[i]
      /\ \A i \in 1..Len(t) : i \in 1..Len(s) \/ \E k \in 1..Len(p) : i = Len(s) + k
  <2>1. /\ t \in Seq(Entries)
        /\ Len(t) = Len(s) + Len(row)
        /\ \A i \in 1..Len(s) : t[i] = s[i]
        /\ \A i \in 1..Len(row) : t[Len(s) + i] = row[i]
        /\ \A i \in 1..Len(t) : i \in 1..Len(s) \/ \E k \in 1..Len(row) : i = Len(s) + k
    BY Joined, Zenon
  <2>2. QED
    BY <2>1, Zenon
<1> HIDE DEF t
<1>4. PICK taken \in Nat, given \in Nat : InPlaces(r, h, p, q, s, taken, given)
  BY Places
<1>5. PICK all \in Nat : all = CountOf(s, r, 0)
  BY CountIsNat
<1>6. /\ Len(h) = given + Len(p) /\ given = taken + Len(q) + all
      /\ \A i \in 1..Len(q) : q[i] = h[taken + i]
      /\ \A i \in 1..Len(s) : s[i][1] = r => s[i][2] = h[given - CountOf(s, r, i)]
      /\ \A i \in 1..Len(p) : p[i] = h[given + i]
  BY <1>4, <1>5 DEF InPlaces
<1>7. PICK a \in Nat, full \in Nat : a = Len(p) /\ full = given + a
  BY <1>1
<1>8. /\ Len(h) = full + Len(<<>>)
      /\ full = taken + Len(q) + CountOf(t, r, 0)
  <2>1. CountOf(t, r, 0) = all + a
    BY <1>1, <1>2, <1>5, <1>7
  <2>2. QED
    BY <1>1, <1>6, <1>7, <2>1
<1>9. ASSUME NEW i \in 1..Len(t), t[i][1] = r
      PROVE  t[i][2] = h[full - CountOf(t, r, i)]
  <2>1. i \in 1..Len(s) \/ \E k \in 1..a : i = Len(s) + k
    BY <1>3, <1>7
  <2>2. CASE i \in 1..Len(s)
    <3>1. i \in Nat /\ i \in 0..Len(s)
      BY <1>1, <2>2
    <3>2. PICK b \in Nat : b = CountOf(s, r, i)
      BY <3>1, CountIsNat
    <3>3. t[i] = s[i] /\ CountOf(t, r, i) = b + a /\ s[i][2] = h[given - b]
      BY <1>2, <1>3, <1>6, <1>7, <1>9, <2>2, <3>1, <3>2
    <3>4. full - (b + a) = given - b
      BY <1>7
    <3>5. QED
      BY <3>3, <3>4
  <2>3. ASSUME NEW k \in 1..a, i = Len(s) + k
        PROVE  t[i][2] = h[full - CountOf(t, r, i)]
    <3>1. k \in 1..Len(p) /\ k \in 0..Len(p)
      BY <1>7
    <3>2. t[i] = row[k] /\ row[k][2] = h[given + k]
      BY <1>1, <1>3, <1>6, <2>3, <3>1
    <3>3. CountOf(t, r, i) = a - k
      BY <1>2, <1>7, <2>3, <3>1
    <3>4. full - (a - k) = given + k
      BY <1>7
    <3>5. QED
      BY <3>2, <3>3, <3>4
  <2>4. QED
    BY <2>1, <2>2, <2>3
<1>10. \A i \in 1..Len(<<>>) : <<>>[i] = h[full + i]
  OBVIOUS
<1>11. InPlaces(r, h, <<>>, q, t, taken, full)
  BY <1>6, <1>8, <1>9, <1>10 DEF InPlaces
<1>12. InOrder(r, h, <<>>, q, t)
  BY <1>1, <1>3, <1>11, Places
<1>13. QED
  BY <1>12 DEF t

LEMMA OrderAttachedOther ==
    ASSUME NEW x, NEW h \in Seq(Contents), NEW p \in Seq(Contents),
           NEW q \in Seq(Contents), NEW s \in Seq(Entries),
           NEW r \in Radios, NEW row \in Seq(Entries), x # r,
           RowFor(row, r),
           InOrder(x, h, p, q, s)
    PROVE  InOrder(x, h, p, q, s \o row)
<1> DEFINE t == s \o row
<1>1. ASSUME NEW n \in 0..Len(s)
      PROVE  CountOf(t, x, n) = CountOf(s, x, n)
  BY CountOtherRow
<1>2. /\ Len(s) \in Nat /\ DOMAIN s = 1..Len(s) /\ DOMAIN t = 1..Len(t)
      /\ \A i \in 1..Len(s) : t[i] = s[i]
      /\ \A i \in 1..Len(row) : t[Len(s) + i] = row[i]
      /\ \A i \in 1..Len(t) : i \in 1..Len(s) \/ \E k \in 1..Len(row) : i = Len(s) + k
  <2>1. /\ Len(s) \in Nat /\ t \in Seq(Entries)
        /\ \A i \in 1..Len(s) : t[i] = s[i]
        /\ \A i \in 1..Len(row) : t[Len(s) + i] = row[i]
        /\ \A i \in 1..Len(t) : i \in 1..Len(s) \/ \E k \in 1..Len(row) : i = Len(s) + k
    BY Joined, Zenon
  <2>2. DOMAIN s = 1..Len(s) /\ DOMAIN t = 1..Len(t)
    OBVIOUS
  <2>3. QED
    BY <2>1, <2>2
<1> HIDE DEF t
<1>3. CountOf(t, x, 0) = CountOf(s, x, 0)
  BY <1>1, <1>2
<1>4. ASSUME NEW i \in DOMAIN t, t[i][1] = x
      PROVE  i \in DOMAIN s /\ t[i] = s[i] /\ CountOf(t, x, i) = CountOf(s, x, i)
  <2>1. i \in 1..Len(s)
    <3>1. i \in 1..Len(s) \/ \E k \in 1..Len(row) : i = Len(s) + k
      BY <1>2, Zenon
    <3>2. ASSUME NEW k \in 1..Len(row), i = Len(s) + k
          PROVE  t[i][1] = r
      BY <1>2, <3>2, Zenon DEF RowFor
    <3>3. QED
      BY <1>4, <3>1, <3>2, Zenon
  <2>2. i \in 0..Len(s)
    BY <1>2, <2>1
  <2>3. QED
    BY <1>1, <1>2, <2>1, <2>2
<1>5. QED
  BY <1>3, <1>4 DEF InOrder, t

(* The first callback runs.                                                *)
LEMMA OrderDelivered ==
    ASSUME NEW r, NEW h \in Seq(Contents), NEW p \in Seq(Contents),
           NEW q \in Seq(Contents), NEW s \in Seq(Entries), s # <<>>,
           InOrder(r, h, p, q, s)
    PROVE  InOrder(r, h, p, IF s[1][1] = r THEN Append(q, s[1][2]) ELSE q, Tail(s))
<1> DEFINE t == Tail(s)
<1>1. /\ t \in Seq(Entries) /\ Len(s) \in Nat /\ Len(s) >= 1 /\ Len(t) = Len(s) - 1
      /\ \A i \in 1..Len(t) : t[i] = s[i + 1] /\ i + 1 \in 1..Len(s)
      /\ s[1] \in Entries /\ 1 \in 1..Len(s)
      /\ Len(q) \in Nat /\ Len(t) \in Nat
  OBVIOUS
<1>2. /\ \A n \in Nat : CountOf(t, r, n) = CountOf(s, r, n + 1)
      /\ CountOf(s, r, 0) = IF s[1][1] = r THEN CountOf(s, r, 1) + 1
                            ELSE CountOf(s, r, 1)
  BY CountTail
<1> HIDE DEF t
<1>3. PICK taken \in Nat, given \in Nat : InPlaces(r, h, p, q, s, taken, given)
  BY Places
<1>4. PICK rest \in Nat : rest = CountOf(s, r, 1)
  BY CountIsNat
<1>5. CountOf(t, r, 0) = rest
  BY <1>2, <1>4
<1>6. /\ Len(h) = given + Len(p)
      /\ given = taken + Len(q) + CountOf(s, r, 0)
      /\ \A i \in 1..Len(q) : q[i] = h[taken + i]
      /\ \A i \in 1..Len(s) : s[i][1] = r => s[i][2] = h[given - CountOf(s, r, i)]
      /\ \A i \in 1..Len(p) : p[i] = h[given + i]
  BY <1>3 DEF InPlaces
<1>7. ASSUME NEW i \in 1..Len(t), t[i][1] = r
      PROVE  t[i][2] = h[given - CountOf(t, r, i)]
  <2>1. i \in Nat
    BY <1>1
  <2>2. CountOf(t, r, i) = CountOf(s, r, i + 1)
    BY <1>2, <2>1
  <2>3. t[i] = s[i + 1] /\ i + 1 \in 1..Len(s)
    BY <1>1
  <2>4. QED
    BY <1>6, <1>7, <2>2, <2>3
<1>8. ASSUME s[1][1] = r
      PROVE  InOrder(r, h, p, Append(q, s[1][2]), t)
  <2> DEFINE c == s[1][2]
  <2> DEFINE o == Append(q, c)
  <2>1. c \in Contents
    BY <1>1 DEF Entries
  <2> HIDE DEF c
  <2>2. /\ o \in Seq(Contents) /\ Len(o) = Len(q) + 1
        /\ \A i \in 1..Len(q) : o[i] = q[i]
        /\ o[Len(q) + 1] = c
    BY <2>1
  <2> HIDE DEF o
  <2>3. given = taken + Len(q) + (rest + 1)
    BY <1>2, <1>4, <1>6, <1>8
  <2>4. given = taken + Len(o) + CountOf(t, r, 0)
    BY <1>1, <1>5, <2>2, <2>3
  <2>5. ASSUME NEW i \in 1..Len(o)
        PROVE  o[i] = h[taken + i]
    <3>1. i \in 1..Len(q) \/ i = Len(q) + 1
      BY <1>1, <2>2
    <3>2. CASE i \in 1..Len(q)
      BY <1>6, <2>2, <3>2
    <3>3. CASE i = Len(q) + 1
      <4>1. o[i] = c /\ c = h[given - rest]
        BY <1>1, <1>4, <1>6, <1>8, <2>2, <3>3 DEF c
      <4>2. given - rest = taken + i
        BY <1>1, <2>3, <3>3
      <4>3. QED
        BY <4>1, <4>2
    <3>4. QED
      BY <3>1, <3>2, <3>3
  <2>6. InPlaces(r, h, p, o, t, taken, given)
    BY <1>6, <1>7, <2>4, <2>5 DEF InPlaces
  <2>7. InOrder(r, h, p, o, t)
    BY <1>1, <2>2, <2>6, Places
  <2>8. QED
    BY <2>7 DEF o, c
<1>9. ASSUME s[1][1] # r
      PROVE  InOrder(r, h, p, q, t)
  <2>1. given = taken + Len(q) + CountOf(t, r, 0)
    BY <1>2, <1>4, <1>5, <1>6, <1>9
  <2>2. InPlaces(r, h, p, q, t, taken, given)
    BY <1>6, <1>7, <2>1 DEF InPlaces
  <2>3. QED
    BY <1>1, <2>2, Places
<1>10. QED
  BY <1>8, <1>9 DEF t

(* The receive loop takes the first packet of its queue.                   *)
LEMMA OrderTaken ==
    ASSUME NEW r, NEW h \in Seq(Contents), NEW p \in Seq(Contents),
           NEW q \in Seq(Contents), NEW s \in Seq(Entries), q # <<>>,
           InOrder(r, h, p, q, s)
    PROVE  InOrder(r, h, p, Tail(q), s)
<1> DEFINE o == Tail(q)
<1>1. /\ o \in Seq(Contents) /\ Len(q) \in Nat /\ Len(o) \in Nat /\ Len(q) = Len(o) + 1
      /\ \A i \in 1..Len(o) : o[i] = q[i + 1] /\ i + 1 \in 1..Len(q)
  OBVIOUS
<1> HIDE DEF o
<1>2. PICK taken \in Nat, given \in Nat : InPlaces(r, h, p, q, s, taken, given)
  BY Places
<1>3. PICK all \in Nat : all = CountOf(s, r, 0)
  BY CountIsNat
<1>4. given = (taken + 1) + Len(o) + all
  BY <1>1, <1>2, <1>3 DEF InPlaces
<1>5. ASSUME NEW i \in 1..Len(o)
      PROVE  o[i] = h[(taken + 1) + i]
  <2>1. o[i] = h[taken + (i + 1)]
    BY <1>1, <1>2 DEF InPlaces
  <2>2. taken + (i + 1) = (taken + 1) + i
    BY <1>1
  <2>3. QED
    BY <2>1, <2>2
<1>6. InPlaces(r, h, p, o, s, taken + 1, given)
  BY <1>2, <1>3, <1>4, <1>5 DEF InPlaces
<1>7. taken + 1 \in Nat
  OBVIOUS
<1>8. InOrder(r, h, p, o, s)
  BY <1>1, <1>6, <1>7, Places
<1>9. QED
  BY <1>8 DEF o

-----------------------------------------------------------------------------
(* The queues between the antenna and the receive loops.                   *)

PathTypes ==
    /\ rxq \in [Radios -> Seq(Contents)]
    /\ attached \in [Radios -> BOOLEAN]
    /\ pending \in [Radios -> Seq(Contents)]
    /\ scheduled \in Seq(Entries)
    /\ handed \in [Radios -> Seq(Contents)]
    /\ \A r \in Radios : attached[r] => pending[r] = <<>>
    /\ stage # "idle" => reading \in Rx!Datagrams

queues == <<attached, pending, scheduled, handed>>

(* What a step does to these queues; everything else leaves them alone.    *)
LEMMA PathStep ==
    ASSUME PathTypes, Next
    PROVE  /\ \/ UNCHANGED <<queues, rxq>>
              \/ Rx!ToRadio
              \/ \E r \in Radios : Rx!SetEventLoop(r)
              \/ Rx!DeliverRx
              \/ \E r \in Radios : B!RxLoop(r) /\ UNCHANGED queues
           /\ stage' # "idle" => reading' \in Rx!Datagrams
<1> DEFINE reads == stage' # "idle" => reading' \in Rx!Datagrams
<1>1. ASSUME UNCHANGED <<stage, reading>>
      PROVE  reads
  BY <1>1 DEF PathTypes
<1>2. CASE Hears
  BY <1>2 DEF Hears, Rx!Hear, Rx!Finish, Rx!radioVars, queues
<1>3. CASE Reads
  <2>1. CASE Rx!LookUp
    BY <2>1 DEF Rx!LookUp, Rx!radioVars, queues, PathTypes
  <2>2. CASE Rx!ReadAge
    BY <2>2 DEF Rx!ReadAge, Rx!Finish, Rx!radioVars, queues, PathTypes
  <2>3. CASE Rx!Forget
    BY <2>3 DEF Rx!Forget, Rx!Finish, Rx!radioVars, queues, PathTypes
  <2>4. CASE Rx!Duplicate
    BY <2>4 DEF Rx!Duplicate, Rx!Finish, Rx!radioVars, queues
  <2>5. CASE Rx!ToRadio
    BY <2>5 DEF Rx!ToRadio, Rx!Finish
  <2>6. CASE Rx!ToOthers
    BY <2>6 DEF Rx!ToOthers, Rx!Finish, Rx!radioVars, queues
  <2>7. QED
    BY <1>3, <2>1, <2>2, <2>3, <2>4, <2>5, <2>6 DEF Reads, Rx!Read
<1>4. CASE HandsOver
  BY <1>1, <1>4 DEF HandsOver, Rx!SetEventLoop, Rx!DeliverRx
<1>5. CASE Receives
  BY <1>1, <1>5 DEF Receives, rxVars, queues
<1>6. CASE Injects
  <2>1. UNCHANGED rxq
    BY <1>6 DEF Injects, B!InjectOwn, B!InjectReceived
  <2>2. QED
    BY <1>1, <1>6, <2>1 DEF Injects, rxVars, queues
<1>7. CASE Forwards
  <2>1. UNCHANGED rxq
    BY <1>7 DEF Forwards, B!Forward, B!NotRepeated, B!Repeat, B!Reinject, B!Publish,
                B!SendNext, B!Emit, B!SendReturns, B!Sent
  <2>2. QED
    BY <1>1, <1>7, <2>1 DEF Forwards, rxVars, queues
<1>8. CASE Confirms
  BY <1>1, <1>8 DEF Confirms, Rx!Confirm, Rx!radioVars, queues
<1>9. CASE Starts \/ Stops
  BY <1>1, <1>9 DEF Starts, Stops, B!Run, B!Stop, rxVars, queues
<1>10. CASE Updates
  BY <1>1, <1>10 DEF Updates, B!UpdateRules, B!SetMode, rxVars, queues
<1>11. CASE Ticks
  BY <1>1, <1>11 DEF Ticks, Rx!Tick, Rx!radioVars, queues
<1>12. QED
  BY <1>2, <1>3, <1>4, <1>5, <1>6, <1>7, <1>8, <1>9, <1>10, <1>11 DEF Next

(* HandoverInOrder in the terms of the lemmas.                             *)
LEMMA HandoverMeans ==
    /\ HandoverInOrder =
          \A r \in Radios : InOrder(r, handed[r], pending[r], rxq[r], scheduled)
    /\ HandoverInOrder' =
          \A r \in Radios : InOrder(r, handed[r], pending[r], rxq[r], scheduled)'
BY DEF HandoverInOrder, InOrder, Callbacks, CountOf

HandoverInv == PathTypes /\ HandoverInOrder

LEMMA HandoverInit ==
    ASSUME Init
    PROVE  HandoverInv
<1>1. /\ rxq = [r \in Radios |-> <<>>] /\ pending = [r \in Radios |-> <<>>]
      /\ handed = [r \in Radios |-> <<>>] /\ scheduled = <<>>
      /\ attached = [r \in Radios |-> FALSE] /\ stage = "idle"
  BY DEF Init, Rx!Init
<1>2. PathTypes
  BY <1>1 DEF PathTypes
<1>3. ASSUME NEW r \in Radios
      PROVE  InOrder(r, handed[r], pending[r], rxq[r], scheduled)
  <2>1. {i \in (0 + 1)..Len(scheduled) : scheduled[i][1] = r} = {}
    BY <1>1
  <2>2. CountOf(scheduled, r, 0) = 0
    BY <2>1, FS_EmptySet DEF CountOf
  <2>3. handed[r] = <<>> /\ pending[r] = <<>> /\ rxq[r] = <<>>
    BY <1>1
  <2>4. QED
    BY <1>1, <2>2, <2>3 DEF InOrder
<1>4. QED
  BY <1>2, <1>3, HandoverMeans DEF HandoverInv

(* A packet comes to a radio, with a loop or before there is one.          *)
LEMMA HandoverToRadio ==
    ASSUME HandoverInv, Rx!ToRadio
    PROVE  HandoverInv'
<1> DEFINE c == reading.content
<1> DEFINE r == reading.place
<1>1. /\ c \in Contents /\ r \in Radios
      /\ handed' = [handed EXCEPT ![r] = Append(@, c)]
      /\ UNCHANGED <<attached, rxq>>
      /\ stage' = "idle"
      /\ IF attached[r]
         THEN scheduled' = Append(scheduled, <<r, c>>) /\ UNCHANGED pending
         ELSE pending' = [pending EXCEPT ![r] = Append(@, c)] /\ UNCHANGED scheduled
  BY DEF HandoverInv, PathTypes, Rx!ToRadio, Rx!EnqueueRx, Rx!Finish, Rx!Datagrams
<1> HIDE DEF c, r
<1>2. /\ rxq \in [Radios -> Seq(Contents)] /\ attached \in [Radios -> BOOLEAN]
      /\ pending \in [Radios -> Seq(Contents)] /\ handed \in [Radios -> Seq(Contents)]
      /\ scheduled \in Seq(Entries)
      /\ \A x \in Radios : attached[x] => pending[x] = <<>>
      /\ <<r, c>> \in Entries /\ <<r, c>>[1] = r
  BY <1>1 DEF HandoverInv, PathTypes, Entries
<1>3. \A x \in Radios : InOrder(x, handed[x], pending[x], rxq[x], scheduled)
  BY HandoverMeans DEF HandoverInv
<1>4. /\ handed'[r] = Append(handed[r], c)
      /\ \A x \in Radios : x # r => handed'[x] = handed[x]
      /\ handed' \in [Radios -> Seq(Contents)]
  <2>1. Append(handed[r], c) \in Seq(Contents)
    BY <1>1, <1>2
  <2>2. QED
    BY <1>1, <1>2, <2>1
<1>5. CASE attached[r]
  <2>1. scheduled' = Append(scheduled, <<r, c>>) /\ pending' = pending
    BY <1>1, <1>5
  <2>2. PathTypes'
    BY <1>1, <1>2, <1>4, <2>1 DEF PathTypes
  <2>3. ASSUME NEW x \in Radios
        PROVE  InOrder(x, handed[x], pending[x], rxq[x], scheduled)'
    <3>1. CASE x = r
      <4>1. pending[r] = <<>>
        BY <1>1, <1>2, <1>5
      <4>2. InOrder(r, handed[r], <<>>, rxq[r], scheduled)
        BY <1>1, <1>3, <4>1
      <4>3. InOrder(r, Append(handed[r], c), <<>>, rxq[r], Append(scheduled, <<r, c>>))
        BY <1>1, <1>2, <4>2, OrderScheduled
      <4>4. QED
        BY <1>1, <1>4, <2>1, <3>1, <4>1, <4>3
    <3>2. CASE x # r
      <4>1. InOrder(x, handed[x], pending[x], rxq[x], Append(scheduled, <<r, c>>))
        BY <1>1, <1>2, <1>3, <3>2, OrderOther
      <4>2. QED
        BY <1>1, <1>4, <2>1, <3>2, <4>1
    <3>3. QED
      BY <3>1, <3>2
  <2>4. QED
    BY <2>2, <2>3, HandoverMeans DEF HandoverInv
<1>6. CASE ~attached[r]
  <2>1. scheduled' = scheduled /\ pending' = [pending EXCEPT ![r] = Append(@, c)]
    BY <1>1, <1>6
  <2>2. /\ pending'[r] = Append(pending[r], c)
        /\ \A x \in Radios : x # r => pending'[x] = pending[x]
        /\ pending' \in [Radios -> Seq(Contents)]
    <3>1. Append(pending[r], c) \in Seq(Contents)
      BY <1>1, <1>2
    <3>2. QED
      BY <1>1, <1>2, <2>1, <3>1
  <2>3. PathTypes'
    BY <1>1, <1>2, <1>4, <1>6, <2>1, <2>2 DEF PathTypes
  <2>4. ASSUME NEW x \in Radios
        PROVE  InOrder(x, handed[x], pending[x], rxq[x], scheduled)'
    <3>1. CASE x = r
      <4>1. InOrder(r, Append(handed[r], c), Append(pending[r], c), rxq[r], scheduled)
        BY <1>1, <1>2, <1>3, OrderKept
      <4>2. QED
        BY <1>1, <1>4, <2>1, <2>2, <3>1, <4>1
    <3>2. CASE x # r
      BY <1>1, <1>3, <1>4, <2>1, <2>2, <3>2
    <3>3. QED
      BY <3>1, <3>2
  <2>5. QED
    BY <2>3, <2>4, HandoverMeans DEF HandoverInv
<1>7. QED
  BY <1>5, <1>6

(* The loop comes: what is kept is scheduled.                              *)
LEMMA HandoverAttach ==
    ASSUME HandoverInv, NEW r \in Radios, Rx!SetEventLoop(r)
    PROVE  HandoverInv'
<1> DEFINE row == [i \in 1..Len(pending[r]) |-> <<r, pending[r][i]>>]
<1>1. /\ rxq \in [Radios -> Seq(Contents)] /\ attached \in [Radios -> BOOLEAN]
      /\ pending \in [Radios -> Seq(Contents)] /\ handed \in [Radios -> Seq(Contents)]
      /\ scheduled \in Seq(Entries)
      /\ \A x \in Radios : attached[x] => pending[x] = <<>>
      /\ stage # "idle" => reading \in Rx!Datagrams
  BY DEF HandoverInv, PathTypes
<1>2. /\ attached' = [attached EXCEPT ![r] = TRUE]
      /\ scheduled' = scheduled \o row
      /\ pending' = [pending EXCEPT ![r] = <<>>]
      /\ UNCHANGED <<rxq, handed, reading, stage>>
  BY DEF Rx!SetEventLoop
<1>3. /\ row \in Seq(Entries) /\ Len(row) = Len(pending[r])
      /\ \A i \in 1..Len(row) : row[i][1] = r /\ row[i][2] = pending[r][i]
  BY <1>1, RowOf
<1> HIDE DEF row
<1>4. \A x \in Radios : InOrder(x, handed[x], pending[x], rxq[x], scheduled)
  BY HandoverMeans DEF HandoverInv
<1>5. PathTypes'
  <2>1. scheduled' \in Seq(Entries)
    BY <1>1, <1>2, <1>3
  <2>2. QED
    BY <1>1, <1>2, <2>1 DEF PathTypes
<1>6. ASSUME NEW x \in Radios
      PROVE  InOrder(x, handed[x], pending[x], rxq[x], scheduled)'
  <2>1. CASE x = r
    <3>1. InOrder(r, handed[r], <<>>, rxq[r], scheduled \o row)
      BY <1>1, <1>3, <1>4, OrderAttached
    <3>2. QED
      BY <1>1, <1>2, <2>1, <3>1
  <2>2. CASE x # r
    <3>1. InOrder(x, handed[x], pending[x], rxq[x], scheduled \o row)
      BY <1>1, <1>3, <1>4, <2>2, OrderAttachedOther DEF RowFor
    <3>2. QED
      BY <1>1, <1>2, <2>2, <3>1
  <2>3. QED
    BY <2>1, <2>2
<1>7. QED
  BY <1>5, <1>6, HandoverMeans DEF HandoverInv

(* The first callback puts its packet in the queue of its radio.           *)
LEMMA HandoverDeliver ==
    ASSUME HandoverInv, Rx!DeliverRx
    PROVE  HandoverInv'
<1>1. /\ rxq \in [Radios -> Seq(Contents)] /\ attached \in [Radios -> BOOLEAN]
      /\ pending \in [Radios -> Seq(Contents)] /\ handed \in [Radios -> Seq(Contents)]
      /\ scheduled \in Seq(Entries)
      /\ \A x \in Radios : attached[x] => pending[x] = <<>>
      /\ stage # "idle" => reading \in Rx!Datagrams
  BY DEF HandoverInv, PathTypes
<1> DEFINE r == scheduled[1][1]
<1> DEFINE c == scheduled[1][2]
<1>2. /\ scheduled # <<>>
      /\ rxq' = [rxq EXCEPT ![r] = Append(@, c)]
      /\ scheduled' = Tail(scheduled)
      /\ UNCHANGED <<attached, pending, handed, reading, stage>>
  <2>1. scheduled # <<>> /\ Head(scheduled) = scheduled[1]
    BY <1>1 DEF Rx!DeliverRx
  <2>2. QED
    BY <2>1, Zenon DEF Rx!DeliverRx
<1>3. r \in Radios /\ c \in Contents /\ Tail(scheduled) \in Seq(Entries)
  BY <1>1, <1>2 DEF Entries
<1>4. /\ rxq'[r] = Append(rxq[r], c)
      /\ \A x \in Radios : x # r => rxq'[x] = rxq[x]
      /\ rxq' \in [Radios -> Seq(Contents)]
  <2> HIDE DEF r, c
  <2>1. Append(rxq[r], c) \in Seq(Contents)
    BY <1>1, <1>3
  <2>2. QED
    BY <1>1, <1>2, <1>3, <2>1
<1>5. PathTypes'
  BY <1>1, <1>2, <1>3, <1>4 DEF PathTypes
<1>6. ASSUME NEW x \in Radios
      PROVE  InOrder(x, handed[x], pending[x], rxq[x], scheduled)'
  <2>1. InOrder(x, handed[x], pending[x], rxq[x], scheduled)
    BY HandoverMeans DEF HandoverInv
  <2>2. InOrder(x, handed[x], pending[x],
                IF scheduled[1][1] = x THEN Append(rxq[x], scheduled[1][2]) ELSE rxq[x],
                Tail(scheduled))
    BY <1>1, <1>2, <2>1, OrderDelivered
  <2>3. QED
    BY <1>2, <1>4, <2>2
<1>7. QED
  BY <1>5, <1>6, HandoverMeans DEF HandoverInv

(* A receive loop takes the first packet of its radio's queue.             *)
LEMMA HandoverTake ==
    ASSUME HandoverInv, NEW r \in Radios, B!RxLoop(r), UNCHANGED queues,
           stage' # "idle" => reading' \in Rx!Datagrams
    PROVE  HandoverInv'
<1>1. /\ rxq \in [Radios -> Seq(Contents)] /\ attached \in [Radios -> BOOLEAN]
      /\ pending \in [Radios -> Seq(Contents)] /\ handed \in [Radios -> Seq(Contents)]
      /\ scheduled \in Seq(Entries)
      /\ \A x \in Radios : attached[x] => pending[x] = <<>>
  BY DEF HandoverInv, PathTypes
<1>2. /\ rxq[r] # <<>>
      /\ rxq' = [rxq EXCEPT ![r] = Tail(@)]
      /\ UNCHANGED <<attached, pending, scheduled, handed>>
  BY DEF B!RxLoop, queues
<1>3. /\ rxq'[r] = Tail(rxq[r])
      /\ \A x \in Radios : x # r => rxq'[x] = rxq[x]
      /\ rxq' \in [Radios -> Seq(Contents)]
  <2>1. Tail(rxq[r]) \in Seq(Contents)
    BY <1>1, <1>2
  <2>2. QED
    BY <1>1, <1>2, <2>1
<1>4. PathTypes'
  BY <1>1, <1>2, <1>3 DEF PathTypes
<1>5. ASSUME NEW x \in Radios
      PROVE  InOrder(x, handed[x], pending[x], rxq[x], scheduled)'
  <2>1. InOrder(x, handed[x], pending[x], rxq[x], scheduled)
    BY HandoverMeans DEF HandoverInv
  <2>2. CASE x = r
    <3>1. InOrder(r, handed[r], pending[r], Tail(rxq[r]), scheduled)
      BY <1>1, <1>2, <2>1, <2>2, OrderTaken
    <3>2. QED
      BY <1>2, <1>3, <2>2, <3>1
  <2>3. CASE x # r
    BY <1>2, <1>3, <2>1, <2>3
  <2>4. QED
    BY <2>2, <2>3
<1>6. QED
  BY <1>4, <1>5, HandoverMeans DEF HandoverInv

LEMMA HandoverStep ==
    ASSUME HandoverInv, [Next]_vars
    PROVE  HandoverInv'
<1>1. ASSUME UNCHANGED <<queues, rxq>>, stage' # "idle" => reading' \in Rx!Datagrams
      PROVE  HandoverInv'
  <2>1. UNCHANGED <<attached, pending, scheduled, handed, rxq>>
    BY <1>1 DEF queues
  <2>2. PathTypes'
    BY <1>1, <2>1 DEF HandoverInv, PathTypes
  <2>3. HandoverInOrder'
    BY <2>1, HandoverMeans DEF HandoverInv
  <2>4. QED
    BY <2>2, <2>3 DEF HandoverInv
<1>2. CASE Next
  <2>1. /\ \/ UNCHANGED <<queues, rxq>>
           \/ Rx!ToRadio
           \/ \E r \in Radios : Rx!SetEventLoop(r)
           \/ Rx!DeliverRx
           \/ \E r \in Radios : B!RxLoop(r) /\ UNCHANGED queues
        /\ stage' # "idle" => reading' \in Rx!Datagrams
    BY <1>2, PathStep DEF HandoverInv
  <2>2. QED
    BY <1>1, <2>1, HandoverToRadio, HandoverAttach, HandoverDeliver, HandoverTake
<1>3. CASE UNCHANGED vars
  <2>1. stage' # "idle" => reading' \in Rx!Datagrams
    BY <1>3 DEF HandoverInv, PathTypes, vars, rxVars
  <2>2. QED
    BY <1>1, <1>3, <2>1 DEF vars, rxVars, queues
<1>4. QED
  BY <1>2, <1>3

(* HandoverInOrder: whatever the threads, the loop and the bridge do, and  *)
(* whenever a radio gets its event loop (VirtualLoRaRadio.enqueue_rx,      *)
(* set_event_loop, _deliver_rx), what it was given is found again, once    *)
(* and in order.                                                           *)
THEOREM HandedOverInOrder == Spec => []HandoverInOrder
<1>1. Init => HandoverInv
  BY HandoverInit
<1>2. HandoverInv /\ [Next]_vars => HandoverInv'
  BY HandoverStep
<1>3. QED
  BY <1>1, <1>2, PTL DEF Spec, HandoverInv

-----------------------------------------------------------------------------
(* The stacks of calls.                                                    *)

(* A record of Bridge's Call.                                              *)
IsCall(a) ==
    /\ a.content \in Contents
    /\ a = [src |-> a.src, content |-> a.content, origin |-> a.origin,
            stage |-> a.stage, inline |-> a.inline, sends |-> a.sends]

(* A call is inside another only after the repeater's handler has returned *)
(* from its delay, and only for a packet the engine has on record.         *)
Nested(stack, marked) ==
    \/ stack = <<>>
    \/ \E a : /\ stack = <<a>>
              /\ IsCall(a)
              /\ a.stage = "delay" => a.content \in marked
    \/ \E a, b : /\ stack = <<a, b>>
                 /\ IsCall(a) /\ IsCall(b)
                 /\ a.stage # "delay" /\ b.stage # "delay"
                 /\ b.content \in marked

LEMMA StackFacts ==
    ASSUME NEW a, NEW b, NEW c
    PROVE  /\ <<a>> # <<>> /\ <<a, b>> # <<>> /\ <<a, b>> # <<a>>
           /\ Len(<<>>) = 0 /\ Len(<<a>>) = 1 /\ Len(<<a, b>>) = 2
           /\ B!Last(<<a>>) = a /\ B!Last(<<a, b>>) = b
           /\ B!Front(<<a>>) = <<>> /\ B!Front(<<a, b>>) = <<a>>
           /\ Append(<<>>, a) = <<a>> /\ Append(<<a>>, b) = <<a, b>>
           /\ <<>> \o <<a, b>> = <<a, b>>
<1>1. /\ <<a>> # <<>> /\ <<a, b>> # <<>> /\ <<a, b>> # <<a>>
      /\ Len(<<>>) = 0 /\ Len(<<a>>) = 1 /\ Len(<<a, b>>) = 2
  OBVIOUS
<1>2. B!Last(<<a>>) = a /\ B!Last(<<a, b>>) = b
  BY <1>1 DEF B!Last
<1>3. <<a>> \in Seq({a, b}) /\ <<a, b>> \in Seq({a, b})
  OBVIOUS
<1>4. B!Front(<<a>>) = <<>> /\ B!Front(<<a, b>>) = <<a>>
  <2>1. SubSeq(<<a>>, 1, 0) = <<>>
    BY SubSeqEmpty
  <2>2. /\ SubSeq(<<a, b>>, 1, 1) \in Seq({a, b})
        /\ Len(SubSeq(<<a, b>>, 1, 1)) = 1
        /\ SubSeq(<<a, b>>, 1, 1)[1] = a
    BY SubSeqProperties
  <2>3. SubSeq(<<a, b>>, 1, 1) = <<a>>
    <3>1. \A i \in 1..Len(<<a>>) : SubSeq(<<a, b>>, 1, 1)[i] = <<a>>[i]
      BY <2>2
    <3>2. Len(SubSeq(<<a, b>>, 1, 1)) = Len(<<a>>)
      BY <2>2
    <3>3. QED
      BY <1>3, <2>2, <3>1, <3>2, SeqEqual
  <2>4. QED
    BY <1>1, <2>1, <2>3 DEF B!Front
<1>5. Append(<<>>, a) = <<a>> /\ Append(<<a>>, b) = <<a, b>>
  <2>1. Append(<<>>, a) = <<a>>
    OBVIOUS
  <2>2. /\ Append(<<a>>, b) \in Seq({a, b})
        /\ Len(Append(<<a>>, b)) = 2
        /\ Append(<<a>>, b)[1] = a /\ Append(<<a>>, b)[2] = b
    BY <1>3
  <2>3. QED
    <3>1. \A i \in 1..Len(<<a, b>>) : Append(<<a>>, b)[i] = <<a, b>>[i]
      BY <2>2
    <3>2. Len(Append(<<a>>, b)) = Len(<<a, b>>)
      BY <2>2
    <3>3. QED
      BY <1>3, <2>1, <2>2, <3>1, <3>2, SeqEqual
<1>6. <<>> \o <<a, b>> = <<a, b>>
  OBVIOUS
<1>7. QED
  BY <1>1, <1>2, <1>3, <1>4, <1>5, <1>6

LEMMA NestedGrows ==
    ASSUME NEW stack, NEW m, NEW n, m \subseteq n, Nested(stack, m)
    PROVE  Nested(stack, n)
BY DEF Nested

LEMMA NestedBound ==
    ASSUME NEW stack, NEW m, Nested(stack, m)
    PROVE  Len(stack) <= 2
<1>1. \/ stack = <<>>
      \/ \E a : stack = <<a>>
      \/ \E a, b : stack = <<a, b>>
  BY DEF Nested
<1>2. PICK n \in {0, 1, 2} : Len(stack) = n
  BY <1>1
<1>3. QED
  BY <1>2

(* Returning calls leave a stack that is as good.                          *)
LEMMA UnwindNested ==
    ASSUME NEW stack, NEW m, Nested(stack, m)
    PROVE  Nested(B!Unwind(stack), m)
<1>1. CASE stack = <<>>
  BY <1>1 DEF Nested, B!Unwind, B!Over
<1>2. ASSUME NEW a, stack = <<a>>, IsCall(a), a.stage = "delay" => a.content \in m
      PROVE  Nested(B!Unwind(stack), m)
  <2>1. B!Unwind(stack) = stack \/ B!Unwind(stack) = <<>>
    BY <1>2, StackFacts DEF B!Unwind
  <2>2. QED
    BY <2>1 DEF Nested
<1>3. ASSUME NEW a, NEW b, stack = <<a, b>>, IsCall(a), a.stage # "delay"
      PROVE  Nested(B!Unwind(stack), m)
  <2>1. B!Unwind(stack) = stack \/ B!Unwind(stack) = <<a>>
    BY <1>3, StackFacts DEF B!Unwind
  <2>2. Nested(<<a>>, m)
    BY <1>3 DEF Nested
  <2>3. QED
    BY <2>1, <2>2
<1>4. QED
  BY <1>1, <1>2, <1>3 DEF Nested

(* A call that goes on: the same packet, and no new delay.                 *)
LEMMA TopNested ==
    ASSUME NEW stack, NEW m, Nested(stack, m), stack # <<>>,
           NEW call, IsCall(call), call.content = B!Last(stack).content,
           call.stage = "delay" => B!Last(stack).stage = "delay"
    PROVE  Nested(Append(B!Front(stack), call), m)
<1>1. ASSUME NEW a, stack = <<a>>, IsCall(a), a.stage = "delay" => a.content \in m
      PROVE  Nested(Append(B!Front(stack), call), m)
  <2>1. B!Last(stack) = a /\ Append(B!Front(stack), call) = <<call>>
    BY <1>1, StackFacts
  <2>2. QED
    BY <1>1, <2>1 DEF Nested
<1>2. ASSUME NEW a, NEW b, stack = <<a, b>>, IsCall(a), a.stage # "delay",
             b.stage # "delay", b.content \in m
      PROVE  Nested(Append(B!Front(stack), call), m)
  <2>1. B!Last(stack) = b /\ Append(B!Front(stack), call) = <<a, call>>
    BY <1>2, StackFacts
  <2>2. QED
    BY <1>2, <2>1 DEF Nested
<1>3. QED
  BY <1>1, <1>2 DEF Nested

(* The engine's record of a packet with a call inside another has not      *)
(* expired while that call has endpoints to call in place: the repeater's  *)
(* delay (seconds at most) and the publication are shorter than cache_ttl  *)
(* (60 s).                                                                 *)
Timely ==
    \A p \in B!Procs :
       Len(calls[p]) = 2 /\ B!Top(p).inline # <<>>
         => engSeen[B!Top(p).content] # EngineTTL

Marked == {c \in Contents : engSeen[c] # Absent}

NestInv ==
    /\ engSeen \in [Contents -> B!Ages(EngineTTL)]
    /\ calls = [p \in B!Procs |-> calls[p]]
    /\ \A p \in B!Procs : Nested(calls[p], Marked)

LEMMA TopIsCall ==
    ASSUME NEW stack, NEW m, Nested(stack, m), stack # <<>>
    PROVE  IsCall(B!Last(stack))
<1>1. ASSUME NEW a, stack = <<a>>, IsCall(a)
      PROVE  IsCall(B!Last(stack))
  BY <1>1, StackFacts
<1>2. ASSUME NEW a, NEW b, stack = <<a, b>>, IsCall(b)
      PROVE  IsCall(B!Last(stack))
  BY <1>2, StackFacts
<1>3. QED
  BY <1>1, <1>2 DEF Nested

(* What the steps change of a call leaves it one, for the same packet.     *)
LEMMA CallUpdate ==
    ASSUME NEW a, IsCall(a), NEW g, NEW i, NEW s
    PROVE  /\ LET b == [a EXCEPT !.inline = i]
              IN IsCall(b) /\ b.content = a.content /\ b.stage = a.stage
           /\ LET b == [a EXCEPT !.stage = g]
              IN IsCall(b) /\ b.content = a.content /\ b.stage = g
           /\ LET b == [a EXCEPT !.sends = s]
              IN IsCall(b) /\ b.content = a.content /\ b.stage = a.stage
<1>1. a.content \in Contents
  BY DEF IsCall
<1>2. a = [src |-> a.src, content |-> a.content, origin |-> a.origin,
           stage |-> a.stage, inline |-> a.inline, sends |-> a.sends]
  BY DEF IsCall
<1>3. [a EXCEPT !.inline = i] =
        [src |-> a.src, content |-> a.content, origin |-> a.origin,
         stage |-> a.stage, inline |-> i, sends |-> a.sends]
  BY <1>2
<1>4. [a EXCEPT !.stage = g] =
        [src |-> a.src, content |-> a.content, origin |-> a.origin,
         stage |-> g, inline |-> a.inline, sends |-> a.sends]
  BY <1>2
<1>5. [a EXCEPT !.sends = s] =
        [src |-> a.src, content |-> a.content, origin |-> a.origin,
         stage |-> a.stage, inline |-> a.inline, sends |-> s]
  BY <1>2
<1>6. QED
  BY <1>1, <1>3, <1>4, <1>5 DEF IsCall

(* A call that goes on with its rules.                                     *)
LEMMA RulesAgain ==
    ASSUME NEW a, IsCall(a)
    PROVE  /\ LET b == [a EXCEPT !.stage = "rules", !.inline = Tail(@)]
              IN IsCall(b) /\ b.content = a.content /\ b.stage = "rules"
           /\ LET b == [a EXCEPT !.stage = "rules", !.sends = Tail(@)]
              IN IsCall(b) /\ b.content = a.content /\ b.stage = "rules"
<1> DEFINE b == [a EXCEPT !.stage = "rules"]
<1>1. /\ [a EXCEPT !.stage = "rules", !.inline = Tail(@)] = [b EXCEPT !.inline = Tail(@)]
      /\ [a EXCEPT !.stage = "rules", !.sends = Tail(@)] = [b EXCEPT !.sends = Tail(@)]
  OBVIOUS
<1>2. IsCall(b) /\ b.content = a.content /\ b.stage = "rules"
  BY CallUpdate
<1> HIDE DEF b
<1>3. /\ LET d == [b EXCEPT !.inline = Tail(@)]
         IN IsCall(d) /\ d.content = b.content /\ d.stage = b.stage
      /\ LET d == [b EXCEPT !.sends = Tail(@)]
         IN IsCall(d) /\ d.content = b.content /\ d.stage = b.stage
  BY <1>2, CallUpdate
<1>4. QED
  BY <1>1, <1>2, <1>3

LEMMA CallIsCall ==
    ASSUME NEW src, NEW c \in Contents, NEW origin
    PROVE  LET a == B!Call(src, c, origin)
           IN  IsCall(a) /\ a.content = c /\ a.stage = "rules"
BY DEF B!Call, IsCall

(* A process with a new stack, and the engine's records as they were.      *)
LEMMA NestKept ==
    ASSUME NestInv, NEW p \in B!Procs, NEW stack, Nested(stack, Marked),
           B!Becomes(p, stack), UNCHANGED engSeen
    PROVE  NestInv'
<1>1. Nested(B!Unwind(B!Unwind(stack)), Marked)
  BY UnwindNested
<1>2. /\ calls' = [calls EXCEPT ![p] = B!Unwind(B!Unwind(stack))]
      /\ calls = [q \in B!Procs |-> calls[q]]
      /\ \A q \in B!Procs : Nested(calls[q], Marked)
      /\ Marked' = Marked
  BY DEF B!Becomes, NestInv, Marked
<1>3. calls' = [q \in B!Procs |-> calls'[q]]
  BY <1>2
<1>4. ASSUME NEW q \in B!Procs
      PROVE  Nested(calls'[q], Marked')
  <2>1. CASE q = p
    BY <1>1, <1>2, <2>1
  <2>2. CASE q # p
    BY <1>2, <2>2
  <2>3. QED
    BY <2>1, <2>2
<1>5. engSeen' \in [Contents -> B!Ages(EngineTTL)]
  BY DEF NestInv
<1>6. QED
  BY <1>3, <1>4, <1>5 DEF NestInv

LEMMA NestSetTop ==
    ASSUME NestInv, NEW p \in B!Procs, B!Busy(p),
           NEW call, IsCall(call), call.content = B!Top(p).content,
           call.stage = "delay" => B!Top(p).stage = "delay",
           B!SetTop(p, call), UNCHANGED engSeen
    PROVE  NestInv'
<1>1. Nested(calls[p], Marked) /\ calls[p] # <<>>
  BY DEF NestInv, B!Busy
<1>2. Nested(Append(B!Front(calls[p]), call), Marked)
  BY <1>1, TopNested DEF B!Top
<1>3. QED
  BY <1>2, NestKept DEF B!SetTop

(* The first call of a process.                                            *)
LEMMA NestPush ==
    ASSUME NestInv, NEW p \in B!Procs, ~B!Busy(p),
           NEW src, NEW c \in Contents, NEW origin,
           B!Push(p, B!Call(src, c, origin)), UNCHANGED engSeen
    PROVE  NestInv'
<1> DEFINE a == B!Call(src, c, origin)
<1>1. IsCall(a) /\ a.stage = "rules"
  BY CallIsCall
<1> HIDE DEF a
<1>2. Append(calls[p], a) = <<a>>
  BY StackFacts DEF B!Busy
<1>3. Nested(<<a>>, Marked)
  BY <1>1 DEF Nested
<1>4. QED
  BY <1>2, <1>3, NestKept DEF B!Push, a

LEMMA NestSame ==
    ASSUME NestInv, UNCHANGED <<calls, engSeen>>
    PROVE  NestInv'
BY DEF NestInv, Marked

LEMMA NestAdmit ==
    ASSUME NestInv, NEW p \in B!Procs, ~B!Busy(p), NEW src, NEW c \in Contents,
           B!Admit(p, src, c), UNCHANGED engSeen
    PROVE  NestInv'
<1>1. UNCHANGED calls \/ B!Push(p, B!Call(src, c, "none"))
  BY DEF B!Admit
<1>2. QED
  BY <1>1, NestSame, NestPush

(* flood_forward takes a packet that no other call of the process holds.   *)
LEMMA RepeatAlone ==
    ASSUME NestInv, Timely, NEW p \in B!Procs, B!Repeat(p)
    PROVE  calls[p] = <<B!Top(p)>>
<1> DEFINE call == B!Top(p)
<1> DEFINE c == call.content
<1>1. B!Busy(p) /\ call.inline # <<>> /\ ~B!Fresh(engSeen[c], EngineTTL)
  BY DEF B!Repeat
<1>2. Nested(calls[p], Marked) /\ calls[p] # <<>> /\ engSeen \in [Contents -> B!Ages(EngineTTL)]
  BY <1>1 DEF NestInv, B!Busy
<1>3. c \in Contents
  BY <1>2, TopIsCall DEF B!Top, IsCall
<1>4. ASSUME NEW a, NEW b, calls[p] = <<a, b>>, b.content \in Marked
      PROVE  FALSE
  <2>1. Len(calls[p]) = 2 /\ call = b
    BY <1>4, StackFacts DEF B!Top
  <2>2. engSeen[c] # Absent /\ engSeen[c] # EngineTTL
    BY <1>1, <1>4, <2>1 DEF Marked, Timely
  <2>3. PICK age \in B!Ages(EngineTTL) : age = engSeen[c]
    BY <1>2, <1>3
  <2>4. B!Fresh(age, EngineTTL)
    BY <2>2, <2>3, PathAssumption DEF B!Fresh, B!Ages
  <2>5. QED
    BY <1>1, <2>3, <2>4
<1>5. ASSUME NEW a, calls[p] = <<a>>
      PROVE  call = a
  BY <1>5, StackFacts DEF B!Top
<1>6. QED
  BY <1>2, <1>4, <1>5 DEF Nested

(* flood_forward: a call goes into the delay with the packet on record; for*)
(* one inside another the record is there, and refuses the packet.         *)
LEMMA NestRepeat ==
    ASSUME NestInv, Timely, NEW p \in B!Procs, B!Repeat(p)
    PROVE  NestInv'
<1> DEFINE call == B!Top(p)
<1> DEFINE c == call.content
<1> DEFINE next == [call EXCEPT !.stage = "delay"]
<1>1. /\ B!Busy(p) /\ call.stage = "rules" /\ call.inline # <<>>
      /\ ~B!Fresh(engSeen[c], EngineTTL)
      /\ engSeen' = [engSeen EXCEPT ![c] = 0]
      /\ B!SetTop(p, next)
  BY DEF B!Repeat
<1>2. /\ engSeen \in [Contents -> B!Ages(EngineTTL)]
      /\ calls = [q \in B!Procs |-> calls[q]]
      /\ \A q \in B!Procs : Nested(calls[q], Marked)
      /\ calls[p] # <<>>
  BY <1>1 DEF NestInv, B!Busy
<1>3. IsCall(call) /\ c \in Contents
  BY <1>2, TopIsCall DEF B!Top, IsCall
<1>4. IsCall(next) /\ next.content = c /\ next.stage = "delay"
  BY <1>3, CallUpdate
<1> HIDE DEF next
<1>5. /\ engSeen' \in [Contents -> B!Ages(EngineTTL)]
      /\ Marked \subseteq Marked' /\ c \in Marked'
  <2>1. 0 \in B!Ages(EngineTTL) /\ 0 # Absent
    BY PathAssumption DEF B!Ages
  <2> HIDE DEF c
  <2>2. QED
    BY <1>1, <1>2, <1>3, <2>1 DEF Marked
<1>6. calls[p] = <<call>>
  BY RepeatAlone
<1>7. Append(B!Front(calls[p]), next) = <<next>>
  BY <1>6, StackFacts
<1>8. Nested(<<next>>, Marked')
  BY <1>4, <1>5 DEF Nested
<1>9. Nested(B!Unwind(B!Unwind(<<next>>)), Marked')
  BY <1>8, UnwindNested
<1>10. calls' = [calls EXCEPT ![p] = B!Unwind(B!Unwind(<<next>>))]
  BY <1>1, <1>7 DEF B!SetTop, B!Becomes
<1>11. ASSUME NEW q \in B!Procs
       PROVE  Nested(calls'[q], Marked')
  <2>1. CASE q = p
    BY <1>2, <1>9, <1>10, <2>1
  <2>2. CASE q # p
    <3>1. Nested(calls[q], Marked')
      BY <1>2, <1>5, NestedGrows
    <3>2. QED
      BY <1>2, <1>10, <2>2, <3>1
  <2>3. QED
    BY <2>1, <2>2
<1>12. calls' = [q \in B!Procs |-> calls'[q]]
  BY <1>2, <1>10
<1>13. QED
  BY <1>5, <1>11, <1>12 DEF NestInv

(* After the delay: a call for the same packet inside this one.            *)
LEMMA NestReinject ==
    ASSUME NestInv, NEW p \in B!Procs, B!Reinject(p)
    PROVE  NestInv'
<1> DEFINE call == B!Top(p)
<1> DEFINE back == [call EXCEPT !.stage = "rules", !.inline = Tail(@)]
<1> DEFINE again == B!Call("repeater", call.content, call.src)
<1>1. /\ B!Busy(p) /\ call.stage = "delay" /\ UNCHANGED engSeen
      /\ \/ B!Becomes(p, B!Front(calls[p]) \o <<back, again>>)
         \/ B!SetTop(p, back)
  BY DEF B!Reinject, B!tables
<1>2. Nested(calls[p], Marked) /\ calls[p] # <<>>
  BY <1>1 DEF NestInv, B!Busy
<1>3. IsCall(call) /\ call.content \in Contents
  BY <1>2, TopIsCall DEF B!Top, IsCall
<1>4. IsCall(back) /\ back.content = call.content /\ back.stage = "rules"
  BY <1>3, RulesAgain
<1>5. IsCall(again) /\ again.content = call.content /\ again.stage = "rules"
  BY <1>3, CallIsCall
<1>6. CASE B!SetTop(p, back)
  BY <1>1, <1>3, <1>4, <1>6, NestSetTop
<1>7. CASE B!Becomes(p, B!Front(calls[p]) \o <<back, again>>)
  <2> HIDE DEF back, again
  <2>1. B!Front(calls[p]) = <<>> /\ call.content \in Marked
    <3>1. ASSUME NEW a, NEW b, calls[p] = <<a, b>>, b.stage # "delay"
          PROVE  FALSE
      BY <1>1, <3>1, StackFacts DEF B!Top
    <3>2. ASSUME NEW a, calls[p] = <<a>>, a.stage = "delay" => a.content \in Marked
          PROVE  B!Front(calls[p]) = <<>> /\ call.content \in Marked
      BY <1>1, <3>2, StackFacts DEF B!Top
    <3>3. QED
      BY <1>2, <3>1, <3>2 DEF Nested
  <2>2. B!Front(calls[p]) \o <<back, again>> = <<back, again>>
    BY <2>1, StackFacts
  <2>3. Nested(<<back, again>>, Marked)
    BY <1>4, <1>5, <2>1 DEF Nested
  <2>4. QED
    BY <1>1, <1>7, <2>2, <2>3, NestKept
<1>8. QED
  BY <1>1, <1>6, <1>7

LEMMA NestForward ==
    ASSUME NestInv, Timely, NEW p \in B!Procs, B!Forward(p)
    PROVE  NestInv'
<1> DEFINE call == B!Top(p)
<1>1. ASSUME B!Busy(p)
      PROVE  IsCall(call)
  <2>1. Nested(calls[p], Marked) /\ calls[p] # <<>>
    BY <1>1 DEF NestInv, B!Busy
  <2>2. QED
    BY <2>1, TopIsCall DEF B!Top
<1>2. ASSUME B!NotRepeated(p) \/ B!Publish(p)
      PROVE  NestInv'
  <2>1. /\ B!Busy(p) /\ UNCHANGED engSeen
        /\ B!SetTop(p, [call EXCEPT !.inline = Tail(@)])
    BY <1>2 DEF B!NotRepeated, B!Publish, B!tables
  <2> DEFINE next == [call EXCEPT !.inline = Tail(@)]
  <2>2. IsCall(next) /\ next.content = call.content /\ next.stage = call.stage
    BY <1>1, <2>1, CallUpdate
  <2> HIDE DEF next
  <2>3. QED
    BY <2>1, <2>2, NestSetTop DEF next
<1>3. CASE B!Repeat(p)
  BY <1>3, NestRepeat
<1>4. CASE B!Reinject(p)
  BY <1>4, NestReinject
<1>5. CASE B!SendNext(p)
  <2> DEFINE passed == [call EXCEPT !.sends = Tail(@)]
  <2> DEFINE sending == [call EXCEPT !.stage = "sending"]
  <2>1. /\ B!Busy(p) /\ call.stage = "rules" /\ UNCHANGED engSeen
        /\ B!SetTop(p, passed) \/ B!SetTop(p, sending)
    BY <1>5 DEF B!SendNext, B!tables
  <2>2. /\ IsCall(passed) /\ passed.content = call.content /\ passed.stage = call.stage
        /\ IsCall(sending) /\ sending.content = call.content /\ sending.stage = "sending"
    BY <1>1, <2>1, CallUpdate
  <2> HIDE DEF passed, sending
  <2>3. QED
    BY <2>1, <2>2, NestSetTop
<1>6. CASE B!Emit(p)
  BY <1>6, NestSame DEF B!Emit, B!tables
<1>7. CASE B!SendReturns(p)
  <2> DEFINE next == [call EXCEPT !.stage = "rules", !.sends = Tail(@)]
  <2>1. /\ B!Busy(p) /\ UNCHANGED engSeen
        /\ B!SetTop(p, next)
    BY <1>7 DEF B!SendReturns, B!Sent
  <2>2. IsCall(next) /\ next.content = call.content /\ next.stage = "rules"
    BY <1>1, <2>1, RulesAgain
  <2> HIDE DEF next
  <2>3. QED
    BY <2>1, <2>2, NestSetTop
<1>8. QED
  BY <1>2, <1>3, <1>4, <1>5, <1>6, <1>7 DEF B!Forward

LEMMA NestInit ==
    ASSUME Init
    PROVE  NestInv
<1>1. engSeen = [c \in Contents |-> Absent] /\ calls = [p \in B!Procs |-> <<>>]
  BY DEF Init, B!BInit
<1>2. \A p \in B!Procs : Nested(calls[p], Marked)
  BY <1>1 DEF Nested
<1>3. QED
  BY <1>1, <1>2 DEF NestInv, B!Ages

(* A tick makes no record a missing one.                                   *)
LEMMA NestTick ==
    ASSUME NestInv, Ticks
    PROVE  NestInv'
<1>1. /\ engSeen \in [Contents -> B!Ages(EngineTTL)]
      /\ engSeen' = [c \in Contents |-> B!Older(engSeen[c], EngineTTL)]
      /\ calls' = calls
  BY DEF NestInv, Ticks, B!AgeTables
<1>2. ASSUME NEW age \in B!Ages(EngineTTL)
      PROVE  /\ B!Older(age, EngineTTL) \in B!Ages(EngineTTL)
             /\ age # Absent => B!Older(age, EngineTTL) # Absent
  BY PathAssumption DEF B!Ages, B!Older
<1>3. engSeen' \in [Contents -> B!Ages(EngineTTL)] /\ Marked \subseteq Marked'
  BY <1>1, <1>2 DEF Marked
<1>4. \A p \in B!Procs : Nested(calls'[p], Marked')
  BY <1>1, <1>3, NestedGrows DEF NestInv
<1>5. QED
  BY <1>1, <1>3, <1>4 DEF NestInv

LEMMA NestStep ==
    ASSUME PathTypes, NestInv, Timely, [Next]_vars
    PROVE  NestInv'
<1>1. CASE Hears \/ Reads \/ HandsOver \/ Confirms \/ Starts \/ Updates
  BY <1>1, NestSame DEF Hears, Reads, HandsOver, Confirms, Starts, Updates, bridgeVars,
     B!Confirmed, B!Run, B!UpdateRules, B!SetMode, B!tables
<1>2. CASE Receives
  <2>1. PICK r \in Radios : B!RxLoop(r)
    BY <1>2 DEF Receives
  <2>2. /\ ~B!Busy(r) /\ rxq[r] # <<>> /\ UNCHANGED engSeen
        /\ B!Admit(r, r, Head(rxq[r]))
    BY <2>1 DEF B!RxLoop
  <2>3. r \in B!Procs /\ Head(rxq[r]) \in Contents
    BY <2>2 DEF PathTypes, B!Procs
  <2>4. QED
    BY <2>2, <2>3, NestAdmit
<1>3. CASE Injects
  <2>1. PICK s \in Slots : \/ \E c \in OwnContents : B!InjectOwn(s, c)
                           \/ \E c \in Contents : B!InjectReceived(s, c)
    BY <1>3 DEF Injects
  <2>2. s \in B!Procs
    BY DEF B!Procs
  <2>3. ASSUME NEW c \in OwnContents, B!InjectOwn(s, c)
        PROVE  NestInv'
    <3>1. c \in Contents
      BY PathAssumption
    <3>2. ~B!Busy(s) /\ UNCHANGED engSeen /\ B!Push(s, B!Call("repeater", c, "none"))
      BY <2>3 DEF B!InjectOwn, B!tables
    <3>3. QED
      BY <2>2, <3>1, <3>2, NestPush
  <2>4. ASSUME NEW c \in Contents, B!InjectReceived(s, c)
        PROVE  NestInv'
    <3>1. ~B!Busy(s) /\ UNCHANGED engSeen /\ B!Admit(s, "channel_e", c)
      BY <2>4 DEF B!InjectReceived
    <3>2. QED
      BY <2>2, <3>1, NestAdmit
  <2>5. QED
    BY <2>1, <2>3, <2>4
<1>4. CASE Forwards
  BY <1>4, NestForward DEF Forwards
<1>5. CASE Stops
  <2>1. /\ calls' = [p \in B!Procs |-> IF p \in Radios THEN <<>> ELSE calls[p]]
        /\ UNCHANGED engSeen
    BY <1>5 DEF Stops, B!Stop, B!tables
  <2>2. Marked' = Marked
    BY <2>1 DEF Marked
  <2>3. ASSUME NEW p \in B!Procs
        PROVE  Nested(calls'[p], Marked')
    <3>1. CASE p \in Radios
      <4>1. calls'[p] = <<>>
        BY <2>1, <3>1
      <4>2. QED
        BY <4>1 DEF Nested
    <3>2. CASE p \notin Radios
      BY <2>1, <2>2, <3>2 DEF NestInv
    <3>3. QED
      BY <3>1, <3>2
  <2>4. calls' = [p \in B!Procs |-> calls'[p]]
    BY <2>1
  <2>5. QED
    BY <2>1, <2>3, <2>4 DEF NestInv
<1>6. CASE Ticks
  BY <1>6, NestTick
<1>7. CASE UNCHANGED vars
  BY <1>7, NestSame DEF vars, bridgeVars
<1>8. QED
  BY <1>1, <1>2, <1>3, <1>4, <1>5, <1>6, <1>7 DEF Next

LEMMA NestInvBounds ==
    ASSUME NestInv
    PROVE  NestingBounded
BY NestedBound DEF NestInv, NestingBounded

(* NestingBounded: the repeater's handler awaits the injection it makes    *)
(* into the bridge, which may call the handler again (bridge_engine.py     *)
(* inject_packet, main.py _bridge_repeater_handler).  Whatever the rules,  *)
(* that goes one level down and no further, because the engine has the     *)
(* packet on record, as long as a record outlives the delay it is made for.*)
THEOREM CallsNestOnce == Spec /\ []Timely => []NestingBounded
<1>1. Init => HandoverInv /\ NestInv
  BY HandoverInit, NestInit
<1>2. HandoverInv /\ NestInv /\ Timely /\ [Next]_vars => HandoverInv' /\ NestInv'
  BY HandoverStep, NestStep DEF HandoverInv
<1>3. NestInv => NestingBounded
  BY NestInvBounds
<1>4. QED
  BY <1>1, <1>2, <1>3, PTL DEF Spec

(* A record is not older than the behaviour.                               *)
AgeInv ==
    /\ clock \in Nat /\ clock <= MaxClock
    /\ engSeen \in [Contents -> B!Ages(EngineTTL)]
    /\ \A c \in Contents : engSeen[c] # Absent => engSeen[c] <= clock

LEMMA AgeStep ==
    ASSUME MaxClock \in Nat, NestInv, NestInv', AgeInv, [Next]_vars
    PROVE  AgeInv'
<1>1. ASSUME UNCHANGED <<clock, engSeen>>
      PROVE  AgeInv'
  BY <1>1 DEF AgeInv
<1>2. ASSUME NEW p \in B!Procs, B!Repeat(p), UNCHANGED clock
      PROVE  AgeInv'
  <2> DEFINE c == B!Top(p).content
  <2>1. engSeen' = [engSeen EXCEPT ![c] = 0]
    BY <1>2 DEF B!Repeat
  <2> HIDE DEF c
  <2>2. engSeen' \in [Contents -> B!Ages(EngineTTL)]
    BY DEF NestInv
  <2>3. ASSUME NEW d \in Contents, engSeen'[d] # Absent
        PROVE  engSeen'[d] <= clock
    <3>1. engSeen'[d] = 0 \/ engSeen'[d] = engSeen[d]
      BY <2>1 DEF AgeInv
    <3>2. QED
      BY <2>3, <3>1 DEF AgeInv
  <2>4. QED
    BY <1>2, <2>2, <2>3 DEF AgeInv
<1>3. CASE Forwards
  <2>1. PICK p \in B!Procs : B!Forward(p)
    BY <1>3 DEF Forwards
  <2>2. UNCHANGED clock
    BY <1>3 DEF Forwards, bounds
  <2>3. B!Repeat(p) \/ UNCHANGED engSeen
    BY <2>1 DEF B!Forward, B!NotRepeated, B!Reinject, B!Publish, B!SendNext, B!Emit,
                B!SendReturns, B!Sent, B!tables
  <2>4. QED
    BY <1>1, <1>2, <2>2, <2>3
<1>4. CASE Ticks
  <2>1. /\ clock < MaxClock /\ clock' = clock + 1
        /\ engSeen' = [c \in Contents |-> B!Older(engSeen[c], EngineTTL)]
    BY <1>4 DEF Ticks, B!AgeTables
  <2>2. ASSUME NEW c \in Contents, engSeen'[c] # Absent
        PROVE  engSeen'[c] <= clock + 1
    <3>1. PICK age \in B!Ages(EngineTTL) : age = engSeen[c]
      BY DEF AgeInv
    <3>2. engSeen'[c] = B!Older(age, EngineTTL)
      BY <2>1, <3>1
    <3>3. age # Absent
      BY <2>2, <3>2 DEF B!Older
    <3>4. age \in Nat /\ age <= clock /\ clock \in Nat
      BY <3>1, <3>3, PathAssumption DEF AgeInv, B!Ages
    <3>5. QED
      BY <3>2, <3>3, <3>4 DEF B!Older
  <2>3. QED
    BY <2>1, <2>2 DEF AgeInv, NestInv
<1>5. CASE ~Forwards /\ ~Ticks
  <2>1. UNCHANGED <<clock, engSeen>>
    BY <1>5 DEF Next, Hears, Reads, HandsOver, Receives, Injects, Confirms, Starts, Stops,
       Updates, B!RxLoop, B!InjectOwn, B!InjectReceived, B!Confirmed, B!Run, B!Stop,
       B!UpdateRules, B!SetMode, B!tables, bridgeVars, bounds, vars
  <2>2. QED
    BY <1>1, <2>1
<1>6. QED
  BY <1>3, <1>4, <1>5

LEMMA AgeTimely ==
    ASSUME MaxClock \in Nat, MaxClock < EngineTTL, NestInv, AgeInv
    PROVE  Timely
<1> SUFFICES ASSUME NEW p \in B!Procs, Len(calls[p]) = 2,
                    engSeen[B!Top(p).content] = EngineTTL
             PROVE  FALSE
  BY DEF Timely
<1>1. Nested(calls[p], Marked) /\ calls[p] # <<>>
  BY StackFacts DEF NestInv
<1>2. B!Top(p).content \in Contents
  BY <1>1, TopIsCall DEF B!Top, IsCall
<1>3. EngineTTL # Absent
  BY PathAssumption
<1>4. EngineTTL <= clock /\ clock \in Nat /\ clock <= MaxClock
  BY <1>2, <1>3 DEF AgeInv
<1>5. QED
  BY <1>4, PathAssumption

(* NestingBounded in the behaviours the run looks at, which are shorter    *)
(* than the life of a record.                                              *)
THEOREM ShortRunsNestOnce ==
    ASSUME MaxClock \in Nat, MaxClock < EngineTTL
    PROVE  Spec => []NestingBounded
<1>1. Init => HandoverInv /\ NestInv /\ AgeInv
  <2>1. ASSUME Init
        PROVE  AgeInv
    BY <2>1 DEF Init, B!BInit, AgeInv, B!Ages
  <2>2. QED
    BY <2>1, HandoverInit, NestInit
<1>2. HandoverInv /\ NestInv /\ AgeInv /\ [Next]_vars => HandoverInv' /\ NestInv' /\ AgeInv'
  BY HandoverStep, NestStep, AgeTimely, AgeStep DEF HandoverInv
<1>3. NestInv => NestingBounded
  BY NestInvBounds
<1>4. QED
  BY <1>1, <1>2, <1>3, PTL DEF Spec

-----------------------------------------------------------------------------
(* The calls of a packet from its first receiver to the antennas.          *)

(* A set of natural numbers with an element has a least one.               *)
LEMMA LeastNatural ==
    ASSUME NEW T, T \subseteq Nat, T # {}
    PROVE  \E x \in T : \A y \in T : x <= y
<1> DEFINE R == {ss \in Nat \X Nat : ss[1] < ss[2]}
<1>1. IsWellFoundedOn(R, Nat)
  BY NatLessThanWellFounded, SMT DEF OpToRel
<1>2. PICK x \in T : \A y \in T : ~(<<y, x>> \in R)
  <2> HIDE DEF R
  <2>1. QED
    BY <1>1, WFMin
<1>3. ASSUME NEW y \in T
      PROVE  x <= y
  <2>1. x \in Nat /\ y \in Nat /\ ~(<<y, x>> \in R)
    BY <1>2
  <2>2. ~(y < x)
    BY <2>1
  <2>3. QED
    BY <2>1, <2>2
<1>4. QED
  BY <1>3

(* A set of indices can be written in rising order.                        *)
LEMMA RisingExists ==
    ASSUME NEW n \in Nat, NEW I, I \subseteq 1..n
    PROVE  /\ IsFiniteSet(I) /\ Cardinality(I) \in Nat
           /\ \E f \in [1..Cardinality(I) -> I] :
                 \A i, j \in DOMAIN f : i < j => f[i] < f[j]
<1> DEFINE Rises(J) == /\ IsFiniteSet(J) /\ Cardinality(J) \in Nat
                       /\ \E f \in [1..Cardinality(J) -> J] :
                             \A i, j \in DOMAIN f : i < j => f[i] < f[j]
<1> DEFINE T == {m \in Nat : \A J \in SUBSET (1..m) : Rises(J)}
<1>1. 0 \in T
  <2>1. SUFFICES ASSUME NEW J \in SUBSET (1..0)
                 PROVE  Rises(J)
    OBVIOUS
  <2>2. J = {}
    OBVIOUS
  <2>3. IsFiniteSet(J) /\ Cardinality(J) = 0
    BY <2>2, FS_EmptySet
  <2> DEFINE f == [i \in 1..0 |-> 0]
  <2>4. f \in [1..0 -> J] /\ \A i, j \in DOMAIN f : i < j => f[i] < f[j]
    OBVIOUS
  <2> HIDE DEF f
  <2> DEFINE c == Cardinality(J)
  <2>5. c = 0 /\ IsFiniteSet(J)
    BY <2>3
  <2> HIDE DEF c
  <2>6. \E h \in [1..c -> J] : \A i, j \in DOMAIN h : i < j => h[i] < h[j]
    BY <2>4, <2>5
  <2>7. IsFiniteSet(J) /\ Cardinality(J) \in Nat
    BY <2>3
  <2>8. QED
    BY <2>6, <2>7 DEF c
<1>2. ASSUME NEW m \in Nat, m \in T
      PROVE  m + 1 \in T
  <2>1. SUFFICES ASSUME NEW J \in SUBSET (1..(m + 1))
                 PROVE  Rises(J)
    OBVIOUS
  <2>2. \A K \in SUBSET (1..m) : Rises(K)
    BY <1>2
  <2>3. CASE m + 1 \notin J
    <3>1. J \in SUBSET (1..m)
      BY <2>3
    <3>2. QED
      BY <2>2, <3>1
  <2>4. CASE m + 1 \in J
    <3> DEFINE K == J \ {m + 1}
    <3>1. K \in SUBSET (1..m) /\ J = K \cup {m + 1} /\ m + 1 \notin K
      BY <2>4
    <3> HIDE DEF K
    <3>2. IsFiniteSet(K) /\ Cardinality(K) \in Nat
      BY <2>2, <3>1
    <3>3. PICK f \in [1..Cardinality(K) -> K] :
             \A i, j \in DOMAIN f : i < j => f[i] < f[j]
      BY <2>2, <3>1
    <3>4. IsFiniteSet(J) /\ Cardinality(J) = Cardinality(K) + 1
      BY <3>1, <3>2, FS_AddElement
    <3> DEFINE c == Cardinality(K)
    <3> DEFINE g == [i \in 1..(c + 1) |-> IF i = c + 1 THEN m + 1 ELSE f[i]]
    <3>5. g \in [1..(c + 1) -> J]
      BY <3>1, <3>2, <3>3
    <3>6. ASSUME NEW i \in 1..(c + 1), NEW j \in 1..(c + 1), i < j
          PROVE  g[i] < g[j]
      <4> HIDE DEF c
      <4>0. c \in Nat /\ i \in 1..c
        BY <3>2, <3>6 DEF c
      <4>1. c \in Nat /\ i \in 1..c /\ g[i] = f[i] /\ f[i] \in 1..m
        <5>1. f \in [1..c -> K] /\ K \subseteq 1..m
          BY <3>1, <3>3 DEF c
        <5>2. g[i] = f[i]
          BY <4>0
        <5>3a. f[i] \in K
          <6> HIDE DEF g
          <6>1. QED
            BY <4>0, <5>1
        <5>3. QED
          BY <4>0, <5>1, <5>2, <5>3a
      <4>2. CASE j = c + 1
        BY <4>1, <4>2
      <4>3. CASE j # c + 1
        <5>1. j \in 1..c /\ g[j] = f[j] /\ DOMAIN f = 1..c
          BY <3>3, <4>0, <4>3 DEF c
        <5>2. QED
          BY <3>3, <3>6, <4>1, <5>1
      <4>4. QED
        BY <4>2, <4>3
    <3>7. DOMAIN g = 1..(c + 1)
      OBVIOUS
    <3>8. \A i, j \in DOMAIN g : i < j => g[i] < g[j]
      BY <3>6, <3>7
    <3> HIDE DEF g
    <3>9. QED
      BY <3>2, <3>4, <3>5, <3>8
  <2>5. QED
    BY <2>3, <2>4
<1> HIDE DEF T
<1>3. n \in T
  <2>1. SUFFICES ASSUME n \notin T
                 PROVE  FALSE
    OBVIOUS
  <2>2. PICK m \in Nat \ T : \A k \in Nat \ T : m <= k
    BY <2>1, LeastNatural
  <2>3. m # 0 /\ m - 1 \in Nat /\ m - 1 \in T
    BY <1>1, <2>2
  <2>4. (m - 1) + 1 \in T
    BY <1>2, <2>3
  <2>5. QED
    BY <2>2, <2>4
<1>4. Rises(I)
  BY <1>3 DEF T
<1>5. QED
  BY <1>4

(* The cardinality that Bridge knows is the library's.                     *)
LEMMA BridgeCardinality ==
    ASSUME NEW S
    PROVE  B!Cardinality(S) = Cardinality(S)
BY DEF B!Cardinality, Cardinality

(* Ascending: the order a set of rules is gone through in.                 *)
LEMMA AscendingFacts ==
    ASSUME NEW n \in Nat, NEW I, I \subseteq 1..n
    PROVE  /\ Cardinality(I) \in Nat
           /\ B!Ascending(I) \in [1..Cardinality(I) -> I]
           /\ \A i, j \in 1..Cardinality(I) :
                 B!Ascending(I)[i] = B!Ascending(I)[j] => i = j
<1> DEFINE f == B!Ascending(I)
<1> DEFINE m == Cardinality(I)
<1>1. m \in Nat
  BY RisingExists
<1>2. /\ \E g \in [1..m -> I] : \A i, j \in DOMAIN g : i < j => g[i] < g[j]
      /\ B!Cardinality(I) = m
  BY RisingExists, BridgeCardinality
<1>3. f \in [1..m -> I] /\ \A i, j \in DOMAIN f : i < j => f[i] < f[j]
  BY <1>2 DEF B!Ascending
<1> HIDE DEF f, m
<1>4. ASSUME NEW i \in 1..m, NEW j \in 1..m, f[i] = f[j]
      PROVE  i = j
  <2>1. f[i] \in I /\ f[j] \in I
    BY <1>3
  <2>2. f[i] \in Nat /\ f[j] \in Nat /\ i \in Nat /\ j \in Nat
    <3>1. f[i] \in 1..n /\ f[j] \in 1..n
      BY <2>1
    <3>2. f[i] \in Nat /\ f[j] \in Nat
      BY <3>1
    <3>3. i \in Nat /\ j \in Nat
      BY <1>1
    <3>4. QED
      BY <3>2, <3>3
  <2>3. i \in DOMAIN f /\ j \in DOMAIN f
    BY <1>3
  <2>4. ~(i < j) /\ ~(j < i)
    BY <1>3, <1>4, <2>2, <2>3
  <2>5. QED
    BY <2>2, <2>4
<1>5. QED
  BY <1>1, <1>3, <1>4 DEF f, m

(* Targets: each is that of a rule of the set, and of one of its own.      *)
LEMMA TargetsFacts ==
    ASSUME NEW n \in Nat, NEW I, I \subseteq 1..n
    PROVE  /\ B!Targets(I) \in Seq({rules[i].target : i \in I})
           /\ \A k \in DOMAIN B!Targets(I) :
                 /\ B!Ascending(I)[k] \in I
                 /\ B!Targets(I)[k] = rules[B!Ascending(I)[k]].target
           /\ \A k, l \in DOMAIN B!Targets(I) :
                 B!Ascending(I)[k] = B!Ascending(I)[l] => k = l
<1> DEFINE f == B!Ascending(I)
<1> DEFINE m == Cardinality(I)
<1> DEFINE S == {rules[i].target : i \in I}
<1>1. /\ m \in Nat /\ f \in [1..m -> I]
      /\ \A i, j \in 1..m : f[i] = f[j] => i = j
  BY AscendingFacts
<1>2. B!Targets(I) = [k \in 1..m |-> rules[f[k]].target]
  BY BridgeCardinality DEF B!Targets
<1> HIDE DEF f, m
<1>3. ASSUME NEW k \in 1..m
      PROVE  f[k] \in I /\ rules[f[k]].target \in S
  BY <1>1, <1>3
<1>4. [k \in 1..m |-> rules[f[k]].target] \in Seq(S)
  <2> HIDE DEF S
  <2>1. [k \in 1..m |-> rules[f[k]].target] \in [1..m -> S]
    BY <1>3
  <2>2. QED
    BY <1>1, <2>1
<1>5. QED
  BY <1>1, <1>2, <1>3, <1>4 DEF f, m

(* What the rules may lead to.                                             *)
AllTargets == UNION {{list[i].target : i \in DOMAIN list} : list \in RuleSets}

(* A call that sends to each antenna once at most, and is in the delay for *)
(* the repeater.                                                           *)
Sound(call) ==
    /\ call.sends \in Seq(AllTargets)
    /\ call.inline \in Seq(AllTargets \cup {"repeater"})
    /\ call.stage = "delay" => call.inline # <<>> /\ Head(call.inline) = "repeater"
    /\ \A a \in B!Antennas, i, j \in DOMAIN call.sends :
          call.sends[i] = a /\ call.sends[j] = a => i = j

(* The sends of a call: rules' targets, and each antenna at most once.     *)
LEMMA SendsFacts ==
    ASSUME OneWay, rules \in RuleSets, NEW c \in Contents \ OwnContents,
           NEW src \in B!Antennas \cup {"repeater"}, NEW origin
    PROVE  LET q == B!Sends(src, c, origin)
           IN  /\ q \in Seq(AllTargets)
               /\ \A a \in B!Antennas, i, j \in DOMAIN q : q[i] = a /\ q[j] = a => i = j
               /\ \A a \in B!Antennas, i \in DOMAIN q :
                     q[i] = a => Leads(rules, src, c, a) # {}
<1> DEFINE rf == {i \in B!Matching(src, c) :
                    /\ rules[i].target \notin B!Inline
                    /\ ~(rules[i].target \in Radios /\ rules[i].target = src)}
<1> DEFINE first == {i \in rf : rules[i].target = origin}
<1> DEFINE rest == rf \ first
<1> DEFINE q == B!Sends(src, c, origin)
<1> DEFINE q1 == B!Targets(first)
<1> DEFINE q2 == B!Targets(rest)
<1>1. /\ Len(rules) \in Nat /\ DOMAIN rules = 1..Len(rules)
      /\ \A a \in B!Antennas : \A i, j \in Leads(rules, src, c, a) : i = j
  <2>1. "channel_e" \in B!Antennas
    BY DEF B!Antennas
  <2>2. QED
    BY <2>1 DEF OneWay
<1>2. q = q1 \o q2
  BY DEF B!Sends
<1>3. /\ first \subseteq rf /\ rest \subseteq rf /\ first \cap rest = {}
      /\ rf \subseteq 1..Len(rules)
  BY <1>1 DEF B!Matching
<1>4. ASSUME NEW i \in rf
      PROVE  /\ rules[i].target \in AllTargets
             /\ i \in Leads(rules, src, c, rules[i].target)
  BY DEF B!Matching, Leads, AllTargets
<1> HIDE DEF first, rest, q
<1>5. /\ q1 \in Seq({rules[i].target : i \in first})
      /\ \A k \in DOMAIN q1 : /\ B!Ascending(first)[k] \in first
                              /\ q1[k] = rules[B!Ascending(first)[k]].target
      /\ \A k, l \in DOMAIN q1 :
            B!Ascending(first)[k] = B!Ascending(first)[l] => k = l
  <2>1. first \subseteq 1..Len(rules)
    BY <1>3
  <2>2. QED
    BY <1>1, <2>1, TargetsFacts
<1>6. /\ q2 \in Seq({rules[i].target : i \in rest})
      /\ \A k \in DOMAIN q2 : /\ B!Ascending(rest)[k] \in rest
                              /\ q2[k] = rules[B!Ascending(rest)[k]].target
      /\ \A k, l \in DOMAIN q2 :
            B!Ascending(rest)[k] = B!Ascending(rest)[l] => k = l
  <2>1. rest \subseteq 1..Len(rules)
    BY <1>3
  <2>2. QED
    BY <1>1, <2>1, TargetsFacts
<1> DEFINE f1 == B!Ascending(first)
<1> DEFINE f2 == B!Ascending(rest)
<1> HIDE DEF q1, q2, f1, f2, rf
<1>7. q1 \in Seq(AllTargets) /\ q2 \in Seq(AllTargets)
  <2>1. /\ {rules[i].target : i \in first} \subseteq AllTargets
        /\ {rules[i].target : i \in rest} \subseteq AllTargets
    BY <1>3, <1>4
  <2>2. QED
    BY <1>5, <1>6, <2>1
<1> DEFINE m == Len(q1)
<1> DEFINE Index(k) == IF k <= m THEN f1[k] ELSE f2[k - m]
<1>8. /\ m \in Nat /\ Len(q2) \in Nat
      /\ DOMAIN q1 = 1..m /\ DOMAIN q2 = 1..Len(q2)
      /\ q \in Seq(AllTargets) /\ DOMAIN q = 1..(m + Len(q2))
      /\ \A k \in 1..m : q[k] = q1[k]
      /\ \A k \in (m + 1)..(m + Len(q2)) : q[k] = q2[k - m]
  BY <1>2, <1>7
<1> HIDE DEF m
<1>9. ASSUME NEW k \in DOMAIN q
      PROVE  /\ k <= m => k \in 1..m /\ f1[k] \in first /\ q[k] = rules[f1[k]].target
             /\ ~(k <= m) => /\ k - m \in DOMAIN q2 /\ f2[k - m] \in rest
                             /\ q[k] = rules[f2[k - m]].target
  <2>1. CASE k <= m
    <3>1. k \in 1..m /\ k \in DOMAIN q1
      BY <1>8, <2>1
    <3>2. QED
      BY <1>5, <1>8, <2>1, <3>1 DEF f1
  <2>2. CASE ~(k <= m)
    <3>1. k \in (m + 1)..(m + Len(q2)) /\ k - m \in DOMAIN q2
      BY <1>8, <2>2
    <3>2. QED
      BY <1>6, <1>8, <2>2, <3>1 DEF f2
  <2>3. QED
    BY <2>1, <2>2
<1>10. ASSUME NEW k \in DOMAIN q
       PROVE  Index(k) \in rf /\ q[k] = rules[Index(k)].target
  BY <1>3, <1>9
<1>11. ASSUME NEW k \in DOMAIN q, NEW l \in DOMAIN q, Index(k) = Index(l)
       PROVE  k = l
  <2>1. CASE k <= m /\ l <= m
    <3>1. f1[k] = f1[l]
      BY <1>11, <2>1
    <3>2. k \in DOMAIN q1 /\ l \in DOMAIN q1
      BY <1>8, <1>9, <2>1
    <3>3. \A x, y \in DOMAIN q1 : f1[x] = f1[y] => x = y
      BY <1>5 DEF f1
    <3>4. QED
      BY <3>1, <3>2, <3>3
  <2>2. CASE ~(k <= m) /\ ~(l <= m)
    <3>1. k - m = l - m
      BY <1>6, <1>9, <1>11, <2>2 DEF f2
    <3>2. k \in Nat /\ l \in Nat
      BY <1>8
    <3>3. QED
      BY <1>8, <3>1, <3>2
  <2>3. CASE (k <= m /\ ~(l <= m)) \/ (~(k <= m) /\ l <= m)
    BY <1>3, <1>9, <1>11, <2>3
  <2>4. QED
    BY <2>1, <2>2, <2>3
<1>12. ASSUME NEW a \in B!Antennas, NEW k \in DOMAIN q, q[k] = a
       PROVE  Index(k) \in Leads(rules, src, c, a)
  BY <1>4, <1>10, <1>12
<1> HIDE DEF Index
<1>13. ASSUME NEW a \in B!Antennas, NEW k \in DOMAIN q, NEW l \in DOMAIN q, q[k] = a, q[l] = a
       PROVE  k = l
  BY <1>1, <1>11, <1>12, <1>13
<1>14. QED
  BY <1>8, <1>12, <1>13 DEF q

(* A call made by the rules: sound, and on the rules' ways.                *)
LEMMA CallFacts ==
    ASSUME OneWay, rules \in RuleSets, NEW c \in Contents \ OwnContents,
           NEW src \in B!Antennas \cup {"repeater"}, NEW origin
    PROVE  LET call == B!Call(src, c, origin)
           IN  /\ Sound(call)
               /\ \A a \in B!Antennas, i \in DOMAIN call.sends :
                     call.sends[i] = a => Leads(rules, src, c, a) # {}
               /\ \A i \in DOMAIN call.inline :
                     call.inline[i] = "repeater" =>
                        \/ Leads(rules, src, c, "repeater") # {}
                        \/ rules = <<>>
<1> DEFINE call == B!Call(src, c, origin)
<1> DEFINE I == {i \in B!Matching(src, c) : rules[i].target \in B!Inline}
<1> DEFINE in == B!Targets(I)
<1>1. call.sends = B!Sends(src, c, origin)
  BY DEF B!Call
<1>2. call.inline = IF rules = <<>> /\ src # "repeater" THEN <<"repeater">> ELSE in
  BY DEF B!Call
<1>3. Len(rules) \in Nat /\ DOMAIN rules = 1..Len(rules)
  <2>1. "channel_e" \in B!Antennas
    BY DEF B!Antennas
  <2>2. QED
    BY <2>1 DEF OneWay
<1>4. I \subseteq 1..Len(rules)
  BY <1>3 DEF B!Matching
<1>5. ASSUME NEW i \in I
      PROVE  /\ rules[i].target \in AllTargets
             /\ rules[i].target = "repeater" => i \in Leads(rules, src, c, "repeater")
  BY PathAssumption DEF B!Matching, Leads, AllTargets
<1> HIDE DEF I, call
<1>6. /\ in \in Seq({rules[i].target : i \in I})
      /\ \A k \in DOMAIN in : /\ B!Ascending(I)[k] \in I
                              /\ in[k] = rules[B!Ascending(I)[k]].target
  BY <1>3, <1>4, TargetsFacts
<1> HIDE DEF in
<1>7. in \in Seq(AllTargets \cup {"repeater"})
  <2>1. {rules[i].target : i \in I} \subseteq AllTargets \cup {"repeater"}
    BY <1>5
  <2>2. QED
    BY <1>6, <2>1
<1>8. ASSUME NEW k \in DOMAIN in, in[k] = "repeater"
      PROVE  Leads(rules, src, c, "repeater") # {}
  BY <1>5, <1>6, <1>8
<1>9. /\ call.inline \in Seq(AllTargets \cup {"repeater"})
      /\ \A i \in DOMAIN call.inline :
            call.inline[i] = "repeater" =>
               Leads(rules, src, c, "repeater") # {} \/ rules = <<>>
  <2>1. CASE rules = <<>> /\ src # "repeater"
    <3>1. call.inline = <<"repeater">>
      BY <1>2, <2>1
    <3>2. <<"repeater">> \in Seq(AllTargets \cup {"repeater"})
      OBVIOUS
    <3>3. QED
      BY <2>1, <3>1, <3>2
  <2>2. CASE ~(rules = <<>> /\ src # "repeater")
    BY <1>2, <1>7, <1>8, <2>2
  <2>3. QED
    BY <2>1, <2>2
<1>10. call.stage = "rules"
  BY DEF B!Call, call
<1>11. QED
  BY <1>1, <1>9, <1>10, SendsFacts DEF Sound, call

-----------------------------------------------------------------------------
(* What is still to come of a call.                                        *)

(* The first of its sends is on the air.                                   *)
Flown(call, fly) == call.stage = "sending" /\ fly \in {"emitted", "confirmed"}

(* It has a send on a to come.                                             *)
Owes(call, fly, a) ==
    \E i \in DOMAIN call.sends : call.sends[i] = a /\ (i = 1 => ~Flown(call, fly))

(* The repeater's rules, of whatever list, lead the packet to a.           *)
Repeatable(c, a) == \E list \in RuleSets : Leads(list, "repeater", c, a) # {}

(* The repeater may inject the packet of the call for a, where m are those *)
(* the engine has on record.                                               *)
Due(call, m, a) ==
    /\ \/ call.stage = "delay"
       \/ /\ call.content \notin m
          /\ \E i \in DOMAIN call.inline : call.inline[i] = "repeater"
    /\ Repeatable(call.content, a)

(* What is to come on an antenna comes once and is the first there, where  *)
(* n are the emissions so far: of a call alone, and of one in another.     *)
Single(x, fly, m, n) ==
    /\ Sound(x)
    /\ \A a \in B!Antennas :
          /\ ~(Owes(x, fly, a) /\ Due(x, m, a))
          /\ Owes(x, fly, a) \/ Due(x, m, a) => n[<<x.content, a>>] = 0

Double(x, y, fly, n) ==
    /\ Sound(x) /\ Sound(y)
    /\ \A a \in B!Antennas :
          /\ ~(Owes(x, fly, a) /\ Owes(y, fly, a))
          /\ Owes(x, fly, a) \/ Owes(y, fly, a) => n[<<x.content, a>>] = 0

Good(stack, fly, m, n) ==
    /\ \A x : stack = <<x>> => x.content \in OwnContents \/ Single(x, fly, m, n)
    /\ \A x, y : stack = <<x, y>> =>
          /\ x.content = y.content /\ x.stage = "rules"
          /\ x.content \in OwnContents \/ Double(x, y, fly, n)

(* A process awaits a send if and only if it is in a call that sends.      *)
Flying(stack, fly) ==
    IF fly = "none"
    THEN stack # <<>> => B!Last(stack).stage # "sending"
    ELSE /\ stack # <<>>
         /\ B!Last(stack).stage = "sending"
         /\ B!Last(stack).sends # <<>>

(* The packet of the innermost call is c.                                  *)
Carries(stack, c) == stack # <<>> /\ B!Last(stack).content = c

(* The packets of other nodes.                                             *)
Others == Contents \ OwnContents

(* The records of the bridge, and the emissions.                           *)
SeenInv ==
    /\ clock \in Nat /\ clock <= MaxClock
    /\ seen \in [Contents -> B!Ages(SeenTTL)]
    /\ \A c \in Contents : seen[c] # Absent => seen[c] <= clock
    /\ rules \in RuleSets
    /\ aired \in [Contents \X B!Antennas -> Nat]
    /\ air = [p \in B!Procs |-> air[p]]

(* A packet of another node is in the hands of one process, and unknown to *)
(* everybody before the bridge has recorded it.                            *)
HeldInv ==
    /\ \A c \in Others, p, q \in B!Procs :
          Carries(calls[p], c) /\ Carries(calls[q], c) => p = q
    /\ \A c \in Others :
          seen[c] = Absent =>
             /\ \A p \in B!Procs : ~Carries(calls[p], c)
             /\ \A a \in B!Antennas : aired[<<c, a>>] = 0

(* And each process sends what it has to send as the first.                *)
SendInv ==
    \A p \in B!Procs :
       Good(calls[p], air[p], Marked, aired) /\ Flying(calls[p], air[p])

(* OncePerAntenna, for the pairs that aired is a function of.              *)
Firsts == \A c \in Others, a \in B!Antennas : aired[<<c, a>>] <= 1

(* OncePerAntenna in the terms of the lemmas.                              *)
LEMMA FirstsMeans ==
    ASSUME SeenInv, Firsts
    PROVE  OncePerAntenna
<1>1. ASSUME NEW c \in Contents \ OwnContents, NEW a \in B!Antennas
      PROVE  aired[c, a] <= 1
  <2>1. aired[c, a] = aired[<<c, a>>]
    BY DEF SeenInv
  <2>2. QED
    BY <2>1 DEF Firsts, Others
<1>2. QED
  BY <1>1 DEF OncePerAntenna

(* Records that come leave less to repeat.                                 *)
LEMMA GoodLater ==
    ASSUME NEW stack, NEW fly, NEW m, NEW k, NEW n, NEW o,
           Good(stack, fly, m, n), m \subseteq k,
           \A c \in Others : Carries(stack, c) =>
              \A a \in B!Antennas : o[<<c, a>>] = n[<<c, a>>],
           \A x : stack = <<x>> => x.content \in Contents,
           \A x, y : stack = <<x, y>> => y.content \in Contents
    PROVE  Good(stack, fly, k, o)
<1>1. ASSUME NEW x, stack = <<x>>, x.content \notin OwnContents
      PROVE  Single(x, fly, k, o)
  <2>1. Single(x, fly, m, n)
    BY <1>1 DEF Good
  <2>2. x.content \in Others /\ Carries(stack, x.content)
    BY <1>1, StackFacts DEF Others, Carries
  <2>3. ASSUME NEW a
        PROVE  Due(x, k, a) => Due(x, m, a)
    BY DEF Due
  <2>4. \A a \in B!Antennas : o[<<x.content, a>>] = n[<<x.content, a>>]
    BY <2>2
  <2>5. QED
    BY <2>1, <2>3, <2>4 DEF Single
<1>2. ASSUME NEW x, NEW y, stack = <<x, y>>
      PROVE  /\ x.content = y.content /\ x.stage = "rules"
             /\ x.content \in OwnContents \/ Double(x, y, fly, o)
  <2>1. /\ x.content = y.content /\ x.stage = "rules"
        /\ x.content \in OwnContents \/ Double(x, y, fly, n)
    BY <1>2 DEF Good
  <2>2. CASE x.content \notin OwnContents
    <3>1. y.content \in Others /\ Carries(stack, y.content)
      BY <1>2, <2>1, <2>2, StackFacts DEF Others, Carries
    <3>2. \A a \in B!Antennas : o[<<x.content, a>>] = n[<<x.content, a>>]
      BY <2>1, <3>1
    <3>3. Double(x, y, fly, n)
      BY <2>1, <2>2
    <3>4. QED
      BY <2>1, <3>2, <3>3 DEF Double
  <2>3. QED
    BY <2>1, <2>2
<1>3. QED
  BY <1>1, <1>2 DEF Good

(* Stacks of none, one and two calls.                                      *)
LEMMA StacksDiffer ==
    /\ \A a, b : <<a>> = <<b>> => a = b
    /\ \A a, b, c : <<a>> # <<b, c>> /\ <<>> # <<a>> /\ <<>> # <<b, c>>
    /\ \A a, b, c, d : <<a, b>> = <<c, d>> => a = c /\ b = d
OBVIOUS

(* Calls are for packets.                                                  *)
LEMMA NestedContents ==
    ASSUME NEW stack, NEW m, Nested(stack, m)
    PROVE  /\ \A x : stack = <<x>> => x.content \in Contents
           /\ \A x, y : stack = <<x, y>> => y.content \in Contents
BY StacksDiffer DEF Nested, IsCall

(* Calls that return leave the rest as it was.                             *)
LEMMA UnwindGood ==
    ASSUME NEW stack, NEW fly, NEW m, NEW n,
           Nested(stack, m), Good(stack, fly, m, n), Flying(stack, fly)
    PROVE  /\ Good(B!Unwind(stack), fly, m, n)
           /\ Flying(B!Unwind(stack), fly)
           /\ \A c : Carries(B!Unwind(stack), c) => Carries(stack, c)
<1>1. CASE B!Unwind(stack) = stack
  BY <1>1
<1>2. CASE B!Unwind(stack) # stack
  <2>1. B!Over(stack) /\ B!Unwind(stack) = B!Front(stack)
    BY <1>2 DEF B!Unwind
  <2>2. stack # <<>> /\ B!Last(stack).stage = "rules" /\ fly = "none"
    BY <2>1 DEF B!Over, Flying
  <2>3. ASSUME NEW x, stack = <<x>>
        PROVE  B!Unwind(stack) = <<>>
    BY <2>1, <2>3, StackFacts
  <2>4. ASSUME NEW x, NEW y, stack = <<x, y>>, y.content \in m, x.stage # "delay"
        PROVE  /\ B!Unwind(stack) = <<x>>
               /\ Good(<<x>>, fly, m, n)
               /\ Flying(<<x>>, fly)
               /\ \A c : Carries(<<x>>, c) => Carries(stack, c)
    <3>1. B!Unwind(stack) = <<x>> /\ B!Last(stack) = y /\ B!Last(<<x>>) = x
      BY <2>1, <2>4, StackFacts
    <3>2. /\ x.content = y.content /\ x.stage = "rules"
          /\ x.content \in OwnContents \/ Double(x, y, fly, n)
      BY <2>4 DEF Good
    <3>3. ASSUME NEW a
          PROVE  ~Due(x, m, a)
      BY <2>4, <3>2 DEF Due
    <3>4. x.content \in OwnContents \/ Single(x, fly, m, n)
      BY <3>2, <3>3 DEF Single, Double
    <3>5. Good(<<x>>, fly, m, n)
      BY <3>4, StacksDiffer DEF Good
    <3>6. Flying(<<x>>, fly)
      BY <2>2, <3>1, <3>2 DEF Flying
    <3>7. QED
      BY <2>2, <3>1, <3>2, <3>5, <3>6 DEF Carries
  <2>5. CASE B!Unwind(stack) = <<>>
    BY <2>2, <2>5, StacksDiffer DEF Good, Flying, Carries
  <2>6. QED
    BY <2>2, <2>3, <2>4, <2>5 DEF Nested
<1>3. QED
  BY <1>1, <1>2

-----------------------------------------------------------------------------
(* What becomes of a call.                                                 *)

(* A call b that has no more to come than a.                               *)
Less(b, gly, k, a, fly, m) ==
    /\ Sound(b)
    /\ \A t \in B!Antennas : /\ Owes(b, gly, t) => Owes(a, fly, t)
                             /\ Due(b, k, t) => Due(a, m, t)

(* What a change of a call leaves of its fields.                           *)
LEMMA CallFields ==
    ASSUME NEW a, IsCall(a), NEW g, NEW i, NEW s
    PROVE  /\ LET b == [a EXCEPT !.inline = i]
              IN /\ b.inline = i /\ b.sends = a.sends
                 /\ b.stage = a.stage /\ b.content = a.content
           /\ LET b == [a EXCEPT !.stage = g]
              IN /\ b.inline = a.inline /\ b.sends = a.sends
                 /\ b.stage = g /\ b.content = a.content
           /\ LET b == [a EXCEPT !.sends = s]
              IN /\ b.inline = a.inline /\ b.sends = s
                 /\ b.stage = a.stage /\ b.content = a.content
           /\ LET b == [a EXCEPT !.stage = g, !.inline = i]
              IN /\ b.inline = i /\ b.sends = a.sends
                 /\ b.stage = g /\ b.content = a.content
           /\ LET b == [a EXCEPT !.stage = g, !.sends = s]
              IN /\ b.inline = a.inline /\ b.sends = s
                 /\ b.stage = g /\ b.content = a.content
<1>1. a = [src |-> a.src, content |-> a.content, origin |-> a.origin,
           stage |-> a.stage, inline |-> a.inline, sends |-> a.sends]
  BY DEF IsCall
<1>2. QED
  BY <1>1

(* The tail of a sequence, place by place.                                 *)
LEMMA TailFacts ==
    ASSUME NEW S, NEW q \in Seq(S), q # <<>>
    PROVE  /\ Tail(q) \in Seq(S)
           /\ \A i \in DOMAIN Tail(q) : /\ i + 1 \in DOMAIN q /\ i + 1 # 1
                                        /\ Tail(q)[i] = q[i + 1] /\ i \in Nat
OBVIOUS

(* The head of the endpoints to call in place is done.                     *)
LEMMA LessInline ==
    ASSUME NEW a, IsCall(a), Sound(a), NEW b, NEW fly, NEW m,
           b.sends = a.sends, b.content = a.content,
           a.inline # <<>>, b.inline = Tail(a.inline),
           b.stage # "delay", a.stage = "sending" => b.stage = "sending"
    PROVE  Less(b, fly, m, a, fly, m)
<1>1. /\ Tail(a.inline) \in Seq(AllTargets \cup {"repeater"})
      /\ \A i \in DOMAIN Tail(a.inline) : /\ i + 1 \in DOMAIN a.inline
                                          /\ Tail(a.inline)[i] = a.inline[i + 1]
  BY TailFacts DEF Sound
<1>2. Sound(b)
  BY <1>1 DEF Sound
<1>3. ASSUME NEW t
      PROVE  Owes(b, fly, t) => Owes(a, fly, t)
  BY DEF Owes, Flown
<1>4. ASSUME NEW t, Due(b, m, t)
      PROVE  Due(a, m, t)
  <2>1. CASE \E i \in DOMAIN b.inline : b.inline[i] = "repeater"
    <3>1. \E i \in DOMAIN a.inline : a.inline[i] = "repeater"
      BY <1>1, <2>1
    <3>2. QED
      BY <1>4, <3>1 DEF Due
  <2>2. QED
    BY <1>4, <2>1 DEF Due
<1>5. QED
  BY <1>2, <1>3, <1>4 DEF Less

(* The head of the sends is done.                                          *)
LEMMA LessSends ==
    ASSUME NEW a, IsCall(a), Sound(a), NEW b, NEW fly, NEW gly, NEW m,
           b.content = a.content, b.inline = a.inline,
           a.sends # <<>>, b.sends = Tail(a.sends), b.stage # "delay"
    PROVE  Less(b, gly, m, a, fly, m)
<1>1. /\ Tail(a.sends) \in Seq(AllTargets)
      /\ \A i \in DOMAIN Tail(a.sends) : /\ i + 1 \in DOMAIN a.sends /\ i + 1 # 1
                                         /\ Tail(a.sends)[i] = a.sends[i + 1]
                                         /\ i \in Nat
  BY TailFacts DEF Sound
<1>2. ASSUME NEW t \in B!Antennas, NEW i \in DOMAIN b.sends, NEW j \in DOMAIN b.sends,
             b.sends[i] = t, b.sends[j] = t
      PROVE  i = j
  <2>1. i + 1 = j + 1
    BY <1>1, <1>2 DEF Sound
  <2>2. i \in Nat /\ j \in Nat
    BY <1>1
  <2>3. QED
    BY <2>1, <2>2
<1>3. Sound(b)
  BY <1>1, <1>2 DEF Sound
<1>4. ASSUME NEW t, Owes(b, gly, t)
      PROVE  Owes(a, fly, t)
  <2>1. PICK i \in DOMAIN b.sends : b.sends[i] = t
    BY <1>4 DEF Owes
  <2>2. i + 1 \in DOMAIN a.sends /\ i + 1 # 1 /\ a.sends[i + 1] = t
    BY <1>1, <2>1
  <2>3. QED
    BY <2>2 DEF Owes
<1>5. ASSUME NEW t, Due(b, m, t)
      PROVE  Due(a, m, t)
  BY <1>5 DEF Due
<1>6. QED
  BY <1>3, <1>4, <1>5 DEF Less

(* The stage changes: to the delay, from which the packet may come to the  *)
(* antennas of the repeater's rules, for one the engine did not have; or   *)
(* to a send that is not on the air.                                       *)
LEMMA LessStage ==
    ASSUME NEW a, IsCall(a), Sound(a), a.stage = "rules",
           NEW b, NEW fly, NEW gly, NEW m, NEW k, m \subseteq k,
           b.content = a.content, b.inline = a.inline, b.sends = a.sends,
           \/ b.stage = "sending" /\ gly = "queued"
           \/ /\ b.stage = "delay"
              /\ a.content \notin m
              /\ a.inline # <<>> /\ Head(a.inline) = "repeater"
    PROVE  Less(b, gly, k, a, fly, m)
<1>1. Sound(b)
  BY DEF Sound
<1>2. ASSUME NEW t
      PROVE  Owes(b, gly, t) => Owes(a, fly, t)
  BY DEF Owes, Flown
<1>3. ASSUME NEW t, Due(b, k, t)
      PROVE  Due(a, m, t)
  <2>1. CASE b.stage = "delay"
    <3>1. 1 \in DOMAIN a.inline /\ a.inline[1] = "repeater"
      BY <2>1 DEF Sound
    <3>2. QED
      BY <1>3, <2>1, <3>1 DEF Due
  <2>2. CASE b.stage # "delay"
    BY <1>3, <2>2 DEF Due
  <2>3. QED
    BY <2>1, <2>2
<1>4. QED
  BY <1>1, <1>2, <1>3 DEF Less

(* The stack with another top.                                             *)
LEMMA NewTop ==
    ASSUME NEW stack, NEW m, Nested(stack, m), stack # <<>>, NEW call
    PROVE  LET new == Append(B!Front(stack), call)
           IN  B!Last(new) = call /\ new # <<>>
<1>1. CASE \E x : stack = <<x>>
  <2>1. Append(B!Front(stack), call) = <<call>>
    BY <1>1, StackFacts
  <2>2. B!Last(<<call>>) = call /\ <<call>> # <<>>
    BY StackFacts
  <2>3. QED
    BY <2>1, <2>2
<1>2. CASE \E x, y : stack = <<x, y>>
  <2>1. PICK x, y : stack = <<x, y>>
    BY <1>2
  <2>2. Append(B!Front(stack), call) = <<x, call>>
    BY <2>1, StackFacts
  <2>3. B!Last(<<x, call>>) = call /\ <<x, call>> # <<>>
    BY StackFacts
  <2>4. QED
    BY <2>2, <2>3
<1>3. QED
  BY <1>1, <1>2 DEF Nested

(* A call with less to come leaves the stack as good.                      *)
LEMMA TopGood ==
    ASSUME NEW stack, NEW fly, NEW gly, NEW m, NEW k, NEW n, NEW call,
           Nested(stack, m), stack # <<>>, Good(stack, fly, m, n),
           call.content = B!Last(stack).content,
           B!Last(stack).content \notin OwnContents /\ Sound(B!Last(stack)) =>
              Less(call, gly, k, B!Last(stack), fly, m)
    PROVE  Good(Append(B!Front(stack), call), gly, k, n)
<1>1. ASSUME NEW x, stack = <<x>>
      PROVE  Good(Append(B!Front(stack), call), gly, k, n)
  <2>1. B!Last(stack) = x /\ Append(B!Front(stack), call) = <<call>>
    BY <1>1, StackFacts
  <2>2. x.content \in OwnContents \/ Single(x, fly, m, n)
    BY <1>1 DEF Good
  <2>3. ASSUME x.content \notin OwnContents
        PROVE  Single(call, gly, k, n)
    <3>1. Single(x, fly, m, n) /\ Sound(x)
      BY <2>2, <2>3 DEF Single
    <3>2. Less(call, gly, k, x, fly, m) /\ call.content = x.content
      BY <2>1, <2>3, <3>1
    <3>3. QED
      BY <3>1, <3>2 DEF Single, Less
  <2>4. QED
    BY <2>1, <2>3, StacksDiffer DEF Good
<1>2. ASSUME NEW x, NEW y, stack = <<x, y>>
      PROVE  Good(Append(B!Front(stack), call), gly, k, n)
  <2>1. B!Last(stack) = y /\ Append(B!Front(stack), call) = <<x, call>>
    BY <1>2, StackFacts
  <2>2. /\ x.content = y.content /\ x.stage = "rules"
        /\ x.content \in OwnContents \/ Double(x, y, fly, n)
    BY <1>2 DEF Good
  <2>3. ASSUME x.content \notin OwnContents
        PROVE  Double(x, call, gly, n)
    <3>1. Double(x, y, fly, n) /\ Sound(y)
      BY <2>2, <2>3 DEF Double
    <3>2. Less(call, gly, k, y, fly, m) /\ call.content = x.content
      BY <2>1, <2>2, <2>3, <3>1
    <3>3. \A t : Owes(x, gly, t) => Owes(x, fly, t)
      BY <2>2 DEF Owes, Flown
    <3>4. QED
      BY <3>1, <3>2, <3>3 DEF Double, Less
  <2>4. QED
    BY <2>1, <2>2, <2>3, StacksDiffer DEF Good
<1>3. QED
  BY <1>1, <1>2 DEF Nested

-----------------------------------------------------------------------------
(* The steps of the bridge.                                                *)

(* One process has a new stack, or its send another state.                 *)
LEMMA ProcStep ==
    ASSUME NestInv, SendInv, SeenInv, NEW p \in B!Procs, NEW stack, NEW fly,
           Marked \subseteq Marked',
           calls' = [calls EXCEPT ![p] = stack],
           air' = [air EXCEPT ![p] = fly],
           Good(stack, fly, Marked', aired'), Flying(stack, fly),
           \A q \in B!Procs, c \in Others :
              q # p /\ Carries(calls[q], c) =>
                 \A a \in B!Antennas : aired'[<<c, a>>] = aired[<<c, a>>]
    PROVE  SendInv'
<1>1. /\ calls = [q \in B!Procs |-> calls[q]]
      /\ air = [q \in B!Procs |-> air[q]]
  BY DEF NestInv, SeenInv
<1>2. ASSUME NEW q \in B!Procs
      PROVE  Good(calls'[q], air'[q], Marked', aired') /\ Flying(calls'[q], air'[q])
  <2>1. CASE q = p
    <3>1. calls'[q] = stack /\ air'[q] = fly
      BY <1>1, <2>1
    <3>2. QED
      BY <3>1
  <2>2. CASE q # p
    <3>1. calls'[q] = calls[q] /\ air'[q] = air[q]
      BY <1>1, <2>2
    <3>2. /\ Nested(calls[q], Marked)
          /\ Good(calls[q], air[q], Marked, aired) /\ Flying(calls[q], air[q])
      BY DEF NestInv, SendInv
    <3>3. /\ \A x : calls[q] = <<x>> => x.content \in Contents
          /\ \A x, y : calls[q] = <<x, y>> => y.content \in Contents
      BY <3>2, NestedContents
    <3>4. \A c \in Others : Carries(calls[q], c) =>
             \A a \in B!Antennas : aired'[<<c, a>>] = aired[<<c, a>>]
      BY <2>2
    <3>5. Good(calls[q], air[q], Marked', aired')
      BY <3>2, <3>3, <3>4, GoodLater
    <3>6. QED
      BY <3>1, <3>2, <3>5
  <2>3. QED
    BY <2>1, <2>2
<1>3. QED
  BY <1>2 DEF SendInv

(* A new stack that Becomes lets return.                                   *)
LEMMA StackStep ==
    ASSUME NestInv, SendInv, SeenInv, NEW p \in B!Procs, NEW stack, NEW fly,
           Marked \subseteq Marked',
           B!Becomes(p, stack),
           air' = [air EXCEPT ![p] = fly], aired' = aired,
           Nested(stack, Marked'), Good(stack, fly, Marked', aired), Flying(stack, fly)
    PROVE  /\ SendInv'
           /\ \A q \in B!Procs : q # p => calls'[q] = calls[q]
           /\ \A c : Carries(calls'[p], c) => Carries(stack, c)
<1> DEFINE mid == B!Unwind(stack)
<1> DEFINE new == B!Unwind(mid)
<1>1. /\ Nested(mid, Marked') /\ Good(mid, fly, Marked', aired) /\ Flying(mid, fly)
      /\ \A c : Carries(mid, c) => Carries(stack, c)
  BY UnwindGood, UnwindNested
<1> HIDE DEF mid
<1>2. /\ Good(new, fly, Marked', aired) /\ Flying(new, fly)
      /\ \A c : Carries(new, c) => Carries(mid, c)
  BY <1>1, UnwindGood
<1>3. calls' = [calls EXCEPT ![p] = new]
  BY DEF B!Becomes, mid
<1> HIDE DEF new
<1>4. SendInv'
  BY <1>2, <1>3, ProcStep
<1>5. calls'[p] = new /\ \A q \in B!Procs : q # p => calls'[q] = calls[q]
  BY <1>3 DEF NestInv
<1>6. QED
  BY <1>1, <1>2, <1>4, <1>5

(* Nothing new in anybody's hands.                                         *)
LEMMA HeldKept ==
    ASSUME HeldInv, Firsts, NEW p,
           \A q \in B!Procs : q # p => calls'[q] = calls[q],
           \A c \in Others : Carries(calls'[p], c) => Carries(calls[p], c),
           \A c \in Others : seen'[c] = Absent => seen[c] = Absent,
           aired' = aired
    PROVE  HeldInv' /\ Firsts'
<1>1. ASSUME NEW q \in B!Procs, NEW c \in Others, Carries(calls'[q], c)
      PROVE  Carries(calls[q], c)
  <2>1. CASE q = p
    BY <1>1, <2>1
  <2>2. CASE q # p
    <3>1. calls'[q] = calls[q]
      BY <2>2
    <3>2. QED
      BY <1>1, <3>1
  <2>3. QED
    BY <2>1, <2>2
<1>2. ASSUME NEW q \in B!Procs, NEW r \in B!Procs, NEW c \in Others,
             Carries(calls'[q], c), Carries(calls'[r], c)
      PROVE  q = r
  BY <1>1, <1>2 DEF HeldInv
<1>3. ASSUME NEW c \in Others, seen'[c] = Absent
      PROVE  /\ \A q \in B!Procs : ~Carries(calls'[q], c)
             /\ \A a \in B!Antennas : aired'[<<c, a>>] = 0
  BY <1>1, <1>3 DEF HeldInv
<1>4. QED
  BY <1>2, <1>3 DEF HeldInv, Firsts

(* Calls and emissions as they were.                                       *)
LEMMA SendSame ==
    ASSUME SendInv, HeldInv, Firsts, UNCHANGED <<calls, air, aired, engSeen>>,
           \A c \in Others : seen'[c] = Absent => seen[c] = Absent
    PROVE  SendInv' /\ HeldInv' /\ Firsts'
<1>1. Marked' = Marked
  BY DEF Marked
<1>2. SendInv'
  BY <1>1 DEF SendInv
<1>3. HeldInv' /\ Firsts'
  BY DEF HeldInv, Firsts
<1>4. QED
  BY <1>2, <1>3

(* The inductive invariant of OncePerAntenna, on top of NestInv and        *)
(* AgeInv.                                                                 *)
OnceInv == SeenInv /\ HeldInv /\ SendInv /\ Firsts

(* The top of a process's stack has less to come than before.              *)
LEMMA TopStep ==
    ASSUME NestInv, OnceInv, NEW p \in B!Procs, B!Busy(p), NEW call, NEW fly,
           Marked \subseteq Marked', Nested(Append(B!Front(calls[p]), call), Marked'),
           B!SetTop(p, call), air' = [air EXCEPT ![p] = fly],
           UNCHANGED <<aired, seen>>,
           call.content = B!Top(p).content,
           B!Top(p).content \notin OwnContents /\ Sound(B!Top(p)) =>
              Less(call, fly, Marked', B!Top(p), air[p], Marked),
           fly # "none" <=> call.stage = "sending",
           fly # "none" => call.sends # <<>>
    PROVE  SendInv' /\ HeldInv' /\ Firsts'
<1> DEFINE stack == Append(B!Front(calls[p]), call)
<1>1. /\ Nested(calls[p], Marked) /\ calls[p] # <<>>
      /\ Good(calls[p], air[p], Marked, aired)
      /\ B!Top(p) = B!Last(calls[p])
  BY DEF NestInv, OnceInv, SendInv, B!Busy, B!Top
<1>2. /\ Good(stack, fly, Marked', aired)
      /\ B!Last(stack) = call /\ stack # <<>>
  <2>1. /\ call.content = B!Last(calls[p]).content
        /\ B!Last(calls[p]).content \notin OwnContents /\ Sound(B!Last(calls[p])) =>
              Less(call, fly, Marked', B!Last(calls[p]), air[p], Marked)
    BY <1>1
  <2>2. Good(Append(B!Front(calls[p]), call), fly, Marked', aired)
    BY <1>1, <2>1, TopGood
  <2>3. QED
    BY <1>1, <2>2, NewTop
<1> HIDE DEF stack
<1>3. Flying(stack, fly)
  BY <1>2 DEF Flying
<1>4. /\ SendInv'
      /\ \A q \in B!Procs : q # p => calls'[q] = calls[q]
      /\ \A c : Carries(calls'[p], c) => Carries(stack, c)
  BY <1>2, <1>3, StackStep DEF B!SetTop, OnceInv, stack
<1>5. \A c \in Others : Carries(calls'[p], c) => Carries(calls[p], c)
  BY <1>1, <1>2, <1>4 DEF Carries
<1>6. HeldInv' /\ Firsts'
  BY <1>4, <1>5, HeldKept DEF OnceInv
<1>7. QED
  BY <1>4, <1>6

(* What is known of the top of a stack.                                    *)
LEMMA TopFacts ==
    ASSUME NestInv, OnceInv, NEW p \in B!Procs, B!Busy(p)
    PROVE  /\ IsCall(B!Top(p))
           /\ Nested(calls[p], Marked) /\ calls[p] # <<>>
           /\ B!Top(p) = B!Last(calls[p])
           /\ air = [air EXCEPT ![p] = air[p]]
           /\ air[p] # "none" <=> B!Top(p).stage = "sending"
           /\ air[p] # "none" => B!Top(p).sends # <<>>
<1>1. Nested(calls[p], Marked) /\ calls[p] # <<>> /\ B!Top(p) = B!Last(calls[p])
  BY DEF NestInv, B!Busy, B!Top
<1>2. Flying(calls[p], air[p]) /\ air = [q \in B!Procs |-> air[q]]
  BY DEF OnceInv, SendInv, SeenInv
<1>3. air = [air EXCEPT ![p] = air[p]]
  BY <1>2
<1>4. QED
  BY <1>1, <1>2, <1>3, TopIsCall DEF Flying

(* A step that leaves less of the top call.                                *)
LEMMA TopLess ==
    ASSUME NestInv, OnceInv, NEW p \in B!Procs, B!Busy(p), NEW next, NEW fly,
           IsCall(next), next.content = B!Top(p).content,
           next.stage = "delay" => B!Top(p).stage = "delay",
           B!SetTop(p, next), air' = [air EXCEPT ![p] = fly],
           UNCHANGED <<aired, seen, engSeen>>,
           B!Top(p).content \notin OwnContents /\ Sound(B!Top(p)) =>
              Less(next, fly, Marked, B!Top(p), air[p], Marked),
           fly # "none" <=> next.stage = "sending",
           fly # "none" => next.sends # <<>>
    PROVE  SendInv' /\ HeldInv' /\ Firsts'
<1>1. Marked' = Marked
  BY DEF Marked
<1>2. Nested(Append(B!Front(calls[p]), next), Marked)
  BY TopFacts, TopNested
<1>3. Nested(Append(B!Front(calls[p]), next), Marked')
  BY <1>1, <1>2
<1>4. B!Top(p).content \notin OwnContents /\ Sound(B!Top(p)) =>
         Less(next, fly, Marked', B!Top(p), air[p], Marked)
  BY <1>1
<1>5. UNCHANGED <<aired, seen>> /\ Marked \subseteq Marked'
  BY <1>1
<1>6. QED
  BY <1>3, <1>4, <1>5, TopStep

(* The handler that forwards nothing, and MQTT: one endpoint less to call. *)
LEMMA OnceInline ==
    ASSUME NestInv, OnceInv, NEW p \in B!Procs, B!NotRepeated(p) \/ B!Publish(p)
    PROVE  SendInv' /\ HeldInv' /\ Firsts'
<1> DEFINE call == B!Top(p)
<1> DEFINE next == [call EXCEPT !.inline = Tail(@)]
<1>1. /\ B!Busy(p) /\ call.inline # <<>> /\ B!SetTop(p, next)
      /\ UNCHANGED <<aired, seen, engSeen, air>>
  BY DEF B!NotRepeated, B!Publish, B!tables
<1>2. /\ IsCall(call) /\ air = [air EXCEPT ![p] = air[p]]
      /\ air[p] # "none" <=> call.stage = "sending"
      /\ air[p] # "none" => call.sends # <<>>
  BY <1>1, TopFacts
<1>3. IsCall(next)
  BY <1>2, CallUpdate
<1>4. /\ next.inline = Tail(call.inline) /\ next.sends = call.sends
      /\ next.stage = call.stage /\ next.content = call.content
  BY <1>2, CallFields
<1>9. call.stage = "rules" \/ Head(call.inline) = "mqtt"
  BY DEF B!NotRepeated, B!Publish
<1> HIDE DEF call, next
<1>5. Sound(call) => Less(next, air[p], Marked, call, air[p], Marked)
  <2>1. Sound(call) => next.stage # "delay"
    BY <1>4, <1>9 DEF Sound
  <2>2. QED
    BY <1>1, <1>2, <1>4, <2>1, LessInline
<1>6. air' = [air EXCEPT ![p] = air[p]] /\ UNCHANGED <<aired, seen, engSeen>>
  BY <1>1, <1>2
<1> DEFINE fly == air[p]
<1> HIDE DEF fly
<1>7. /\ air' = [air EXCEPT ![p] = fly]
      /\ Sound(call) => Less(next, fly, Marked, call, air[p], Marked)
      /\ fly # "none" <=> next.stage = "sending"
      /\ fly # "none" => next.sends # <<>>
      /\ next.stage = "delay" => call.stage = "delay"
  BY <1>2, <1>4, <1>5, <1>6 DEF fly
<1>8. QED
  BY <1>1, <1>3, <1>4, <1>6, <1>7, TopLess DEF call

(* The next send: left out by the mode, or queued.                         *)
LEMMA OnceSendNext ==
    ASSUME NestInv, OnceInv, NEW p \in B!Procs, B!SendNext(p)
    PROVE  SendInv' /\ HeldInv' /\ Firsts'
<1> DEFINE call == B!Top(p)
<1> DEFINE passed == [call EXCEPT !.sends = Tail(@)]
<1> DEFINE sending == [call EXCEPT !.stage = "sending"]
<1>1. /\ B!Busy(p) /\ call.stage = "rules" /\ call.sends # <<>>
      /\ UNCHANGED <<aired, seen, engSeen>>
      /\ \/ B!SetTop(p, passed) /\ UNCHANGED air
         \/ B!SetTop(p, sending) /\ air' = [air EXCEPT ![p] = "queued"]
  BY DEF B!SendNext, B!tables
<1>2. /\ IsCall(call) /\ air = [air EXCEPT ![p] = air[p]]
      /\ air[p] # "none" <=> call.stage = "sending"
  BY <1>1, TopFacts
<1>3. IsCall(passed) /\ IsCall(sending)
  BY <1>2, CallUpdate
<1>4. /\ passed.inline = call.inline /\ passed.sends = Tail(call.sends)
      /\ passed.stage = call.stage /\ passed.content = call.content
      /\ sending.inline = call.inline /\ sending.sends = call.sends
      /\ sending.stage = "sending" /\ sending.content = call.content
  BY <1>2, CallFields
<1> HIDE DEF call, passed, sending
<1>5. CASE B!SetTop(p, passed) /\ UNCHANGED air
  <2>1. air[p] = "none" /\ air' = [air EXCEPT ![p] = "none"]
    BY <1>1, <1>2, <1>5
  <2>2. Sound(call) => Less(passed, "none", Marked, call, air[p], Marked)
    BY <1>1, <1>2, <1>4, LessSends
  <2>3. passed.stage = "rules"
    BY <1>1, <1>4
  <2>4. QED
    BY <1>1, <1>3, <1>4, <1>5, <2>1, <2>2, <2>3, TopLess DEF call
<1>6. CASE B!SetTop(p, sending) /\ air' = [air EXCEPT ![p] = "queued"]
  <2>1. Sound(call) => Less(sending, "queued", Marked, call, air[p], Marked)
    BY <1>1, <1>2, <1>4, LessStage
  <2>2. QED
    BY <1>1, <1>3, <1>4, <1>6, <2>1, TopLess DEF call
<1>7. QED
  BY <1>1, <1>5, <1>6

(* A send that returns is one less to come, on the air or not.             *)
LEMMA OnceSent ==
    ASSUME NestInv, OnceInv, NEW p \in B!Procs, B!SendReturns(p)
    PROVE  SendInv' /\ HeldInv' /\ Firsts'
<1> DEFINE call == B!Top(p)
<1> DEFINE next == [call EXCEPT !.stage = "rules", !.sends = Tail(@)]
<1>1. /\ B!Busy(p) /\ call.stage = "sending" /\ B!SetTop(p, next)
      /\ air' = [air EXCEPT ![p] = "none"] /\ UNCHANGED <<aired, seen, engSeen>>
  BY DEF B!SendReturns, B!Sent
<1>2. IsCall(call) /\ call.sends # <<>>
  BY <1>1, TopFacts
<1>3. IsCall(next)
  BY <1>2, RulesAgain
<1>4. /\ next.inline = call.inline /\ next.sends = Tail(call.sends)
      /\ next.stage = "rules" /\ next.content = call.content
  BY <1>2, CallFields
<1> HIDE DEF call, next
<1>5. Sound(call) => Less(next, "none", Marked, call, air[p], Marked)
  BY <1>2, <1>4, LessSends
<1>6. QED
  BY <1>1, <1>3, <1>4, <1>5, TopLess DEF call

(* A record that is no longer fresh is none, in a run shorter than its     *)
(* life.                                                                   *)
LEMMA StaleIsAbsent ==
    ASSUME NEW ttl \in Nat, Absent \notin 0..ttl, NEW age \in B!Ages(ttl), NEW now \in Nat,
           now < ttl, age # Absent => age <= now, ~B!Fresh(age, ttl)
    PROVE  age = Absent
BY DEF B!Ages, B!Fresh

(* flood_forward: what may come from the delay might have come before.     *)
LEMMA OnceRepeat ==
    ASSUME NestInv, Timely, AgeInv, OnceInv, MaxClock \in Nat, MaxClock < EngineTTL,
           NEW p \in B!Procs, B!Repeat(p)
    PROVE  SendInv' /\ HeldInv' /\ Firsts'
<1> DEFINE call == B!Top(p)
<1> DEFINE c == call.content
<1> DEFINE next == [call EXCEPT !.stage = "delay"]
<1>1. /\ B!Busy(p) /\ call.stage = "rules" /\ call.inline # <<>>
      /\ Head(call.inline) = "repeater"
      /\ ~B!Fresh(engSeen[c], EngineTTL)
      /\ engSeen' = [engSeen EXCEPT ![c] = 0]
      /\ B!SetTop(p, next) /\ UNCHANGED <<aired, seen, air>>
  BY DEF B!Repeat
<1>2. /\ IsCall(call) /\ c \in Contents /\ air = [air EXCEPT ![p] = air[p]]
      /\ air[p] # "none" <=> call.stage = "sending"
      /\ Nested(calls[p], Marked)
  BY <1>1, TopFacts DEF IsCall
<1>3. IsCall(next)
  BY <1>2, CallUpdate
<1>4. /\ next.inline = call.inline /\ next.sends = call.sends
      /\ next.stage = "delay" /\ next.content = call.content
  BY <1>2, CallFields
<1>5. c \notin Marked
  <2>1. engSeen[c] \in B!Ages(EngineTTL) /\ (engSeen[c] # Absent => engSeen[c] <= clock)
    BY <1>2 DEF AgeInv
  <2>2. EngineTTL \in Nat /\ Absent \notin 0..EngineTTL /\ clock \in Nat /\ clock < EngineTTL
    BY PathAssumption DEF AgeInv
  <2>3. engSeen[c] = Absent
    BY <1>1, <2>1, <2>2, StaleIsAbsent
  <2>4. QED
    BY <2>3 DEF Marked
<1>6. Marked \subseteq Marked' /\ c \in Marked'
  <2>1. engSeen \in [Contents -> B!Ages(EngineTTL)] /\ 0 # Absent
    BY PathAssumption DEF NestInv
  <2> HIDE DEF c
  <2>2. QED
    BY <1>1, <1>2, <2>1 DEF Marked
<1>7. calls[p] = <<call>>
  BY RepeatAlone
<1> HIDE DEF call, next
<1>8. Nested(Append(B!Front(calls[p]), next), Marked')
  <2>1. Append(B!Front(calls[p]), next) = <<next>>
    BY <1>7, StackFacts
  <2>2. Nested(<<next>>, Marked')
    BY <1>3, <1>4, <1>6 DEF Nested
  <2>3. QED
    BY <2>1, <2>2
<1>9. ASSUME Sound(call)
      PROVE  Less(next, "none", Marked', call, air[p], Marked)
  BY <1>1, <1>2, <1>4, <1>5, <1>6, <1>9, LessStage
<1>10. air' = [air EXCEPT ![p] = "none"]
  BY <1>1, <1>2
<1>11. QED
  BY <1>1, <1>4, <1>6, <1>8, <1>9, <1>10, TopStep DEF call

(* After the delay: the packet goes to the antennas of the repeater's      *)
(* rules, which were due to it.                                            *)
LEMMA OnceReinject ==
    ASSUME OneWay, NestInv, OnceInv, NEW p \in B!Procs, B!Reinject(p)
    PROVE  SendInv' /\ HeldInv' /\ Firsts'
<1> DEFINE call == B!Top(p)
<1> DEFINE back == [call EXCEPT !.stage = "rules", !.inline = Tail(@)]
<1> DEFINE again == B!Call("repeater", call.content, call.src)
<1>1. /\ B!Busy(p) /\ call.stage = "delay" /\ UNCHANGED <<aired, seen, engSeen, air>>
      /\ \/ B!Becomes(p, B!Front(calls[p]) \o <<back, again>>)
         \/ B!SetTop(p, back)
  BY DEF B!Reinject, B!tables
<1>2. /\ IsCall(call) /\ call.content \in Contents /\ air = [air EXCEPT ![p] = air[p]]
      /\ air[p] # "none" <=> call.stage = "sending"
      /\ Nested(calls[p], Marked) /\ calls[p] # <<>> /\ call = B!Last(calls[p])
  BY <1>1, TopFacts DEF IsCall
<1>3. IsCall(back)
  BY <1>2, RulesAgain
<1>4. /\ back.inline = Tail(call.inline) /\ back.sends = call.sends
      /\ back.stage = "rules" /\ back.content = call.content
  BY <1>2, CallFields
<1>5. IsCall(again) /\ again.content = call.content /\ again.stage = "rules"
  BY <1>2, CallIsCall
<1>6. air[p] = "none" /\ air' = [air EXCEPT ![p] = "none"]
  BY <1>1, <1>2
<1>7. ASSUME Sound(call)
      PROVE  Less(back, "none", Marked, call, "none", Marked)
  <2>1. call.inline # <<>>
    BY <1>1, <1>7 DEF Sound
  <2> HIDE DEF call, back
  <2>2. QED
    BY <1>1, <1>2, <1>4, <1>7, <2>1, LessInline
<1>8. calls[p] = <<call>> /\ call.content \in Marked
  <2>1. ASSUME NEW a, NEW b, calls[p] = <<a, b>>, b.stage # "delay"
        PROVE  FALSE
    BY <1>1, <2>1, StackFacts DEF B!Top
  <2>2. ASSUME NEW a, calls[p] = <<a>>, a.stage = "delay" => a.content \in Marked
        PROVE  calls[p] = <<call>> /\ call.content \in Marked
    BY <1>1, <2>2, StackFacts DEF B!Top
  <2>3. QED
    BY <1>2, <2>1, <2>2 DEF Nested
<1>9. CASE B!SetTop(p, back)
  <2> HIDE DEF call, back
  <2>1. Sound(call) => Less(back, "none", Marked, call, air[p], Marked)
    BY <1>6, <1>7
  <2>2. QED
    BY <1>1, <1>3, <1>4, <1>6, <1>9, <2>1, TopLess DEF call
<1>10. CASE B!Becomes(p, B!Front(calls[p]) \o <<back, again>>)
  <2> DEFINE new == <<back, again>>
  <2>0. ASSUME call.content \notin OwnContents
        PROVE  /\ Sound(again)
               /\ \A a \in B!Antennas, i \in DOMAIN again.sends :
                     again.sends[i] = a => Leads(rules, "repeater", call.content, a) # {}
               /\ rules \in RuleSets
    <3>1. call.content \in Contents \ OwnContents /\ rules \in RuleSets
      BY <1>2, <2>0 DEF OnceInv, SeenInv
    <3>2. QED
      BY <3>1, CallFacts
  <2> HIDE DEF back, again, call
  <2>1. B!Front(calls[p]) \o <<back, again>> = new
    <3>1. B!Front(calls[p]) = <<>>
      BY <1>8, StackFacts
    <3>2. <<>> \o <<back, again>> = <<back, again>>
      BY StackFacts
    <3>3. QED
      BY <3>1, <3>2
  <2>2. ASSUME call.content \notin OwnContents
        PROVE  Double(back, again, "none", aired)
    <3>1. Single(call, "none", Marked, aired)
      <4>1. Good(calls[p], air[p], Marked, aired)
        BY DEF OnceInv, SendInv
      <4>2. QED
        BY <1>6, <1>8, <2>2, <4>1 DEF Good
    <3>2. Less(back, "none", Marked, call, "none", Marked)
      BY <1>7, <3>1 DEF Single
    <3>3. ASSUME NEW a \in B!Antennas, Owes(again, "none", a)
          PROVE  Due(call, Marked, a)
      <4>1. Leads(rules, "repeater", call.content, a) # {} /\ rules \in RuleSets
        BY <2>0, <2>2, <3>3 DEF Owes
      <4>2. Repeatable(call.content, a)
        BY <4>1 DEF Repeatable
      <4>3. QED
        BY <1>1, <4>2 DEF Due
    <3>4. ASSUME NEW a \in B!Antennas
          PROVE  /\ ~(Owes(back, "none", a) /\ Owes(again, "none", a))
                 /\ Owes(back, "none", a) \/ Owes(again, "none", a)
                       => aired[<<back.content, a>>] = 0
      <4>1. /\ ~(Owes(call, "none", a) /\ Due(call, Marked, a))
            /\ Owes(call, "none", a) \/ Due(call, Marked, a) => aired[<<call.content, a>>] = 0
        BY <3>1 DEF Single
      <4>2. Owes(back, "none", a) => Owes(call, "none", a)
        BY <3>2 DEF Less
      <4>3. QED
        BY <1>4, <3>3, <4>1, <4>2
    <3>5. Sound(back) /\ Sound(again)
      BY <2>0, <2>2, <3>2 DEF Less
    <3>6. QED
      BY <3>4, <3>5 DEF Double
  <2>3. Good(new, "none", Marked, aired)
    BY <1>4, <1>5, <2>2, StacksDiffer DEF Good
  <2>4. B!Last(new) = again /\ new # <<>>
    BY StackFacts
  <2>5. Flying(new, "none")
    BY <1>5, <2>4 DEF Flying
  <2>6. Nested(new, Marked)
    BY <1>3, <1>4, <1>5, <1>8 DEF Nested
  <2> HIDE DEF new
  <2>7. Marked' = Marked
    BY <1>1 DEF Marked
  <2>8. /\ Marked \subseteq Marked' /\ Nested(new, Marked')
        /\ Good(new, "none", Marked', aired) /\ B!Becomes(p, new)
    BY <1>10, <2>1, <2>3, <2>6, <2>7
  <2>9. /\ SendInv'
        /\ \A q \in B!Procs : q # p => calls'[q] = calls[q]
        /\ \A c : Carries(calls'[p], c) => Carries(new, c)
    BY <1>1, <1>6, <2>5, <2>8, StackStep DEF OnceInv
  <2>10. \A c \in Others : Carries(calls'[p], c) => Carries(calls[p], c)
    BY <1>2, <1>5, <2>4, <2>9 DEF Carries
  <2>11. HeldInv' /\ Firsts'
    BY <1>1, <2>9, <2>10, HeldKept DEF OnceInv
  <2>12. QED
    BY <2>9, <2>11
<1>11. QED
  BY <1>1, <1>9, <1>10

(* The head of the sends goes out, as the first on its antenna.            *)
LEMMA EmitGood ==
    ASSUME NEW stack, NEW m, NEW n, NEW o, Nested(stack, m), stack # <<>>,
           Good(stack, "queued", m, n), Flying(stack, "queued"),
           B!Last(stack).content \notin OwnContents,
           \A a \in B!Antennas : a # Head(B!Last(stack).sends) =>
              o[<<B!Last(stack).content, a>>] = n[<<B!Last(stack).content, a>>]
    PROVE  /\ Good(stack, "emitted", m, o)
           /\ Head(B!Last(stack).sends) \in B!Antennas =>
                 n[<<B!Last(stack).content, Head(B!Last(stack).sends)>>] = 0
<1> DEFINE c == B!Last(stack).content
<1> DEFINE t == Head(B!Last(stack).sends)
<1>0. /\ \A a \in B!Antennas : a # t => o[<<c, a>>] = n[<<c, a>>]
      /\ c = B!Last(stack).content /\ t = Head(B!Last(stack).sends) /\ c \notin OwnContents
  OBVIOUS
<1> HIDE DEF c, t
<1>1. ASSUME NEW y, y = B!Last(stack), Sound(y)
      PROVE  /\ Owes(y, "queued", t)
             /\ \A a \in B!Antennas :
                   Owes(y, "emitted", a) => a # t /\ Owes(y, "queued", a)
  <2>1. y.sends \in Seq(AllTargets) /\ y.sends # <<>> /\ y.stage = "sending"
    BY <1>1 DEF Sound, Flying
  <2>2. 1 \in DOMAIN y.sends /\ y.sends[1] = t
    BY <1>0, <1>1, <2>1
  <2>3. Owes(y, "queued", t)
    BY <2>2 DEF Owes, Flown
  <2>4. ASSUME NEW a \in B!Antennas, Owes(y, "emitted", a)
        PROVE  a # t /\ Owes(y, "queued", a)
    <3>1. PICK i \in DOMAIN y.sends : y.sends[i] = a /\ i # 1
      BY <2>1, <2>4 DEF Owes, Flown
    <3>2. Owes(y, "queued", a)
      BY <3>1 DEF Owes
    <3>3. a # t
      BY <1>1, <2>2, <3>1 DEF Sound
    <3>4. QED
      BY <3>2, <3>3
  <2>5. QED
    BY <2>3, <2>4
<1>2. ASSUME NEW x, stack = <<x>>
      PROVE  Single(x, "emitted", m, o) /\ (t \in B!Antennas => n[<<c, t>>] = 0)
  <2>1. x = B!Last(stack) /\ x.content = c /\ Single(x, "queued", m, n) /\ Sound(x)
    BY <1>0, <1>2, StackFacts DEF Good, Single
  <2>2. /\ Owes(x, "queued", t)
        /\ \A a \in B!Antennas :
              Owes(x, "emitted", a) => a # t /\ Owes(x, "queued", a)
    BY <1>1, <2>1
  <2>3. ASSUME NEW a \in B!Antennas
        PROVE  /\ ~(Owes(x, "emitted", a) /\ Due(x, m, a))
               /\ Owes(x, "emitted", a) \/ Due(x, m, a) => o[<<x.content, a>>] = 0
    BY <1>0, <2>1, <2>2 DEF Single
  <2>4. QED
    BY <2>1, <2>2, <2>3 DEF Single
<1>3. ASSUME NEW x, NEW y, stack = <<x, y>>
      PROVE  /\ Double(x, y, "emitted", o) /\ x.content = y.content /\ x.stage = "rules"
             /\ t \in B!Antennas => n[<<c, t>>] = 0
  <2>1. /\ y = B!Last(stack) /\ x.content = c /\ y.content = c /\ x.stage = "rules"
        /\ Double(x, y, "queued", n) /\ Sound(y) /\ Sound(x)
    BY <1>0, <1>3, StackFacts DEF Good, Double
  <2>2. /\ Owes(y, "queued", t)
        /\ \A a \in B!Antennas :
              Owes(y, "emitted", a) => a # t /\ Owes(y, "queued", a)
    BY <1>1, <2>1
  <2>3. ASSUME NEW a
        PROVE  Owes(x, "emitted", a) => Owes(x, "queued", a)
    BY <2>1 DEF Owes, Flown
  <2>4. ASSUME NEW a \in B!Antennas
        PROVE  /\ ~(Owes(x, "emitted", a) /\ Owes(y, "emitted", a))
               /\ Owes(x, "emitted", a) \/ Owes(y, "emitted", a) => o[<<x.content, a>>] = 0
    BY <1>0, <2>1, <2>2, <2>3 DEF Double
  <2>5. QED
    BY <2>1, <2>2, <2>4 DEF Double
<1>4. Good(stack, "emitted", m, o)
  BY <1>2, <1>3 DEF Good
<1>5. QED
  BY <1>0, <1>2, <1>3, <1>4 DEF Nested

(* The transmission is the first there, and none is left to come.          *)
LEMMA OnceEmit ==
    ASSUME NestInv, OnceInv, NEW p \in B!Procs, B!Emit(p)
    PROVE  SendInv' /\ HeldInv' /\ Firsts'
<1> DEFINE stack == calls[p]
<1> DEFINE c == B!Top(p).content
<1> DEFINE t == Head(B!Top(p).sends)
<1>1. /\ air[p] = "queued" /\ air' = [air EXCEPT ![p] = "emitted"]
      /\ aired' = [aired EXCEPT ![<<c, t>>] = @ + 1]
      /\ UNCHANGED <<calls, seen, engSeen>>
  BY DEF B!Emit, B!tables
<1>2. Good(stack, "queued", Marked, aired) /\ Flying(stack, "queued")
  BY <1>1 DEF OnceInv, SendInv
<1>3. stack # <<>>
  BY <1>2 DEF Flying
<1>4. /\ Nested(stack, Marked) /\ c = B!Last(stack).content
      /\ t = Head(B!Last(stack).sends)
  BY DEF NestInv, B!Top
<1>5. aired \in [Contents \X B!Antennas -> Nat] /\ calls = [q \in B!Procs |-> calls[q]]
  BY DEF OnceInv, SeenInv, NestInv
<1> HIDE DEF stack, c, t
<1>6. \A d \in Others, a \in B!Antennas :
         d # c \/ a # t => aired'[<<d, a>>] = aired[<<d, a>>]
  BY <1>1, <1>5
<1>7. ASSUME c \notin OwnContents
      PROVE  /\ Good(stack, "emitted", Marked, aired')
             /\ t \in B!Antennas => aired[<<c, t>>] = 0
  <2>1. IsCall(B!Last(stack))
    BY <1>3, <1>4, TopIsCall
  <2>2. c \in Others
    BY <1>4, <1>7, <2>1 DEF IsCall, Others
  <2> DEFINE o == aired'
  <2>3. \A a \in B!Antennas : a # Head(B!Last(stack).sends) =>
           o[<<B!Last(stack).content, a>>] = aired[<<B!Last(stack).content, a>>]
    BY <1>4, <1>6, <2>2
  <2> HIDE DEF o
  <2>4. Good(stack, "emitted", Marked, o)
    BY <1>2, <1>3, <1>4, <1>7, <2>3, EmitGood
  <2>5. Head(B!Last(stack).sends) \in B!Antennas =>
           aired[<<B!Last(stack).content, Head(B!Last(stack).sends)>>] = 0
    BY <1>2, <1>3, <1>4, <1>7, <2>3, <2>4, EmitGood
  <2>6. QED
    BY <1>4, <2>4, <2>5 DEF o
<1>8. ASSUME c \in OwnContents
      PROVE  Good(stack, "emitted", Marked, aired')
  <2>1. \A x : stack = <<x>> => x.content \in OwnContents
    BY <1>4, <1>8, StackFacts
  <2>2. ASSUME NEW x, NEW y, stack = <<x, y>>
        PROVE  x.content = y.content /\ x.stage = "rules" /\ x.content \in OwnContents
    <3>1. x.content = y.content /\ x.stage = "rules"
      BY <1>2, <2>2 DEF Good
    <3>2. y.content = c
      BY <1>4, <2>2, StackFacts
    <3>3. QED
      BY <1>8, <3>1, <3>2
  <2>3. QED
    BY <2>1, <2>2 DEF Good
<1>9. Flying(stack, "emitted")
  BY <1>2 DEF Flying
<1>10. Marked' = Marked
  BY <1>1 DEF Marked
<1>11. \A q \in B!Procs, d \in Others :
          q # p /\ Carries(calls[q], d) =>
             \A a \in B!Antennas : aired'[<<d, a>>] = aired[<<d, a>>]
  <2>1. SUFFICES ASSUME NEW q \in B!Procs, NEW d \in Others, q # p, Carries(calls[q], d)
                 PROVE  d # c
    BY <1>6
  <2>2. Carries(calls[p], c)
    BY <1>3, <1>4 DEF Carries, stack
  <2>3. QED
    BY <2>1, <2>2 DEF OnceInv, HeldInv
<1>12. SendInv'
  <2>1. calls' = [calls EXCEPT ![p] = stack]
    BY <1>1, <1>5 DEF stack
  <2>2. Good(stack, "emitted", Marked', aired')
    BY <1>7, <1>8, <1>10
  <2>3. Marked \subseteq Marked'
    BY <1>10
  <2>4. QED
    BY <1>1, <1>9, <1>11, <2>1, <2>2, <2>3, ProcStep DEF OnceInv
<1>13. HeldInv'
  <2>1. ASSUME NEW d \in Others, seen'[d] = Absent
        PROVE  /\ \A q \in B!Procs : ~Carries(calls'[q], d)
               /\ \A a \in B!Antennas : aired'[<<d, a>>] = 0
    <3>1. /\ \A q \in B!Procs : ~Carries(calls[q], d)
          /\ \A a \in B!Antennas : aired[<<d, a>>] = 0
      BY <1>1, <2>1 DEF OnceInv, HeldInv
    <3>2. d # c
      BY <1>3, <1>4, <3>1 DEF Carries, stack
    <3>3. QED
      BY <1>1, <1>6, <3>1, <3>2
  <2>2. QED
    BY <1>1, <2>1 DEF OnceInv, HeldInv
<1>14. Firsts'
  <2>1. ASSUME NEW d \in Others, NEW a \in B!Antennas
        PROVE  aired'[<<d, a>>] <= 1
    <3>1. CASE d = c /\ a = t
      <4>1. aired[<<c, t>>] = 0
        BY <1>7, <3>1 DEF Others
      <4>2. aired'[<<c, t>>] = aired[<<c, t>>] + 1
        <5>1. <<c, t>> \in Contents \X B!Antennas
          BY <3>1 DEF Others
        <5>2. QED
          BY <1>1, <1>5, <5>1
      <4>3. QED
        BY <3>1, <4>1, <4>2
    <3>2. CASE d # c \/ a # t
      <4>1. aired'[<<d, a>>] = aired[<<d, a>>]
        BY <1>6, <3>2
      <4>2. QED
        BY <4>1 DEF OnceInv, Firsts
    <3>3. QED
      BY <3>1, <3>2
  <2>2. QED
    BY <2>1 DEF Firsts
<1>15. QED
  BY <1>12, <1>13, <1>14

(* A confirmation changes nothing of what is to come.                      *)
LEMMA OnceConfirmed ==
    ASSUME NestInv, OnceInv, NEW p \in B!Procs, B!Confirmed(p)
    PROVE  SendInv' /\ HeldInv' /\ Firsts'
<1>1. /\ air[p] = "emitted" /\ air' = [air EXCEPT ![p] = "confirmed"]
      /\ UNCHANGED <<calls, seen, engSeen, aired>>
  BY DEF B!Confirmed, B!tables
<1>2. Good(calls[p], "emitted", Marked, aired) /\ Flying(calls[p], "emitted")
  BY <1>1 DEF OnceInv, SendInv
<1>3. \A call, a : Owes(call, "confirmed", a) <=> Owes(call, "emitted", a)
  BY DEF Owes, Flown
<1>4. /\ \A x : Single(x, "emitted", Marked, aired) => Single(x, "confirmed", Marked, aired)
      /\ \A x, y : Double(x, y, "emitted", aired) => Double(x, y, "confirmed", aired)
  BY <1>3 DEF Single, Double
<1>5. Good(calls[p], "confirmed", Marked, aired)
  BY <1>2, <1>4 DEF Good
<1>6. Flying(calls[p], "confirmed")
  BY <1>2 DEF Flying
<1>7. Marked' = Marked /\ aired' = aired
  BY <1>1 DEF Marked
<1>8. calls' = [calls EXCEPT ![p] = calls[p]]
  BY <1>1 DEF NestInv
<1>9. SendInv'
  <2>1. Good(calls[p], "confirmed", Marked', aired') /\ Marked \subseteq Marked'
    BY <1>5, <1>7
  <2>2. \A q \in B!Procs, c \in Others :
           q # p /\ Carries(calls[q], c) =>
              \A a \in B!Antennas : aired'[<<c, a>>] = aired[<<c, a>>]
    BY <1>7
  <2>3. QED
    BY <1>1, <1>6, <1>8, <2>1, <2>2, ProcStep DEF OnceInv
<1>10. HeldInv' /\ Firsts'
  BY <1>1 DEF OnceInv, HeldInv, Firsts
<1>11. QED
  BY <1>9, <1>10

(* A packet from outside: recorded, and in the hands of nobody else.       *)
LEMMA OnceAdmit ==
    ASSUME OneWay, NestInv, OnceInv, MaxClock \in Nat, MaxClock < SeenTTL,
           NEW p \in B!Procs, ~B!Busy(p), NEW src \in B!Antennas, NEW c \in Contents,
           B!Admit(p, src, c), UNCHANGED <<aired, air, engSeen>>
    PROVE  SendInv' /\ HeldInv' /\ Firsts'
<1> DEFINE call == B!Call(src, c, "none")
<1>1. CASE UNCHANGED <<seen, calls>>
  <2>1. \A d \in Others : seen'[d] = Absent => seen[d] = Absent
    BY <1>1
  <2>2. UNCHANGED <<calls, air, aired, engSeen>>
    BY <1>1
  <2>3. QED
    BY <2>1, <2>2, SendSame DEF OnceInv
<1>2. CASE ~UNCHANGED <<seen, calls>>
  <2>1. /\ ~B!IsDuplicate(c) /\ seen' = [seen EXCEPT ![c] = 0]
        /\ UNCHANGED calls \/ B!Push(p, call)
    BY <1>2 DEF B!Admit, B!MarkSeen
  <2>2. seen[c] = Absent
    <3>1. seen[c] \in B!Ages(SeenTTL) /\ (seen[c] # Absent => seen[c] <= clock)
      BY DEF OnceInv, SeenInv
    <3>2. SeenTTL \in Nat /\ Absent \notin 0..SeenTTL /\ clock \in Nat /\ clock < SeenTTL
      BY PathAssumption DEF OnceInv, SeenInv
    <3>3. ~B!Fresh(seen[c], SeenTTL)
      BY <2>1 DEF B!IsDuplicate
    <3>4. QED
      BY <3>1, <3>2, <3>3, StaleIsAbsent
  <2>3. /\ \A d \in Others : d # c => seen'[d] = seen[d]
        /\ seen'[c] # Absent
    <3>1. 0 # Absent /\ seen \in [Contents -> B!Ages(SeenTTL)]
      BY PathAssumption DEF OnceInv, SeenInv
    <3>2. QED
      BY <2>1, <3>1 DEF Others
  <2>4. CASE UNCHANGED calls
    <3>1. \A d \in Others : seen'[d] = Absent => seen[d] = Absent
      BY <2>3
    <3>2. QED
      BY <2>4, <3>1, SendSame DEF OnceInv
  <2>5. CASE B!Push(p, call)
    <3>1. calls[p] = <<>> /\ air[p] = "none" /\ air = [air EXCEPT ![p] = air[p]]
      <4>1. Flying(calls[p], air[p]) /\ air = [q \in B!Procs |-> air[q]]
        BY DEF OnceInv, SendInv, SeenInv
      <4>2. QED
        BY <4>1 DEF B!Busy, Flying
    <3>2. IsCall(call) /\ call.content = c /\ call.stage = "rules"
      BY CallIsCall
    <3>3. Append(calls[p], call) = <<call>>
      BY <3>1, StackFacts
    <3>4. ASSUME c \notin OwnContents
          PROVE  Single(call, "none", Marked, aired)
      <4>1. c \in Contents \ OwnContents /\ rules \in RuleSets
        BY <3>4 DEF OnceInv, SeenInv
      <4>2. /\ Sound(call)
            /\ \A a \in B!Antennas, i \in DOMAIN call.sends :
                  call.sends[i] = a => Leads(rules, src, c, a) # {}
            /\ \A i \in DOMAIN call.inline :
                  call.inline[i] = "repeater" =>
                     Leads(rules, src, c, "repeater") # {} \/ rules = <<>>
        BY <4>1, CallFacts
      <4> HIDE DEF call
      <4>3. ASSUME NEW a \in B!Antennas
            PROVE  /\ ~(Owes(call, "none", a) /\ Due(call, Marked, a))
                   /\ aired[<<c, a>>] = 0
        <5>1. aired[<<c, a>>] = 0
          BY <2>2, <4>1 DEF OnceInv, HeldInv, Others
        <5>2. SUFFICES ASSUME Owes(call, "none", a), Due(call, Marked, a)
                       PROVE  FALSE
          BY <5>1
        <5>3. Leads(rules, src, c, a) # {}
          BY <4>2, <5>2 DEF Owes
        <5>4. rules # <<>>
          BY <5>3 DEF Leads
        <5>5. Leads(rules, src, c, "repeater") # {}
          BY <3>2, <4>2, <5>2, <5>4 DEF Due
        <5>6. PICK later \in RuleSets : Leads(later, "repeater", c, a) # {}
          BY <3>2, <5>2 DEF Due, Repeatable
        <5>7. QED
          BY <4>1, <5>3, <5>5, <5>6 DEF OneWay
      <4>4. QED
        BY <3>2, <4>2, <4>3 DEF Single
    <3> HIDE DEF call
    <3>5. Good(<<call>>, "none", Marked, aired)
      BY <3>2, <3>4, StacksDiffer DEF Good
    <3>6. B!Last(<<call>>) = call /\ <<call>> # <<>>
      BY StackFacts
    <3>7. Flying(<<call>>, "none")
      BY <3>2, <3>6 DEF Flying
    <3>8. Nested(<<call>>, Marked)
      BY <3>2 DEF Nested
    <3>9. Marked' = Marked
      BY DEF Marked
    <3> DEFINE new == <<call>>
    <3> HIDE DEF new
    <3>10. /\ Marked \subseteq Marked' /\ B!Becomes(p, new)
           /\ Nested(new, Marked') /\ Good(new, "none", Marked', aired)
           /\ Flying(new, "none") /\ air' = [air EXCEPT ![p] = "none"]
      BY <2>5, <3>1, <3>3, <3>5, <3>7, <3>8, <3>9 DEF B!Push, new
    <3>11. /\ SendInv'
           /\ \A q \in B!Procs : q # p => calls'[q] = calls[q]
           /\ \A d : Carries(calls'[p], d) => Carries(new, d)
      BY <3>10, StackStep DEF OnceInv
    <3>12. \A d : Carries(calls'[p], d) => d = c
      BY <3>2, <3>6, <3>11 DEF Carries, new
    <3>13. ASSUME NEW q \in B!Procs, NEW d \in Others, Carries(calls'[q], d)
           PROVE  \/ q = p /\ d = c
                  \/ q # p /\ d # c /\ Carries(calls[q], d)
      <4>1. CASE q = p
        BY <3>12, <3>13, <4>1
      <4>2. CASE q # p
        <5>1. Carries(calls[q], d)
          BY <3>11, <3>13, <4>2
        <5>2. d # c
          BY <2>2, <5>1 DEF OnceInv, HeldInv
        <5>3. QED
          BY <4>2, <5>1, <5>2
      <4>3. QED
        BY <4>1, <4>2
    <3>14. HeldInv'
      <4>1. ASSUME NEW d \in Others, NEW q \in B!Procs, NEW r \in B!Procs,
                   Carries(calls'[q], d), Carries(calls'[r], d)
            PROVE  q = r
        BY <3>13, <4>1 DEF OnceInv, HeldInv
      <4>2. ASSUME NEW d \in Others, seen'[d] = Absent
            PROVE  /\ \A q \in B!Procs : ~Carries(calls'[q], d)
                   /\ \A a \in B!Antennas : aired'[<<d, a>>] = 0
        <5>1. d # c /\ seen[d] = Absent
          BY <2>3, <4>2
        <5>2. /\ \A q \in B!Procs : ~Carries(calls[q], d)
              /\ \A a \in B!Antennas : aired[<<d, a>>] = 0
          BY <5>1 DEF OnceInv, HeldInv
        <5>3. QED
          BY <3>13, <5>1, <5>2
      <4>3. QED
        BY <4>1, <4>2 DEF HeldInv
    <3>15. Firsts'
      BY DEF OnceInv, Firsts
    <3>16. QED
      BY <3>11, <3>14, <3>15
  <2>6. QED
    BY <2>1, <2>4, <2>5
<1>3. QED
  BY <1>1, <1>2

(* A companion's packet is none of the others.                             *)
LEMMA OnceOwn ==
    ASSUME NestInv, OnceInv, NEW p \in B!Procs, NEW c \in OwnContents, B!InjectOwn(p, c)
    PROVE  SendInv' /\ HeldInv' /\ Firsts'
<1> DEFINE call == B!Call("repeater", c, "none")
<1>1. /\ ~B!Busy(p) /\ B!Push(p, call) /\ UNCHANGED <<aired, seen, engSeen, air>>
  BY DEF B!InjectOwn, B!tables
<1>2. c \in Contents
  BY PathAssumption
<1>3. calls[p] = <<>> /\ air[p] = "none" /\ air = [air EXCEPT ![p] = air[p]]
  <2>1. Flying(calls[p], air[p]) /\ air = [q \in B!Procs |-> air[q]]
    BY DEF OnceInv, SendInv, SeenInv
  <2>2. QED
    BY <1>1, <2>1 DEF B!Busy, Flying
<1>4. IsCall(call) /\ call.content = c /\ call.stage = "rules"
  BY <1>2, CallIsCall
<1>5. Append(calls[p], call) = <<call>> /\ B!Last(<<call>>) = call /\ <<call>> # <<>>
  BY <1>3, StackFacts
<1> HIDE DEF call
<1>6. /\ Good(<<call>>, "none", Marked, aired) /\ Flying(<<call>>, "none")
      /\ Nested(<<call>>, Marked)
  BY <1>4, <1>5, StacksDiffer DEF Good, Flying, Nested
<1>7. Marked' = Marked
  BY <1>1 DEF Marked
<1> DEFINE new == <<call>>
<1> HIDE DEF new
<1>8. /\ Marked \subseteq Marked' /\ B!Becomes(p, new)
      /\ Nested(new, Marked') /\ Good(new, "none", Marked', aired)
      /\ Flying(new, "none") /\ air' = [air EXCEPT ![p] = "none"]
  BY <1>1, <1>3, <1>5, <1>6, <1>7 DEF B!Push, new
<1>9. /\ SendInv'
      /\ \A q \in B!Procs : q # p => calls'[q] = calls[q]
      /\ \A d : Carries(calls'[p], d) => Carries(new, d)
  BY <1>1, <1>8, StackStep DEF OnceInv
<1>10. \A d \in Others : ~Carries(calls'[p], d)
  BY <1>4, <1>5, <1>9 DEF Carries, new, Others
<1>11. HeldInv' /\ Firsts'
  BY <1>1, <1>9, <1>10, HeldKept DEF OnceInv
<1>12. QED
  BY <1>9, <1>11

(* stop() cancels the loops; what waited there may be under way.           *)
LEMMA OnceStop ==
    ASSUME NestInv, OnceInv, B!Stop
    PROVE  SendInv' /\ HeldInv' /\ Firsts'
<1>1. PICK late \in SUBSET {r \in Radios : air[r] = "queued"} :
         aired' = [x \in DOMAIN aired |-> aired[x] + B!Cardinality(
                     {r \in late : x = <<B!Top(r).content, Head(B!Top(r).sends)>>})]
  BY DEF B!Stop
<1>2. /\ calls' = [p \in B!Procs |-> IF p \in Radios THEN <<>> ELSE calls[p]]
      /\ air' = [p \in B!Procs |-> IF p \in Radios THEN "none" ELSE air[p]]
      /\ UNCHANGED <<seen, engSeen>>
  BY DEF B!Stop, B!tables
<1> DEFINE Late(x) == {r \in late : x = <<B!Top(r).content, Head(B!Top(r).sends)>>}
<1>3. aired \in [Contents \X B!Antennas -> Nat]
  BY DEF OnceInv, SeenInv
<1>4. ASSUME NEW c \in Others, NEW a \in B!Antennas
      PROVE  aired'[<<c, a>>] = aired[<<c, a>>] + Cardinality(Late(<<c, a>>))
  BY <1>1, <1>3, BridgeCardinality DEF Others
<1>5. ASSUME NEW c \in Others, NEW a \in B!Antennas, NEW r \in Late(<<c, a>>)
      PROVE  Carries(calls[r], c) /\ r \in Radios /\ r \in B!Procs /\ aired[<<c, a>>] = 0
  <2>1. /\ r \in Radios /\ r \in B!Procs /\ air[r] = "queued"
        /\ c = B!Top(r).content /\ a = Head(B!Top(r).sends)
    BY <1>5 DEF B!Procs
  <2>2. Good(calls[r], "queued", Marked, aired) /\ Flying(calls[r], "queued")
    BY <2>1 DEF OnceInv, SendInv
  <2>3. /\ calls[r] # <<>> /\ Nested(calls[r], Marked)
        /\ c = B!Last(calls[r]).content /\ a = Head(B!Last(calls[r]).sends)
    BY <2>1, <2>2 DEF Flying, NestInv, B!Top
  <2>4. B!Last(calls[r]).content \notin OwnContents
    BY <2>3 DEF Others
  <2>5. Good(calls[r], "emitted", Marked, aired)
    BY <2>2, <2>3, <2>4, EmitGood
  <2>6. Head(B!Last(calls[r]).sends) \in B!Antennas =>
           aired[<<B!Last(calls[r]).content, Head(B!Last(calls[r]).sends)>>] = 0
    BY <2>2, <2>3, <2>4, <2>5, EmitGood
  <2>7. QED
    BY <2>1, <2>3, <2>6 DEF Carries
<1> HIDE DEF Late
<1>6. ASSUME NEW c \in Others, NEW a \in B!Antennas, Late(<<c, a>>) = {}
      PROVE  aired'[<<c, a>>] = aired[<<c, a>>]
  <2>1. aired[<<c, a>>] \in Nat
    BY <1>3 DEF Others
  <2>2. QED
    BY <1>4, <1>6, <2>1, FS_EmptySet
<1>7. Firsts'
  <2>1. ASSUME NEW c \in Others, NEW a \in B!Antennas
        PROVE  aired'[<<c, a>>] <= 1
    <3>1. CASE Late(<<c, a>>) = {}
      BY <1>6, <3>1 DEF OnceInv, Firsts
    <3>2. CASE Late(<<c, a>>) # {}
      <4>1. PICK r : r \in Late(<<c, a>>)
        BY <3>2
      <4>2. \A q \in Late(<<c, a>>) : q = r
        BY <1>5, <4>1 DEF OnceInv, HeldInv
      <4>3. Late(<<c, a>>) = {r}
        BY <4>1, <4>2
      <4>4. Cardinality(Late(<<c, a>>)) = 1
        BY <4>3, FS_Singleton
      <4>5. aired[<<c, a>>] = 0
        BY <1>5, <4>1
      <4>6. QED
        BY <1>4, <4>4, <4>5
    <3>3. QED
      BY <3>1, <3>2
  <2>2. QED
    BY <2>1 DEF Firsts
<1>8. ASSUME NEW q \in B!Procs, NEW c \in Others, Carries(calls'[q], c)
      PROVE  q \notin Radios /\ Carries(calls[q], c)
  BY <1>2, <1>8 DEF Carries
<1>9. HeldInv'
  <2>1. ASSUME NEW c \in Others, NEW q \in B!Procs, NEW r \in B!Procs,
               Carries(calls'[q], c), Carries(calls'[r], c)
        PROVE  q = r
    BY <1>8, <2>1 DEF OnceInv, HeldInv
  <2>2. ASSUME NEW c \in Others, seen'[c] = Absent
        PROVE  /\ \A q \in B!Procs : ~Carries(calls'[q], c)
               /\ \A a \in B!Antennas : aired'[<<c, a>>] = 0
    <3>1. /\ \A q \in B!Procs : ~Carries(calls[q], c)
          /\ \A a \in B!Antennas : aired[<<c, a>>] = 0
      BY <1>2, <2>2 DEF OnceInv, HeldInv
    <3>2. \A a \in B!Antennas : Late(<<c, a>>) = {}
      BY <1>5, <3>1
    <3>3. QED
      BY <1>6, <1>8, <3>1, <3>2
  <2>3. QED
    BY <2>1, <2>2 DEF HeldInv
<1>10. SendInv'
  <2>1. ASSUME NEW q \in B!Procs
        PROVE  Good(calls'[q], air'[q], Marked', aired') /\ Flying(calls'[q], air'[q])
    <3>1. CASE q \in Radios
      <4>1. calls'[q] = <<>> /\ air'[q] = "none"
        BY <1>2, <3>1
      <4>2. QED
        BY <4>1, StacksDiffer DEF Good, Flying
    <3>2. CASE q \notin Radios
      <4>1. calls'[q] = calls[q] /\ air'[q] = air[q]
        BY <1>2, <3>2
      <4>2. /\ Nested(calls[q], Marked)
            /\ Good(calls[q], air[q], Marked, aired) /\ Flying(calls[q], air[q])
        BY DEF NestInv, OnceInv, SendInv
      <4>3. ASSUME NEW c \in Others, Carries(calls[q], c), NEW a \in B!Antennas
            PROVE  aired'[<<c, a>>] = aired[<<c, a>>]
        <5>1. ASSUME NEW r \in Late(<<c, a>>)
              PROVE  FALSE
          BY <1>5, <3>2, <4>3 DEF OnceInv, HeldInv
        <5>2. QED
          BY <1>6, <5>1
      <4>4. /\ \A x : calls[q] = <<x>> => x.content \in Contents
            /\ \A x, y : calls[q] = <<x, y>> => y.content \in Contents
        BY <4>2, NestedContents
      <4>5. Marked \subseteq Marked'
        BY <1>2 DEF Marked
      <4>6. Good(calls[q], air[q], Marked', aired')
        BY <4>2, <4>3, <4>4, <4>5, GoodLater
      <4>7. QED
        BY <4>1, <4>2, <4>6
    <3>3. QED
      BY <3>1, <3>2
  <2>2. QED
    BY <2>1 DEF SendInv
<1>11. QED
  BY <1>7, <1>9, <1>10

(* The records of the bridge: of a known age, not older than the behaviour,*)
(* and never taken away.                                                   *)
Recalled ==
    /\ clock \in Nat /\ clock <= MaxClock
    /\ seen \in [Contents -> B!Ages(SeenTTL)]
    /\ \A c \in Contents : seen[c] # Absent => seen[c] <= clock
Kept == \A c \in Contents : seen'[c] = Absent => seen[c] = Absent

(* The duplicate test records and takes no record away.                    *)
LEMMA RecalledAdmit ==
    ASSUME Recalled, UNCHANGED clock, NEW p, NEW src, NEW c, B!Admit(p, src, c)
    PROVE  Recalled' /\ Kept
<1>1. CASE seen' = seen
  BY <1>1 DEF Recalled, Kept
<1>2. CASE seen' = [seen EXCEPT ![c] = 0]
  <2>1. 0 \in B!Ages(SeenTTL) /\ 0 # Absent
    BY PathAssumption DEF B!Ages
  <2>2. seen' \in [Contents -> B!Ages(SeenTTL)]
    BY <1>2, <2>1 DEF Recalled
  <2>3. ASSUME NEW d \in Contents
        PROVE  seen'[d] = 0 \/ seen'[d] = seen[d]
    BY <1>2 DEF Recalled
  <2>4. QED
    BY <2>1, <2>2, <2>3 DEF Recalled, Kept
<1>3. QED
  BY <1>1, <1>2 DEF B!Admit, B!MarkSeen

(* Nor does any other step.                                                *)
LEMMA RecalledStep ==
    ASSUME MaxClock \in Nat, Recalled, [Next]_vars
    PROVE  Recalled' /\ Kept
<1>1. ASSUME UNCHANGED <<clock, seen>>
      PROVE  Recalled' /\ Kept
  BY <1>1 DEF Recalled, Kept
<1>2. CASE Receives
  BY <1>2, RecalledAdmit DEF Receives, B!RxLoop, bounds
<1>3. CASE Injects
  <2>1. UNCHANGED clock
    BY <1>3 DEF Injects
  <2>2. PICK s \in Slots : \/ \E c \in OwnContents : B!InjectOwn(s, c)
                           \/ \E c \in Contents : B!InjectReceived(s, c)
    BY <1>3 DEF Injects
  <2>3. UNCHANGED seen \/ \E c \in Contents : B!Admit(s, "channel_e", c)
    BY <2>2 DEF B!InjectOwn, B!InjectReceived, B!tables
  <2>4. QED
    BY <1>1, <2>1, <2>3, RecalledAdmit
<1>4. CASE Ticks
  <2>1. /\ clock < MaxClock /\ clock' = clock + 1
        /\ seen' = [c \in Contents |-> B!Older(seen[c], SeenTTL)]
    BY <1>4 DEF Ticks, B!AgeTables
  <2>2. ASSUME NEW c \in Contents
        PROVE  /\ seen'[c] \in B!Ages(SeenTTL)
               /\ seen'[c] # Absent => seen'[c] <= clock + 1
               /\ seen'[c] = Absent => seen[c] = Absent
    <3>1. PICK age \in B!Ages(SeenTTL) : age = seen[c]
      BY DEF Recalled
    <3>2. seen'[c] = B!Older(age, SeenTTL)
      BY <2>1, <3>1
    <3>3. CASE age = Absent
      BY <3>1, <3>2, <3>3 DEF B!Older
    <3>4. CASE age # Absent
      <4>1. age \in 0..SeenTTL /\ age <= clock /\ clock \in Nat
        BY <3>1, <3>4 DEF Recalled, B!Ages
      <4>2. QED
        BY <3>1, <3>2, <3>4, <4>1, PathAssumption DEF B!Older, B!Ages
    <3>5. QED
      BY <3>3, <3>4
  <2>3. seen' \in [Contents -> B!Ages(SeenTTL)]
    BY <2>1, <2>2
  <2>4. QED
    BY <2>1, <2>2, <2>3 DEF Recalled, Kept
<1>5. CASE Forwards
  BY <1>1, <1>5 DEF Forwards, B!Forward, B!NotRepeated, B!Repeat, B!Reinject, B!Publish,
     B!SendNext, B!Emit, B!SendReturns, B!Sent, B!tables, bounds
<1>6. CASE ~Receives /\ ~Injects /\ ~Ticks /\ ~Forwards
  BY <1>1, <1>6 DEF Next, Hears, Reads, HandsOver, Confirms, Starts, Stops, Updates,
     B!Confirmed, B!Run, B!Stop, B!UpdateRules, B!SetMode, B!tables, bridgeVars,
     bounds, vars
<1>7. QED
  BY <1>2, <1>3, <1>4, <1>5, <1>6

(* The rules, the emissions and the sends under way.                       *)
LEMMA CountedStep ==
    ASSUME SeenInv, [Next]_vars
    PROVE  /\ rules' \in RuleSets
           /\ aired' \in [Contents \X B!Antennas -> Nat]
           /\ air' = [p \in B!Procs |-> air'[p]]
<1> DEFINE Counted == /\ rules' \in RuleSets
                      /\ aired' \in [Contents \X B!Antennas -> Nat]
                      /\ air' = [p \in B!Procs |-> air'[p]]
<1>1. /\ rules \in RuleSets
      /\ aired \in [Contents \X B!Antennas -> Nat]
      /\ air = [p \in B!Procs |-> air[p]]
  BY DEF SeenInv
<1>2. ASSUME UNCHANGED <<rules, aired, air>>
      PROVE  Counted
  BY <1>1, <1>2
<1>3. ASSUME UNCHANGED <<rules, aired>>, NEW p, NEW fly, air' = [air EXCEPT ![p] = fly]
      PROVE  Counted
  BY <1>1, <1>3
<1>4. CASE Forwards
  <2>1. PICK p \in B!Procs : B!Forward(p)
    BY <1>4 DEF Forwards
  <2>2. CASE B!NotRepeated(p) \/ B!Repeat(p) \/ B!Reinject(p) \/ B!Publish(p)
    BY <1>2, <2>2 DEF B!NotRepeated, B!Repeat, B!Reinject, B!Publish
  <2>3. CASE B!SendNext(p)
    BY <1>2, <1>3, <2>3 DEF B!SendNext
  <2>4. CASE B!Emit(p)
    <3> DEFINE x == <<B!Top(p).content, Head(B!Top(p).sends)>>
    <3>1. /\ air' = [air EXCEPT ![p] = "emitted"] /\ rules' = rules
          /\ aired' = [aired EXCEPT ![x] = @ + 1]
      BY <2>4 DEF B!Emit
    <3> HIDE DEF x
    <3>2. aired' \in [Contents \X B!Antennas -> Nat]
      <4> DEFINE S == Contents \X B!Antennas
      <4>1. aired \in [S -> Nat]
        BY <1>1
      <4> HIDE DEF S
      <4>2. ASSUME x \in S
            PROVE  aired' \in [S -> Nat]
        <5>1. aired[x] \in Nat
          BY <4>1, <4>2
        <5>2. aired' = [aired EXCEPT ![x] = aired[x] + 1] /\ aired[x] + 1 \in Nat
          BY <3>1, <5>1
        <5> DEFINE n == aired[x] + 1
        <5> HIDE DEF n
        <5>3. aired' = [aired EXCEPT ![x] = n] /\ n \in Nat
          BY <5>2 DEF n
        <5>4. QED
          BY <4>1, <4>2, <5>3
      <4>3. ASSUME x \notin S
            PROVE  aired' \in [S -> Nat]
        <5>1. aired' = aired
          BY <3>1, <4>1, <4>3
        <5>2. QED
          BY <4>1, <5>1
      <4>4. QED
        BY <4>2, <4>3 DEF S
    <3>3. QED
      BY <1>1, <3>1, <3>2
  <2>5. CASE B!SendReturns(p)
    BY <1>3, <2>5 DEF B!SendReturns, B!Sent
  <2>6. QED
    BY <2>1, <2>2, <2>3, <2>4, <2>5 DEF B!Forward
<1>5. CASE Confirms
  BY <1>3, <1>5 DEF Confirms, B!Confirmed
<1>6. CASE Stops
  <2>1. PICK late \in SUBSET {r \in Radios : air[r] = "queued"} :
           aired' = [x \in DOMAIN aired |-> aired[x] + B!Cardinality(
                       {r \in late : x = <<B!Top(r).content, Head(B!Top(r).sends)>>})]
    BY <1>6 DEF Stops, B!Stop
  <2> DEFINE Late(x) == {r \in late : x = <<B!Top(r).content, Head(B!Top(r).sends)>>}
  <2>2. ASSUME NEW x
        PROVE  B!Cardinality(Late(x)) \in Nat
    <3>1. Late(x) \subseteq Radios /\ IsFiniteSet(Radios)
      BY PathAssumption
    <3> HIDE DEF Late
    <3>2. Cardinality(Late(x)) \in Nat
      BY <3>1, FS_Subset, FS_CardinalityType
    <3>3. QED
      BY <3>2, BridgeCardinality
  <2> HIDE DEF Late
  <2>3. aired' = [x \in Contents \X B!Antennas |-> aired[x] + B!Cardinality(Late(x))]
    BY <1>1, <2>1 DEF Late
  <2>4. \A x \in Contents \X B!Antennas : aired[x] + B!Cardinality(Late(x)) \in Nat
    <3> SUFFICES ASSUME NEW x \in Contents \X B!Antennas
                 PROVE  aired[x] + B!Cardinality(Late(x)) \in Nat
      OBVIOUS
    <3>1. aired[x] \in Nat /\ B!Cardinality(Late(x)) \in Nat
      BY <1>1, <2>2
    <3>2. QED
      BY <3>1
  <2>5. aired' \in [Contents \X B!Antennas -> Nat]
    BY <2>3, <2>4
  <2>6. air' = [p \in B!Procs |-> air'[p]] /\ rules' = rules
    BY <1>6 DEF Stops, B!Stop
  <2>7. QED
    BY <1>1, <2>5, <2>6
<1>7. CASE Updates
  <2>1. UNCHANGED <<aired, air>> /\ rules' \in RuleSets
    BY <1>1, <1>7 DEF Updates, B!UpdateRules, B!SetMode
  <2>2. QED
    BY <1>1, <2>1
<1>8. CASE ~Forwards /\ ~Confirms /\ ~Stops /\ ~Updates
  BY <1>2, <1>8 DEF Next, Hears, Reads, HandsOver, Receives, Injects, Starts, Ticks,
     B!RxLoop, B!InjectOwn, B!InjectReceived, B!Run, bridgeVars, vars
<1>9. QED
  BY <1>4, <1>5, <1>6, <1>7, <1>8

(* SeenInv is preserved, by whatever step.                                 *)
LEMMA SeenStep ==
    ASSUME MaxClock \in Nat, SeenInv, [Next]_vars
    PROVE  SeenInv' /\ Kept
<1>1. Recalled
  BY DEF SeenInv, Recalled
<1>2. Recalled' /\ Kept
  BY <1>1, RecalledStep
<1>3. QED
  BY <1>2, CountedStep DEF SeenInv, Recalled

(* A tick makes records older.                                             *)
LEMMA OnceTick ==
    ASSUME NestInv, OnceInv, Kept, Ticks
    PROVE  SendInv' /\ HeldInv' /\ Firsts'
<1>1. /\ UNCHANGED <<calls, air, aired>>
      /\ engSeen' = [c \in Contents |-> B!Older(engSeen[c], EngineTTL)]
  BY DEF Ticks, B!AgeTables
<1>2. Marked \subseteq Marked'
  <2>1. ASSUME NEW c \in Contents, engSeen[c] # Absent
        PROVE  engSeen'[c] # Absent
    <3>1. PICK age \in B!Ages(EngineTTL) : age = engSeen[c]
      BY DEF NestInv
    <3>2. engSeen'[c] = B!Older(age, EngineTTL)
      BY <1>1, <3>1
    <3>3. QED
      BY <2>1, <3>1, <3>2, PathAssumption DEF B!Ages, B!Older
  <2>2. QED
    BY <2>1 DEF Marked
<1>3. ASSUME NEW q \in B!Procs
      PROVE  Good(calls'[q], air'[q], Marked', aired') /\ Flying(calls'[q], air'[q])
  <2>1. /\ Nested(calls[q], Marked)
        /\ Good(calls[q], air[q], Marked, aired) /\ Flying(calls[q], air[q])
    BY DEF NestInv, OnceInv, SendInv
  <2>2. /\ \A x : calls[q] = <<x>> => x.content \in Contents
        /\ \A x, y : calls[q] = <<x, y>> => y.content \in Contents
    <3>1. Nested(calls[q], Marked)
      BY <2>1
    <3>2. QED
      BY <3>1, NestedContents
  <2>3. Good(calls[q], air[q], Marked', aired)
    BY <1>2, <2>1, <2>2, GoodLater
  <2>4. QED
    BY <1>1, <2>1, <2>3
<1>4. SendInv'
  BY <1>3 DEF SendInv
<1>5. HeldInv' /\ Firsts'
  BY <1>1 DEF OnceInv, HeldInv, Firsts, Kept, Others
<1>6. QED
  BY <1>4, <1>5

(* OnceInv is preserved, by whatever step.                                 *)
LEMMA OnceStep ==
    ASSUME OneWay, MaxClock \in Nat, MaxClock < EngineTTL, MaxClock < SeenTTL,
           PathTypes, NestInv, AgeInv, OnceInv, [Next]_vars
    PROVE  OnceInv'
<1>1. SeenInv' /\ Kept
  BY SeenStep DEF OnceInv
<1> DEFINE Once == SendInv' /\ HeldInv' /\ Firsts'
<1>2. ASSUME UNCHANGED <<calls, air, aired, engSeen>>
      PROVE  Once
  BY <1>1, <1>2, SendSame DEF OnceInv, Kept, Others
<1>3. ASSUME Hears \/ Reads \/ HandsOver \/ Starts \/ Updates \/ UNCHANGED vars
      PROVE  Once
  BY <1>2, <1>3 DEF Hears, Reads, HandsOver, Starts, Updates, bridgeVars, vars,
     B!Run, B!UpdateRules, B!SetMode, B!tables
<1>4. ASSUME Receives
      PROVE  Once
  <2>1. PICK r \in Radios : B!RxLoop(r)
    BY <1>4 DEF Receives
  <2>2. /\ ~B!Busy(r) /\ rxq[r] # <<>> /\ UNCHANGED <<aired, air, engSeen>>
        /\ B!Admit(r, r, Head(rxq[r]))
    BY <2>1 DEF B!RxLoop
  <2>3. r \in B!Procs /\ r \in B!Antennas /\ Head(rxq[r]) \in Contents
    BY <2>2 DEF PathTypes, B!Procs, B!Antennas
  <2>4. QED
    BY <2>2, <2>3, OnceAdmit
<1>5. ASSUME Injects
      PROVE  Once
  <2>1. PICK s \in Slots : \/ \E c \in OwnContents : B!InjectOwn(s, c)
                           \/ \E c \in Contents : B!InjectReceived(s, c)
    BY <1>5 DEF Injects
  <2>2. s \in B!Procs /\ "channel_e" \in B!Antennas
    BY DEF B!Procs, B!Antennas
  <2>3. ASSUME NEW c \in Contents, B!InjectReceived(s, c)
        PROVE  Once
    <3>1. ~B!Busy(s) /\ UNCHANGED <<aired, air, engSeen>> /\ B!Admit(s, "channel_e", c)
      BY <2>3 DEF B!InjectReceived
    <3>2. QED
      BY <2>2, <3>1, OnceAdmit
  <2>4. QED
    BY <2>1, <2>2, <2>3, OnceOwn
<1>6. ASSUME Forwards
      PROVE  Once
  <2>1. PICK p \in B!Procs : B!Forward(p)
    BY <1>6 DEF Forwards
  <2>2. Timely
    BY AgeTimely
  <2>3. CASE B!NotRepeated(p) \/ B!Publish(p)
    BY <2>3, OnceInline
  <2>4. CASE B!Repeat(p)
    BY <2>2, <2>4, OnceRepeat
  <2>5. CASE B!Reinject(p)
    BY <2>5, OnceReinject
  <2>6. CASE B!SendNext(p)
    BY <2>6, OnceSendNext
  <2>7. CASE B!Emit(p)
    BY <2>7, OnceEmit
  <2>8. CASE B!SendReturns(p)
    BY <2>8, OnceSent
  <2>9. QED
    BY <2>1, <2>3, <2>4, <2>5, <2>6, <2>7, <2>8 DEF B!Forward
<1>7. ASSUME Confirms
      PROVE  Once
  BY <1>7, OnceConfirmed DEF Confirms
<1>8. ASSUME Stops
      PROVE  Once
  BY <1>8, OnceStop DEF Stops
<1>9. ASSUME Ticks
      PROVE  Once
  BY <1>1, <1>9, OnceTick
<1>10. Once
  BY <1>3, <1>4, <1>5, <1>6, <1>7, <1>8, <1>9 DEF Next
<1>11. QED
  BY <1>1, <1>10 DEF OnceInv

LEMMA OnceInit ==
    ASSUME Init, MaxClock \in Nat
    PROVE  OnceInv
<1>1. /\ clock = 0 /\ rules \in RuleSets
      /\ seen = [c \in Contents |-> Absent]
      /\ calls = [p \in B!Procs |-> <<>>]
      /\ air = [p \in B!Procs |-> "none"]
      /\ aired = [x \in Contents \X B!Antennas |-> 0]
  BY DEF Init, B!BInit
<1>2. SeenInv
  BY <1>1 DEF SeenInv, B!Ages
<1>3. ASSUME NEW c \in Others, NEW a \in B!Antennas
      PROVE  aired[<<c, a>>] = 0
  BY <1>1 DEF Others
<1>4. HeldInv
  <2>1. \A c \in Others, p \in B!Procs : ~Carries(calls[p], c)
    BY <1>1 DEF Carries
  <2>2. QED
    BY <1>3, <2>1 DEF HeldInv
<1>5. SendInv
  <2>1. ASSUME NEW p \in B!Procs
        PROVE  calls[p] = <<>> /\ air[p] = "none"
    BY <1>1
  <2>2. Good(<<>>, "none", Marked, aired) /\ Flying(<<>>, "none")
    BY StacksDiffer DEF Good, Flying
  <2>3. QED
    BY <2>1, <2>2 DEF SendInv
<1>6. Firsts
  <2>1. ASSUME NEW c \in Others, NEW a \in B!Antennas
        PROVE  aired[<<c, a>>] <= 1
    <3>1. aired[<<c, a>>] = 0
      BY <1>3
    <3>2. QED
      BY <3>1
  <2>2. QED
    BY <2>1 DEF Firsts
<1>7. QED
  BY <1>2, <1>4, <1>5, <1>6 DEF OnceInv

(* OncePerAntenna: the duplicate tests of the bridge and of the engine     *)
(* (_is_duplicate, flood_forward) read and record in one step of the loop; *)
(* whatever rule lists follow each other, a packet of another node goes    *)
(* out at most once on each antenna, if each list knows one way to it and  *)
(* the behaviour ends before the packet's records do.                      *)
THEOREM HeardGoesOutOnce ==
    ASSUME OneWay, MaxClock \in Nat, MaxClock < EngineTTL, MaxClock < SeenTTL
    PROVE  Spec => []OncePerAntenna
<1>1. Init => HandoverInv /\ NestInv /\ AgeInv /\ OnceInv
  <2>1. ASSUME Init
        PROVE  AgeInv
    BY <2>1 DEF Init, B!BInit, AgeInv, B!Ages
  <2>2. QED
    BY <2>1, HandoverInit, NestInit, OnceInit
<1>2. /\ HandoverInv /\ NestInv /\ AgeInv /\ OnceInv /\ [Next]_vars
      => HandoverInv' /\ NestInv' /\ AgeInv' /\ OnceInv'
  BY HandoverStep, NestStep, AgeTimely, AgeStep, OnceStep DEF HandoverInv
<1>3. OnceInv => OncePerAntenna
  BY FirstsMeans DEF OnceInv
<1>4. QED
  BY <1>1, <1>2, <1>3, PTL DEF Spec
=============================================================================
