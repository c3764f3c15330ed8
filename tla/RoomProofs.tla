----------------------------- MODULE RoomProofs -----------------------------
(***************************************************************************)
(* A client's cursor passes no post it has not got, and a client is charged*)
(* with no attempt it has acknowledged: for any number of clients, posts,  *)
(* logins, failing transactions and restarts.                              *)
(*                                                                         *)
(* The second half is about the companion, CompanionRequests: what an app  *)
(* is told about its requests goes to the connection that asked, once and  *)
(* after SENT.  A frame is right by the request it is about and stays so   *)
(* (FrameRight), and a reply is queued only where SENT already is, which   *)
(* needs to be known of requests whose command is over (SentRight).        *)
(*                                                                         *)
(* The third is about the store, StoreUpgrade: its posts and its lifetime  *)
(* counts outlive every upgrade.  Until the first migration the database   *)
(* is as an earlier version left it (AsLeft), afterwards no wire time is   *)
(* later than the room's cursor (AsMigrated).  What the migration computes *)
(* is recursive: that it is defined, and ascends, is shown by induction    *)
(* over the posts (WireExists, WireRight).                                 *)
(*                                                                         *)
(* The fourth is about the contacts of a companion, Contacts: the store,   *)
(* its copy on disk and the app's list. A contact that is not as the app   *)
(* has it is later than the app's last END, or is due in the dump under    *)
(* way and later than what that will say (Newer); it rests on revisions    *)
(* later than anything seen (NextRevFacts, SeenGrows).                     *)
(*                                                                         *)
(* Then the messages of a companion, CompanionInbox: what was given, what  *)
(* is in SQLite and what is in RAM are what was accepted, in turn          *)
(* (InTurn), up to the messages that are excused. Removing messages from a *)
(* sequence is a recursive function, whose laws are shown by induction     *)
(* over sequences (MinusTwice, MinusConcat).                               *)
(*                                                                         *)
(* The last is about who may write to a room, RoomAccess: the time of a    *)
(* client on the list is no earlier than that of any message taken of it,  *)
(* and its receipt is of one of them (ListRight).                          *)
(***************************************************************************)
EXTENDS RoomSync, Sequences, SequenceTheorems, FiniteSetTheorems, WellFoundedInduction,
        TLAPS

AttemptType == [post : Nat, nonce : Nonces]
RowType == [since : Nat, pending : AttemptType \cup {None},
            failures : Nat, active : BOOLEAN]
PushType == [client : Clients, since : Nat, stage : {"limiter", "sending"},
             post : Nat, nonce : Nonces \cup {None}]

(* None is a value of its own.                                             *)
NoneIsApart == None \notin AttemptType \cup RowType \cup PushType

TypeInv ==
    /\ Last \in Nat
    /\ DOMAIN author = 1..Last
    /\ posts \subseteq 1..Last
    /\ row \in [Clients -> RowType \cup {None}]
    /\ acl \in [Clients -> Nat \cup {None}]
    /\ acked \in [Clients -> AttemptType \cup {None}]
    /\ push \in PushType \cup {None}
    /\ received \in [Clients -> SUBSET Nat]
    /\ claimed \in [Clients -> Nat]
    /\ unacked \in [Clients -> Nat]
    /\ push # None /\ push.stage = "sending" => push.nonce \in Nonces

(* A session has a row, so that no cursor is made up for it.               *)
MemberInv == \A c \in Clients : acl[c] # None => row[c] # None

(* Between the cursor from which a post was chosen and the post there are  *)
(* only posts of the client itself.                                        *)
OwnIn(authors, set, c, since, post) ==
    \A p \in set : since < p /\ p < post => authors[p] = c

OwnBetween(c, since, post) == OwnIn(author, posts, c, since, post)

(* What lies below the cursor is accounted for; an attempt that is under   *)
(* way is the next post after it.                                          *)
RowInv ==
    \A c \in Clients : row[c] # None =>
        /\ row[c].since <= Last
        /\ \A p \in posts : p <= row[c].since =>
              author[p] = c \/ p \in received[c] \/ p <= claimed[c]
        /\ row[c].pending # None =>
              /\ row[c].pending.post <= Last
              /\ OwnBetween(c, row[c].since, row[c].pending.post)

(* What was acknowledged was received.                                     *)
AckedInv == \A c \in Clients : acked[c] # None => acked[c].post \in received[c]

(* A push under way has chosen the next post as well.                      *)
PushInv ==
    push # None =>
        /\ push.post <= Last
        /\ OwnBetween(push.client, push.since, push.post)

IInv == TypeInv /\ MemberInv /\ RowInv /\ AckedInv /\ PushInv

-----------------------------------------------------------------------------
(* A non-empty set of naturals has a least element.                        *)
LEMMA LessThanWellFounded == IsWellFoundedOn({ss \in Nat \X Nat : ss[1] < ss[2]}, Nat)
BY NatLessThanWellFounded, SMT DEF OpToRel

LEMMA MinOfNaturals ==
    ASSUME NEW S, S \subseteq Nat, S # {}
    PROVE  Min(S) \in S /\ \A y \in S : Min(S) <= y
<1> DEFINE R == {ss \in Nat \X Nat : ss[1] < ss[2]}
<1>1. \E x \in S : \A y \in S : ~ (<<y, x>> \in R)
  <2> HIDE DEF R
  <2> QED
    BY WFMin, LessThanWellFounded DEF R
<1>2. PICK x \in S : \A y \in S : ~ (<<y, x>> \in R)
  BY <1>1
<1>3. \A y \in S : x <= y
  <2>1. ASSUME NEW y \in S PROVE x <= y
    <3>1. ~ (<<y, x>> \in R)
      BY <1>2
    <3>2. x \in Nat /\ y \in Nat
      OBVIOUS
    <3>3. ~ (y < x)
      BY <3>1, <3>2
    <3> QED
      BY <3>2, <3>3
  <2> QED
    BY <2>1
<1> QED
  BY <1>3 DEF Min

(* What a finished attempt leaves of the rows.                             *)
LEMMA FinishedRows ==
    ASSUME NEW c \in Clients, NEW attempt \in AttemptType, NEW answered \in BOOLEAN,
           row \in [Clients -> RowType \cup {None}]
    PROVE  LET new == Finished(c, attempt, answered)
           IN  /\ new \in [Clients -> RowType \cup {None}]
               /\ \A d \in Clients : d # c => new[d] = row[d]
               /\ row[c] = None \/ row[c].pending # attempt => new = row
               /\ row[c] # None /\ row[c].pending = attempt =>
                     /\ new[c] = [since |-> IF answered /\ attempt.post > row[c].since
                                            THEN attempt.post ELSE row[c].since,
                                  pending |-> None,
                                  failures |-> IF answered THEN 0 ELSE row[c].failures + 1,
                                  active |-> answered \/ row[c].active]
<1> DEFINE r == [since |-> IF answered /\ attempt.post > row[c].since
                           THEN attempt.post ELSE row[c].since,
                 pending |-> None,
                 failures |-> IF answered THEN 0 ELSE row[c].failures + 1,
                 active |-> answered \/ row[c].active]
<1>1. CASE row[c] = None \/ row[c].pending # attempt
  BY <1>1 DEF Finished
<1>2. CASE row[c] # None /\ row[c].pending = attempt
  <2>1. Finished(c, attempt, answered) = [row EXCEPT ![c] = r]
    BY <1>2 DEF Finished
  <2>2. r \in RowType
    <3>1. row[c] \in RowType
      BY <1>2
    <3> QED
      BY <3>1 DEF RowType, AttemptType
  <2> HIDE DEF r
  <2>3. /\ [row EXCEPT ![c] = r] \in [Clients -> RowType \cup {None}]
        /\ [row EXCEPT ![c] = r][c] = r
        /\ \A d \in Clients : d # c => [row EXCEPT ![c] = r][d] = row[d]
    BY <2>2
  <2> QED
    BY <1>2, <2>1, <2>3 DEF r
<1> QED
  BY <1>1, <1>2

-----------------------------------------------------------------------------
LEMMA InitIInv == ASSUME NoneIsApart, Init PROVE IInv
<1>1. Last = 0 /\ DOMAIN author = {}
  BY FS_EmptySet DEF Init, Last
<1>2. TypeInv
  BY <1>1 DEF Init, TypeInv
<1> QED
  BY <1>1, <1>2 DEF Init, IInv, MemberInv, RowInv, AckedInv, PushInv

(* A new post is later than every other.                                   *)
LEMMA AddPostKeeps ==
    ASSUME IInv, NEW a \in Clients \cup {Server}, AddPost(a)
    PROVE  IInv'
<1> USE DEF IInv
<1>1. DOMAIN author' = 1..(Last + 1)
  BY DEF AddPost
<1>2. Last' = Last + 1
  <2>1. Cardinality(1..(Last + 1)) = Last + 1
    BY FS_Interval DEF TypeInv
  <2> QED
    BY <1>1, <2>1 DEF Last
<1>3. \A p \in posts : p \in 1..Last /\ author'[p] = author[p]
  BY DEF AddPost, TypeInv
<1>4. posts' = posts \cup {Last + 1}
  BY DEF AddPost
<1>5. TypeInv'
  BY <1>1, <1>2, <1>4 DEF AddPost, TypeInv, history
<1>6. ASSUME NEW c, NEW since, NEW post \in Nat, post <= Last,
             OwnIn(author, posts, c, since, post)
      PROVE  OwnIn(author', posts', c, since, post)
  BY <1>3, <1>4, <1>6 DEF OwnIn, TypeInv
<1>7. RowInv'
  <2> SUFFICES ASSUME NEW c \in Clients, row[c] # None
               PROVE  /\ row[c].since <= Last'
                      /\ \A p \in posts' : p <= row[c].since =>
                            author'[p] = c \/ p \in received[c] \/ p <= claimed[c]
                      /\ row[c].pending # None =>
                            /\ row[c].pending.post <= Last'
                            /\ OwnIn(author', posts', c, row[c].since, row[c].pending.post)
    BY DEF AddPost, RowInv, OwnBetween, history
  <2>1. row[c] \in RowType /\ Last \in Nat
    BY DEF TypeInv
  <2>2. row[c].since \in Nat /\ row[c].since <= Last
    BY <2>1 DEF RowInv, RowType
  <2>3. \A p \in posts' : p <= row[c].since =>
            author'[p] = c \/ p \in received[c] \/ p <= claimed[c]
    BY <1>3, <1>4, <2>1, <2>2 DEF RowInv
  <2>4. ASSUME row[c].pending # None
        PROVE  /\ row[c].pending.post <= Last'
               /\ OwnIn(author', posts', c, row[c].since, row[c].pending.post)
    <3>1. row[c].pending.post \in Nat
      BY <2>1, <2>4 DEF RowType, AttemptType
    <3>2. row[c].pending.post <= Last /\ OwnIn(author, posts, c, row[c].since, row[c].pending.post)
      BY <2>4 DEF RowInv, OwnBetween
    <3>3. OwnIn(author', posts', c, row[c].since, row[c].pending.post)
      BY <1>6, <3>1, <3>2
    <3> QED
      BY <1>2, <2>1, <3>1, <3>2, <3>3
  <2> QED
    BY <1>2, <2>1, <2>2, <2>3, <2>4
<1>8. PushInv'
  <2>1. ASSUME push # None
        PROVE  push.post \in Nat /\ push.post <= Last
               /\ OwnIn(author, posts, push.client, push.since, push.post)
    BY <2>1 DEF TypeInv, PushType, PushInv, OwnBetween
  <2>2. push' = push /\ Last \in Nat
    BY DEF AddPost, TypeInv
  <2>3. ASSUME push # None
        PROVE  OwnIn(author', posts', push.client, push.since, push.post)
    BY <1>6, <2>1, <2>3
  <2> QED
    BY <1>2, <2>1, <2>2, <2>3 DEF PushInv, OwnBetween
<1> QED
  BY <1>5, <1>7, <1>8 DEF AddPost, MemberInv, AckedInv, history

(* A login or a keep-alive: the client itself says up to where it is, or   *)
(* the row does.                                                           *)
LEMMA ResetKeeps ==
    ASSUME NoneIsApart, IInv, NEW c \in Clients,
           (\E cursor \in (0..Last) \cup {None} : Login(c, cursor))
               \/ (\E cursor \in 0..Last : KeepAlive(c, cursor))
    PROVE  IInv'
<1> USE DEF IInv
<1> DEFINE Cursor(since) ==
              /\ row' = [row EXCEPT ![c] = Fresh(since)]
              /\ \/ row[c] # None /\ since = row[c].since /\ claimed' = claimed
                 \/ row[c] = None /\ since = 0 /\ claimed' = claimed
                 \/ claimed' = [claimed EXCEPT ![c] = since]
           Session == /\ acl' \in [Clients -> Nat \cup {None}]
                      /\ \A d \in Clients : d # c => acl'[d] = acl[d]
<1>0. row[c] # None => row[c].since \in 0..Last
  BY DEF TypeInv, RowInv, RowType
<1>1. (\E since \in 0..Last : Cursor(since)) /\ Session
  <2>1. ASSUME NEW cursor \in 0..Last, Login(c, cursor), cursor # None
        PROVE  (\E since \in 0..Last : Cursor(since)) /\ Session
    <3>1. Cursor(cursor)
      BY <2>1 DEF Login
    <3>2. acl' = [acl EXCEPT ![c] = cursor]
      BY <2>1 DEF Login
    <3>3. cursor \in Nat
      BY DEF TypeInv
    <3>4. Session
      BY <3>2, <3>3 DEF TypeInv
    <3> HIDE DEF Cursor, Session
    <3> QED
      BY <3>1, <3>4
  <2>2. ASSUME Login(c, None)
        PROVE  (\E since \in 0..Last : Cursor(since)) /\ Session
    <3>1. Cursor(IF row[c] = None THEN 0 ELSE row[c].since)
      BY <2>2 DEF Login, TypeInv
    <3>2. acl' = [acl EXCEPT ![c] = IF acl[c] = None THEN 0 ELSE acl[c]]
      BY <2>2 DEF Login
    <3>3. (IF row[c] = None THEN 0 ELSE row[c].since) \in 0..Last
      BY <1>0 DEF TypeInv
    <3>4. (IF acl[c] = None THEN 0 ELSE acl[c]) \in Nat \cup {None}
      BY DEF TypeInv
    <3>5. Session
      BY <3>2, <3>4 DEF TypeInv
    <3> QED
      BY <3>1, <3>3, <3>5
  <2>3. ASSUME NEW cursor \in 0..Last, KeepAlive(c, cursor)
        PROVE  (\E since \in 0..Last : Cursor(since)) /\ Session
    <3>1. row[c] # None
      BY <2>3 DEF KeepAlive, Members, MemberInv
    <3>2. CASE cursor > 0
      <4>1. Cursor(cursor) /\ acl' = [acl EXCEPT ![c] = cursor]
        BY <2>3, <3>2 DEF KeepAlive, TypeInv
      <4>2. cursor \in Nat
        BY DEF TypeInv
      <4>3. Session
        BY <4>1, <4>2 DEF TypeInv
      <4> HIDE DEF Cursor, Session
      <4> QED
        BY <4>1, <4>3
    <3>3. CASE ~(cursor > 0)
      <4>1. Cursor(row[c].since) /\ acl' = acl
        BY <2>3, <3>1, <3>3 DEF KeepAlive, TypeInv
      <4> QED
        BY <1>0, <3>1, <4>1 DEF TypeInv
    <3> QED
      BY <3>2, <3>3
  <2> QED
    BY <2>1, <2>2, <2>3
<1>1a. PICK since \in 0..Last : Cursor(since)
  BY <1>1
<1>2. /\ UNCHANGED <<author, posts, acked, push, received>>
      /\ unacked' = [unacked EXCEPT ![c] = 0]
      /\ Session
  BY <1>1 DEF Login, KeepAlive, tables
<1>3. Fresh(since) \in RowType /\ Fresh(since) # None /\ Fresh(since).since = since
      /\ Fresh(since).pending = None
  <2>1. since \in Nat
    BY DEF TypeInv
  <2>2. Fresh(since) \in RowType
    BY <2>1 DEF Fresh, RowType
  <2> QED
    BY <2>2 DEF Fresh, NoneIsApart
<1> HIDE DEF Fresh
<1>4. /\ row' \in [Clients -> RowType \cup {None}]
      /\ row'[c] = Fresh(since)
      /\ \A d \in Clients : d # c => row'[d] = row[d]
  BY <1>1a, <1>3 DEF TypeInv
<1>5. /\ claimed' \in [Clients -> Nat]
      /\ \A d \in Clients : d # c => claimed'[d] = claimed[d]
  <2>1. since \in Nat
    BY DEF TypeInv
  <2> QED
    BY <1>1a, <2>1 DEF TypeInv
<1>6. Last' = Last
  BY <1>2 DEF Last
<1>7. TypeInv'
  BY <1>2, <1>4, <1>5, <1>6 DEF TypeInv
<1>8. MemberInv'
  BY <1>2, <1>3, <1>4 DEF MemberInv
<1>9. RowInv'
  <2> SUFFICES ASSUME NEW d \in Clients, row'[d] # None
               PROVE  /\ row'[d].since <= Last
                      /\ \A p \in posts : p <= row'[d].since =>
                            author[p] = d \/ p \in received[d] \/ p <= claimed'[d]
                      /\ row'[d].pending # None =>
                            /\ row'[d].pending.post <= Last
                            /\ OwnBetween(d, row'[d].since, row'[d].pending.post)
    BY <1>2, <1>6 DEF RowInv, OwnBetween
  <2>1. CASE d # c
    BY <1>4, <1>5, <2>1 DEF RowInv
  <2>2. CASE d = c
    <3>1. row'[d].since = since /\ row'[d].pending = None /\ since <= Last
      BY <1>3, <1>4, <2>2 DEF TypeInv
    <3>2. ASSUME NEW p \in posts, p <= since
          PROVE  author[p] = d \/ p \in received[d] \/ p <= claimed'[d]
      <4>1. CASE row[c] # None /\ since = row[c].since /\ claimed' = claimed
        BY <2>2, <3>2, <4>1 DEF RowInv
      <4>2. CASE since = 0
        <5>1. p \in 1..Last /\ Last \in Nat
          BY DEF TypeInv
        <5> QED
          BY <3>2, <4>2, <5>1
      <4>3. CASE claimed' = [claimed EXCEPT ![c] = since]
        BY <2>2, <3>2, <4>3 DEF TypeInv
      <4> QED
        BY <1>1a, <4>1, <4>2, <4>3
    <3> QED
      BY <3>1, <3>2
  <2> QED
    BY <2>1, <2>2
<1> QED
  BY <1>2, <1>6, <1>7, <1>8, <1>9 DEF AckedInv, PushInv, OwnBetween

(* The row's attempt is finished.                                          *)
LEMMA FinishKeepsRows ==
    ASSUME NoneIsApart, IInv, NEW c \in Clients, NEW attempt \in AttemptType,
           NEW answered \in BOOLEAN,
           UNCHANGED <<author, posts, claimed>>,
           \A d \in Clients : received[d] \subseteq received'[d],
           answered => attempt.post \in received'[c],
           row' = Finished(c, attempt, answered)
    PROVE  /\ row' \in [Clients -> RowType \cup {None}]
           /\ \A d \in Clients : (row'[d] = None) <=> (row[d] = None)
           /\ RowInv'
<1> USE DEF IInv
<1> DEFINE r == [since |-> IF answered /\ attempt.post > row[c].since
                           THEN attempt.post ELSE row[c].since,
                 pending |-> None,
                 failures |-> IF answered THEN 0 ELSE row[c].failures + 1,
                 active |-> answered \/ row[c].active]
           Good(d, rec) ==
              /\ rec.since <= Last
              /\ \A p \in posts : p <= rec.since =>
                    author[p] = d \/ p \in received'[d] \/ p <= claimed[d]
              /\ rec.pending # None =>
                    /\ rec.pending.post <= Last
                    /\ OwnBetween(d, rec.since, rec.pending.post)
<1>1. /\ row' \in [Clients -> RowType \cup {None}]
      /\ \A d \in Clients : d # c => row'[d] = row[d]
      /\ row[c] = None \/ row[c].pending # attempt => row' = row
      /\ row[c] # None /\ row[c].pending = attempt => row'[c] = r
  BY FinishedRows DEF TypeInv
<1>2. ASSUME NEW d \in Clients, row[d] # None
      PROVE  Good(d, row[d])
  BY <1>2 DEF RowInv
<1>3. ASSUME row[c] # None, row[c].pending = attempt
      PROVE  r # None /\ Good(c, r)
  <2>1. row[c] \in RowType /\ Last \in Nat /\ posts \subseteq 1..Last
    BY <1>3 DEF TypeInv
  <2>2. attempt.post \in Nat /\ row[c].since \in Nat /\ attempt # None
    BY <2>1 DEF AttemptType, RowType, NoneIsApart
  <2>3. r \in RowType
    BY <2>1, <2>2 DEF RowType
  <2>4. attempt.post <= Last /\ OwnBetween(c, row[c].since, attempt.post)
    BY <1>3, <2>2 DEF RowInv
  <2>5. ASSUME NEW p \in posts, p <= r.since
        PROVE  author[p] = c \/ p \in received'[c] \/ p <= claimed[c]
    <3>0. p \in Nat
      BY <2>1
    <3>1. CASE p <= row[c].since
      BY <1>2, <1>3, <3>1
    <3>2. CASE ~(p <= row[c].since)
      <4>1. answered /\ p <= attempt.post /\ row[c].since < p
        BY <2>2, <2>5, <3>0, <3>2
      <4>2. CASE p = attempt.post
        BY <4>1, <4>2
      <4>3. CASE p # attempt.post
        BY <2>2, <2>4, <3>0, <4>1, <4>3 DEF OwnBetween, OwnIn
      <4> QED
        BY <4>2, <4>3
    <3> QED
      BY <3>1, <3>2
  <2>6. r.since <= Last
    BY <1>2, <1>3, <2>4
  <2> QED
    BY <2>3, <2>5, <2>6 DEF NoneIsApart
<1> HIDE DEF r
<1>4. \A d \in Clients : (row'[d] = None) <=> (row[d] = None)
  BY <1>1, <1>3
<1>5. ASSUME NEW d \in Clients, row'[d] # None
      PROVE  Good(d, row'[d])
  BY <1>1, <1>2, <1>3, <1>5
<1>6. RowInv'
  <2>1. Last' = Last
    BY DEF Last
  <2> QED
    BY <1>5, <2>1 DEF RowInv, OwnBetween
<1> QED
  BY <1>1, <1>4, <1>6

LEMMA FlushKeeps ==
    ASSUME NoneIsApart, IInv, NEW c \in Clients, Flush(c)
    PROVE  IInv'
<1> USE DEF IInv
<1>1. /\ acked[c] \in AttemptType /\ acked[c].post \in received[c]
      /\ UNCHANGED <<author, posts, acl, push, received, claimed, unacked>>
      /\ Last' = Last
  BY DEF Flush, TypeInv, AckedInv, tables, history, Last
<1>2. CASE row' = Finished(c, acked[c], TRUE) /\ acked' = [acked EXCEPT ![c] = None]
  <2>1. /\ row' \in [Clients -> RowType \cup {None}]
        /\ \A d \in Clients : (row'[d] = None) <=> (row[d] = None)
        /\ RowInv'
    BY <1>1, <1>2, FinishKeepsRows
  <2>2. acked' \in [Clients -> AttemptType \cup {None}]
    BY <1>2 DEF TypeInv
  <2>3. AckedInv'
    BY <1>1, <1>2 DEF AckedInv, TypeInv
  <2> QED
    BY <1>1, <2>1, <2>2, <2>3 DEF TypeInv, MemberInv, PushInv, OwnBetween
<1>3. CASE acked' = [acked EXCEPT ![c] = acked[c]] /\ row' = row
  <2>1. acked' = acked
    BY <1>3 DEF TypeInv
  <2> QED
    BY <1>1, <1>3, <2>1 DEF TypeInv, MemberInv, RowInv, AckedInv, PushInv, OwnBetween
<1> QED
  BY <1>2, <1>3 DEF Flush, HandleAckReceived

LEMMA EvictKeeps ==
    ASSUME NoneIsApart, IInv, NEW c \in Clients, Evict(c)
    PROVE  IInv'
<1> USE DEF IInv
<1> DEFINE r == [row[c] EXCEPT !.active = FALSE]
<1>1. /\ UNCHANGED <<author, posts, acked, push, received, claimed, unacked>>
      /\ Last' = Last
      /\ row[c] # None
      /\ row' = [row EXCEPT ![c] = r]
      /\ acl' = [acl EXCEPT ![c] = None]
  BY DEF Evict, tables, history, Last
<1>2. row[c] \in RowType
  BY <1>1 DEF TypeInv
<1>3. r \in RowType /\ r # None /\ r.since = row[c].since /\ r.pending = row[c].pending
  <2>1. r \in RowType
    BY <1>2 DEF RowType
  <2> QED
    BY <1>2, <2>1 DEF NoneIsApart, RowType
<1> HIDE DEF r
<1>4. /\ row' \in [Clients -> RowType \cup {None}]
      /\ row'[c] = r
      /\ \A d \in Clients : d # c => row'[d] = row[d]
      /\ acl' \in [Clients -> Nat \cup {None}]
      /\ acl'[c] = None
      /\ \A d \in Clients : d # c => acl'[d] = acl[d]
  BY <1>1, <1>3 DEF TypeInv
<1>5. TypeInv' /\ MemberInv'
  BY <1>1, <1>4 DEF TypeInv, MemberInv
<1>6. ASSUME NEW d \in Clients, row'[d] # None
      PROVE  row[d] # None /\ row'[d].since = row[d].since /\ row'[d].pending = row[d].pending
  BY <1>1, <1>3, <1>4, <1>6
<1>7. RowInv'
  BY <1>1, <1>6 DEF RowInv, OwnBetween
<1> QED
  BY <1>1, <1>5, <1>7 DEF AckedInv, PushInv, OwnBetween

LEMMA CleanUpKeeps ==
    ASSUME IInv, CleanUp
    PROVE  IInv'
<1> USE DEF IInv
<1>1. /\ posts' \subseteq posts
      /\ UNCHANGED <<author, row, acl, acked, push, received, claimed, unacked>>
      /\ Last' = Last
  BY DEF CleanUp, history, Last
<1>2. TypeInv' /\ MemberInv' /\ AckedInv'
  BY <1>1 DEF TypeInv, MemberInv, AckedInv
<1>3. RowInv'
  BY <1>1 DEF RowInv, OwnBetween, OwnIn
<1>4. PushInv'
  BY <1>1 DEF PushInv, OwnBetween, OwnIn
<1> QED
  BY <1>2, <1>3, <1>4

LEMMA CheckAckTimeoutKeeps ==
    ASSUME NoneIsApart, IInv, NEW c \in Clients, CheckAckTimeout(c)
    PROVE  IInv'
<1> USE DEF IInv
<1>1. /\ UNCHANGED <<author, posts, acl, acked, push, received, claimed>>
      /\ Last' = Last
      /\ row[c] # None /\ row[c].pending # None
      /\ row' = Finished(c, row[c].pending, FALSE)
      /\ unacked' = [unacked EXCEPT ![c] = unacked[c] + 1]
  BY DEF CheckAckTimeout, tables, Last
<1>2. row[c].pending \in AttemptType
  <2>1. row[c] \in RowType
    BY <1>1 DEF TypeInv
  <2> QED
    BY <1>1, <2>1 DEF RowType
<1>3. /\ row' \in [Clients -> RowType \cup {None}]
      /\ \A d \in Clients : (row'[d] = None) <=> (row[d] = None)
      /\ RowInv'
  BY <1>1, <1>2, FinishKeepsRows
<1>4. unacked' \in [Clients -> Nat]
  BY <1>1 DEF TypeInv
<1> QED
  BY <1>1, <1>3, <1>4 DEF TypeInv, MemberInv, AckedInv, PushInv, OwnBetween

(* The post that is chosen is the first that is not the client's own.      *)
LEMMA ChooseKeeps ==
    ASSUME NoneIsApart, IInv, NEW c \in Clients, Choose(c)
    PROVE  IInv'
<1> USE DEF IInv
<1>1. row[c] # None /\ acl[c] # None
  BY DEF Choose, Members, MemberInv
<1>2. row[c] \in RowType /\ row[c].since \in Nat /\ row[c].since <= Last /\ Last \in Nat
  BY <1>1 DEF TypeInv, RowType, RowInv
<1>2a. \A p \in posts : p \in Nat /\ p <= Last
  <2>1. posts \subseteq 1..Last
    BY DEF TypeInv
  <2> QED
    BY <1>2, <2>1
<1> DEFINE S == Unsynced(c, row[c].since)
           chosen == [client |-> c, since |-> row[c].since, stage |-> "limiter",
                      post |-> Min(S), nonce |-> None]
<1>3. /\ UNCHANGED <<author, posts, row, acl, acked, received, claimed, unacked>>
      /\ Last' = Last
      /\ push' = chosen
      /\ S # {}
  BY <1>1 DEF Choose, tables, history, Last
<1>4. \A p \in S : p \in posts /\ p \in Nat /\ p <= Last
  <2>1. \A p \in S : p \in posts
    BY DEF Unsynced
  <2> HIDE DEF S
  <2> QED
    BY <1>2a, <2>1
<1>5. Min(S) \in S /\ \A p \in S : Min(S) <= p
  <2> HIDE DEF S
  <2>1. S \subseteq Nat
    BY <1>4
  <2> QED
    BY <1>3, <2>1, MinOfNaturals
<1>6. Min(S) \in Nat /\ Min(S) <= Last
  <2> HIDE DEF S
  <2> QED
    BY <1>4, <1>5
<1>7. OwnIn(author, posts, c, row[c].since, Min(S))
  <2> SUFFICES ASSUME NEW p \in posts, row[c].since < p, p < Min(S), author[p] # c
               PROVE  FALSE
    BY DEF OwnIn
  <2>1. p \in S
    BY DEF Unsynced
  <2>2. p \in Nat
    BY <1>2a
  <2> HIDE DEF S
  <2>3. Min(S) <= p
    BY <1>5, <2>1
  <2> QED
    BY <1>6, <2>2, <2>3
<1> HIDE DEF S
<1>8. /\ chosen \in PushType
      /\ chosen.stage # "sending"
      /\ chosen.client = c /\ chosen.since = row[c].since /\ chosen.post = Min(S)
  BY <1>2, <1>6 DEF PushType
<1> HIDE DEF chosen
<1>9. TypeInv'
  BY <1>3, <1>8 DEF TypeInv
<1>10. PushInv'
  BY <1>3, <1>6, <1>7, <1>8 DEF PushInv, OwnBetween
<1> QED
  BY <1>3, <1>9, <1>10 DEF MemberInv, RowInv, AckedInv, OwnBetween

(* What is stored is still the next post after the cursor, which was looked*)
(* at again.                                                               *)
LEMMA BeginPushKeeps ==
    ASSUME NoneIsApart, IInv, NEW nonce \in Nonces, BeginPush(nonce)
    PROVE  IInv'
<1> USE DEF IInv
<1>1. /\ UNCHANGED <<author, posts, acl, acked, received, claimed, unacked>>
      /\ Last' = Last
      /\ push # None /\ push \in PushType
  BY DEF BeginPush, tables, history, Last, TypeInv
<1>2. CASE push' = None /\ row' = row
  BY <1>1, <1>2 DEF TypeInv, MemberInv, RowInv, AckedInv, PushInv, OwnBetween
<1>3. CASE /\ StillValid
           /\ row' = [row EXCEPT ![push.client].pending = [post |-> push.post, nonce |-> nonce]]
           /\ push' = [push EXCEPT !.stage = "sending", !.nonce = nonce]
  <2> DEFINE c == push.client
             a == [post |-> push.post, nonce |-> nonce]
             r == [row[c] EXCEPT !.pending = a]
  <2>1. c \in Clients /\ row[c] # None /\ row[c].since = push.since
    BY <1>1, <1>3 DEF StillValid, PushType
  <2>2. row[c] \in RowType
    BY <2>1 DEF TypeInv
  <2>3. a \in AttemptType /\ a.post = push.post
    BY <1>1 DEF AttemptType, PushType
  <2> HIDE DEF a
  <2>4. r \in RowType /\ r # None /\ r.since = row[c].since /\ r.pending = a
    <3>1. r \in RowType
      BY <2>2, <2>3 DEF RowType
    <3> QED
      BY <2>2, <3>1 DEF RowType, NoneIsApart
  <2>5. row' = [row EXCEPT ![c] = r]
    BY <1>3 DEF a
  <2> HIDE DEF r
  <2>6. /\ row' \in [Clients -> RowType \cup {None}]
        /\ row'[c] = r
        /\ \A d \in Clients : d # c => row'[d] = row[d]
    BY <2>1, <2>4, <2>5 DEF TypeInv
  <2>7. /\ push' \in PushType
        /\ push'.nonce \in Nonces
        /\ push'.client = c /\ push'.since = push.since /\ push'.post = push.post
    BY <1>1, <1>3 DEF PushType
  <2>8. push.post <= Last /\ OwnIn(author, posts, c, push.since, push.post)
    BY <1>1 DEF PushInv, OwnBetween
  <2> HIDE DEF c
  <2>9. TypeInv' /\ MemberInv'
    BY <1>1, <2>1, <2>4, <2>6, <2>7 DEF TypeInv, MemberInv
  <2>10. RowInv'
    <3> SUFFICES ASSUME NEW d \in Clients, row'[d] # None
                 PROVE  /\ row'[d].since <= Last
                        /\ \A p \in posts : p <= row'[d].since =>
                              author[p] = d \/ p \in received[d] \/ p <= claimed[d]
                        /\ row'[d].pending # None =>
                              /\ row'[d].pending.post <= Last
                              /\ OwnIn(author, posts, d, row'[d].since, row'[d].pending.post)
      BY <1>1 DEF RowInv, OwnBetween
    <3>1. CASE d = c
      BY <2>1, <2>3, <2>4, <2>6, <2>8, <3>1 DEF RowInv
    <3>2. CASE d # c
      BY <2>6, <3>2 DEF RowInv, OwnBetween
    <3> QED
      BY <3>1, <3>2
  <2>11. PushInv'
    BY <1>1, <2>7, <2>8 DEF PushInv, OwnBetween
  <2> QED
    BY <1>1, <2>9, <2>10, <2>11 DEF AckedInv
<1> QED
  BY <1>2, <1>3 DEF BeginPush

LEMMA AnsweredKeeps ==
    ASSUME NoneIsApart, IInv, Answered
    PROVE  IInv'
<1> USE DEF IInv
<1> DEFINE c == push.client
           a == Attempt
<1>1. /\ UNCHANGED <<author, posts, acl, claimed>>
      /\ Last' = Last
      /\ push # None /\ push \in PushType /\ push.nonce \in Nonces
      /\ push' = None
      /\ received' = [received EXCEPT ![c] = received[c] \cup {push.post}]
      /\ unacked' = [unacked EXCEPT ![c] = 0]
  BY DEF Answered, tables, Last, TypeInv
<1>2. c \in Clients /\ a \in AttemptType /\ a.post = push.post /\ push.post \in Nat
  BY <1>1 DEF PushType, AttemptType, Attempt
<1> HIDE DEF c, a
<1>3. /\ received' \in [Clients -> SUBSET Nat]
      /\ \A d \in Clients : received[d] \subseteq received'[d]
      /\ a.post \in received'[c]
      /\ unacked' \in [Clients -> Nat]
  BY <1>1, <1>2 DEF TypeInv
<1>4. CASE row' = Finished(c, a, TRUE) /\ acked' = [acked EXCEPT ![c] = None]
  <2>1. /\ row' \in [Clients -> RowType \cup {None}]
        /\ \A d \in Clients : (row'[d] = None) <=> (row[d] = None)
        /\ RowInv'
    BY <1>1, <1>2, <1>3, <1>4, FinishKeepsRows
  <2>2. acked' \in [Clients -> AttemptType \cup {None}] /\ AckedInv'
    BY <1>2, <1>3, <1>4 DEF TypeInv, AckedInv
  <2> QED
    BY <1>1, <1>3, <2>1, <2>2 DEF TypeInv, MemberInv, PushInv
<1>5. CASE acked' = [acked EXCEPT ![c] = a] /\ row' = row
  <2>1. acked' \in [Clients -> AttemptType \cup {None}] /\ AckedInv'
    BY <1>2, <1>3, <1>5 DEF TypeInv, AckedInv
  <2>2. RowInv'
    BY <1>1, <1>3, <1>5 DEF RowInv, OwnBetween
  <2> QED
    BY <1>1, <1>3, <1>5, <2>1, <2>2 DEF TypeInv, MemberInv, PushInv
<1> QED
  BY <1>4, <1>5 DEF Answered, HandleAckReceived, c, a

LEMMA UnacknowledgedKeeps ==
    ASSUME NoneIsApart, IInv, Unacknowledged
    PROVE  IInv'
<1> USE DEF IInv
<1> DEFINE c == push.client
           a == Attempt
<1>1. /\ UNCHANGED <<author, posts, acl, acked, received, claimed>>
      /\ Last' = Last
      /\ push # None /\ push \in PushType /\ push.nonce \in Nonces
      /\ push' = None
      /\ \/ row' = row /\ unacked' = unacked
         \/ /\ row' = Finished(c, a, FALSE)
            /\ unacked' = [unacked EXCEPT ![c] = IF row' = row THEN unacked[c] ELSE unacked[c] + 1]
  BY DEF Unacknowledged, tables, Last, TypeInv
<1>2. c \in Clients /\ a \in AttemptType
  BY <1>1 DEF PushType, AttemptType, Attempt
<1> HIDE DEF c, a
<1>3. /\ row' \in [Clients -> RowType \cup {None}]
      /\ \A d \in Clients : (row'[d] = None) <=> (row[d] = None)
      /\ RowInv'
  <2>1. CASE row' = Finished(c, a, FALSE)
    BY <1>1, <1>2, <2>1, FinishKeepsRows
  <2>2. CASE row' = row
    BY <1>1, <2>2 DEF TypeInv, RowInv, OwnBetween
  <2> QED
    BY <1>1, <2>1, <2>2
<1>4. unacked' \in [Clients -> Nat]
  <2>1. unacked \in [Clients -> Nat] /\ unacked[c] \in Nat
    BY <1>2 DEF TypeInv
  <2>2. CASE unacked' = unacked
    BY <2>1, <2>2
  <2>3. CASE unacked' = [unacked EXCEPT ![c] = IF row' = row THEN unacked[c] ELSE unacked[c] + 1]
    <3> DEFINE n == IF row' = row THEN unacked[c] ELSE unacked[c] + 1
    <3>1. n \in Nat
      BY <2>1
    <3>2. unacked' = [unacked EXCEPT ![c] = n]
      BY <2>3
    <3> HIDE DEF n
    <3> QED
      BY <2>1, <3>1, <3>2
  <2> QED
    BY <1>1, <2>2, <2>3
<1> QED
  BY <1>1, <1>3, <1>4 DEF TypeInv, MemberInv, AckedInv, PushInv

LEMMA RestartKeeps ==
    ASSUME IInv, Restart
    PROVE  IInv'
<1> USE DEF IInv
<1>1. /\ UNCHANGED <<author, posts, row, received, claimed>>
      /\ Last' = Last
      /\ push' = None
      /\ acl' = [c \in Clients |-> None]
      /\ acked' = [c \in Clients |-> None]
  BY DEF Restart, tables, Last
<1>2. unacked' \in [Clients -> Nat]
  <2> DEFINE charged(c) == IF acked[c] = None \/ row[c] = None THEN unacked[c]
                           ELSE row[c].failures
  <2>1. ASSUME NEW c \in Clients
        PROVE  charged(c) \in Nat
    <3>1. row[c] # None => row[c].failures \in Nat
      BY DEF TypeInv, RowType
    <3> QED
      BY <3>1 DEF TypeInv
  <2>2. unacked' = [c \in Clients |-> charged(c)]
    BY DEF Restart
  <2> HIDE DEF charged
  <2> QED
    BY <2>1, <2>2
<1>3. TypeInv'
  BY <1>1, <1>2 DEF TypeInv
<1> QED
  BY <1>1, <1>3 DEF MemberInv, RowInv, AckedInv, PushInv, OwnBetween

LEMMA StepIInv ==
    ASSUME NoneIsApart, IInv, [Next]_vars
    PROVE  IInv'
<1>1. CASE UNCHANGED vars
  <2>1. Last' = Last
    BY <1>1 DEF vars, tables, Last
  <2> QED
    BY <1>1, <2>1 DEF vars, tables, history, IInv, TypeInv, MemberInv, RowInv,
                      AckedInv, PushInv, OwnBetween
<1> QED
  BY <1>1, AddPostKeeps, ResetKeeps, FlushKeeps, EvictKeeps, CleanUpKeeps,
     CheckAckTimeoutKeeps, ChooseKeeps, BeginPushKeeps, AnsweredKeeps,
     UnacknowledgedKeeps, RestartKeeps DEF Next

(* Whatever logins reset while a push is under way, and whatever fails, the*)
(* cursor of a client covers only posts that are its own, that it          *)
(* acknowledged, or that lie below the cursor it sent itself               *)
(* (room_server.py:532-562).                                               *)
THEOREM CursorNeverAhead ==
    ASSUME NoneIsApart
    PROVE  Spec => []CursorCoversReceived
<1>1. IInv => CursorCoversReceived
  BY DEF IInv, RowInv, CursorCoversReceived
<1> QED
  BY <1>1, InitIInv, StepIInv, PTL DEF Spec

-----------------------------------------------------------------------------
(* The failures of a client.                                               *)

(* As long as an acknowledgement waits to be stored nothing is pushed, and *)
(* the row is that of its attempt unless a reset has cleared it.           *)
WaitingInv ==
    /\ push # None => \A c \in Clients : acked[c] = None
    /\ push # None /\ push.stage = "sending" =>
          \/ row[push.client] = None
          \/ row[push.client].pending = Attempt
          \/ row[push.client].failures = 0
    /\ \A c \in Clients : row[c] # None /\ acked[c] # None =>
          row[c].pending = acked[c] \/ row[c].failures = 0

ChargeInv == WaitingInv /\ FailuresUnacknowledged

LEMMA ResetCharges ==
    ASSUME NoneIsApart, IInv, ChargeInv, NEW c \in Clients,
           (\E cursor \in (0..Last) \cup {None} : Login(c, cursor))
               \/ (\E cursor \in 0..Last : KeepAlive(c, cursor))
    PROVE  ChargeInv'
<1> USE DEF IInv, ChargeInv
<1>1. /\ \E since : row' = [row EXCEPT ![c] = Fresh(since)]
      /\ acked' = acked /\ push' = push
      /\ unacked' = [unacked EXCEPT ![c] = 0]
  BY DEF Login, KeepAlive
<1>2. PICK since : row' = [row EXCEPT ![c] = Fresh(since)]
  BY <1>1
<1>3. Fresh(since).failures = 0
  BY DEF Fresh
<1>4. /\ row'[c].failures = 0
      /\ \A d \in Clients : d # c => row'[d] = row[d]
      /\ unacked'[c] = 0
      /\ \A d \in Clients : d # c => unacked'[d] = unacked[d]
  BY <1>1, <1>2, <1>3 DEF TypeInv
<1>5. push # None => push.client \in Clients
  BY DEF TypeInv, PushType
<1>6. Attempt' = Attempt
  BY <1>1 DEF Attempt
<1>7. WaitingInv'
  BY <1>1, <1>4, <1>5, <1>6 DEF WaitingInv
<1>8. FailuresUnacknowledged'
  BY <1>1, <1>4 DEF FailuresUnacknowledged
<1> QED
  BY <1>7, <1>8

(* An attempt of a client is finished, or its row was reset since.         *)
LEMMA FinishCharges ==
    ASSUME NoneIsApart, IInv, NEW c \in Clients, NEW attempt \in AttemptType,
           NEW answered \in BOOLEAN, row' = Finished(c, attempt, answered)
    PROVE  /\ \A d \in Clients : d # c => row'[d] = row[d]
           /\ row[c] = None \/ row[c].pending # attempt => row' = row
           /\ row[c] # None /\ row[c].pending = attempt =>
                 /\ row'[c].failures = IF answered THEN 0 ELSE row[c].failures + 1
                 /\ row[c].failures \in Nat
                 /\ row'[c].pending = None
<1>1. row \in [Clients -> RowType \cup {None}]
  BY DEF IInv, TypeInv
<1>2. row[c] # None => row[c].failures \in Nat
  BY <1>1 DEF RowType
<1>3. /\ \A d \in Clients : d # c => row'[d] = row[d]
      /\ row[c] = None \/ row[c].pending # attempt => row' = row
  BY <1>1, FinishedRows
<1>4. ASSUME row[c] # None, row[c].pending = attempt
      PROVE  row'[c].failures = (IF answered THEN 0 ELSE row[c].failures + 1)
             /\ row'[c].pending = None
  <2>1. row'[c] = [since |-> IF answered /\ attempt.post > row[c].since
                            THEN attempt.post ELSE row[c].since,
                  pending |-> None,
                  failures |-> IF answered THEN 0 ELSE row[c].failures + 1,
                  active |-> answered \/ row[c].active]
    BY <1>1, <1>4, FinishedRows
  <2> QED
    BY <2>1
<1> QED
  BY <1>2, <1>3, <1>4

LEMMA FlushCharges ==
    ASSUME NoneIsApart, IInv, ChargeInv, NEW c \in Clients, Flush(c)
    PROVE  ChargeInv'
<1> USE DEF IInv, ChargeInv
<1>1. /\ acked[c] \in AttemptType /\ acked[c] # None
      /\ push = None /\ push' = None /\ unacked' = unacked
  BY DEF Flush, TypeInv, history
<1>2. CASE row' = Finished(c, acked[c], TRUE) /\ acked' = [acked EXCEPT ![c] = None]
  <2>1. /\ acked'[c] = None
        /\ \A d \in Clients : d # c => acked'[d] = acked[d] /\ row'[d] = row[d]
    BY <1>1, <1>2, FinishCharges DEF TypeInv
  <2>2. row'[c] # None => row'[c].failures = 0
    BY <1>1, <1>2, FinishCharges DEF WaitingInv
  <2>3. unacked[c] \in Nat
    BY DEF TypeInv
  <2>4. WaitingInv'
    BY <1>1, <2>1, <2>2 DEF WaitingInv
  <2>5. FailuresUnacknowledged'
    BY <1>1, <2>1, <2>2, <2>3 DEF FailuresUnacknowledged
  <2> QED
    BY <2>4, <2>5
<1>3. CASE acked' = [acked EXCEPT ![c] = acked[c]] /\ row' = row
  <2>1. acked' = acked
    BY <1>3 DEF TypeInv
  <2> QED
    BY <1>1, <1>3, <2>1 DEF WaitingInv, FailuresUnacknowledged
<1> QED
  BY <1>2, <1>3 DEF Flush, HandleAckReceived

LEMMA EvictCharges ==
    ASSUME NoneIsApart, IInv, ChargeInv, NEW c \in Clients, Evict(c)
    PROVE  ChargeInv'
<1> USE DEF IInv, ChargeInv
<1>1. /\ row[c] # None /\ row' = [row EXCEPT ![c].active = FALSE]
      /\ push = None /\ UNCHANGED <<acked, push, unacked>>
  BY DEF Evict, Iterating, history
<1>2. row[c] \in RowType
  BY <1>1 DEF TypeInv
<1>3. \A d \in Clients : row'[d] # None =>
          /\ row[d] # None
          /\ row'[d].failures = row[d].failures
          /\ row'[d].pending = row[d].pending
  BY <1>1, <1>2 DEF TypeInv, RowType
<1> QED
  BY <1>1, <1>3 DEF WaitingInv, FailuresUnacknowledged

LEMMA CheckAckTimeoutCharges ==
    ASSUME NoneIsApart, IInv, ChargeInv, NEW c \in Clients, CheckAckTimeout(c)
    PROVE  ChargeInv'
<1> USE DEF IInv, ChargeInv
<1>1. /\ push = None /\ (\A d \in Clients : acked[d] = None)
      /\ row[c] # None /\ row[c].pending # None
      /\ row' = Finished(c, row[c].pending, FALSE)
      /\ unacked' = [unacked EXCEPT ![c] = unacked[c] + 1]
      /\ UNCHANGED <<acked, push>>
  BY DEF CheckAckTimeout, Iterating
<1>2. row[c].pending \in AttemptType
  <2>1. row[c] \in RowType
    BY <1>1 DEF TypeInv
  <2> QED
    BY <1>1, <2>1 DEF RowType
<1>3. /\ \A d \in Clients : d # c => row'[d] = row[d] /\ unacked'[d] = unacked[d]
      /\ row'[c].failures = row[c].failures + 1 /\ row[c].failures \in Nat
      /\ unacked'[c] = unacked[c] + 1 /\ unacked[c] \in Nat
  BY <1>1, <1>2, FinishCharges DEF TypeInv
<1>4. WaitingInv'
  BY <1>1 DEF WaitingInv
<1>5. FailuresUnacknowledged'
  <2> SUFFICES ASSUME NEW d \in Clients, row'[d] # None
               PROVE  row'[d].failures <= unacked'[d]
    BY DEF FailuresUnacknowledged
  <2>1. CASE d = c
    <3>1. row[c].failures <= unacked[c]
      BY <1>1 DEF FailuresUnacknowledged
    <3> QED
      BY <1>3, <2>1, <3>1
  <2>2. CASE d # c
    BY <1>1, <1>3, <2>2 DEF FailuresUnacknowledged
  <2> QED
    BY <2>1, <2>2
<1> QED
  BY <1>4, <1>5

LEMMA ChooseCharges ==
    ASSUME NoneIsApart, IInv, ChargeInv, NEW c \in Clients, Choose(c)
    PROVE  ChargeInv'
<1> USE DEF IInv, ChargeInv
<1>1. row[c] # None
  BY DEF Choose, Members, MemberInv
<1>2. /\ \A d \in Clients : acked[d] = None
      /\ UNCHANGED <<row, acked, unacked>>
      /\ push'.stage = "limiter"
  BY <1>1 DEF Choose, Iterating, history
<1> QED
  BY <1>2 DEF WaitingInv, FailuresUnacknowledged

LEMMA BeginPushCharges ==
    ASSUME NoneIsApart, IInv, ChargeInv, NEW nonce \in Nonces, BeginPush(nonce)
    PROVE  ChargeInv'
<1> USE DEF IInv, ChargeInv
<1>1. push # None /\ push \in PushType /\ UNCHANGED <<acked, unacked>>
      /\ \A d \in Clients : acked[d] = None
  BY DEF BeginPush, history, TypeInv, WaitingInv
<1>2. CASE push' = None /\ row' = row
  BY <1>1, <1>2 DEF WaitingInv, FailuresUnacknowledged
<1>3. CASE /\ StillValid
           /\ row' = [row EXCEPT ![push.client].pending = [post |-> push.post, nonce |-> nonce]]
           /\ push' = [push EXCEPT !.stage = "sending", !.nonce = nonce]
  <2>1. row[push.client] # None /\ push.client \in Clients
    BY <1>1, <1>3 DEF StillValid, PushType
  <2>2. row[push.client] \in RowType
    BY <2>1 DEF TypeInv
  <2>3. /\ row'[push.client].pending = [post |-> push.post, nonce |-> nonce]
        /\ row'[push.client].failures = row[push.client].failures
        /\ \A d \in Clients : d # push.client => row'[d] = row[d]
    BY <1>3, <2>1, <2>2 DEF TypeInv, RowType
  <2>4. push'.client = push.client /\ push'.post = push.post /\ push'.nonce = nonce
    BY <1>1, <1>3 DEF PushType
  <2>5. Attempt' = [post |-> push.post, nonce |-> nonce]
    BY <2>4 DEF Attempt
  <2>6. WaitingInv'
    BY <1>1, <2>3, <2>4, <2>5 DEF WaitingInv
  <2>7. FailuresUnacknowledged'
    BY <1>1, <2>1, <2>3 DEF FailuresUnacknowledged
  <2> QED
    BY <2>6, <2>7
<1> QED
  BY <1>2, <1>3 DEF BeginPush

LEMMA AnsweredCharges ==
    ASSUME NoneIsApart, IInv, ChargeInv, Answered
    PROVE  ChargeInv'
<1> USE DEF IInv, ChargeInv
<1> DEFINE c == push.client
           a == Attempt
<1>1. /\ push # None /\ push.stage = "sending" /\ push' = None
      /\ push \in PushType /\ push.nonce \in Nonces
      /\ unacked' = [unacked EXCEPT ![c] = 0]
  BY DEF Answered, TypeInv
<1>2. c \in Clients /\ a \in AttemptType
  BY <1>1 DEF PushType, AttemptType, Attempt
<1>3. row[c] = None \/ row[c].pending = a \/ row[c].failures = 0
  BY <1>1 DEF WaitingInv
<1> HIDE DEF c, a
<1>4. /\ \A d \in Clients : acked[d] = None
      /\ \A d \in Clients : d # c => unacked'[d] = unacked[d]
      /\ unacked'[c] = 0
  BY <1>1, <1>2 DEF WaitingInv, TypeInv
<1>5. CASE row' = Finished(c, a, TRUE) /\ acked' = [acked EXCEPT ![c] = None]
  <2>1. /\ \A d \in Clients : acked'[d] = None
        /\ \A d \in Clients : d # c => row'[d] = row[d]
    BY <1>2, <1>4, <1>5, FinishCharges DEF TypeInv
  <2>2. row'[c] # None => row'[c].failures = 0
    BY <1>2, <1>3, <1>5, FinishCharges
  <2> QED
    BY <1>1, <1>4, <2>1, <2>2 DEF WaitingInv, FailuresUnacknowledged
<1>6. CASE acked' = [acked EXCEPT ![c] = a] /\ row' = row
  <2>1. acked'[c] = a /\ \A d \in Clients : d # c => acked'[d] = None
    BY <1>2, <1>4, <1>6 DEF TypeInv
  <2>2. a # None
    BY <1>2 DEF NoneIsApart
  <2> QED
    BY <1>1, <1>3, <1>4, <1>6, <2>1, <2>2 DEF WaitingInv, FailuresUnacknowledged
<1> QED
  BY <1>5, <1>6 DEF Answered, HandleAckReceived, c, a

LEMMA UnacknowledgedCharges ==
    ASSUME NoneIsApart, IInv, ChargeInv, Unacknowledged
    PROVE  ChargeInv'
<1> USE DEF IInv, ChargeInv
<1> DEFINE c == push.client
           a == Attempt
<1>1. /\ push # None /\ push' = None /\ acked' = acked
      /\ push \in PushType /\ push.nonce \in Nonces
      /\ \/ row' = row /\ unacked' = unacked
         \/ /\ row' = Finished(c, a, FALSE)
            /\ unacked' = [unacked EXCEPT ![c] = IF row' = row THEN unacked[c] ELSE unacked[c] + 1]
  BY DEF Unacknowledged, TypeInv
<1>2. c \in Clients /\ a \in AttemptType
  BY <1>1 DEF PushType, AttemptType, Attempt
<1> HIDE DEF c, a
<1>3. \A d \in Clients : acked[d] = None
  BY <1>1 DEF WaitingInv
<1>4. CASE row' = row /\ unacked' = unacked
  BY <1>1, <1>3, <1>4 DEF WaitingInv, FailuresUnacknowledged
<1>5. CASE /\ row' = Finished(c, a, FALSE)
           /\ unacked' = [unacked EXCEPT ![c] = IF row' = row THEN unacked[c] ELSE unacked[c] + 1]
  <2>1. unacked[c] \in Nat /\ unacked \in [Clients -> Nat]
    BY <1>2 DEF TypeInv
  <2>2. CASE row' = row
    <3>1. unacked' = unacked
      BY <1>5, <2>1, <2>2
    <3> QED
      BY <1>4, <2>2, <3>1
  <2>3. CASE row' # row
    <3>1. /\ \A d \in Clients : d # c => row'[d] = row[d] /\ unacked'[d] = unacked[d]
          /\ unacked'[c] = unacked[c] + 1
          /\ row[c] # None
          /\ row'[c].failures = row[c].failures + 1 /\ row[c].failures \in Nat
      BY <1>2, <1>5, <2>1, <2>3, FinishCharges
    <3> QED
      BY <1>1, <1>3, <2>1, <3>1 DEF WaitingInv, FailuresUnacknowledged
  <2> QED
    BY <2>2, <2>3
<1> QED
  BY <1>1, <1>4, <1>5

LEMMA RestartCharges ==
    ASSUME NoneIsApart, IInv, ChargeInv, Restart
    PROVE  ChargeInv'
<1> USE DEF IInv, ChargeInv
<1>1. /\ row' = row /\ push' = None
      /\ \A c \in Clients : acked'[c] = None
      /\ \A c \in Clients : unacked'[c] = IF acked[c] = None \/ row[c] = None THEN unacked[c]
                                        ELSE row[c].failures
  BY DEF Restart
<1>2. \A c \in Clients : row[c] # None => row[c].failures \in Nat
  BY DEF TypeInv, RowType
<1>3. FailuresUnacknowledged'
  <2> SUFFICES ASSUME NEW c \in Clients, row[c] # None
               PROVE  row[c].failures <= unacked'[c]
    BY <1>1 DEF FailuresUnacknowledged
  <2>1. CASE acked[c] = None
    BY <1>1, <2>1 DEF FailuresUnacknowledged
  <2>2. CASE acked[c] # None
    BY <1>1, <1>2, <2>2
  <2> QED
    BY <2>1, <2>2
<1> QED
  BY <1>1, <1>3 DEF WaitingInv

LEMMA StepCharges ==
    ASSUME NoneIsApart, IInv, ChargeInv, [Next]_vars
    PROVE  ChargeInv'
<1>1. ASSUME UNCHANGED <<row, acked, push, unacked>>
      PROVE  ChargeInv'
  BY <1>1 DEF ChargeInv, WaitingInv, FailuresUnacknowledged, Attempt
<1>2. CASE \E a \in Clients \cup {Server} : AddPost(a)
  BY <1>1, <1>2 DEF AddPost, history
<1>3. CASE CleanUp \/ UNCHANGED vars
  BY <1>1, <1>3 DEF CleanUp, history, vars
<1> QED
  BY <1>2, <1>3, ResetCharges, FlushCharges, EvictCharges, CheckAckTimeoutCharges,
     ChooseCharges, BeginPushCharges, AnsweredCharges, UnacknowledgedCharges,
     RestartCharges DEF Next

(* "A database outage is not evidence of an unresponsive client"           *)
(* (room_server.py:728): a client is charged with attempts it did not      *)
(* acknowledge since it was last heard, of which some may never have been  *)
(* transmitted, and with no other, whatever transaction fails when.        *)
THEOREM AcknowledgedIsNotCharged ==
    ASSUME NoneIsApart
    PROVE  Spec => []FailuresUnacknowledged
<1>1. ASSUME Init PROVE ChargeInv
  BY <1>1 DEF Init, ChargeInv, WaitingInv, FailuresUnacknowledged
<1>2. ChargeInv => FailuresUnacknowledged
  BY DEF ChargeInv
<1> QED
  BY <1>1, <1>2, InitIInv, StepIInv, StepCharges, PTL DEF Spec

-----------------------------------------------------------------------------
(* The requests of the app that the companion serves.                      *)
CONSTANTS Questions, Tags, Connections, MaxPending, Absent
VARIABLES session, aborted, waiting, pending, replies, req, out

Asks == INSTANCE CompanionRequests WITH Requests <- Questions

(* A queue holds a frame.                                                  *)
Has(s, x) == \E i \in DOMAIN s : s[i] = x

(* A request of the web has no connection; another has the one it was asked*)
(* on, which is being served or has been aborted.                          *)
ConnInv ==
    \A r \in Questions :
       /\ req[r].kind = "web" <=> req[r].conn = 0
       /\ req[r].kind # "web" => /\ req[r].stage # "none"
                                 /\ req[r].conn = session \/ req[r].conn \in aborted

(* The core's table holds what was asked and not yet answered.             *)
PendInv ==
    \A t \in Tags : pending[t] # Absent =>
       /\ req[pending[t]].tag = t
       /\ req[pending[t]].kind \in {"owned", "web"}
       /\ req[pending[t]].stage # "none"
       /\ req[pending[t]].kind = "web" => ~req[pending[t]].received

(* What RepliesToTheAsker says of tickets, and that they are for commands  *)
(* that own their reply.                                                   *)
TicketInv ==
    \A t \in Tags : replies[t] # Absent =>
       /\ req[replies[t]].kind = "owned"
       /\ req[replies[t]].active
       /\ req[replies[t]].conn = session
       /\ req[replies[t]].stage = "over" => req[replies[t]].admitted

(* A frame about a request: an announcement or an error only when the      *)
(* command is over, a reply only when no other will come.                  *)
FrameRight(c, what, r) ==
    /\ what = "push" <=> req[r].kind = "web"
    /\ what # "push" => req[r].conn = c /\ req[r].stage = "over"
    /\ what = "push" => req[r].received /\ req[r].stage # "none"
    /\ what = "reply" => IF req[r].kind = "owned" THEN ~req[r].active ELSE req[r].received

(* Every frame queued for an app is right.                                 *)
FrameInv ==
    \A c \in Connections : \A i \in DOMAIN out[c] : FrameRight(c, out[c][i][1], out[c][i][2])

(* SENT is in the queue of whoever was admitted to a reply, and of whoever *)
(* is still there when the command is over.                                *)
SentRight(r) ==
    /\ req[r].admitted => req[r].kind # "web" /\ Has(out[req[r].conn], <<"sent", r>>)
    /\ req[r].kind # "web" /\ req[r].stage = "over" /\ req[r].sent
       /\ Asks!Current(req[r].conn) => Has(out[req[r].conn], <<"sent", r>>)

SentInv == \A r \in Questions : SentRight(r)

(* No frame twice, and no reply before its SENT.                           *)
Neat(s) ==
    \A i \in DOMAIN s :
       /\ s[i][1] = "reply" => \E j \in 1..(i - 1) : s[j] = <<"sent", s[i][2]>>
       /\ \A j \in DOMAIN s : s[j] = s[i] => i = j

NeatInv == \A c \in Connections : Neat(out[c])

(* The inductive invariant of the requests.                                *)
RequestInv ==
    Asks!TypeOK /\ ConnInv /\ PendInv /\ TicketInv /\ FrameInv /\ SentInv /\ NeatInv

-----------------------------------------------------------------------------
(* It holds before the first app connects.                                 *)
LEMMA RequestInit == Asks!RequestsApart /\ Asks!Init => RequestInv
<1> SUFFICES ASSUME Asks!RequestsApart, Asks!Init PROVE RequestInv
  OBVIOUS
<1> USE DEF Asks!Init, Asks!NotMade
<1>1. Asks!TypeOK
  BY DEF Asks!TypeOK, Asks!Kinds
<1>2. ConnInv /\ PendInv /\ TicketInv /\ SentInv
  BY DEF ConnInv, PendInv, TicketInv, SentInv, SentRight
<1>3. FrameInv /\ NeatInv
  BY DEF FrameInv, NeatInv, Neat
<1>4. QED
  BY <1>1, <1>2, <1>3 DEF RequestInv

(* Frames and requests have these types.                                   *)
Frames == {"sent", "error", "reply", "push"} \X Questions

(* What a frame more does to a queue.                                      *)
LEMMA OneMoreFrame ==
    ASSUME NEW s \in Seq(Frames), Neat(s), NEW x \in Frames, ~Has(s, x),
           x[1] = "reply" => Has(s, <<"sent", x[2]>>)
    PROVE  /\ Neat(Append(s, x)) /\ Append(s, x) \in Seq(Frames)
           /\ \A y : Has(s, y) => Has(Append(s, x), y)
           /\ Has(Append(s, x), x)
<1> DEFINE q == Append(s, x)
<1>1. /\ q \in Seq(Frames) /\ Len(q) = Len(s) + 1 /\ q[Len(s) + 1] = x
      /\ \A i \in 1..Len(s) : q[i] = s[i]
      /\ Len(s) \in Nat /\ DOMAIN s = 1..Len(s) /\ DOMAIN q = 1..(Len(s) + 1)
  BY DEF Frames
<1> HIDE DEF q
<1>2. ASSUME NEW i \in DOMAIN q
      PROVE  /\ q[i][1] = "reply" => \E j \in 1..(i - 1) : q[j] = <<"sent", q[i][2]>>
             /\ \A j \in DOMAIN q : q[j] = q[i] => i = j
  <2>1. CASE i \in 1..Len(s)
    <3>1. q[i] = s[i]
      BY <1>1, <2>1
    <3>2. q[i][1] = "reply" => \E j \in 1..(i - 1) : q[j] = <<"sent", q[i][2]>>
      <4> SUFFICES ASSUME s[i][1] = "reply"
                   PROVE  \E j \in 1..(i - 1) : q[j] = <<"sent", s[i][2]>>
        BY <3>1
      <4>1. PICK j \in 1..(i - 1) : s[j] = <<"sent", s[i][2]>>
        BY <1>1, <2>1 DEF Neat
      <4>2. j \in 1..Len(s)
        BY <1>1, <2>1, <4>1
      <4>3. QED
        BY <1>1, <4>1, <4>2
    <3>3. ASSUME NEW j \in DOMAIN q, q[j] = q[i] PROVE i = j
      <4>1. CASE j \in 1..Len(s)
        BY <1>1, <2>1, <3>1, <3>3, <4>1 DEF Neat
      <4>2. CASE j = Len(s) + 1
        BY <1>1, <2>1, <3>1, <3>3, <4>2 DEF Has
      <4>3. QED
        BY <1>1, <4>1, <4>2
    <3>4. QED
      BY <3>2, <3>3
  <2>2. CASE i = Len(s) + 1
    <3>1. q[i] = x
      BY <1>1, <2>2
    <3>2. q[i][1] = "reply" => \E j \in 1..(i - 1) : q[j] = <<"sent", q[i][2]>>
      <4> SUFFICES ASSUME x[1] = "reply"
                   PROVE  \E j \in 1..(i - 1) : q[j] = <<"sent", x[2]>>
        BY <3>1
      <4>1. PICK j \in 1..Len(s) : s[j] = <<"sent", x[2]>>
        BY <1>1 DEF Has
      <4>2. QED
        BY <1>1, <2>2, <4>1
    <3>3. ASSUME NEW j \in DOMAIN q, q[j] = q[i] PROVE i = j
      BY <1>1, <2>2, <3>1, <3>3 DEF Has
    <3>4. QED
      BY <3>2, <3>3
  <2>3. QED
    BY <1>1, <2>1, <2>2
<1>3. \A y : Has(s, y) => Has(q, y)
  BY <1>1 DEF Has
<1>4. Has(q, x)
  BY <1>1 DEF Has
<1>5. Neat(q)
  BY <1>2 DEF Neat
<1>6. QED
  BY <1>1, <1>3, <1>4, <1>5 DEF q

-----------------------------------------------------------------------------
RequestType ==
    [stage : {"none", "sending", "flushing", "over"}, kind : Asks!Kinds,
     tag : Tags \cup {Absent}, conn : Connections \cup {0}, active : BOOLEAN,
     sent : BOOLEAN, admitted : BOOLEAN, received : BOOLEAN, overdue : BOOLEAN]

(* What may happen to a request once it is made.                           *)
Follows(q, p) ==
    /\ p.kind = q.kind /\ p.conn = q.conn /\ p.tag = q.tag
    /\ q.stage # "none" => p.stage # "none"
    /\ q.stage = "over" => p.stage = "over"
    /\ q.received => p.received
    /\ p.active => q.active

(* What was made goes on as it was asked.                                  *)
Going == \A r \in Questions : req[r].stage # "none" => Follows(req[r], req'[r])

(* Frames stay right.                                                      *)
LEMMA FramesStay ==
    ASSUME RequestInv, Going,
           NEW c, NEW what, NEW r \in Questions, FrameRight(c, what, r),
           req[r].stage # "none"
    PROVE  FrameRight(c, what, r)'
BY DEF FrameRight, Going, Follows

(* A step without a frame leaves every queue right.                        *)
LEMMA SameFrames ==
    ASSUME RequestInv, Going, out' = out
    PROVE  FrameInv' /\ NeatInv'
<1>1. NeatInv'
  BY DEF RequestInv, NeatInv
<1>2. ASSUME NEW c \in Connections, NEW i \in DOMAIN out[c]
      PROVE  FrameRight(c, out[c][i][1], out[c][i][2])'
  <2>1. FrameRight(c, out[c][i][1], out[c][i][2])
    BY <1>2 DEF RequestInv, FrameInv
  <2>2. out[c] \in Seq(Frames)
    BY DEF RequestInv, Asks!TypeOK, Frames
  <2>3. out[c][i] \in Frames
    BY <1>2, <2>2
  <2>4. out[c][i][2] \in Questions
    BY <2>3 DEF Frames
  <2>5. req[out[c][i][2]].stage # "none"
    BY <2>1, <2>4 DEF FrameRight
  <2>6. QED
    BY <2>1, <2>4, <2>5, FramesStay
<1>3. QED
  BY <1>1, <1>2 DEF FrameInv

(* A step with one right and new frame leaves every queue right.           *)
LEMMA MoreFrames ==
    ASSUME RequestInv, Going, NEW d \in Connections, NEW what \in {"sent", "error", "reply", "push"},
           NEW r \in Questions, out' = [out EXCEPT ![d] = Append(@, <<what, r>>)],
           ~Has(out[d], <<what, r>>), what = "reply" => Has(out[d], <<"sent", r>>),
           FrameRight(d, what, r)'
    PROVE  /\ FrameInv' /\ NeatInv' /\ out' \in [Connections -> Seq(Frames)]
           /\ \A c \in Connections : \A y : Has(out[c], y) => Has(out'[c], y)
           /\ Has(out'[d], <<what, r>>)
<1>0. out \in [Connections -> Seq(Frames)]
  BY DEF RequestInv, Asks!TypeOK, Frames
<1> DEFINE x == <<what, r>>
<1>1. x \in Frames /\ x[1] = what /\ x[2] = r
  BY DEF Frames
<1> HIDE DEF x
<1>2. out'[d] = Append(out[d], x) /\ \A c \in Connections : c # d => out'[c] = out[c]
  BY <1>0 DEF x
<1>3. /\ Neat(out'[d]) /\ out'[d] \in Seq(Frames)
      /\ \A y : Has(out[d], y) => Has(out'[d], y)
      /\ Has(out'[d], x)
  <2>1. Neat(out[d]) /\ ~Has(out[d], x) /\ (x[1] = "reply" => Has(out[d], <<"sent", x[2]>>))
    BY <1>1 DEF RequestInv, NeatInv, x
  <2>2. QED
    BY <1>0, <1>1, <1>2, <2>1, OneMoreFrame
<1>4. NeatInv'
  BY <1>2, <1>3 DEF RequestInv, NeatInv
<1>5. out' \in [Connections -> Seq(Frames)]
  BY <1>0, <1>2, <1>3
<1>6. ASSUME NEW c \in Connections, NEW i \in DOMAIN out'[c]
      PROVE  FrameRight(c, out[c][i][1], out[c][i][2])'
  <2>1. CASE i \in DOMAIN out[c] /\ out'[c][i] = out[c][i]
    <3>1. out[c][i] \in Frames
      BY <1>0, <2>1
    <3>2. PICK w \in {"sent", "error", "reply", "push"}, q \in Questions : out[c][i][1] = w /\ out[c][i][2] = q
      BY <3>1 DEF Frames
    <3>3. FrameRight(c, w, q)
      BY <2>1, <3>2 DEF RequestInv, FrameInv
    <3>4. FrameRight(c, w, q)'
      <4>1. req[q].stage # "none"
        BY <3>3 DEF FrameRight
      <4>2. QED
        BY <3>3, <4>1, FramesStay
    <3>5. QED
      BY <2>1, <3>2, <3>4 DEF FrameRight
  <2>2. CASE c = d /\ out'[c][i] = x
    BY <1>1, <2>2 DEF FrameRight
  <2>3. QED
    <3>1. CASE c # d
      BY <1>2, <1>6, <2>1, <3>1
    <3>2. CASE c = d
      <4>1. out[d] \in Seq(Frames) /\ x \in Frames
        BY <1>0, <1>1
      <4>2. out'[d] = Append(out[d], x)
        BY <1>2
      <4>3. \A k \in DOMAIN out'[d] : (k \in DOMAIN out[d] /\ out'[d][k] = out[d][k]) \/ out'[d][k] = x
        BY <4>1, <4>2
      <4>4. QED
        BY <1>6, <2>1, <2>2, <3>2, <4>3
    <3>3. QED
      BY <3>1, <3>2
<1>7. FrameInv'
  BY <1>6 DEF FrameInv
<1>8. \A c \in Connections : \A y : Has(out[c], y) => Has(out'[c], y)
  BY <1>2, <1>3
<1>9. QED
  BY <1>3, <1>4, <1>5, <1>7, <1>8 DEF x

-----------------------------------------------------------------------------
(* A request and what the tables point to, by their types.                 *)
LEMMA Typed ==
    ASSUME RequestInv
    PROVE  /\ req \in [Questions -> RequestType] /\ out \in [Connections -> Seq(Frames)]
           /\ pending \in [Tags -> Questions \cup {Absent}]
           /\ replies \in [Tags -> Questions \cup {Absent}]
           /\ session \in Connections \cup {0}
           /\ aborted \in SUBSET Connections /\ waiting \in SUBSET Connections
BY DEF RequestInv, Asks!TypeOK, RequestType, Frames

(* Of a request everything is the same but that it may have ended.         *)
EndedOnly(q, p) ==
    /\ p \in RequestType /\ p.stage = q.stage /\ p.kind = q.kind /\ p.conn = q.conn
    /\ p.tag = q.tag /\ p.sent = q.sent /\ p.admitted = q.admitted
    /\ p.received = q.received /\ p.overdue = q.overdue /\ (p.active => q.active)

(* The end of tickets ends requests and does nothing else.                 *)
LEMMA Ending ==
    ASSUME RequestInv, NEW rs
    PROVE  /\ Asks!Ended(rs) \in [Questions -> RequestType]
           /\ \A r \in Questions :
                 /\ EndedOnly(req[r], Asks!Ended(rs)[r])
                 /\ r \notin rs => Asks!Ended(rs)[r] = req[r]
                 /\ r \in rs => ~Asks!Ended(rs)[r].active
<1>1. req \in [Questions -> RequestType]
  BY Typed
<1>2. ASSUME NEW r \in Questions
      PROVE  /\ EndedOnly(req[r], Asks!Ended(rs)[r])
             /\ r \notin rs => Asks!Ended(rs)[r] = req[r]
             /\ r \in rs => ~Asks!Ended(rs)[r].active
  <2>1. req[r] \in RequestType
    BY <1>1
  <2>2. Asks!Ended(rs)[r] = IF r \in rs THEN [req[r] EXCEPT !.active = FALSE] ELSE req[r]
    BY DEF Asks!Ended
  <2>3. QED
    BY <2>1, <2>2 DEF EndedOnly, RequestType
<1>3. Asks!Ended(rs) \in [Questions -> RequestType]
  <2>1. Asks!Ended(rs) = [r \in Questions |-> Asks!Ended(rs)[r]]
    BY DEF Asks!Ended
  <2>2. \A r \in Questions : Asks!Ended(rs)[r] \in RequestType
    BY <1>2 DEF EndedOnly
  <2>3. QED
    BY <2>1, <2>2
<1>4. QED
  BY <1>2, <1>3

(* Discarding and expiring only take entries out of a table.               *)
LEMMA Discarding ==
    ASSUME NEW table \in [Tags -> Questions \cup {Absent}], NEW rs
    PROVE  /\ Asks!Discard(table, rs) \in [Tags -> Questions \cup {Absent}]
           /\ \A t \in Tags : Asks!Discard(table, rs)[t] # Absent =>
                 Asks!Discard(table, rs)[t] = table[t] /\ table[t] \notin rs
BY DEF Asks!Discard

LEMMA Expiring ==
    ASSUME NEW table \in [Tags -> Questions \cup {Absent}]
    PROVE  /\ Asks!Unexpired(table) \in [Tags -> Questions \cup {Absent}]
           /\ \A t \in Tags : Asks!Unexpired(table)[t] # Absent =>
                 Asks!Unexpired(table)[t] = table[t]
BY DEF Asks!Unexpired

(* What was sent stays sent.                                               *)
LEMMA SentStays ==
    ASSUME RequestInv, Asks!RequestsApart, session' = session, aborted' = aborted,
           \A c \in Connections : \A y : Has(out[c], y) => Has(out'[c], y),
           NEW q \in Questions, req'[q].stage = req[q].stage, req'[q].kind = req[q].kind,
           req'[q].conn = req[q].conn, req'[q].sent = req[q].sent,
           req'[q].admitted = req[q].admitted
    PROVE  SentRight(q)'
<1>1. req[q].kind # "web" => req[q].conn \in Connections
  <2>1. req[q] \in RequestType
    BY Typed
  <2>2. QED
    BY <2>1 DEF RequestInv, ConnInv, RequestType
<1>2. SentRight(q)
  BY DEF RequestInv, SentInv
<1>3. \A c : Asks!Current(c)' <=> Asks!Current(c)
  BY DEF Asks!Current
<1>4. QED
  BY <1>1, <1>2, <1>3 DEF SentRight

(* A connection is served from the time it enters until it leaves.         *)
LEMMA Served ==
    ASSUME RequestInv, Asks!RequestsApart, NEW c, Asks!Current(c)
    PROVE  c \in Connections /\ c = session /\ c # 0 /\ c \notin aborted
BY Typed DEF Asks!Current

(* A request is made.                                                      *)
LEMMA Making ==
    ASSUME RequestInv, Asks!RequestsApart, NEW r \in Questions, req[r].stage = "none", NEW gone,
           NEW p \in RequestType, req' = [Asks!Ended(gone) EXCEPT ![r] = p],
           p.stage \in {"sending", "flushing"}, p.kind = "web" <=> p.conn = 0,
           p.conn \in {0, session}, ~p.admitted,
           session' = session, aborted' = aborted, out' = out
    PROVE  /\ ConnInv' /\ FrameInv' /\ NeatInv' /\ SentInv'
           /\ req' \in [Questions -> RequestType] /\ req'[r] = p
           /\ \A q \in Questions : q # r => req'[q] = Asks!Ended(gone)[q]
<1> DEFINE e == Asks!Ended(gone)
<1>1. /\ e \in [Questions -> RequestType]
      /\ \A q \in Questions : EndedOnly(req[q], e[q])
  BY Ending
<1>2. req' = [e EXCEPT ![r] = p]
  OBVIOUS
<1> HIDE DEF e
<1>3. req' \in [Questions -> RequestType] /\ req'[r] = p
      /\ \A q \in Questions : q # r => req'[q] = e[q]
  BY <1>1, <1>2
<1>4. Going
  BY <1>1, <1>3 DEF Going, Follows, EndedOnly
<1>5. FrameInv' /\ NeatInv'
  BY <1>4, SameFrames
<1>6. ConnInv'
  BY <1>1, <1>3 DEF RequestInv, ConnInv, EndedOnly
<1>7. SentInv'
  <2> SUFFICES ASSUME NEW q \in Questions PROVE SentRight(q)'
    BY DEF SentInv
  <2>1. CASE q = r
    BY <1>3, <2>1 DEF SentRight
  <2>2. CASE q # r
    BY <1>1, <1>3, <2>2, SentStays DEF EndedOnly
  <2>3. QED
    BY <2>1, <2>2
<1>8. QED
  BY <1>3, <1>5, <1>6, <1>7 DEF e

(* A command registers a ticket, or is refused.                            *)
LEMMA AskOwnedKeeps ==
    ASSUME RequestInv, Asks!RequestsApart, NEW r \in Questions, NEW t \in Tags, Asks!AskOwned(r, t)
    PROVE  RequestInv'
<1> DEFINE table == Asks!Unexpired(pending)
           taken == table[t] # Absent \/ Asks!Cardinality(Asks!Entries(table)) >= MaxPending
           gone == IF taken THEN {} ELSE Asks!Pruned
           kept == Asks!Discard(replies, gone)
           refused == taken \/ kept[t] # Absent
                      \/ Asks!Cardinality(Asks!Entries(kept)) >= MaxPending
           p == Asks!New("owned", t, session, IF refused THEN "flushing" ELSE "sending", ~refused)
<1>0. /\ req[r].stage = "none" /\ Asks!Current(session)
      /\ req' = [Asks!Ended(gone) EXCEPT ![r] = p]
      /\ pending' = IF refused THEN table ELSE [table EXCEPT ![t] = r]
      /\ replies' = IF refused THEN kept ELSE [kept EXCEPT ![t] = r]
      /\ session' = session /\ aborted' = aborted /\ waiting' = waiting /\ out' = out
  BY DEF Asks!AskOwned
<1>1. /\ table \in [Tags -> Questions \cup {Absent}]
      /\ \A s \in Tags : table[s] # Absent => table[s] = pending[s]
  BY Typed, Expiring
<1>2. /\ kept \in [Tags -> Questions \cup {Absent}]
      /\ \A s \in Tags : kept[s] # Absent => kept[s] = replies[s] /\ replies[s] \notin gone
  BY Typed, Discarding
<1>3. session \in Connections /\ session # 0 /\ session \notin aborted
  BY <1>0, Served
<1> HIDE DEF table, taken, gone, kept
<1>4. refused \in BOOLEAN
  BY DEF refused
<1> HIDE DEF refused
<1>5. /\ p \in RequestType /\ p.kind = "owned" /\ p.tag = t /\ p.conn = session
      /\ ~p.admitted /\ p.stage \in {"sending", "flushing"}
      /\ (~refused => p.active)
  <2>1. "owned" \in Asks!Kinds /\ t \in Tags \cup {Absent} /\ session \in Connections \cup {0}
    BY <1>3 DEF Asks!Kinds
  <2>2. CASE refused
    <3>1. p = [Asks!NotMade EXCEPT !.stage = "flushing", !.kind = "owned", !.tag = t,
                                   !.conn = session, !.active = FALSE]
      BY <2>2 DEF Asks!New
    <3> HIDE DEF p
    <3>2. QED
      BY <2>1, <2>2, <3>1 DEF Asks!NotMade, RequestType
  <2>3. CASE ~refused
    <3>1. p = [Asks!NotMade EXCEPT !.stage = "sending", !.kind = "owned", !.tag = t,
                                   !.conn = session, !.active = TRUE]
      BY <2>3 DEF Asks!New
    <3> HIDE DEF p
    <3>2. QED
      BY <2>1, <2>3, <3>1 DEF Asks!NotMade, RequestType
  <2>4. QED
    BY <2>2, <2>3
<1> HIDE DEF p
<1>6. /\ ConnInv' /\ FrameInv' /\ NeatInv' /\ SentInv'
      /\ req' \in [Questions -> RequestType] /\ req'[r] = p
      /\ \A q \in Questions : q # r => req'[q] = Asks!Ended(gone)[q]
  BY <1>0, <1>3, <1>5, Making
<1>7. \A q \in Questions : q # r => EndedOnly(req[q], req'[q]) /\ (q \notin gone => req'[q] = req[q])
  BY <1>6, Ending
<1>8. PendInv'
  <2> SUFFICES ASSUME NEW s \in Tags, pending'[s] # Absent
               PROVE  /\ req'[pending'[s]].tag = s
                      /\ req'[pending'[s]].kind \in {"owned", "web"}
                      /\ req'[pending'[s]].stage # "none"
                      /\ req'[pending'[s]].kind = "web" => ~req'[pending'[s]].received
    BY DEF PendInv
  <2>1. CASE pending'[s] = table[s]
    <3>1. pending'[s] = pending[s] /\ pending[s] \in Questions
      BY <1>1, <2>1, Typed
    <3>2. /\ req[pending[s]].tag = s /\ req[pending[s]].kind \in {"owned", "web"}
          /\ req[pending[s]].stage # "none"
          /\ req[pending[s]].kind = "web" => ~req[pending[s]].received
      BY <3>1 DEF RequestInv, PendInv
    <3>3. EndedOnly(req[pending[s]], req'[pending[s]])
      BY <1>0, <1>7, <3>1, <3>2
    <3>4. QED
      BY <3>1, <3>2, <3>3 DEF EndedOnly
  <2>2. CASE s = t /\ pending'[s] = r
    BY <1>5, <1>6, <2>2
  <2>3. QED
    BY <1>0, <1>1, <2>1, <2>2
<1>9. TicketInv'
  <2> SUFFICES ASSUME NEW s \in Tags, replies'[s] # Absent
               PROVE  /\ req'[replies'[s]].kind = "owned" /\ req'[replies'[s]].active
                      /\ req'[replies'[s]].conn = session
                      /\ req'[replies'[s]].stage = "over" => req'[replies'[s]].admitted
    BY <1>0 DEF TicketInv
  <2>1. CASE replies'[s] = kept[s]
    <3>1. replies'[s] = replies[s] /\ replies[s] \in Questions /\ replies[s] \notin gone
      BY <1>2, <2>1, Typed
    <3>2. /\ req[replies[s]].kind = "owned" /\ req[replies[s]].active
          /\ req[replies[s]].conn = session
          /\ req[replies[s]].stage = "over" => req[replies[s]].admitted
      BY <3>1 DEF RequestInv, TicketInv
    <3>3. req[replies[s]].stage # "none"
      BY <3>1, <3>2 DEF RequestInv, ConnInv
    <3>4. req'[replies[s]] = req[replies[s]]
      BY <1>0, <1>7, <3>1, <3>3
    <3>5. QED
      BY <3>1, <3>2, <3>4
  <2>2. CASE ~refused /\ s = t /\ replies'[s] = r
    BY <1>5, <1>6, <2>2
  <2>3. QED
    BY <1>0, <1>2, <2>1, <2>2
<1>10. Asks!TypeOK'
  <2>1. pending' \in [Tags -> Questions \cup {Absent}] /\ replies' \in [Tags -> Questions \cup {Absent}]
    BY <1>0, <1>1, <1>2
  <2>2. QED
    BY <1>0, <1>6, <2>1, Typed DEF Asks!TypeOK, RequestType, Frames
<1>11. QED
  BY <1>6, <1>8, <1>9, <1>10 DEF RequestInv

(* A request without a ticket is made.                                     *)
LEMMA AskTaskKeeps ==
    ASSUME RequestInv, Asks!RequestsApart, NEW r \in Questions, Asks!AskTask(r)
    PROVE  RequestInv'
<1> DEFINE p == Asks!New("task", Absent, session, "sending", TRUE)
<1>0. /\ req[r].stage = "none" /\ Asks!Current(session)
      /\ req' = [req EXCEPT ![r] = p]
      /\ UNCHANGED <<session, aborted, waiting, pending, replies, out>>
  BY DEF Asks!AskTask
<1>1. session \in Connections /\ session # 0 /\ session \notin aborted
  BY <1>0, Served
<1>2. /\ p \in RequestType /\ p.kind = "task" /\ p.conn = session /\ p.stage = "sending"
      /\ ~p.admitted
  BY <1>1 DEF Asks!New, Asks!NotMade, RequestType, Asks!Kinds
<1> HIDE DEF p
<1>3. Asks!Ended({}) = req
  <2>1. req \in [Questions -> RequestType]
    BY Typed
  <2>2. QED
    BY <2>1 DEF Asks!Ended
<1>4. req' = [Asks!Ended({}) EXCEPT ![r] = p]
  BY <1>0, <1>3
<1>5. /\ ConnInv' /\ FrameInv' /\ NeatInv' /\ SentInv'
      /\ req' \in [Questions -> RequestType]
      /\ \A q \in Questions : q # r => req'[q] = req[q]
  BY <1>0, <1>1, <1>2, <1>3, <1>4, Making
<1>6. PendInv' /\ TicketInv'
  BY <1>0, <1>5, Typed DEF RequestInv, PendInv, TicketInv, ConnInv
<1>7. Asks!TypeOK'
  BY <1>0, <1>5, Typed DEF Asks!TypeOK, RequestType, Frames
<1>8. QED
  BY <1>5, <1>6, <1>7 DEF RequestInv

(* The web interface asks.                                                 *)
LEMMA AskWebKeeps ==
    ASSUME RequestInv, Asks!RequestsApart, NEW r \in Questions, NEW t \in Tags, Asks!AskWeb(r, t)
    PROVE  RequestInv'
<1> DEFINE p == Asks!New("web", t, 0, "sending", FALSE)
           table == Asks!Unexpired(pending)
<1>0. /\ req[r].stage = "none" /\ req' = [req EXCEPT ![r] = p]
      /\ pending' = [table EXCEPT ![t] = r]
      /\ UNCHANGED <<session, aborted, waiting, replies, out>>
  BY DEF Asks!AskWeb
<1>1. /\ p \in RequestType /\ p.kind = "web" /\ p.conn = 0 /\ p.stage = "sending"
      /\ ~p.admitted /\ p.tag = t /\ ~p.received
  BY DEF Asks!New, Asks!NotMade, RequestType, Asks!Kinds
<1>2. /\ table \in [Tags -> Questions \cup {Absent}]
      /\ \A s \in Tags : table[s] # Absent => table[s] = pending[s]
  BY Typed, Expiring
<1> HIDE DEF p, table
<1>3. Asks!Ended({}) = req
  <2>1. req \in [Questions -> RequestType]
    BY Typed
  <2>2. QED
    BY <2>1 DEF Asks!Ended
<1>4. req' = [Asks!Ended({}) EXCEPT ![r] = p]
  BY <1>0, <1>3
<1>5. /\ ConnInv' /\ FrameInv' /\ NeatInv' /\ SentInv'
      /\ req' \in [Questions -> RequestType] /\ req'[r] = p
      /\ \A q \in Questions : q # r => req'[q] = req[q]
  BY <1>0, <1>1, <1>3, <1>4, Making
<1>6. PendInv'
  <2> SUFFICES ASSUME NEW s \in Tags, pending'[s] # Absent
               PROVE  /\ req'[pending'[s]].tag = s
                      /\ req'[pending'[s]].kind \in {"owned", "web"}
                      /\ req'[pending'[s]].stage # "none"
                      /\ req'[pending'[s]].kind = "web" => ~req'[pending'[s]].received
    BY DEF PendInv
  <2>1. CASE s = t
    BY <1>0, <1>1, <1>2, <1>5, <2>1
  <2>2. CASE s # t
    <3>1. pending'[s] = pending[s] /\ pending[s] \in Questions
      BY <1>0, <1>2, <2>2, Typed
    <3>2. req[pending[s]].stage # "none"
      BY <3>1 DEF RequestInv, PendInv
    <3>3. req'[pending[s]] = req[pending[s]]
      BY <1>0, <1>5, <3>1, <3>2
    <3>4. QED
      BY <3>1, <3>3 DEF RequestInv, PendInv
  <2>3. QED
    BY <2>1, <2>2
<1>7. TicketInv'
  BY <1>0, <1>5, Typed DEF RequestInv, TicketInv, ConnInv
<1>8. Asks!TypeOK'
  <2>1. pending' \in [Tags -> Questions \cup {Absent}]
    BY <1>0, <1>2
  <2>2. QED
    BY <1>0, <1>5, <2>1, Typed DEF Asks!TypeOK, RequestType, Frames
<1>9. QED
  BY <1>5, <1>6, <1>7, <1>8 DEF RequestInv

-----------------------------------------------------------------------------
(* What one request does while its connection is what it was.              *)
LEMMA OneRequest ==
    ASSUME RequestInv, Asks!RequestsApart, NEW r \in Questions, req[r].stage # "none",
           NEW p \in RequestType, req' = [req EXCEPT ![r] = p], Follows(req[r], p),
           session' = session, aborted' = aborted
    PROVE  /\ Going /\ ConnInv' /\ req' \in [Questions -> RequestType] /\ req'[r] = p
           /\ \A q \in Questions : q # r => req'[q] = req[q]
<1>1. req \in [Questions -> RequestType]
  BY Typed
<1>2. req' \in [Questions -> RequestType] /\ req'[r] = p
      /\ \A q \in Questions : q # r => req'[q] = req[q]
  BY <1>1
<1>3. Going
  BY <1>2 DEF Going, Follows
<1>4. ConnInv'
  BY <1>2 DEF RequestInv, ConnInv, Follows
<1>5. QED
  BY <1>2, <1>3, <1>4

(* A transmission ends.                                                    *)
LEMMA TransmittedKeeps ==
    ASSUME RequestInv, Asks!RequestsApart, NEW r \in Questions, NEW ok \in BOOLEAN,
           Asks!Transmitted(r, ok)
    PROVE  RequestInv'
<1> DEFINE p == [req[r] EXCEPT !.stage = IF req[r].kind = "web" THEN "over" ELSE "flushing",
                               !.sent = ok]
<1>0. /\ req[r].stage = "sending" /\ req' = [req EXCEPT ![r] = p]
      /\ pending' \in {pending, Asks!Discard(pending, {r})}
      /\ UNCHANGED <<session, aborted, waiting, replies, out>>
  BY DEF Asks!Transmitted
<1>1. req[r] \in RequestType
  BY Typed
<1>2. /\ p \in RequestType /\ Follows(req[r], p) /\ p.received = req[r].received
      /\ p.active = req[r].active /\ p.admitted = req[r].admitted
      /\ p.stage = IF req[r].kind = "web" THEN "over" ELSE "flushing"
  BY <1>0, <1>1 DEF RequestType, Follows
<1> HIDE DEF p
<1>3. /\ Going /\ ConnInv' /\ req' \in [Questions -> RequestType] /\ req'[r] = p
      /\ \A q \in Questions : q # r => req'[q] = req[q]
  BY <1>0, <1>2, OneRequest
<1>4. FrameInv' /\ NeatInv'
  BY <1>0, <1>3, SameFrames
<1>5. /\ pending' \in [Tags -> Questions \cup {Absent}]
      /\ \A t \in Tags : pending'[t] # Absent => pending'[t] = pending[t]
  BY <1>0, Typed, Discarding
<1>6. PendInv'
  BY <1>0, <1>2, <1>3, <1>5 DEF RequestInv, PendInv, Follows
<1>7. TicketInv'
  BY <1>0, <1>2, <1>3 DEF RequestInv, TicketInv, Follows
<1>8. SentInv'
  <2> SUFFICES ASSUME NEW q \in Questions PROVE SentRight(q)'
    BY DEF SentInv
  <2>1. CASE q = r
    <3>1. SentRight(r) /\ \A c : Asks!Current(c)' <=> Asks!Current(c)
      BY <1>0 DEF RequestInv, SentInv, Asks!Current
    <3>2. QED
      BY <1>0, <1>2, <1>3, <2>1, <3>1 DEF SentRight, Follows
  <2>2. CASE q # r
    BY <1>0, <1>3, <2>2, SentStays
  <2>3. QED
    BY <2>1, <2>2
<1>9. Asks!TypeOK'
  BY <1>0, <1>3, <1>5, Typed DEF Asks!TypeOK, RequestType, Frames
<1>10. QED
  BY <1>3, <1>4, <1>6, <1>7, <1>8, <1>9 DEF RequestInv

(* A deadline passes.                                                      *)
LEMMA ExpireKeeps ==
    ASSUME RequestInv, Asks!RequestsApart, NEW r \in Questions, Asks!Expire(r)
    PROVE  RequestInv'
<1> DEFINE p == [req[r] EXCEPT !.overdue = TRUE]
<1>0. /\ req' = [req EXCEPT ![r] = p]
      /\ UNCHANGED <<session, aborted, waiting, pending, replies, out>>
  BY DEF Asks!Expire
<1>1. req[r] \in RequestType /\ req \in [Questions -> RequestType]
  BY Typed
<1>2. /\ p \in RequestType /\ p.kind = req[r].kind /\ p.conn = req[r].conn /\ p.tag = req[r].tag
      /\ p.stage = req[r].stage /\ p.received = req[r].received /\ p.active = req[r].active
      /\ p.admitted = req[r].admitted /\ p.sent = req[r].sent
  BY <1>1 DEF RequestType
<1> HIDE DEF p
<1>3. req' \in [Questions -> RequestType] /\ req'[r] = p
      /\ \A q \in Questions : q # r => req'[q] = req[q]
  BY <1>0, <1>1, <1>2
<1>4. \A q \in Questions :
         /\ req'[q].kind = req[q].kind /\ req'[q].conn = req[q].conn /\ req'[q].tag = req[q].tag
         /\ req'[q].stage = req[q].stage /\ req'[q].received = req[q].received
         /\ req'[q].active = req[q].active /\ req'[q].admitted = req[q].admitted
         /\ req'[q].sent = req[q].sent
  BY <1>2, <1>3
<1>5. Going
  BY <1>4 DEF Going, Follows
<1>6. FrameInv' /\ NeatInv'
  BY <1>0, <1>5, SameFrames
<1>7. ConnInv'
  BY <1>0, <1>4 DEF RequestInv, ConnInv
<1>8. PendInv'
  BY <1>0, <1>4, Typed DEF RequestInv, PendInv
<1>9. TicketInv'
  BY <1>0, <1>4, Typed DEF RequestInv, TicketInv
<1>10. SentInv'
  BY <1>0, <1>4, SentStays DEF SentInv
<1>11. Asks!TypeOK'
  BY <1>0, <1>3, Typed DEF Asks!TypeOK, RequestType, Frames
<1>12. QED
  BY <1>6, <1>7, <1>8, <1>9, <1>10, <1>11 DEF RequestInv

(* The frames of a command are out, or its connection is gone.             *)
LEMMA FlushedKeeps ==
    ASSUME RequestInv, Asks!RequestsApart, NEW r \in Questions, Asks!Flushed(r)
    PROVE  RequestInv'
<1> DEFINE flushed == Asks!Current(req[r].conn)
           admitted == req[r].active /\ req[r].sent /\ flushed
           p == [req[r] EXCEPT !.stage = "over", !.admitted = admitted, !.active = admitted]
           what == IF req[r].sent THEN "sent" ELSE "error"
<1>0. /\ req[r].stage = "flushing" /\ req' = [req EXCEPT ![r] = p]
      /\ replies' = IF admitted THEN replies ELSE Asks!Discard(replies, {r})
      /\ out' = IF flushed THEN [out EXCEPT ![session] = Append(@, <<what, r>>)] ELSE out
      /\ UNCHANGED <<session, aborted, waiting, pending>>
  BY DEF Asks!Flushed
<1>1. req[r] \in RequestType
  BY Typed
<1>2. req[r].active \in BOOLEAN /\ req[r].sent \in BOOLEAN
  BY <1>1 DEF RequestType
<1>3. flushed => req[r].conn = session /\ session \in Connections /\ req[r].kind # "web"
  BY Served DEF RequestInv, ConnInv
<1>4. admitted \in BOOLEAN /\ (admitted => req[r].active /\ req[r].sent /\ flushed)
  BY <1>2
<1> HIDE DEF admitted, flushed
<1>5. /\ p \in RequestType /\ Follows(req[r], p) /\ p.stage = "over" /\ p.sent = req[r].sent
      /\ p.received = req[r].received /\ p.admitted = admitted /\ p.active = admitted
      /\ p.kind = req[r].kind /\ p.conn = req[r].conn
  <2>1. /\ p \in RequestType /\ p.stage = "over" /\ p.sent = req[r].sent
        /\ p.received = req[r].received /\ p.admitted = admitted /\ p.active = admitted
        /\ p.kind = req[r].kind /\ p.conn = req[r].conn /\ p.tag = req[r].tag
    BY <1>1, <1>4 DEF RequestType
  <2> HIDE DEF p
  <2>2. QED
    BY <1>4, <2>1 DEF Follows
<1> HIDE DEF p
<1>6. /\ Going /\ ConnInv' /\ req' \in [Questions -> RequestType] /\ req'[r] = p
      /\ \A q \in Questions : q # r => req'[q] = req[q]
  BY <1>0, <1>5, OneRequest
<1>7. ASSUME flushed
      PROVE  /\ FrameInv' /\ NeatInv' /\ out' \in [Connections -> Seq(Frames)]
             /\ \A c \in Connections : \A y : Has(out[c], y) => Has(out'[c], y)
             /\ Has(out'[session], <<what, r>>)
  <2>1. PICK w \in {"sent", "error"} : w = what
    OBVIOUS
  <2> HIDE DEF what
  <2>2. out' = [out EXCEPT ![session] = Append(@, <<w, r>>)]
    BY <1>0, <1>7, <2>1
  <2>3. ~Has(out[session], <<w, r>>)
    <3> SUFFICES ASSUME NEW i \in DOMAIN out[session], out[session][i] = <<w, r>>
                 PROVE  FALSE
      BY DEF Has
    <3>1. FrameRight(session, w, r)
      BY <1>3, <1>7 DEF RequestInv, FrameInv
    <3>2. QED
      BY <1>0, <2>1, <3>1 DEF FrameRight
  <2>4. FrameRight(session, w, r)'
    <3>1. req'[r].kind # "web" /\ req'[r].conn = session /\ req'[r].stage = "over"
      BY <1>3, <1>5, <1>6, <1>7
    <3>2. QED
      BY <1>0, <2>1, <3>1 DEF FrameRight
  <2>5. w # "reply" /\ w \in {"sent", "error", "reply", "push"}
    BY <2>1
  <2>6. Going /\ session \in Connections /\ session' = session
    BY <1>0, <1>3, <1>6, <1>7
  <2>7. /\ FrameInv' /\ NeatInv' /\ out' \in [Connections -> Seq(Frames)]
        /\ \A c \in Connections : \A y : Has(out[c], y) => Has(out'[c], y)
        /\ Has(out'[session], <<w, r>>)
    BY <2>2, <2>3, <2>4, <2>5, <2>6, MoreFrames
  <2>8. QED
    BY <2>1, <2>7
<1>8. ASSUME ~flushed
      PROVE  /\ FrameInv' /\ NeatInv' /\ out' \in [Connections -> Seq(Frames)]
             /\ \A c \in Connections : \A y : Has(out[c], y) => Has(out'[c], y)
  BY <1>0, <1>6, <1>8, SameFrames, Typed
<1>9. /\ FrameInv' /\ NeatInv' /\ out' \in [Connections -> Seq(Frames)]
      /\ \A c \in Connections : \A y : Has(out[c], y) => Has(out'[c], y)
  BY <1>7, <1>8
<1>10. /\ replies' \in [Tags -> Questions \cup {Absent}]
       /\ \A t \in Tags : replies'[t] # Absent =>
             replies'[t] = replies[t] /\ (replies[t] = r => admitted)
  BY <1>0, Typed, Discarding
<1>11. PendInv'
  BY <1>0, <1>5, <1>6 DEF RequestInv, PendInv, Follows
<1>12. TicketInv'
  <2> SUFFICES ASSUME NEW t \in Tags, replies'[t] # Absent
               PROVE  /\ req'[replies'[t]].kind = "owned" /\ req'[replies'[t]].active
                      /\ req'[replies'[t]].conn = session
                      /\ req'[replies'[t]].stage = "over" => req'[replies'[t]].admitted
    BY <1>0 DEF TicketInv
  <2>1. replies'[t] = replies[t] /\ replies[t] \in Questions
    BY <1>10, Typed
  <2>2. /\ req[replies[t]].kind = "owned" /\ req[replies[t]].active
        /\ req[replies[t]].conn = session
        /\ req[replies[t]].stage = "over" => req[replies[t]].admitted
    BY <2>1 DEF RequestInv, TicketInv
  <2>3. CASE replies[t] = r
    <3>1. admitted
      BY <1>10, <2>1, <2>3
    <3>2. p.active /\ p.admitted
      BY <1>5, <3>1
    <3>3. QED
      BY <1>5, <1>6, <2>1, <2>2, <2>3, <3>2
  <2>4. CASE replies[t] # r
    BY <1>6, <2>1, <2>2, <2>4
  <2>5. QED
    BY <2>3, <2>4
<1>13. SentInv'
  <2> SUFFICES ASSUME NEW q \in Questions PROVE SentRight(q)'
    BY DEF SentInv
  <2>1. CASE q = r
    <3>1. \A c : Asks!Current(c)' <=> Asks!Current(c)
      BY <1>0 DEF Asks!Current
    <3>2. p.admitted => flushed /\ p.sent
      BY <1>4, <1>5
    <3>3. Asks!Current(p.conn) => flushed
      BY <1>5 DEF flushed
    <3>4. flushed /\ p.sent => Has(out'[p.conn], <<"sent", r>>) /\ p.kind # "web"
      BY <1>3, <1>5, <1>7
    <3>5. QED
      BY <1>6, <2>1, <3>1, <3>2, <3>3, <3>4 DEF SentRight
  <2>2. CASE q # r
    BY <1>0, <1>6, <1>9, <2>2, SentStays
  <2>3. QED
    BY <2>1, <2>2
<1>14. Asks!TypeOK'
  BY <1>0, <1>6, <1>9, <1>10, Typed DEF Asks!TypeOK, RequestType, Frames
<1>15. QED
  BY <1>6, <1>9, <1>11, <1>12, <1>13, <1>14 DEF RequestInv

(* A reply goes to who asked, once it was said that it was sent.           *)
LEMMA ReplyGoes ==
    ASSUME RequestInv, Asks!RequestsApart, Going, NEW r \in Questions,
           UNCHANGED <<session, aborted>>,
           req[r].kind # "web", req[r].stage = "over", req'[r].stage = "over",
           req'[r].kind = req[r].kind, req'[r].conn = req[r].conn,
           IF req[r].kind = "owned" THEN req[r].active /\ ~req'[r].active
                                    ELSE ~req[r].received /\ req'[r].received,
           NEW may \in BOOLEAN, may /\ Asks!Current(req[r].conn)
                                   => Has(out[req[r].conn], <<"sent", r>>),
           out' = IF may /\ Asks!Current(req[r].conn)
                  THEN [out EXCEPT ![session] = Append(@, <<"reply", r>>)] ELSE out
    PROVE  /\ FrameInv' /\ NeatInv' /\ out' \in [Connections -> Seq(Frames)]
           /\ \A c \in Connections : \A y : Has(out[c], y) => Has(out'[c], y)
<1>1. CASE ~(may /\ Asks!Current(req[r].conn))
  BY <1>1, SameFrames, Typed
<1>2. CASE may /\ Asks!Current(req[r].conn)
  <2>1. req[r].conn = session /\ session \in Connections
    BY <1>2, Served
  <2>2. out' = [out EXCEPT ![session] = Append(@, <<"reply", r>>)]
    BY <1>2
  <2>3. Has(out[session], <<"sent", r>>)
    BY <1>2, <2>1
  <2>4. ~Has(out[session], <<"reply", r>>)
    <3> SUFFICES ASSUME NEW i \in DOMAIN out[session], out[session][i] = <<"reply", r>>
                 PROVE  FALSE
      BY DEF Has
    <3>1. FrameRight(session, "reply", r)
      BY <2>1 DEF RequestInv, FrameInv
    <3>2. QED
      BY <3>1 DEF FrameRight
  <2>5. FrameRight(session, "reply", r)'
    BY <2>1 DEF FrameRight
  <2>6. QED
    BY <2>1, <2>2, <2>3, <2>4, <2>5, MoreFrames
<1>3. QED
  BY <1>1, <1>2

(* A ticket's reply is written, or given up.                               *)
LEMMA DeliverKeeps ==
    ASSUME RequestInv, Asks!RequestsApart, NEW r \in Questions, Asks!Deliver(r)
    PROVE  RequestInv'
<1>0. /\ req[r].kind = "owned" /\ req[r].active /\ req[r].stage = "over"
      /\ req' = Asks!Ended({r}) /\ replies' = Asks!Discard(replies, {r})
      /\ out' = IF req[r].admitted /\ Asks!Current(req[r].conn)
                THEN [out EXCEPT ![session] = Append(@, <<"reply", r>>)] ELSE out
      /\ UNCHANGED <<session, aborted, waiting, pending>>
  BY DEF Asks!Deliver
<1>1. /\ req' \in [Questions -> RequestType]
      /\ \A q \in Questions : EndedOnly(req[q], req'[q]) /\ (q # r => req'[q] = req[q])
      /\ ~req'[r].active
  BY <1>0, Ending
<1>2. Going
  BY <1>1 DEF Going, Follows, EndedOnly
<1>3. req[r].admitted \in BOOLEAN
      /\ (req[r].admitted => Has(out[req[r].conn], <<"sent", r>>))
  <2>1. req[r] \in RequestType
    BY Typed
  <2>2. QED
    BY <2>1 DEF RequestType, RequestInv, SentInv, SentRight
<1>4. req'[r].stage = "over" /\ req'[r].kind = req[r].kind /\ req'[r].conn = req[r].conn
  BY <1>0, <1>1 DEF EndedOnly
<1>5. /\ FrameInv' /\ NeatInv' /\ out' \in [Connections -> Seq(Frames)]
      /\ \A c \in Connections : \A y : Has(out[c], y) => Has(out'[c], y)
  BY <1>0, <1>1, <1>2, <1>3, <1>4, ReplyGoes
<1>6. ConnInv'
  <2> SUFFICES ASSUME NEW q \in Questions
               PROVE  /\ req'[q].kind = "web" <=> req'[q].conn = 0
                      /\ req'[q].kind # "web" => /\ req'[q].stage # "none"
                                                 /\ req'[q].conn = session \/ req'[q].conn \in aborted
    BY <1>0 DEF ConnInv
  <2>1. EndedOnly(req[q], req'[q])
    BY <1>0, Ending
  <2>2. QED
    BY <2>1 DEF RequestInv, ConnInv, EndedOnly
<1>7. PendInv'
  <2> SUFFICES ASSUME NEW t \in Tags, pending[t] # Absent
               PROVE  /\ req'[pending[t]].tag = t
                      /\ req'[pending[t]].kind \in {"owned", "web"}
                      /\ req'[pending[t]].stage # "none"
                      /\ req'[pending[t]].kind = "web" => ~req'[pending[t]].received
    BY <1>0 DEF PendInv
  <2>1. EndedOnly(req[pending[t]], req'[pending[t]])
    BY <1>1, Typed
  <2>2. QED
    BY <2>1 DEF RequestInv, PendInv, EndedOnly
<1>8. /\ replies' \in [Tags -> Questions \cup {Absent}]
      /\ \A t \in Tags : replies'[t] # Absent => replies'[t] = replies[t] /\ replies[t] # r
  BY <1>0, Typed, Discarding
<1>9. TicketInv'
  <2> SUFFICES ASSUME NEW t \in Tags, replies'[t] # Absent
               PROVE  /\ req'[replies'[t]].kind = "owned" /\ req'[replies'[t]].active
                      /\ req'[replies'[t]].conn = session
                      /\ req'[replies'[t]].stage = "over" => req'[replies'[t]].admitted
    BY <1>0 DEF TicketInv
  <2>1. replies'[t] = replies[t] /\ replies[t] # r /\ replies[t] \in Questions
    BY <1>8, Typed
  <2>2. req'[replies[t]] = req[replies[t]]
    BY <1>1, <2>1
  <2>3. QED
    BY <2>1, <2>2 DEF RequestInv, TicketInv
<1>10. SentInv'
  BY <1>0, <1>1, <1>5, SentStays DEF SentInv, EndedOnly
<1>11. Asks!TypeOK'
  BY <1>0, <1>1, <1>5, <1>8, Typed DEF Asks!TypeOK, RequestType, Frames
<1>12. QED
  BY <1>5, <1>6, <1>7, <1>9, <1>10, <1>11 DEF RequestInv

(* The task that awaited an answer writes it.                              *)
LEMMA TaskAnswersKeeps ==
    ASSUME RequestInv, Asks!RequestsApart, NEW r \in Questions, Asks!TaskAnswers(r)
    PROVE  RequestInv'
<1> DEFINE p == [req[r] EXCEPT !.received = TRUE]
<1>0. /\ req[r].kind = "task" /\ req[r].stage = "over" /\ req[r].sent /\ ~req[r].received
      /\ req' = [req EXCEPT ![r] = p]
      /\ out' = IF Asks!Current(req[r].conn)
                THEN [out EXCEPT ![session] = Append(@, <<"reply", r>>)] ELSE out
      /\ UNCHANGED <<session, aborted, waiting, pending, replies>>
  BY DEF Asks!TaskAnswers
<1>1. req[r] \in RequestType
  BY Typed
<1>2. /\ p \in RequestType /\ p.kind = req[r].kind /\ p.conn = req[r].conn
      /\ p.stage = req[r].stage /\ p.received /\ p.sent = req[r].sent
      /\ p.admitted = req[r].admitted /\ p.tag = req[r].tag /\ p.active = req[r].active
  BY <1>1 DEF RequestType
<1> HIDE DEF p
<1>3. Follows(req[r], p)
  BY <1>2 DEF Follows
<1>4. /\ Going /\ ConnInv' /\ req' \in [Questions -> RequestType] /\ req'[r] = p
      /\ \A q \in Questions : q # r => req'[q] = req[q]
  BY <1>0, <1>2, <1>3, OneRequest
<1>5. Asks!Current(req[r].conn) => Has(out[req[r].conn], <<"sent", r>>)
  BY <1>0 DEF RequestInv, SentInv, SentRight
<1>6. /\ FrameInv' /\ NeatInv' /\ out' \in [Connections -> Seq(Frames)]
      /\ \A c \in Connections : \A y : Has(out[c], y) => Has(out'[c], y)
  <2>1. out' = IF TRUE /\ Asks!Current(req[r].conn)
               THEN [out EXCEPT ![session] = Append(@, <<"reply", r>>)] ELSE out
    BY <1>0
  <2>2. req'[r].stage = "over" /\ req'[r].kind = "task" /\ req'[r].conn = req[r].conn
        /\ req'[r].received
    BY <1>0, <1>2, <1>4
  <2>3. QED
    BY <1>0, <1>4, <1>5, <2>1, <2>2, ReplyGoes
<1>7. PendInv'
  BY <1>0, <1>4, Typed DEF RequestInv, PendInv
<1>8. TicketInv'
  BY <1>0, <1>4, Typed DEF RequestInv, TicketInv
<1>9. SentInv'
  <2> SUFFICES ASSUME NEW q \in Questions PROVE SentRight(q)'
    BY DEF SentInv
  <2>1. /\ req'[q].stage = req[q].stage /\ req'[q].kind = req[q].kind
        /\ req'[q].conn = req[q].conn /\ req'[q].sent = req[q].sent
        /\ req'[q].admitted = req[q].admitted
    BY <1>2, <1>4
  <2>2. QED
    BY <1>0, <1>6, <2>1, SentStays
<1>10. Asks!TypeOK'
  BY <1>0, <1>4, <1>6, Typed DEF Asks!TypeOK, RequestType, Frames
<1>11. QED
  BY <1>4, <1>6, <1>7, <1>8, <1>9, <1>10 DEF RequestInv

(* An answer comes, for a ticket or for the web.                           *)
LEMMA RespondKeeps ==
    ASSUME RequestInv, Asks!RequestsApart, NEW t \in Tags, Asks!Respond(t)
    PROVE  RequestInv'
<1>0. /\ pending[t] # Absent /\ pending' = [pending EXCEPT ![t] = Absent]
      /\ IF req[pending[t]].kind = "owned" THEN Asks!Received(pending[t])
         ELSE Asks!Broadcast(pending[t])
      /\ UNCHANGED <<session, aborted, waiting>>
  BY DEF Asks!Respond
<1>1. PICK r \in Questions : r = pending[t]
  BY <1>0, Typed
<1>2. /\ req[r].tag = t /\ req[r].kind \in {"owned", "web"} /\ req[r].stage # "none"
      /\ req[r].kind = "web" => ~req[r].received
  BY <1>0, <1>1 DEF RequestInv, PendInv
<1>3. req[r] \in RequestType /\ req \in [Questions -> RequestType]
  BY Typed
<1>4. /\ pending' \in [Tags -> Questions \cup {Absent}]
      /\ \A s \in Tags : pending'[s] # Absent => pending'[s] = pending[s] /\ pending[s] # r
  <2>1. \A s \in Tags : pending[s] = r => s = t
    BY <1>1, <1>0, <1>2 DEF RequestInv, PendInv
  <2>2. QED
    BY <1>0, <2>1, Typed
<1>5. CASE req[r].kind = "owned"
  <2> DEFINE kept == Asks!Discard(replies, Asks!Pruned)
             got == kept[req[r].tag] = r /\ ~req[r].received /\ r \notin Asks!Pruned
             e == Asks!Ended(Asks!Pruned)
  <2>1. /\ replies' = kept /\ req' = [e EXCEPT ![r].received = @ \/ got] /\ out' = out
    BY <1>0, <1>1, <1>5 DEF Asks!Received
  <2>2. got \in BOOLEAN
    OBVIOUS
  <2>3. /\ e \in [Questions -> RequestType]
        /\ \A q \in Questions : EndedOnly(req[q], e[q]) /\ (q \notin Asks!Pruned => e[q] = req[q])
    BY Ending
  <2>4. /\ kept \in [Tags -> Questions \cup {Absent}]
        /\ \A s \in Tags : kept[s] # Absent => kept[s] = replies[s] /\ replies[s] \notin Asks!Pruned
    BY Typed, Discarding
  <2> HIDE DEF kept, got, e
  <2>5. PICK p \in RequestType :
           /\ req' = [e EXCEPT ![r] = p] /\ p.stage = e[r].stage /\ p.kind = e[r].kind
           /\ p.conn = e[r].conn /\ p.tag = e[r].tag /\ p.sent = e[r].sent
           /\ p.admitted = e[r].admitted /\ p.active = e[r].active
           /\ e[r].received => p.received
    <3> DEFINE n == [e[r] EXCEPT !.received = @ \/ got]
    <3>1. e[r] \in RequestType
      BY <2>3
    <3>2. (e[r].received \/ got) \in BOOLEAN /\ (e[r].received => e[r].received \/ got)
      OBVIOUS
    <3>3. /\ n \in RequestType /\ n.stage = e[r].stage /\ n.kind = e[r].kind
          /\ n.conn = e[r].conn /\ n.tag = e[r].tag /\ n.sent = e[r].sent
          /\ n.admitted = e[r].admitted /\ n.active = e[r].active
          /\ n.received = (e[r].received \/ got)
      BY <3>1, <3>2 DEF RequestType
    <3>4. req' = [e EXCEPT ![r] = n]
      BY <2>1
    <3> HIDE DEF n
    <3>5. QED
      BY <3>2, <3>3, <3>4
  <2>6. req' \in [Questions -> RequestType] /\ req'[r] = p
        /\ \A q \in Questions : q # r => req'[q] = e[q]
    BY <2>3, <2>5
  <2>7. \A q \in Questions :
           /\ req'[q].stage = req[q].stage /\ req'[q].kind = req[q].kind
           /\ req'[q].conn = req[q].conn /\ req'[q].tag = req[q].tag
           /\ req'[q].sent = req[q].sent /\ req'[q].admitted = req[q].admitted
           /\ req'[q].active => req[q].active
           /\ req[q].received => req'[q].received
           /\ q \notin Asks!Pruned => (req[q].active => req'[q].active)
           /\ q # r => req'[q].received = req[q].received
    <3> SUFFICES ASSUME NEW q \in Questions
                 PROVE  /\ req'[q].stage = req[q].stage /\ req'[q].kind = req[q].kind
                        /\ req'[q].conn = req[q].conn /\ req'[q].tag = req[q].tag
                        /\ req'[q].sent = req[q].sent /\ req'[q].admitted = req[q].admitted
                        /\ req'[q].active => req[q].active
                        /\ req[q].received => req'[q].received
                        /\ q \notin Asks!Pruned => (req[q].active => req'[q].active)
                        /\ q # r => req'[q].received = req[q].received
      OBVIOUS
    <3>1. EndedOnly(req[q], e[q]) /\ (q \notin Asks!Pruned => e[q] = req[q])
      BY <2>3
    <3>2. CASE q = r
      BY <2>5, <2>6, <3>1, <3>2 DEF EndedOnly
    <3>3. CASE q # r
      BY <2>6, <3>1, <3>3 DEF EndedOnly
    <3>4. QED
      BY <3>2, <3>3
  <2>8. Going
    BY <2>7 DEF Going, Follows
  <2>9. FrameInv' /\ NeatInv'
    BY <2>1, <2>8, SameFrames
  <2>10. ConnInv'
    BY <1>0, <2>7 DEF RequestInv, ConnInv
  <2>11. PendInv'
    <3> SUFFICES ASSUME NEW s \in Tags, pending'[s] # Absent
                 PROVE  /\ req'[pending'[s]].tag = s
                        /\ req'[pending'[s]].kind \in {"owned", "web"}
                        /\ req'[pending'[s]].stage # "none"
                        /\ req'[pending'[s]].kind = "web" => ~req'[pending'[s]].received
      BY DEF PendInv
    <3>1. pending'[s] = pending[s] /\ pending[s] # r /\ pending[s] \in Questions
      BY <1>4, Typed
    <3>2. QED
      BY <2>7, <3>1 DEF RequestInv, PendInv
  <2>12. TicketInv'
    <3> SUFFICES ASSUME NEW s \in Tags, replies'[s] # Absent
                 PROVE  /\ req'[replies'[s]].kind = "owned" /\ req'[replies'[s]].active
                        /\ req'[replies'[s]].conn = session
                        /\ req'[replies'[s]].stage = "over" => req'[replies'[s]].admitted
      BY <1>0 DEF TicketInv
    <3>1. replies'[s] = replies[s] /\ replies[s] \notin Asks!Pruned /\ replies[s] \in Questions
      BY <2>1, <2>4, Typed
    <3>2. QED
      BY <2>7, <3>1 DEF RequestInv, TicketInv
  <2>13. SentInv'
    BY <1>0, <2>1, <2>7, SentStays DEF SentInv
  <2>14. Asks!TypeOK'
    BY <1>0, <1>4, <2>1, <2>4, <2>6, Typed DEF Asks!TypeOK, RequestType, Frames
  <2>15. QED
    BY <2>9, <2>10, <2>11, <2>12, <2>13, <2>14 DEF RequestInv
<1>6. CASE req[r].kind = "web"
  <2> DEFINE p == [req[r] EXCEPT !.received = TRUE]
  <2>1. /\ req' = [req EXCEPT ![r] = p] /\ replies' = replies
        /\ out' = IF Asks!Current(session) THEN [out EXCEPT ![session] = Append(@, <<"push", r>>)]
                  ELSE out
    BY <1>0, <1>1, <1>6 DEF Asks!Broadcast
  <2>2. /\ p \in RequestType /\ p.kind = req[r].kind /\ p.conn = req[r].conn
        /\ p.stage = req[r].stage /\ p.received /\ p.sent = req[r].sent
        /\ p.admitted = req[r].admitted /\ p.tag = req[r].tag /\ p.active = req[r].active
    BY <1>3 DEF RequestType
  <2> HIDE DEF p
  <2>3. Follows(req[r], p)
    BY <2>2 DEF Follows
  <2>4. /\ Going /\ ConnInv' /\ req' \in [Questions -> RequestType] /\ req'[r] = p
        /\ \A q \in Questions : q # r => req'[q] = req[q]
    BY <1>0, <1>2, <2>1, <2>2, <2>3, OneRequest
  <2>5. ASSUME Asks!Current(session)
        PROVE  /\ FrameInv' /\ NeatInv' /\ out' \in [Connections -> Seq(Frames)]
               /\ \A c \in Connections : \A y : Has(out[c], y) => Has(out'[c], y)
    <3>1. session \in Connections
      BY <2>5, Served
    <3>2. ~Has(out[session], <<"push", r>>)
      <4> SUFFICES ASSUME NEW i \in DOMAIN out[session], out[session][i] = <<"push", r>>
                   PROVE  FALSE
        BY DEF Has
      <4>1. FrameRight(session, "push", r)
        BY <3>1 DEF RequestInv, FrameInv
      <4>2. QED
        BY <1>2, <1>6, <4>1 DEF FrameRight
    <3>3. FrameRight(session, "push", r)'
      BY <1>0, <1>2, <1>6, <2>2, <2>4 DEF FrameRight
    <3>4. out' = [out EXCEPT ![session] = Append(@, <<"push", r>>)]
      BY <2>1, <2>5
    <3>5. QED
      BY <1>0, <2>4, <3>1, <3>2, <3>3, <3>4, MoreFrames
  <2>6. ASSUME ~Asks!Current(session)
        PROVE  /\ FrameInv' /\ NeatInv' /\ out' \in [Connections -> Seq(Frames)]
               /\ \A c \in Connections : \A y : Has(out[c], y) => Has(out'[c], y)
    BY <2>1, <2>4, <2>6, SameFrames, Typed
  <2>7. /\ FrameInv' /\ NeatInv' /\ out' \in [Connections -> Seq(Frames)]
        /\ \A c \in Connections : \A y : Has(out[c], y) => Has(out'[c], y)
    BY <2>5, <2>6
  <2>8. PendInv'
    BY <1>4, <2>4, Typed DEF RequestInv, PendInv
  <2>9. TicketInv'
    BY <1>0, <1>6, <2>1, <2>4, Typed DEF RequestInv, TicketInv
  <2>10. SentInv'
    <3> SUFFICES ASSUME NEW q \in Questions PROVE SentRight(q)'
      BY DEF SentInv
    <3>1. /\ req'[q].stage = req[q].stage /\ req'[q].kind = req[q].kind
          /\ req'[q].conn = req[q].conn /\ req'[q].sent = req[q].sent
          /\ req'[q].admitted = req[q].admitted
      BY <2>2, <2>4
    <3>2. QED
      BY <1>0, <2>7, <3>1, SentStays
  <2>11. Asks!TypeOK'
    BY <1>0, <1>4, <2>1, <2>4, <2>7, Typed DEF Asks!TypeOK, RequestType, Frames
  <2>12. QED
    BY <2>4, <2>7, <2>8, <2>9, <2>10, <2>11 DEF RequestInv
<1>7. QED
  BY <1>2, <1>5, <1>6

-----------------------------------------------------------------------------
(* Connections come and go.                                                *)
LEMMA SessionsKeep ==
    ASSUME RequestInv, Asks!RequestsApart,
           \/ \E c \in Connections : Asks!Connect(c) \/ Asks!Enter(c)
           \/ Asks!Disconnect \/ Asks!Leave
    PROVE  RequestInv'
<1> USE DEF RequestInv
<1>1. CASE (\E c \in Connections : Asks!Connect(c)) \/ Asks!Disconnect
  <2>1. /\ aborted \subseteq aborted' /\ aborted' \in SUBSET Connections
        /\ waiting' \in SUBSET Connections
        /\ UNCHANGED <<session, pending, replies, req, out>>
    <3>1. CASE Asks!Disconnect
      BY <3>1, Typed DEF Asks!Disconnect
    <3>2. CASE \E c \in Connections : Asks!Connect(c)
      BY <3>2, Typed DEF Asks!Connect
    <3>3. QED
      BY <1>1, <3>1, <3>2
  <2>2. \A c : Asks!Current(c)' => Asks!Current(c)
    BY <2>1 DEF Asks!Current
  <2>3. ConnInv' /\ PendInv' /\ TicketInv'
    BY <2>1 DEF ConnInv, PendInv, TicketInv
  <2>4. FrameInv' /\ NeatInv'
    BY <2>1 DEF FrameInv, FrameRight, NeatInv
  <2>5. SentInv'
    BY <2>1, <2>2 DEF SentInv, SentRight
  <2>6. Asks!TypeOK'
    BY <2>1, Typed DEF Asks!TypeOK
  <2>7. QED
    BY <2>3, <2>4, <2>5, <2>6
<1>2. CASE \E c \in Connections : Asks!Enter(c)
  <2>1. PICK c \in Connections : Asks!Enter(c)
    BY <1>2
  <2>2. /\ session = 0 /\ session' \in {0, c} /\ waiting' \in SUBSET Connections
        /\ UNCHANGED <<aborted, pending, replies, req, out>>
    BY <2>1, Typed DEF Asks!Enter
  <2>3. \A r \in Questions : req[r].kind # "web" => req[r].conn \in aborted
    BY <2>2 DEF ConnInv
  <2>4. ConnInv' /\ PendInv'
    BY <2>2, <2>3 DEF ConnInv, PendInv
  <2>5. TicketInv'
    <3>1. \A t \in Tags : replies[t] = Absent
      BY <2>2, Typed DEF TicketInv, ConnInv
    <3>2. QED
      BY <2>2, <3>1 DEF TicketInv
  <2>6. FrameInv' /\ NeatInv'
    BY <2>2 DEF FrameInv, FrameRight, NeatInv
  <2>7. SentInv'
    <3>1. \A r \in Questions : req[r].kind # "web" => ~Asks!Current(req[r].conn)'
      BY <2>2, <2>3 DEF Asks!Current
    <3>2. QED
      BY <2>2, <3>1 DEF SentInv, SentRight
  <2>8. Asks!TypeOK'
    BY <2>2, Typed DEF Asks!TypeOK
  <2>9. QED
    BY <2>4, <2>5, <2>6, <2>7, <2>8
<1>3. CASE Asks!Leave
  <2>1. /\ session \in aborted /\ session' = 0
        /\ replies' = Asks!Discard(replies, Asks!Tickets(session))
        /\ req' = Asks!Ended(Asks!Tickets(session))
        /\ UNCHANGED <<aborted, waiting, pending, out>>
    BY <1>3 DEF Asks!Leave
  <2>2. req' \in [Questions -> RequestType] /\ \A r \in Questions : EndedOnly(req[r], req'[r])
    BY <2>1, Ending
  <2>3. replies' \in [Tags -> Questions \cup {Absent}]
        /\ \A t \in Tags : replies'[t] = Absent
    <3>1. \A t \in Tags : replies[t] # Absent => replies[t] \in Asks!Tickets(session)
      BY Typed DEF TicketInv, Asks!Tickets, Asks!Entries
    <3>2. QED
      BY <2>1, <3>1, Typed, Discarding
  <2>4. Going
    BY <2>2 DEF Going, Follows, EndedOnly
  <2>5. FrameInv' /\ NeatInv'
    BY <2>1, <2>4, SameFrames
  <2>6. ConnInv'
    BY <2>1, <2>2 DEF ConnInv, EndedOnly
  <2>7. PendInv'
    <3> SUFFICES ASSUME NEW t \in Tags, pending[t] # Absent
                 PROVE  /\ req'[pending[t]].tag = t
                        /\ req'[pending[t]].kind \in {"owned", "web"}
                        /\ req'[pending[t]].stage # "none"
                        /\ req'[pending[t]].kind = "web" => ~req'[pending[t]].received
      BY <2>1 DEF PendInv
    <3>1. EndedOnly(req[pending[t]], req'[pending[t]])
      BY <2>2, Typed
    <3>2. QED
      BY <3>1 DEF PendInv, EndedOnly
  <2>8. TicketInv'
    BY <2>3 DEF TicketInv
  <2>9. SentInv'
    <3> SUFFICES ASSUME NEW r \in Questions PROVE SentRight(r)'
      BY DEF SentInv
    <3>1. EndedOnly(req[r], req'[r]) /\ SentRight(r)
      BY <2>2 DEF SentInv
    <3>2. \A c : ~Asks!Current(c)'
      BY <2>1 DEF Asks!Current
    <3>3. QED
      BY <2>1, <3>1, <3>2 DEF SentRight, EndedOnly
  <2>10. Asks!TypeOK'
    BY <2>1, <2>2, <2>3, Typed DEF Asks!TypeOK, RequestType, Frames
  <2>11. QED
    BY <2>5, <2>6, <2>7, <2>8, <2>9, <2>10
<1>4. QED
  BY <1>1, <1>2, <1>3

(* Every step keeps the invariant.                                         *)
LEMMA RequestKeeps ==
    ASSUME Asks!RequestsApart, RequestInv, [Asks!Next]_(Asks!vars)
    PROVE  RequestInv'
<1>1. CASE Asks!Next
  BY <1>1, SessionsKeep, AskOwnedKeeps, AskWebKeeps, AskTaskKeeps, TransmittedKeeps,
     FlushedKeeps, ExpireKeeps, DeliverKeeps, TaskAnswersKeeps, RespondKeeps DEF Asks!Next
<1>2. CASE UNCHANGED Asks!vars
  BY <1>2 DEF Asks!vars, RequestInv, Asks!TypeOK, ConnInv, PendInv, TicketInv, FrameInv,
              FrameRight, SentInv, SentRight, Asks!Current, NeatInv
<1>3. QED
  BY <1>1, <1>2

(* "A completion already available from the RF waiter must not overtake    *)
(* the initiating command's SENT frame" and "a stale TCP-owned regions     *)
(* response must not turn into an unowned broadcast" (command_replies.py:  *)
(* 66-67, request_replies.py:144-145): for any number of apps in turn, of  *)
(* requests and of tags, however they meet, answers come once, after SENT, *)
(* and only to the connection that asked.                                  *)
THEOREM AnswersReachTheAsker == Asks!RequestsApart => (Asks!Spec => []Asks!RepliesToTheAsker)
<1> SUFFICES ASSUME Asks!RequestsApart PROVE Asks!Spec => []Asks!RepliesToTheAsker
  OBVIOUS
<1>1. Asks!Init => RequestInv
  BY RequestInit
<1>2. RequestInv /\ [Asks!Next]_(Asks!vars) => RequestInv'
  BY RequestKeeps
<1>3. RequestInv => Asks!RepliesToTheAsker
  <2> SUFFICES ASSUME RequestInv PROVE Asks!RepliesToTheAsker
    OBVIOUS
  <2>1. ASSUME NEW c \in Connections, NEW i \in DOMAIN out[c]
        PROVE  LET what == out[c][i][1]
                   r == out[c][i][2]
               IN  /\ what = "push" <=> req[r].kind = "web"
                   /\ what # "push" => req[r].conn = c
                   /\ what = "reply" => \E j \in 1..(i - 1) : out[c][j] = <<"sent", r>>
                   /\ \A j \in DOMAIN out[c] : out[c][j] = out[c][i] => i = j
    <3>1. FrameRight(c, out[c][i][1], out[c][i][2])
      BY DEF RequestInv, FrameInv
    <3>2. Neat(out[c])
      BY DEF RequestInv, NeatInv
    <3>3. QED
      BY <3>1, <3>2 DEF FrameRight, Neat
  <2>2. \A t \in Asks!Entries(replies) :
           LET r == replies[t]
           IN  /\ req[r].active
               /\ req[r].conn = session
               /\ req[r].stage = "over" => req[r].admitted
    BY DEF RequestInv, TicketInv, Asks!Entries
  <2>3. QED
    BY <2>1, <2>2 DEF Asks!RepliesToTheAsker
<1>4. QED
  BY <1>1, <1>2, <1>3, PTL DEF Asks!Spec

-----------------------------------------------------------------------------
(* The store a room and the packets are kept in: StoreUpgrade.             *)
CONSTANTS Handlers, Packets, Sent, PerSecond, LastTick, MaxMade

VARIABLES schema, marks, log, ledger, ever, time, last, cursor, got, used, made, handler

Up == INSTANCE StoreUpgrade WITH posts <- made, MaxPosts <- MaxMade

(* Induction, with a set for the property.                                 *)
LEMMA SetInduction ==
    ASSUME NEW T, 0 \in T, \A n \in Nat : n \in T => n + 1 \in T
    PROVE  Nat \subseteq T
<1>1. SUFFICES ASSUME Nat \ T # {} PROVE FALSE
  OBVIOUS
<1>2. PICK m \in Nat \ T : \A n \in Nat \ T : m <= n
  BY <1>1, MinOfNaturals
<1>3. m # 0 /\ m - 1 \in Nat /\ m - 1 \in T
  BY <1>2
<1>4. QED
  BY <1>2, <1>3

(* A bounded set of naturals has a greatest element.                       *)
LEMMA GreatestOf ==
    ASSUME NEW S, S \subseteq Nat, S # {}, NEW b \in Nat, \A s \in S : s <= b
    PROVE  Up!Max(S) \in S /\ \A s \in S : s <= Up!Max(S)
<1> DEFINE U == {k \in Nat : \A s \in S : s <= k}
<1>1. PICK m \in U : \A k \in U : m <= k
  BY MinOfNaturals
<1>2. m \in S
  <2>1. SUFFICES ASSUME m \notin S PROVE FALSE
    OBVIOUS
  <2>2. \A s \in S : s \in Nat /\ s <= m /\ s # m
    BY <1>1, <2>1
  <2>3. m \in Nat /\ m # 0
    <3>1. PICK s \in S : TRUE
      OBVIOUS
    <3>2. s \in Nat /\ s <= m /\ s # m /\ m \in Nat
      BY <1>1, <2>2, <3>1
    <3>3. QED
      BY <3>2
  <2>4. m - 1 \in U
    BY <2>2, <2>3
  <2>5. QED
    BY <1>1, <2>3, <2>4
<1>3. \E x \in S : \A y \in S : x >= y
  BY <1>1, <1>2
<1>4. Up!Max(S) \in S /\ \A y \in S : Up!Max(S) >= y
  BY <1>3 DEF Up!Max
<1>5. QED
  BY <1>4

(* One that is in the set and as great as any is the greatest.             *)
LEMMA GreatestIs ==
    ASSUME NEW S, S \subseteq Nat, NEW b \in S, \A s \in S : s <= b
    PROVE  Up!Max(S) = b
<1>1. Up!Max(S) \in S /\ \A s \in S : s <= Up!Max(S)
  BY GreatestOf
<1>2. b <= Up!Max(S) /\ Up!Max(S) <= b /\ b \in Nat /\ Up!Max(S) \in Nat
  BY <1>1
<1>3. QED
  BY <1>2

(* The greater of two is as great as either.                               *)
LEMMA MaxOfTwo ==
    ASSUME NEW a \in Nat, NEW b \in Nat
    PROVE  /\ Up!Max({a, b}) \in Nat
           /\ Up!Max({a, b}) >= a /\ Up!Max({a, b}) >= b
  BY DEF Up!Max

(* A second's beginning.                                                   *)
LEMMA WholeFacts ==
    ASSUME PerSecond \in Nat \ {0}, NEW t \in Nat
    PROVE  /\ Up!Whole(t) \in Nat /\ Up!Whole(t) <= t
           /\ Up!Whole(Up!Whole(t)) = Up!Whole(t)
<1> DEFINE q == t \div PerSecond
<1>1. q \in Nat /\ PerSecond * q <= t
  OBVIOUS
<1>2. PerSecond * q \in Nat
  BY <1>1
<1>3. (PerSecond * q) \div PerSecond = q
  BY <1>1, <1>2
<1>4. QED
  BY <1>1, <1>2, <1>3 DEF Up!Whole

-----------------------------------------------------------------------------
(* The times a migration gives: WireTimes is what its equation says.       *)
WireStep(g, p) ==
    IF p - 1 \in Up!Kept
       THEN Up!Max({Up!Whole(time[p]), g[p - 1] + PerSecond})
       ELSE Up!Max({Up!Whole(time[p]), PerSecond})

(* Where the equation has a solution, WireTimes is one.                    *)
LEMMA WireDefined ==
    ASSUME NEW g, g = [p \in Up!Kept |-> WireStep(g, p)]
    PROVE  Up!WireTimes = [p \in Up!Kept |-> WireStep(Up!WireTimes, p)]
  BY DEF Up!WireTimes, WireStep

(* A time that is computed is a natural, as late as the one it replaces,   *)
(* in seconds, and a second after the time before it.                      *)
LEMMA WireStepType ==
    ASSUME PerSecond \in Nat \ {0}, NEW g, NEW p, time[p] \in Nat,
           p - 1 \in Up!Kept => g[p - 1] \in Nat
    PROVE  /\ WireStep(g, p) \in Nat /\ WireStep(g, p) >= Up!Whole(time[p])
           /\ p - 1 \in Up!Kept => WireStep(g, p) >= g[p - 1] + PerSecond
           /\ p - 1 \notin Up!Kept => WireStep(g, p) >= PerSecond
<1>1. Up!Whole(time[p]) \in Nat
  BY WholeFacts
<1>2. CASE p - 1 \in Up!Kept
  <2>1. g[p - 1] + PerSecond \in Nat
    BY <1>2
  <2>2. QED
    BY <1>1, <1>2, <2>1, MaxOfTwo DEF WireStep
<1>3. CASE p - 1 \notin Up!Kept
  BY <1>1, <1>3, MaxOfTwo DEF WireStep
<1>4. QED
  BY <1>2, <1>3

(* A function does so up to some post.                                     *)
WireUpto(k) == \E g \in [1..k -> Nat] : \A p \in 1..k : g[p] = WireStep(g, p)

(* There is one for all.                                                   *)
LEMMA WireExists ==
    ASSUME PerSecond \in Nat \ {0}, NEW n \in Nat, Up!Kept = 1..n,
           \A p \in 1..n : time[p] \in Nat
    PROVE  WireUpto(n)
<1> DEFINE T == {k \in Nat : k <= n => WireUpto(k)}
<1>1. 0 \in T
  <2>1. PICK g : g = [p \in 1..0 |-> 0]
    OBVIOUS
  <2>2. g \in [1..0 -> Nat] /\ \A p \in 1..0 : g[p] = WireStep(g, p)
    BY <2>1
  <2>3. \E f \in [1..0 -> Nat] : \A p \in 1..0 : f[p] = WireStep(f, p)
    BY <2>2
  <2>4. QED
    BY <2>3 DEF WireUpto
<1>2. ASSUME NEW k \in Nat, k \in T, k + 1 <= n PROVE WireUpto(k + 1)
  <2>1. PICK f \in [1..k -> Nat] : \A p \in 1..k : f[p] = WireStep(f, p)
    BY <1>2 DEF WireUpto
  <2> DEFINE g == [p \in 1..(k + 1) |-> IF p = k + 1 THEN WireStep(f, p) ELSE f[p]]
  <2>2. WireStep(f, k + 1) \in Nat
    <3>1. (k + 1) - 1 \in Up!Kept => f[(k + 1) - 1] \in Nat
      BY <2>1
    <3>2. time[k + 1] \in Nat
      BY <1>2
    <3>3. QED
      BY <3>1, <3>2, WireStepType
  <2>3. g \in [1..(k + 1) -> Nat]
    BY <2>1, <2>2
  <2>4. ASSUME NEW p \in 1..(k + 1) PROVE WireStep(g, p) = WireStep(f, p)
    <3>1. p - 1 \in Up!Kept => g[p - 1] = f[p - 1]
      BY <1>2, <2>4
    <3> HIDE DEF g
    <3>2. QED
      BY <3>1 DEF WireStep
  <2>5. \A p \in 1..(k + 1) : g[p] = WireStep(f, p)
    BY <2>1
  <2>6. QED
    BY <2>3, <2>4, <2>5 DEF WireUpto
<1>3. Nat \subseteq T
  <2>1. ASSUME NEW k \in Nat, k \in T PROVE k + 1 \in T
    <3>1. CASE k + 1 <= n
      BY <1>2, <2>1, <3>1
    <3>2. CASE ~(k + 1 <= n)
      BY <3>2
    <3>3. QED
      BY <3>1, <3>2
  <2> HIDE DEF T
  <2>2. QED
    BY <1>1, <2>1, SetInduction
<1>4. QED
  BY <1>3

(* The times are as late as those they stand for, in seconds, and ascend.  *)
LEMMA WireRight ==
    ASSUME PerSecond \in Nat \ {0}, NEW n \in Nat, Up!Kept = 1..n,
           \A p \in 1..n : time[p] \in Nat
    PROVE  /\ Up!WireTimes \in [1..n -> Nat]
           /\ \A p \in 1..n : Up!WireTimes[p] >= Up!Whole(time[p]) /\ Up!WireTimes[p] > 0
           /\ \A p, q \in 1..n : p < q => Up!WireTimes[p] < Up!WireTimes[q]
<1> DEFINE w == Up!WireTimes
<1>1. PICK g \in [1..n -> Nat] : \A p \in 1..n : g[p] = WireStep(g, p)
  BY WireExists DEF WireUpto
<1>2. g = [p \in Up!Kept |-> WireStep(g, p)]
  BY <1>1
<1>3. w = [p \in Up!Kept |-> WireStep(w, p)]
  BY <1>2, WireDefined
<1> HIDE DEF w
<1>4. \A p \in 1..n : w[p] = WireStep(w, p)
  BY <1>3
<1> DEFINE T == {k \in Nat : k <= n =>
                    \A p \in 1..k : /\ w[p] \in Nat /\ w[p] >= Up!Whole(time[p]) /\ w[p] > 0
                                    /\ \A q \in 1..k : q < p => w[q] < w[p]}
<1>5. 0 \in T
  OBVIOUS
<1>6. ASSUME NEW k \in Nat, k \in T, k + 1 <= n PROVE k + 1 \in T
  <2>0. \A p \in 1..k : /\ w[p] \in Nat /\ w[p] >= Up!Whole(time[p]) /\ w[p] > 0
                        /\ \A q \in 1..k : q < p => w[q] < w[p]
    BY <1>6
  <2>1. (k + 1) - 1 \in Up!Kept => w[(k + 1) - 1] \in Nat
    BY <1>6
  <2>2. /\ w[k + 1] \in Nat /\ w[k + 1] >= Up!Whole(time[k + 1])
        /\ k \in Up!Kept => w[k + 1] >= w[k] + PerSecond
        /\ k \notin Up!Kept => w[k + 1] >= PerSecond
    <3>1. time[k + 1] \in Nat /\ w[k + 1] = WireStep(w, k + 1) /\ (k + 1) - 1 = k
      BY <1>4, <1>6
    <3>2. QED
      BY <2>1, <3>1, WireStepType
  <2>3. CASE k = 0
    BY <2>2, <2>3
  <2>4. CASE k # 0
    <3>1. w[k + 1] > w[k] /\ w[k] \in Nat /\ w[k] > 0
      BY <1>6, <2>0, <2>2, <2>4
    <3>2. \A q \in 1..k : w[q] \in Nat /\ w[q] <= w[k]
      BY <2>0, <2>4
    <3>3. \A q \in 1..k : w[q] < w[k + 1]
      BY <2>2, <3>1, <3>2
    <3> HIDE DEF T
    <3>4. ASSUME NEW p \in 1..(k + 1)
          PROVE  /\ w[p] \in Nat /\ w[p] >= Up!Whole(time[p]) /\ w[p] > 0
                 /\ \A q \in 1..(k + 1) : q < p => w[q] < w[p]
      <4>1. CASE p = k + 1
        BY <2>2, <3>1, <3>3, <4>1
      <4>2. CASE p # k + 1
        BY <2>0, <4>2
      <4>3. QED
        BY <4>1, <4>2
    <3>5. QED
      BY <3>4 DEF T
  <2>5. QED
    BY <2>3, <2>4
<1>7. n \in T
  <2>1. ASSUME NEW k \in Nat, k \in T PROVE k + 1 \in T
    <3>1. CASE k + 1 <= n
      BY <1>6, <2>1, <3>1
    <3>2. CASE ~(k + 1 <= n)
      BY <3>2
    <3>3. QED
      BY <3>1, <3>2
  <2> HIDE DEF T
  <2>2. QED
    BY <1>5, <2>1, SetInduction
<1>8. \A p \in 1..n : /\ w[p] \in Nat /\ w[p] >= Up!Whole(time[p]) /\ w[p] > 0
                      /\ \A q \in 1..n : q < p => w[q] < w[p]
  BY <1>7
<1>9. w \in [1..n -> Nat]
  BY <1>3, <1>8
<1>10. QED
  BY <1>8, <1>9 DEF w

-----------------------------------------------------------------------------
(* The migration of room times is on record.                               *)
Migrated == "rooms" \in marks

(* Types of the database's state.                                          *)
UpgradeTypes ==
    /\ marks \in {{}, {"columns"}, Up!Marks}
    /\ {made, last, cursor} \subseteq Nat
    /\ used \subseteq Nat
    /\ Up!Kept \subseteq 1..made
    /\ \A p \in Up!Kept : time[p] \in Nat
    /\ handler \in [Handlers -> {"closed", "created", "failed", "open"}]
    /\ ever \subseteq Packets

(* The time of the last post that the reader has.                          *)
TimeGot(n) == IF n = 0 THEN 0 ELSE time[n]

(* Before the first migration nobody works on it, and it is as the earlier *)
(* version left it.                                                        *)
AsLeft ==
    /\ \A h \in Handlers : handler[h] # "open"
    /\ Up!Kept = 1..made
    /\ \A p, q \in 1..made : p < q => time[p] < time[q]
    /\ \A p \in 1..made : time[p] >= PerSecond
    /\ last = 0 /\ used = {} /\ ever = log
    /\ \E n \in 0..made : got = 1..n /\ cursor \in {TimeGot(n), Up!Whole(TimeGot(n))}

(* Afterwards no time is later than the room's cursor, and the ledger is   *)
(* full.                                                                   *)
AsMigrated ==
    /\ \A p, q \in Up!Kept : p < q => time[p] < time[q]
    /\ \A p \in Up!Kept : time[p] <= last
    /\ cursor <= last
    /\ \A t \in used : t <= last
    /\ \A p \in Up!Kept \ got : time[p] > cursor
    /\ ledger = Up!Counts(ever)

(* The inductive invariant of the database.                                *)
UpgradeInv ==
    /\ UpgradeTypes
    /\ ~Migrated => AsLeft
    /\ Migrated => AsMigrated /\ marks = Up!Marks

(* The time of a new post is later than all there were.                    *)
LEMMA NextTimeLater ==
    ASSUME PerSecond \in Nat \ {0}, UpgradeTypes, AsMigrated, NEW now \in Nat
    PROVE  Up!NextTime(now) \in Nat /\ Up!NextTime(now) > last
<1> DEFINE S == {time[p] : p \in Up!Kept} \cup {0}
<1>1. Up!Max(S) \in Nat
  <2>1. S \subseteq Nat /\ S # {} /\ last \in Nat /\ \A t \in S : t <= last
    BY DEF UpgradeTypes, AsMigrated
  <2> HIDE DEF S
  <2>2. QED
    BY <2>1, GreatestOf
<1>2. Up!Latest({time[p] : p \in Up!Kept}) \in Nat
  BY <1>1 DEF Up!Latest
<1>3. Up!Whole(now) \in Nat /\ last \in Nat
  BY WholeFacts DEF UpgradeTypes
<1> DEFINE a == Up!Whole(now)
           b == Up!Latest({time[p] : p \in Up!Kept}) + PerSecond
           c == last + PerSecond
<1>4. a \in Nat /\ b \in Nat /\ c \in Nat /\ c > last
  BY <1>2, <1>3
<1>5. Up!NextTime(now) = Up!Max({a, b, c})
  BY DEF Up!NextTime
<1> HIDE DEF a, b, c
<1>6. Up!Max({a, b, c}) \in Nat /\ Up!Max({a, b, c}) >= c
  BY <1>4 DEF Up!Max
<1>7. QED
  BY <1>3, <1>4, <1>5, <1>6

-----------------------------------------------------------------------------
(* What an earlier version may have left.                                  *)
LEMMA UpgradeStart == Up!UpgradeAssumption /\ Up!Init => UpgradeInv
<1> SUFFICES ASSUME Up!UpgradeAssumption, Up!Init PROVE UpgradeInv
  OBVIOUS
<1>0. PerSecond \in Nat \ {0} /\ LastTick \in Nat /\ MaxMade \in Nat
  BY DEF Up!UpgradeAssumption
<1>1. PICK n \in 0..MaxMade : time \in [1..n -> PerSecond..LastTick]
  BY DEF Up!Init, Up!OldTimes
<1>2. Up!Kept = 1..n
  BY <1>1 DEF Up!Kept
<1>3. \A p, q \in 1..n : p < q => time[p] < time[q]
  BY <1>1 DEF Up!Init, Up!Ascending
<1>4. \A p \in 1..n : time[p] \in Nat /\ time[p] >= PerSecond
  BY <1>0, <1>1
<1>5. made = n
  <2>1. Up!Cardinality(DOMAIN time) = Cardinality(1..n)
    BY <1>1 DEF Up!Cardinality, Cardinality
  <2>2. Cardinality(1..n) = n
    BY FS_Interval
  <2>3. QED
    BY <2>1, <2>2 DEF Up!Init
<1>6. PICK m \in 0..n : got = 1..m
  <2>1. got \in {1..k : k \in {0} \cup DOMAIN time}
    BY DEF Up!Init
  <2>2. QED
    BY <1>1, <2>1
<1>7. Up!Latest({time[p] : p \in got}) = TimeGot(m)
  <2> DEFINE S == {time[p] : p \in got} \cup {0}
  <2>1. TimeGot(m) \in S /\ TimeGot(m) \in Nat
    BY <1>4, <1>6 DEF TimeGot
  <2>2. S \subseteq Nat /\ \A t \in S : t <= TimeGot(m)
    <3>1. ASSUME NEW p \in 1..m PROVE time[p] \in Nat /\ time[p] <= TimeGot(m)
      BY <1>3, <1>4, <1>6 DEF TimeGot
    <3>2. QED
      BY <1>6, <2>1, <3>1
  <2> HIDE DEF S
  <2>4. Up!Max(S) = TimeGot(m)
    BY <2>1, <2>2, GreatestIs
  <2>5. QED
    BY <2>4 DEF Up!Latest, S
<1>8. cursor \in {TimeGot(m), Up!Whole(TimeGot(m))} /\ TimeGot(m) \in Nat
  BY <1>4, <1>6, <1>7 DEF Up!Init, TimeGot
<1>9. cursor \in Nat
  BY <1>0, <1>8, WholeFacts
<1>10. marks \in {{}, {"columns"}} /\ ~Migrated
  BY DEF Up!Init, Migrated
<1>11. ever = log /\ ever \subseteq Packets
  BY DEF Up!Init
<1>12. UpgradeTypes
  BY <1>2, <1>4, <1>5, <1>9, <1>10, <1>11 DEF UpgradeTypes, Up!Init
<1>13. AsLeft
  BY <1>2, <1>3, <1>4, <1>5, <1>6, <1>8, <1>11 DEF AsLeft, Up!Init
<1>14. QED
  BY <1>10, <1>12, <1>13 DEF UpgradeInv

(* The first migration: what the reader has not got stays later than his   *)
(* cursor, wherever in a second that is.                                   *)
LEMMA CursorMoves ==
    ASSUME PerSecond \in Nat \ {0}, UpgradeTypes, AsLeft, NEW n \in 0..made, got = 1..n,
           cursor \in {TimeGot(n), Up!Whole(TimeGot(n))}
    PROVE  /\ Up!WireCursor \in Nat
           /\ Up!WireCursor = 0 \/ \E p \in 1..made : Up!WireCursor <= Up!WireTimes[p]
           /\ \A p \in 1..made : p > n => Up!WireTimes[p] > Up!WireCursor
<1> DEFINE w == Up!WireTimes
<1>1. /\ made \in Nat /\ Up!Kept = 1..made /\ \A p \in 1..made : time[p] \in Nat
  BY DEF UpgradeTypes, AsLeft
<1>2. /\ w \in [1..made -> Nat]
      /\ \A p \in 1..made : w[p] >= Up!Whole(time[p]) /\ w[p] > 0
      /\ \A p, q \in 1..made : p < q => w[p] < w[q]
  BY <1>1, WireRight
<1>3. TimeGot(n) \in Nat
  BY <1>1 DEF TimeGot
<1>4. CASE n = 0
  <2>1. Up!Whole(0) \in Nat /\ Up!Whole(0) <= 0
    BY WholeFacts
  <2>2. cursor = 0 /\ Up!Whole(cursor) = 0
    BY <1>4, <2>1 DEF TimeGot
  <2>3. Up!WireCursor = 0
    BY <2>2 DEF Up!WireCursor
  <2>4. QED
    BY <1>2, <2>3
<1>5. CASE n # 0 /\ cursor = Up!Whole(cursor)
  <2>1. n \in 1..made /\ TimeGot(n) = time[n]
    BY <1>1, <1>5 DEF TimeGot
  <2>2. cursor = Up!Whole(time[n])
    BY <1>5, <2>1
  <2>3. Up!WireCursor = cursor
    BY <1>5 DEF Up!WireCursor
  <2>4. cursor \in Nat /\ w[n] >= cursor /\ w[n] \in Nat
    BY <1>2, <2>1, <2>2 DEF UpgradeTypes
  <2>5. \A p \in 1..made : p > n => w[p] \in Nat /\ w[p] > w[n]
    BY <1>2, <2>1
  <2>6. QED
    BY <2>1, <2>3, <2>4, <2>5
<1>6. CASE n # 0 /\ cursor # Up!Whole(cursor)
  <2>1. n \in 1..made /\ TimeGot(n) = time[n]
    BY <1>1, <1>6 DEF TimeGot
  <2>2. cursor = time[n]
    BY <1>3, <1>6, <2>1, WholeFacts
  <2> DEFINE passed == {p \in Up!Kept : time[p] <= cursor}
             S == {w[p] : p \in passed}
  <2>3. passed = 1..n
    <3>1. ASSUME NEW p \in 1..made PROVE time[p] <= time[n] <=> p <= n
      <4>1. \A i, j \in 1..made : i < j => time[i] < time[j]
        BY DEF AsLeft
      <4>2. p < n \/ p = n \/ n < p
        BY <2>1
      <4>3. QED
        BY <1>1, <2>1, <4>1, <4>2
    <3>2. QED
      BY <1>1, <2>1, <2>2, <3>1
  <2>4. Up!WireCursor = Up!Max(S)
    BY <1>1, <1>6, <2>1, <2>3 DEF Up!WireCursor
  <2>5. ASSUME NEW p \in 1..n PROVE w[p] \in Nat /\ w[p] <= w[n]
    <3>1. p \in 1..made /\ n \in 1..made /\ (p = n \/ p < n)
      BY <1>1, <2>1
    <3> HIDE DEF w
    <3>2. QED
      BY <1>2, <3>1
  <2>6. w[n] \in S /\ S = {w[p] : p \in 1..n}
    BY <2>1, <2>3
  <2> HIDE DEF S, w
  <2>7. Up!WireCursor = w[n]
    <3>1. S \subseteq Nat /\ \A t \in S : t <= w[n]
      BY <2>5, <2>6
    <3>2. QED
      BY <2>4, <2>6, <3>1, GreatestIs
  <2>8. QED
    BY <1>2, <2>1, <2>7 DEF w
<1>7. QED
  BY <1>4, <1>5, <1>6

(* A migration, the first or a later one.                                  *)
LEMMA MigrateKeeps ==
    ASSUME Up!UpgradeAssumption, UpgradeInv, NEW h \in Handlers, Up!Migrate(h)
    PROVE  UpgradeInv'
<1>0. PerSecond \in Nat \ {0} /\ UpgradeTypes /\ made \in Nat
  BY DEF Up!UpgradeAssumption, UpgradeInv, UpgradeTypes
<1>1. /\ marks' = Up!Marks /\ Migrated' /\ UNCHANGED <<ever, got, made>>
      /\ handler' \in [Handlers -> {"closed", "created", "failed", "open"}]
  BY <1>0 DEF Up!Migrate, Migrated, Up!Marks, UpgradeTypes
<1> DEFINE times == {time'[p] : p \in Up!Kept}
<1>2. last' = Up!Max((times \cup {last}) \cup {0}) /\ used' = used \cup times
  BY DEF Up!Migrate, Up!Latest
<1>3. CASE Migrated
  <2>1. AsMigrated /\ marks = Up!Marks /\ time' = time /\ cursor' = cursor
        /\ ledger' = ledger
    BY <1>3 DEF UpgradeInv, Up!Migrate, Migrated, Up!Seeded, Up!Marks
  <2> DEFINE S == (times \cup {last}) \cup {0}
  <2>2. S \subseteq Nat /\ last \in S /\ last \in Nat /\ (\A t \in S : t <= last)
        /\ \A t \in times : t <= last
    BY <1>0, <2>1 DEF UpgradeTypes, AsMigrated
  <2> HIDE DEF S
  <2>3. Up!Max(S) = last
    BY <2>2, GreatestIs
  <2>4. last' = last
    BY <1>2, <2>3 DEF S
  <2>5. times \subseteq Nat
    BY <2>2 DEF S
  <2>6. UpgradeTypes'
    BY <1>0, <1>1, <1>2, <2>1, <2>4, <2>5 DEF UpgradeTypes, Up!Kept
  <2>7. \A t \in used' : t <= last'
    BY <1>2, <2>1, <2>2, <2>4 DEF AsMigrated
  <2>8. AsMigrated'
    BY <1>1, <2>1, <2>4, <2>7 DEF AsMigrated, Up!Kept, Up!Counts
  <2>9. QED
    BY <1>1, <2>6, <2>8 DEF UpgradeInv, Up!Marks
<1>4. CASE ~Migrated
  <2>1. AsLeft /\ "ledger" \notin marks
    BY <1>0, <1>4 DEF UpgradeInv, UpgradeTypes, Migrated, Up!Marks
  <2>2. /\ time' = Up!WireTimes /\ cursor' = Up!WireCursor
        /\ ledger' = Up!Counts(log)
    BY <1>4, <2>1 DEF Up!Migrate, Migrated, Up!Seeded
  <2>3. PICK n \in 0..made : got = 1..n /\ cursor \in {TimeGot(n), Up!Whole(TimeGot(n))}
    BY <2>1 DEF AsLeft
  <2>4. /\ Up!Kept = 1..made /\ \A p \in 1..made : time[p] \in Nat
    BY <1>0, <2>1 DEF UpgradeTypes, AsLeft
  <2>5. /\ time' \in [1..made -> Nat]
        /\ \A p \in 1..made : time'[p] > 0
        /\ \A p, q \in 1..made : p < q => time'[p] < time'[q]
    BY <1>0, <2>2, <2>4, WireRight
  <2>6. /\ cursor' \in Nat
        /\ cursor' = 0 \/ \E p \in 1..made : cursor' <= time'[p]
        /\ \A p \in 1..made : p > n => time'[p] > cursor'
    BY <1>0, <2>1, <2>2, <2>3, CursorMoves
  <2> DEFINE b == IF made = 0 THEN 0 ELSE time'[made]
             S == (times \cup {last}) \cup {0}
  <2>7. b \in Nat /\ \A p \in 1..made : time'[p] <= b
    BY <1>0, <2>5
  <2>8. last = 0 /\ used = {} /\ times = {time'[p] : p \in 1..made}
    BY <2>1, <2>4 DEF AsLeft
  <2>9. S \subseteq Nat /\ S # {} /\ \A t \in S : t <= b
    <3>1. \A p \in 1..made : time'[p] \in Nat
      BY <2>5
    <3>2. S = {time'[p] : p \in 1..made} \cup {0}
      BY <2>8
    <3> HIDE DEF b, S, times
    <3>3. QED
      BY <2>7, <3>1, <3>2
  <2> HIDE DEF S, b
  <2>10. Up!Max(S) \in S /\ \A t \in S : t <= Up!Max(S)
    BY <2>7, <2>9, GreatestOf
  <2>11. last' \in Nat /\ (\A p \in 1..made : time'[p] <= last')
         /\ \A t \in used' : t \in Nat /\ t <= last'
    BY <1>2, <2>5, <2>8, <2>9, <2>10 DEF S
  <2>12. cursor' <= last'
    BY <2>5, <2>6, <2>11
  <2>13. Up!Kept' = 1..made
    BY <2>5 DEF Up!Kept
  <2>14. UpgradeTypes'
    BY <1>0, <1>1, <2>5, <2>6, <2>11, <2>13 DEF UpgradeTypes
  <2>15. ledger' = Up!Counts(ever)'
    BY <1>1, <2>1, <2>2 DEF AsLeft, Up!Counts
  <2>16. \A p \in 1..made : p \notin got => p > n
    BY <2>3
  <2>17. AsMigrated'
    BY <1>1, <2>5, <2>6, <2>11, <2>12, <2>13, <2>15, <2>16 DEF AsMigrated
  <2>18. QED
    BY <1>1, <2>14, <2>17 DEF UpgradeInv
<1>5. QED
  BY <1>3, <1>4

(* A packet is stored and counted.                                         *)
LEMMA StoreCounts ==
    ASSUME Up!UpgradeAssumption, ever \subseteq Packets, NEW p \in Packets, p \notin ever,
           ever' = ever \cup {p}, ledger = Up!Counts(ever),
           ledger' = [received |-> ledger.received + 1,
                      transmitted |-> ledger.transmitted + IF p \in Sent THEN 1 ELSE 0]
    PROVE  ledger' = Up!Counts(ever)'
<1>0. \A S : Up!Cardinality(S) = Cardinality(S)
  BY DEF Up!Cardinality, Cardinality
<1>1. IsFiniteSet(ever) /\ IsFiniteSet(ever \cap Sent)
  <2>1. IsFiniteSet(Packets)
    BY DEF Up!UpgradeAssumption, Up!IsFiniteSet, IsFiniteSet
  <2>2. QED
    BY <2>1, FS_Subset
<1>2. Cardinality(ever \cup {p}) = Cardinality(ever) + 1
  BY <1>1, FS_AddElement
<1>3. Cardinality((ever \cup {p}) \cap Sent)
        = Cardinality(ever \cap Sent) + IF p \in Sent THEN 1 ELSE 0
  <2>1. CASE p \in Sent
    <3>1. (ever \cup {p}) \cap Sent = (ever \cap Sent) \cup {p}
      BY <2>1
    <3>2. QED
      BY <1>1, <2>1, <3>1, FS_AddElement
  <2>2. CASE p \notin Sent
    <3>1. (ever \cup {p}) \cap Sent = ever \cap Sent
      BY <2>2
    <3>2. Cardinality(ever \cap Sent) \in Nat
      BY <1>1, FS_CardinalityType
    <3>3. QED
      BY <2>2, <3>1, <3>2
  <2>3. QED
    BY <2>1, <2>2
<1>4. QED
  BY <1>0, <1>2, <1>3 DEF Up!Counts

(* Work on the open database.                                              *)
LEMMA WorkKeeps ==
    ASSUME Up!UpgradeAssumption, UpgradeInv,
           \/ \E p \in Packets : Up!StorePacket(p)
           \/ Up!Prune \/ Up!AddPost \/ Up!Acknowledge \/ Up!DropPosts
    PROVE  UpgradeInv'
<1>0. Up!Open /\ UpgradeTypes /\ marks' = marks /\ handler' = handler
  BY DEF Up!StorePacket, Up!Prune, Up!AddPost, Up!Acknowledge, Up!DropPosts, UpgradeInv
<1>1. Migrated /\ AsMigrated /\ marks = Up!Marks
  BY <1>0 DEF UpgradeInv, AsLeft, Up!Open
<1>2. ASSUME UpgradeTypes', AsMigrated' PROVE UpgradeInv'
  BY <1>0, <1>1, <1>2 DEF UpgradeInv, Migrated
<1>3. ASSUME NEW p \in Packets, Up!StorePacket(p) PROVE UpgradeInv'
  <2>1. /\ p \notin ever /\ ever' = ever \cup {p}
        /\ ledger' = [received |-> ledger.received + 1,
                      transmitted |-> ledger.transmitted + IF p \in Sent THEN 1 ELSE 0]
        /\ UNCHANGED <<marks, time, last, cursor, got, used, made, handler>>
    BY <1>3 DEF Up!StorePacket
  <2>2. ledger' = Up!Counts(ever)'
    BY <1>0, <1>1, <2>1, StoreCounts DEF UpgradeTypes, AsMigrated
  <2>3. UpgradeTypes' /\ AsMigrated'
    BY <1>0, <1>1, <2>1, <2>2 DEF UpgradeTypes, AsMigrated, Up!Kept
  <2>4. QED
    BY <1>2, <2>3
<1>4. CASE Up!Prune
  <2>1. UNCHANGED <<marks, ledger, ever, time, last, cursor, got, used, made, handler>>
    BY <1>4 DEF Up!Prune
  <2>2. UpgradeTypes' /\ AsMigrated'
    BY <1>0, <1>1, <2>1 DEF UpgradeTypes, AsMigrated, Up!Kept, Up!Counts
  <2>3. QED
    BY <1>2, <2>2
<1>5. CASE Up!AddPost
  <2>0. PerSecond \in Nat \ {0} /\ LastTick \in Nat
    BY DEF Up!UpgradeAssumption
  <2>1. PICK now \in PerSecond..LastTick :
           /\ time' = [q \in Up!Kept \cup {made + 1} |->
                         IF q = made + 1 THEN Up!NextTime(now) ELSE time[q]]
           /\ last' = Up!NextTime(now) /\ used' = used \cup {Up!NextTime(now)}
           /\ made' = made + 1
           /\ UNCHANGED <<ever, ledger, cursor, got>>
    BY <1>5 DEF Up!AddPost
  <2> DEFINE t == Up!NextTime(now)
  <2>2. t \in Nat /\ t > last /\ last \in Nat
    <3>1. now \in Nat
      BY <2>0
    <3>2. QED
      BY <1>0, <1>1, <2>0, <3>1, NextTimeLater DEF UpgradeTypes
  <2> HIDE DEF t
  <2>3. /\ Up!Kept' = Up!Kept \cup {made + 1} /\ made \in Nat /\ Up!Kept \subseteq 1..made
        /\ \A q \in Up!Kept : time'[q] = time[q] /\ time[q] \in Nat
        /\ time'[made + 1] = t
    BY <1>0, <2>1 DEF Up!Kept, UpgradeTypes, t
  <2>4. UpgradeTypes'
    <3>1. last' = t /\ used' = used \cup {t}
      BY <2>1 DEF t
    <3>2. {made', last', cursor'} \subseteq Nat /\ used' \subseteq Nat
      BY <1>0, <2>1, <2>2, <2>3, <3>1 DEF UpgradeTypes
    <3>3. Up!Kept' \subseteq 1..made'
      BY <2>1, <2>3
    <3>4. \A p \in Up!Kept' : time'[p] \in Nat
      BY <2>2, <2>3
    <3>5. /\ marks' \in {{}, {"columns"}, Up!Marks}
          /\ handler' \in [Handlers -> {"closed", "created", "failed", "open"}]
          /\ ever' \subseteq Packets
      BY <1>0, <1>1, <2>1 DEF UpgradeTypes
    <3>6. QED
      BY <3>2, <3>3, <3>4, <3>5 DEF UpgradeTypes
  <2>5. \A p \in Up!Kept : time[p] <= last /\ p < made + 1
    BY <1>1, <2>3 DEF AsMigrated
  <2>6. \A p, q \in Up!Kept' : p < q => time'[p] < time'[q]
    <3> SUFFICES ASSUME NEW p \in Up!Kept', NEW q \in Up!Kept', p < q
                 PROVE  time'[p] < time'[q]
      OBVIOUS
    <3>1. p \in Up!Kept
      BY <2>3, <2>5
    <3>2. CASE q \in Up!Kept
      BY <1>1, <2>3, <3>1, <3>2 DEF AsMigrated
    <3>3. CASE q = made + 1
      BY <2>2, <2>3, <2>5, <3>1, <3>3
    <3>4. QED
      BY <2>3, <3>2, <3>3
  <2>7. \A p \in Up!Kept' : time'[p] <= last'
    BY <2>1, <2>2, <2>3, <2>5 DEF t
  <2>8. cursor' <= last' /\ \A u \in used' : u <= last'
    <3>1. cursor \in Nat /\ cursor <= last /\ \A u \in used : u \in Nat /\ u <= last
      BY <1>0, <1>1 DEF UpgradeTypes, AsMigrated
    <3>2. QED
      BY <2>1, <2>2, <3>1 DEF t
  <2>9. \A p \in Up!Kept' \ got' : time'[p] > cursor'
    <3>1. cursor \in Nat /\ cursor <= last /\ \A p \in Up!Kept \ got : time[p] > cursor
      BY <1>0, <1>1 DEF UpgradeTypes, AsMigrated
    <3>2. QED
      BY <2>1, <2>2, <2>3, <3>1
  <2>10. ledger' = Up!Counts(ever)'
    BY <1>1, <2>1 DEF AsMigrated, Up!Counts
  <2>11. AsMigrated'
    BY <2>6, <2>7, <2>8, <2>9, <2>10 DEF AsMigrated
  <2>12. QED
    BY <1>2, <2>4, <2>11
<1>6. CASE Up!Acknowledge
  <2>1. PICK p \in Up!Kept :
           /\ time[p] > cursor
           /\ \A q \in Up!Kept : time[q] > cursor => time[p] <= time[q]
           /\ cursor' = time[p] /\ got' = got \cup {p}
           /\ UNCHANGED <<ledger, ever, time, last, used, made>>
    BY <1>6 DEF Up!Acknowledge
  <2>2. UpgradeTypes'
    BY <1>0, <2>1 DEF UpgradeTypes, Up!Kept
  <2>3. \A q \in Up!Kept \ got' : time[q] > time[p]
    <3> SUFFICES ASSUME NEW q \in Up!Kept, q \notin got' PROVE time[q] > time[p]
      OBVIOUS
    <3>1. time[q] > cursor /\ q # p
      BY <1>1, <2>1 DEF AsMigrated
    <3>2. time[p] <= time[q]
      BY <2>1, <3>1
    <3>3. p \in Nat /\ q \in Nat /\ time[p] \in Nat /\ time[q] \in Nat
      BY <1>0 DEF UpgradeTypes
    <3>4. time[p] # time[q]
      <4>1. p < q \/ q < p
        BY <3>1, <3>3
      <4>2. QED
        BY <1>1, <3>3, <4>1 DEF AsMigrated
    <3>5. QED
      BY <3>2, <3>3, <3>4
  <2>4. AsMigrated'
    BY <1>1, <2>1, <2>3 DEF AsMigrated, Up!Kept, Up!Counts
  <2>5. QED
    BY <1>2, <2>2, <2>4
<1>7. CASE Up!DropPosts
  <2>1. PICK gone \in SUBSET Up!Kept :
           /\ time' = [p \in Up!Kept \ gone |-> time[p]]
           /\ UNCHANGED <<ledger, ever, last, cursor, got, used, made>>
    BY <1>7 DEF Up!DropPosts
  <2>2. Up!Kept' = Up!Kept \ gone /\ \A p \in Up!Kept' : time'[p] = time[p]
    BY <2>1 DEF Up!Kept
  <2>3. UpgradeTypes'
    BY <1>0, <2>1, <2>2 DEF UpgradeTypes
  <2>4. AsMigrated'
    BY <1>1, <2>1, <2>2 DEF AsMigrated, Up!Counts
  <2>5. QED
    BY <1>2, <2>3, <2>4
<1>8. QED
  BY <1>3, <1>4, <1>5, <1>6, <1>7

(* A handler creates the tables, fails or is closed.                       *)
LEMMA HandlerKeeps ==
    ASSUME UpgradeInv, NEW h \in Handlers,
           Up!CreateTables(h) \/ Up!MigrateFails(h) \/ Up!Close(h)
    PROVE  UpgradeInv'
<1>1. PICK s \in {"closed", "created", "failed"} : handler' = [handler EXCEPT ![h] = s]
  BY DEF Up!CreateTables, Up!MigrateFails, Up!Close
<1>2. UNCHANGED <<marks, log, ledger, ever, time, last, cursor, got, used, made>>
  BY DEF Up!CreateTables, Up!MigrateFails, Up!Close
<1>3. UpgradeTypes'
  BY <1>1, <1>2 DEF UpgradeInv, UpgradeTypes, Up!Kept
<1>4. AsLeft => AsLeft'
  BY <1>1, <1>2 DEF UpgradeInv, UpgradeTypes, AsLeft, Up!Kept, TimeGot, Up!Whole
<1>5. AsMigrated => AsMigrated'
  BY <1>2 DEF AsMigrated, Up!Kept, Up!Counts
<1>6. QED
  BY <1>2, <1>3, <1>4, <1>5 DEF UpgradeInv, Migrated

(* Every step keeps the invariant.                                         *)
LEMMA UpgradeStep ==
    ASSUME Up!UpgradeAssumption, UpgradeInv, [Up!Next]_(Up!vars)
    PROVE  UpgradeInv'
<1>1. CASE UNCHANGED Up!vars
  BY <1>1 DEF Up!vars, UpgradeInv, UpgradeTypes, AsLeft, AsMigrated, Migrated, Up!Kept,
              TimeGot, Up!Whole, Up!Counts
<1>2. QED
  BY <1>1, MigrateKeeps, WorkKeeps, HandlerKeeps DEF Up!Next

(* The invariant holds throughout, for any handlers, packets, posts and    *)
(* clock, whatever an earlier version left.                                *)
THEOREM UpgradeInvariant == Up!UpgradeAssumption => (Up!Spec => []UpgradeInv)
<1> SUFFICES ASSUME Up!UpgradeAssumption PROVE Up!Spec => []UpgradeInv
  OBVIOUS
<1>1. Up!Init => UpgradeInv
  BY UpgradeStart
<1>2. UpgradeInv /\ [Up!Next]_(Up!vars) => UpgradeInv'
  BY UpgradeStep
<1>3. QED
  BY <1>1, <1>2, PTL DEF Up!Spec

(* Whoever opens the database, whatever it held and however the clock      *)
(* steps, what a reader has not got is later than his cursor, and so is    *)
(* any wire time still to be given (sqlite_handler.py:273, 3380-3382).     *)
THEOREM UpgradesPassNoPost == Up!UpgradeAssumption => (Up!Spec => []Up!PostsAhead)
<1> SUFFICES ASSUME Up!UpgradeAssumption PROVE Up!Spec => []Up!PostsAhead
  OBVIOUS
<1>0. PerSecond \in Nat \ {0} /\ LastTick \in Nat
  BY DEF Up!UpgradeAssumption
<1>1. ASSUME UpgradeInv PROVE Up!PostsAhead
  <2>1. UpgradeTypes
    BY <1>1 DEF UpgradeInv
  <2>2. CASE Migrated
    <3>1. AsMigrated
      BY <1>1, <2>2 DEF UpgradeInv
    <3>2. ASSUME NEW now \in PerSecond..LastTick, NEW t \in used \cup {cursor}
          PROVE  Up!NextTime(now) > t
      <4>1. Up!NextTime(now) \in Nat /\ Up!NextTime(now) > last
        BY <1>0, <2>1, <3>1, NextTimeLater
      <4>2. t \in Nat /\ t <= last /\ last \in Nat
        BY <2>1, <3>1 DEF UpgradeTypes, AsMigrated
      <4>3. QED
        BY <4>1, <4>2
    <3>3. QED
      BY <3>1, <3>2 DEF AsMigrated, Up!PostsAhead
  <2>3. CASE ~Migrated
    <3>1. AsLeft
      BY <1>1, <2>3 DEF UpgradeInv
    <3>2. PICK n \in 0..made : got = 1..n /\ cursor \in {TimeGot(n), Up!Whole(TimeGot(n))}
      BY <3>1 DEF AsLeft
    <3>3. made \in Nat /\ \A p \in 1..made : time[p] \in Nat
      BY <2>1, <3>1 DEF UpgradeTypes, AsLeft
    <3>4. TimeGot(n) \in Nat /\ cursor \in Nat /\ cursor <= TimeGot(n)
      BY <1>0, <3>2, <3>3, WholeFacts DEF TimeGot
    <3>5. ASSUME NEW p \in 1..made, p > n PROVE time[p] > TimeGot(n)
      <4>1. time[p] >= PerSecond /\ time[p] \in Nat /\ \A q \in 1..made : q < p => time[q] < time[p]
        BY <3>1, <3>3 DEF AsLeft
      <4>2. QED
        BY <1>0, <3>2, <3>5, <4>1 DEF TimeGot
    <3>6. \A p \in Up!Kept \ got : time[p] > cursor
      BY <3>1, <3>2, <3>3, <3>4, <3>5 DEF AsLeft
    <3>7. QED
      BY <2>3, <3>6 DEF Up!PostsAhead, Migrated
  <2>4. QED
    BY <2>2, <2>3
<1>2. QED
  BY <1>1, UpgradeInvariant, PTL

(* However often the database is opened and pruned, the lifetime counts    *)
(* are those of every packet stored (sqlite_handler.py:481, 919-921).      *)
THEOREM LedgerSurvives == Up!UpgradeAssumption => (Up!Spec => []Up!LedgerRight)
<1> SUFFICES ASSUME Up!UpgradeAssumption PROVE Up!Spec => []Up!LedgerRight
  OBVIOUS
<1>1. UpgradeInv => Up!LedgerRight
  BY DEF UpgradeInv, UpgradeTypes, Migrated, AsMigrated, Up!Marks, Up!LedgerRight
<1>2. QED
  BY <1>1, UpgradeInvariant, PTL

-----------------------------------------------------------------------------
(* A companion's contacts: Contacts.                                       *)
CONSTANTS Keys, Capacity, AnonCapacity, Clocks, MaxRev, MaxRefused
VARIABLES ram, sql, mark, busy, dump, notes, linked, listed, copy, synced, fresh, lost,
          again, refused

Book == INSTANCE Contacts WITH
    since <- synced, faults <- refused, MaxFaults <- MaxRefused

(* A finite set of naturals has a greatest element.                        *)
LEMMA FiniteHasGreatest ==
    ASSUME NEW S, IsFiniteSet(S), S \subseteq Nat, S # {}
    PROVE  \E m \in S : \A n \in S : n <= m
<1> DEFINE T == {k \in Nat : \A U : IsFiniteSet(U) /\ U \subseteq Nat /\ U # {}
                                      /\ Cardinality(U) = k
                                      => \E m \in U : \A n \in U : n <= m}
<1>1. 0 \in T
  BY FS_EmptySet
<1>2. ASSUME NEW k \in Nat, k \in T PROVE k + 1 \in T
  <2> SUFFICES ASSUME NEW U, IsFiniteSet(U), U \subseteq Nat, U # {}, Cardinality(U) = k + 1
               PROVE  \E m \in U : \A n \in U : n <= m
    OBVIOUS
  <2>1. PICK x \in U : TRUE
    OBVIOUS
  <2>2. /\ IsFiniteSet(U \ {x}) /\ Cardinality(U \ {x}) = k
    <3>1. Cardinality(U \ {x}) = Cardinality(U) - 1 /\ IsFiniteSet(U \ {x})
      BY <2>1, FS_RemoveElement
    <3>2. QED
      BY <3>1
  <2>3. CASE U \ {x} = {}
    BY <2>1, <2>3
  <2>4. CASE U \ {x} # {}
    <3>1. PICK m \in U \ {x} : \A n \in U \ {x} : n <= m
      BY <1>2, <2>2, <2>4
    <3>2. QED
      BY <3>1, <2>1
  <2>5. QED
    BY <2>3, <2>4
<1>3. Nat \subseteq T
  <2> HIDE DEF T
  <2> QED BY <1>1, <1>2, SetInduction
<1>4. Cardinality(S) \in Nat
  BY FS_CardinalityType
<1>5. QED
  BY <1>3, <1>4

(* So Max is what its name says.                                           *)
LEMMA LatestOf ==
    ASSUME NEW S, IsFiniteSet(S), S \subseteq Nat, S # {}
    PROVE  Book!Max(S) \in S /\ \A n \in S : n <= Book!Max(S)
<1>1. \E m \in S : \A n \in S : m >= n
  BY FiniteHasGreatest
<1>2. Book!Max(S) \in S /\ \A n \in S : Book!Max(S) >= n
  BY <1>1 DEF Book!Max
<1>3. QED
  BY <1>2

-----------------------------------------------------------------------------
(* A contact that is kept or only remembered, or none.                     *)
ContactType == {Book!Gone} \cup [kind : {"real", "anonymous"}, rev : Nat]

(* The types of the book and of its copies.                                *)
BookTypes ==
    /\ ram \in [Keys -> ContactType]
    /\ copy \in [Keys -> Nat]
    /\ {mark, synced, lost} \subseteq Nat
    /\ dump \in [rest : SUBSET [key : Keys, rev : Nat], end : Nat, all : BOOLEAN, on : BOOLEAN]
    /\ notes \subseteq Keys
    /\ listed \subseteq Keys
    /\ fresh \in BOOLEAN /\ linked \in BOOLEAN

(* No END is later than what has been given, by this process or before.    *)
EndsSeen == (synced <= Book!Seen \/ synced <= lost) /\ dump.end <= Book!Seen

(* A dump has a contact yet to send.                                       *)
Due(k) == \E c \in dump.rest : c.key = k

(* What the app has not, or will get in an older version, is later.        *)
Newer(k, rev) ==
    /\ copy[k] # rev => rev > synced /\ (dump.on => rev > dump.end \/ Due(k))
    /\ \A c \in dump.rest : c.key = k /\ c.rev # rev => rev > synced /\ rev > dump.end

(* So it is with every contact that is kept, but for revisions that an     *)
(* earlier process may have given.                                         *)
NewerInv == \A k \in Book!Real(ram) \ again : Newer(k, ram[k].rev)

(* But for announcements an app that listed everything, or will have, lists*)
(* what is there or will.                                                  *)
ListInv ==
    /\ fresh \/ dump.on => linked
    /\ ~dump.on => dump.rest = {}
    /\ fresh \/ (dump.on /\ dump.all) =>
          \A k \in Keys \ notes : k \in listed \/ Due(k) <=> k \in Book!Real(ram)

(* The inductive invariant of the contacts.                                *)
BookInv ==
    /\ BookTypes /\ EndsSeen /\ NewerInv /\ ListInv
    /\ sql = Book!OnlyReal(ram)

-----------------------------------------------------------------------------
(* Revisions.                                                              *)
(* The latest revision of the contacts K in the book R.                    *)
TopIn(R, K) == Book!Max({R[k].rev : k \in K} \cup {0})

(* It is a revision, and none is later.                                    *)
LEMMA TopFacts ==
    ASSUME Book!ContactsAssumption, NEW R \in [Keys -> ContactType], NEW K \in SUBSET Keys
    PROVE  /\ TopIn(R, K) \in Nat
           /\ \A k \in K : R[k].rev \in Nat /\ R[k].rev <= TopIn(R, K)
           /\ TopIn(R, K) = 0 \/ \E k \in K : TopIn(R, K) = R[k].rev
<1> DEFINE revs == {R[k].rev : k \in K}
           S == revs \cup {0}
<1>1. \A k \in K : R[k].rev \in Nat
  BY DEF ContactType, Book!Gone
<1>2. IsFiniteSet(S)
  <2>1. IsFiniteSet(K)
    <3>1. IsFiniteSet(Keys)
      BY DEF Book!ContactsAssumption, Book!IsFiniteSet, IsFiniteSet
    <3>2. QED
      BY <3>1, FS_Subset
  <2>2. IsFiniteSet(revs)
    <3> DEFINE f == [k \in K |-> R[k].rev]
    <3>1. f \in Surjection(K, revs)
      BY DEF Surjection
    <3>2. QED
      BY <2>1, <3>1, FS_Surjection
  <2>3. QED
    BY <2>2, FS_AddElement
<1>3. Book!Max(S) \in S /\ \A n \in S : n <= Book!Max(S)
  <2>1. S \subseteq Nat /\ S # {}
    BY <1>1
  <2> HIDE DEF S
  <2>2. QED
    BY <1>2, <2>1, LatestOf
<1>4. TopIn(R, K) = Book!Max(S)
  BY DEF TopIn
<1> DEFINE m == Book!Max(S)
<1>5. m \in S /\ (\A n \in S : n <= m) /\ TopIn(R, K) = m
  BY <1>3, <1>4
<1> HIDE DEF m
<1>6. m \in Nat /\ (\A k \in K : R[k].rev <= m) /\ (m = 0 \/ \E k \in K : m = R[k].rev)
  <2>1. \A k \in K : R[k].rev \in S
    OBVIOUS
  <2>2. m = 0 \/ \E k \in K : m = R[k].rev
    BY <1>5
  <2>3. QED
    BY <1>1, <1>5, <2>1, <2>2
<1>7. QED
  BY <1>1, <1>5, <1>6

(* The greater of two is one of them and as great as either.               *)
LEMMA BookMaxOfTwo ==
    ASSUME NEW a \in Nat, NEW b \in Nat
    PROVE  /\ Book!Max({a, b}) \in Nat /\ Book!Max({a, b}) \in {a, b}
           /\ Book!Max({a, b}) >= a /\ Book!Max({a, b}) >= b
  BY DEF Book!Max

(* What the book R and the watermark m have seen.                          *)
SeenIn(R, m) == Book!Max({m, TopIn(R, Book!Here(R))})

(* No revision in a book is later than what was seen.                      *)
LEMMA SeenFacts ==
    ASSUME Book!ContactsAssumption, NEW R \in [Keys -> ContactType], NEW m \in Nat
    PROVE  /\ SeenIn(R, m) \in Nat /\ m <= SeenIn(R, m)
           /\ \A k \in Keys : R[k].rev \in Nat /\ R[k].rev <= SeenIn(R, m)
<1>1. Book!Here(R) \subseteq Keys
  BY DEF Book!Here
<1> DEFINE t == TopIn(R, Book!Here(R))
<1>2. t \in Nat /\ \A k \in Book!Here(R) : R[k].rev \in Nat /\ R[k].rev <= t
  BY <1>1, TopFacts
<1>3. SeenIn(R, m) \in Nat /\ m <= SeenIn(R, m) /\ t <= SeenIn(R, m)
  BY <1>2, BookMaxOfTwo DEF SeenIn
<1> HIDE DEF t
<1>4. ASSUME NEW k \in Keys PROVE R[k].rev \in Nat /\ R[k].rev <= SeenIn(R, m)
  <2>1. CASE k \in Book!Here(R)
    BY <1>2, <1>3, <2>1
  <2>2. CASE k \notin Book!Here(R)
    BY <1>3, <2>2 DEF Book!Here, Book!Gone
  <2>3. QED
    BY <2>1, <2>2
<1>5. QED
  BY <1>3, <1>4

(* It is the Seen of the specification, before and after a step.           *)
LEMMA SeenIs == Book!Seen = SeenIn(ram, mark) /\ Book!Seen' = SeenIn(ram', mark')
  BY DEF Book!Seen, SeenIn, TopIn, Book!TopRev, Book!Here

(* A revision that is drawn is later than anything seen.                   *)
LEMMA NextRevFacts ==
    ASSUME Book!ContactsAssumption, ram \in [Keys -> ContactType], mark \in Nat,
           NEW now \in Clocks
    PROVE  Book!NextRev(now) \in Nat /\ Book!NextRev(now) > Book!Seen
<1> DEFINE a == now
           b == Book!TopRev(Book!Real(ram)) + 1
           c == Book!Seen + 1
<1>1. Book!Real(ram) \subseteq Keys
  BY DEF Book!Real
<1>2. a \in Nat /\ b \in Nat /\ c \in Nat /\ c > Book!Seen /\ Book!Seen \in Nat
  <2>1. Book!TopRev(Book!Real(ram)) \in Nat
    BY <1>1, TopFacts DEF TopIn, Book!TopRev
  <2>2. Book!Seen \in Nat
    BY SeenIs, SeenFacts
  <2>3. now \in Nat
    BY DEF Book!ContactsAssumption
  <2>4. QED
    BY <2>1, <2>2, <2>3
<1>3. Book!NextRev(now) = Book!Max({a, b, c})
  BY DEF Book!NextRev
<1> HIDE DEF a, b, c
<1>4. Book!Max({a, b, c}) \in Nat /\ Book!Max({a, b, c}) >= c
  BY <1>2 DEF Book!Max
<1>5. QED
  BY <1>2, <1>3, <1>4

(* What has been given is not forgotten.                                   *)
LEMMA SeenGrows ==
    ASSUME Book!ContactsAssumption, ram \in [Keys -> ContactType], mark \in Nat,
           ram' \in [Keys -> ContactType], mark' \in Nat, mark' >= Book!Seen
    PROVE  Book!Seen \in Nat /\ Book!Seen' \in Nat /\ Book!Seen' >= Book!Seen
<1>1. Book!Seen \in Nat
  BY SeenIs, SeenFacts
<1>2. Book!Seen' \in Nat /\ mark' <= Book!Seen'
  BY SeenIs, SeenFacts
<1>3. QED
  BY <1>1, <1>2

-----------------------------------------------------------------------------
(* Changes.                                                                *)

(* Any change of the book: each contact is as it was, or gone, or as newly *)
(* given.                                                                  *)
Renewed(new) ==
    \A k \in Keys : new[k] = ram[k] \/ new[k].kind # "real" \/ new[k].rev > Book!Seen

(* One that is not excused was not, and is as it was, or has a revision    *)
(* later than what earlier processes gave.                                 *)
Unexcused(new) ==
    \A k \in Keys \ again' : IF new[k] = ram[k] THEN k \notin again
                             ELSE new[k].kind # "real" \/ new[k].rev > lost

(* A contact is placed, and nothing else is new.                           *)
LEMMA PlacedFacts ==
    ASSUME NEW S \in [Keys -> ContactType], NEW k \in Keys, NEW c \in ContactType,
           NEW new \in Book!Placed(S, k, c)
    PROVE  /\ new \in [Keys -> ContactType] /\ new[k] = c
           /\ \A j \in Keys \ {k} : new[j] \in {S[j], Book!Gone}
<1> DEFINE others == [S EXCEPT ![k] = Book!Gone]
           pool == IF c.kind = "real" THEN Book!Real(others) ELSE Book!Anon(others)
<1>1. Book!Gone \in ContactType /\ others \in [Keys -> ContactType]
  BY DEF ContactType
<1>2. pool \subseteq Keys \ {k}
  BY DEF Book!Real, Book!Anon, Book!Gone
<1>3. \/ new = [others EXCEPT ![k] = c]
      \/ \E j \in pool : new = [others EXCEPT ![k] = c, ![j] = Book!Gone]
  BY DEF Book!Placed
<1> HIDE DEF pool
<1>4. QED
  BY <1>1, <1>2, <1>3

(* What a change does to the book, whether it is saved or refused.         *)
LEMMA ChangeFacts ==
    ASSUME Book!ContactsAssumption, BookInv, NEW rev \in Nat, NEW changed \in SUBSET Keys,
           NEW new \in [Keys -> ContactType], Book!Change(rev, new, changed)
    PROVE  /\ mark' \in Nat /\ ram' \in [Keys -> ContactType] /\ notes' \subseteq Keys
           /\ Book!Seen \in Nat /\ Book!Seen' \in Nat /\ Book!Seen' >= Book!Seen
           /\ sql' = Book!OnlyReal(ram') /\ Unexcused(ram')
           /\ \/ ram' = new /\ notes' = (IF linked THEN notes \cup changed ELSE notes)
              \/ ram' = ram /\ notes' = notes /\ ram # new
<1>1. /\ ram \in [Keys -> ContactType] /\ mark \in Nat /\ lost \in Nat /\ notes \subseteq Keys
      /\ sql = Book!OnlyReal(ram)
  BY DEF BookInv, BookTypes
<1>2. \/ /\ ram' = new /\ notes' = (IF linked THEN notes \cup changed ELSE notes)
         /\ sql' = Book!OnlyReal(new) /\ again' = Book!DrawnAgain(new)
      \/ ram' = ram /\ notes' = notes /\ ram # new /\ sql' = sql /\ again' = again
  BY DEF Book!Change
<1>3. Book!Seen \in Nat
  BY <1>1, SeenIs, SeenFacts
<1>4. mark' \in Nat /\ mark' >= Book!Seen
  BY <1>3, BookMaxOfTwo DEF Book!Change
<1>5. ram' \in [Keys -> ContactType] /\ sql' = Book!OnlyReal(ram') /\ notes' \subseteq Keys
  BY <1>1, <1>2
<1>6. Book!Seen' \in Nat /\ Book!Seen' >= Book!Seen
  BY <1>1, <1>4, <1>5, SeenGrows
<1>7. Unexcused(ram')
  <2>1. CASE ram' = new /\ again' = Book!DrawnAgain(new)
    <3>1. \A k \in Keys : new[k].rev \in Nat
      BY DEF ContactType, Book!Gone
    <3>2. QED
      BY <1>1, <2>1, <3>1 DEF Unexcused, Book!DrawnAgain
  <2>2. CASE ram' = ram /\ again' = again
    BY <2>2 DEF Unexcused
  <2>3. QED
    BY <1>2, <2>1, <2>2
<1>8. QED
  BY <1>2, <1>3, <1>4, <1>5, <1>6, <1>7

(* A change that the app did not ask for.                                  *)
LEMMA ChangedKeeps ==
    ASSUME Book!ContactsAssumption, BookInv, ram' \in [Keys -> ContactType], mark' \in Nat,
           notes' \subseteq Keys, notes \subseteq notes',
           Book!Seen \in Nat, Book!Seen' \in Nat, Book!Seen' >= Book!Seen,
           sql' = Book!OnlyReal(ram'), Renewed(ram'), Unexcused(ram'),
           linked => \A k \in Keys \ notes' : k \in Book!Real(ram') <=> k \in Book!Real(ram),
           UNCHANGED <<dump, linked, listed, copy, synced, fresh, lost>>
    PROVE  BookInv'
<1>1. BookTypes'
  BY DEF BookInv, BookTypes
<1>2. /\ {synced, lost, dump.end} \subseteq Nat /\ dump.end <= Book!Seen
      /\ synced <= Book!Seen \/ synced <= lost
      /\ \A c \in dump.rest : c.rev \in Nat
  BY DEF BookInv, BookTypes, EndsSeen
<1>3. EndsSeen'
  BY <1>2 DEF EndsSeen
<1>4. \A k : Due(k)' <=> Due(k)
  BY DEF Due
<1>5. NewerInv'
  <2> SUFFICES ASSUME NEW k \in Book!Real(ram') \ again' PROVE Newer(k, ram'[k].rev)
    <3>1. Book!Real(ram)' = Book!Real(ram')
      BY DEF Book!Real
    <3>2. ASSUME NEW k, NEW rev PROVE Newer(k, rev) => Newer(k, rev)'
      BY <1>4 DEF Newer
    <3>3. QED
      BY <3>1, <3>2 DEF NewerInv
  <2>1. k \in Keys /\ ram'[k].kind = "real" /\ ram'[k].rev \in Nat
    BY DEF Book!Real, ContactType, Book!Gone
  <2>2. CASE ram'[k] = ram[k]
    <3>1. k \in Book!Real(ram) \ again
      BY <2>1, <2>2 DEF Book!Real, Unexcused
    <3>2. QED
      BY <2>2, <3>1 DEF BookInv, NewerInv
  <2>3. CASE ram'[k].rev > Book!Seen /\ ram'[k].rev > lost
    BY <1>2, <2>1, <2>3 DEF Newer
  <2>4. QED
    BY <2>1, <2>2, <2>3 DEF Renewed, Unexcused
<1>6. ListInv'
  <2>1. ListInv
    BY DEF BookInv
  <2>2. ASSUME fresh \/ (dump.on /\ dump.all), NEW k \in Keys \ notes'
        PROVE  k \in listed \/ Due(k) <=> k \in Book!Real(ram')
    <3>1. linked /\ k \in Keys \ notes
      BY <2>1, <2>2 DEF ListInv
    <3>2. k \in listed \/ Due(k) <=> k \in Book!Real(ram)
      BY <2>1, <2>2, <3>1 DEF ListInv
    <3>3. QED
      BY <2>2, <3>1, <3>2
  <2>3. Book!Real(ram)' = Book!Real(ram')
    BY DEF Book!Real
  <2>4. QED
    BY <1>4, <2>1, <2>2, <2>3 DEF ListInv
<1>7. QED
  BY <1>1, <1>3, <1>5, <1>6 DEF BookInv, Book!OnlyReal, Book!Real

(* So is each of a mesh's changes.                                         *)
LEMMA MeshChangeKeeps ==
    ASSUME Book!ContactsAssumption, BookInv, NEW rev \in Nat, NEW changed \in SUBSET Keys,
           NEW new \in [Keys -> ContactType], Book!Change(rev, new, changed), Renewed(new),
           \A k \in Keys \ changed : k \in Book!Real(new) <=> k \in Book!Real(ram),
           UNCHANGED <<dump, linked, listed, copy, synced, fresh, lost>>
    PROVE  BookInv'
<1>1. /\ mark' \in Nat /\ ram' \in [Keys -> ContactType] /\ notes' \subseteq Keys
      /\ Book!Seen \in Nat /\ Book!Seen' \in Nat /\ Book!Seen' >= Book!Seen
      /\ sql' = Book!OnlyReal(ram') /\ Unexcused(ram')
      /\ \/ ram' = new /\ notes' = (IF linked THEN notes \cup changed ELSE notes)
         \/ ram' = ram /\ notes' = notes /\ ram # new
  BY ChangeFacts
<1>2. Renewed(ram') /\ notes \subseteq notes'
  BY <1>1 DEF Renewed
<1>3. linked => \A k \in Keys \ notes' : k \in Book!Real(ram') <=> k \in Book!Real(ram)
  BY <1>1
<1>4. QED
  BY <1>1, <1>2, <1>3, ChangedKeeps

(* An advert is heard.                                                     *)
LEMMA AdvertKeeps ==
    ASSUME Book!ContactsAssumption, BookInv, NEW k \in Keys, Book!Advert(k)
    PROVE  BookInv'
<1>1. PICK kind \in {"real", "anonymous"}, now \in Clocks :
         LET base == IF k \in Book!Anon(ram) THEN [ram EXCEPT ![k] = Book!Gone] ELSE ram
             c == [kind |-> kind, rev |-> Book!NextRev(now)]
         IN \/ \E new \in Book!Placed(base, k, c) :
                  Book!Change(c.rev, new, {j \in Keys : new[j] # ram[j]})
            \/ /\ ram' = base
               /\ mark' = Book!Seen
               /\ UNCHANGED <<sql, notes, again, refused>>
  BY DEF Book!Advert
<1> DEFINE base == IF k \in Book!Anon(ram) THEN [ram EXCEPT ![k] = Book!Gone] ELSE ram
           c == [kind |-> kind, rev |-> Book!NextRev(now)]
<1>2. UNCHANGED <<dump, linked, listed, copy, synced, fresh, lost>>
  BY DEF Book!Advert
<1>3. /\ ram \in [Keys -> ContactType] /\ mark \in Nat /\ notes \subseteq Keys
      /\ sql = Book!OnlyReal(ram)
  BY DEF BookInv, BookTypes
<1>4. base \in [Keys -> ContactType] /\ \A j \in Keys : base[j] \in {ram[j], Book!Gone}
  BY <1>3 DEF ContactType
<1>5. /\ c \in ContactType /\ c.rev \in Nat /\ c.rev > Book!Seen
      /\ Book!Gone.kind = "none"
  BY <1>3, NextRevFacts DEF ContactType, Book!Gone
<1>6. Book!Real(base) = Book!Real(ram) /\ Book!OnlyReal(base) = Book!OnlyReal(ram)
  BY <1>3, <1>5 DEF Book!Real, Book!Anon, Book!OnlyReal
<1> HIDE DEF base, c
<1>7. ASSUME NEW new \in Book!Placed(base, k, c),
             Book!Change(c.rev, new, {j \in Keys : new[j] # ram[j]})
      PROVE  BookInv'
  <2>1. /\ new \in [Keys -> ContactType] /\ new[k] = c
        /\ \A j \in Keys \ {k} : new[j] \in {base[j], Book!Gone}
    BY <1>4, <1>5, <1>7, PlacedFacts
  <2>2. Renewed(new)
    BY <1>4, <1>5, <2>1 DEF Renewed
  <2>3. \A i \in Keys \ {j \in Keys : new[j] # ram[j]} :
           i \in Book!Real(new) <=> i \in Book!Real(ram)
    BY DEF Book!Real
  <2>4. QED
    BY <1>2, <1>5, <1>7, <2>1, <2>2, <2>3, MeshChangeKeeps
<1>8. ASSUME ram' = base, mark' = Book!Seen, UNCHANGED <<sql, notes, again>>
      PROVE  BookInv'
  <2>1. Book!Seen \in Nat
    BY <1>3, SeenIs, SeenFacts
  <2>2. Book!Seen' \in Nat /\ Book!Seen' >= Book!Seen
    BY <1>3, <1>4, <1>8, <2>1, SeenGrows
  <2>3. Renewed(ram') /\ Unexcused(ram')
    BY <1>4, <1>5, <1>8 DEF Renewed, Unexcused
  <2>4. sql' = Book!OnlyReal(ram') /\ Book!Real(ram') = Book!Real(ram)
    BY <1>3, <1>6, <1>8
  <2>5. QED
    BY <1>2, <1>3, <1>4, <1>8, <2>1, <2>2, <2>3, <2>4, ChangedKeeps
<1>9. QED
  BY <1>1, <1>7, <1>8 DEF base, c

(* A known contact changes.                                                *)
LEMMA TouchKeeps ==
    ASSUME Book!ContactsAssumption, BookInv, NEW k \in Keys, Book!Touch(k)
    PROVE  BookInv'
<1>1. PICK now \in Clocks :
         Book!Change(Book!NextRev(now), [ram EXCEPT ![k].rev = Book!NextRev(now)], {})
  BY DEF Book!Touch
<1>2. UNCHANGED <<dump, linked, listed, copy, synced, fresh, lost>> /\ k \in Book!Here(ram)
  BY DEF Book!Touch
<1>3. ram \in [Keys -> ContactType] /\ mark \in Nat
  BY DEF BookInv, BookTypes
<1> DEFINE n == Book!NextRev(now)
           x == [ram[k] EXCEPT !.rev = n]
           new == [ram EXCEPT ![k].rev = n]
<1>4. n \in Nat /\ n > Book!Seen
  BY <1>3, NextRevFacts
<1> HIDE DEF n
<1>5. new = [ram EXCEPT ![k] = x]
  OBVIOUS
<1>6. x \in ContactType /\ x.kind = ram[k].kind /\ x.rev = n
  <2>1. ram[k] \in [kind : {"real", "anonymous"}, rev : Nat]
    BY <1>2, <1>3 DEF Book!Here, ContactType
  <2>2. QED
    BY <1>4, <2>1 DEF ContactType
<1> HIDE DEF x
<1>7. new \in [Keys -> ContactType] /\ new[k] = x /\ \A j \in Keys \ {k} : new[j] = ram[j]
  BY <1>3, <1>5, <1>6
<1>8. Book!Change(n, new, {})
  BY <1>1 DEF n
<1> HIDE DEF new
<1>9. Renewed(new)
  BY <1>4, <1>6, <1>7 DEF Renewed
<1>10. \A j \in Keys \ {} : j \in Book!Real(new) <=> j \in Book!Real(ram)
  BY <1>6, <1>7 DEF Book!Real
<1>11. QED
  BY <1>2, <1>4, <1>7, <1>8, <1>9, <1>10, MeshChangeKeeps

(* An import merges.                                                       *)
LEMMA ImportKeeps ==
    ASSUME Book!ContactsAssumption, BookInv, Book!ImportMerges
    PROVE  BookInv'
<1>1. PICK added \in SUBSET (Keys \ Book!Real(ram)), kept \in SUBSET Book!Real(ram),
           now \in Clocks :
         LET c == [kind |-> "real", rev |-> Book!NextRev(now)]
             new == [k \in Keys |-> IF k \in added THEN c
                                    ELSE IF k \in kept \cup Book!Anon(ram) THEN ram[k]
                                    ELSE Book!Gone]
         IN Book!Change(c.rev, new, added \cup (Book!Real(ram) \ kept))
  BY DEF Book!ImportMerges
<1> DEFINE c == [kind |-> "real", rev |-> Book!NextRev(now)]
           new == [k \in Keys |-> IF k \in added THEN c
                                  ELSE IF k \in kept \cup Book!Anon(ram) THEN ram[k]
                                  ELSE Book!Gone]
           changed == added \cup (Book!Real(ram) \ kept)
<1>2. UNCHANGED <<dump, linked, listed, copy, synced, fresh, lost>>
  BY DEF Book!ImportMerges
<1>3. ram \in [Keys -> ContactType] /\ mark \in Nat
  BY DEF BookInv, BookTypes
<1>4. /\ c \in ContactType /\ c.rev \in Nat /\ c.rev > Book!Seen /\ c.kind = "real"
      /\ Book!Gone.kind = "none" /\ Book!Gone \in ContactType
  BY <1>3, NextRevFacts DEF ContactType, Book!Gone
<1>5. Book!Change(c.rev, new, changed)
  BY <1>1
<1> HIDE DEF c
<1>6. new \in [Keys -> ContactType]
  BY <1>3, <1>4
<1>7. Renewed(new)
  BY <1>4 DEF Renewed
<1>8. \A k \in Keys \ changed : k \in Book!Real(new) <=> k \in Book!Real(ram)
  BY <1>4 DEF Book!Real, Book!Anon
<1>9. changed \in SUBSET Keys
  BY DEF Book!Real
<1> HIDE DEF new, changed
<1>10. QED
  BY <1>2, <1>4, <1>5, <1>6, <1>7, <1>8, <1>9, MeshChangeKeeps

-----------------------------------------------------------------------------
(* What the app asks for, which is not while it gets a dump.               *)
LEMMA QuietKeeps ==
    ASSUME BookInv, BookTypes', EndsSeen', sql' = Book!OnlyReal(ram'), ~dump.on,
           UNCHANGED <<dump, linked, synced, fresh, lost>>,
           \A j \in Book!Real(ram') \ again' :
              \/ copy'[j] = ram'[j].rev
              \/ /\ j \in Book!Real(ram) \ again /\ ram'[j].rev = ram[j].rev
                 /\ copy'[j] = copy[j],
           fresh => \A j \in Keys \ notes' : j \in listed' <=> j \in Book!Real(ram')
    PROVE  BookInv'
<1>1. dump.rest = {} /\ (\A j : ~Due(j) /\ ~Due(j)') /\ (fresh => linked)
  BY DEF BookInv, ListInv, Due
<1>2. Book!Real(ram)' = Book!Real(ram') /\ Book!OnlyReal(ram)' = Book!OnlyReal(ram')
  BY DEF Book!Real, Book!OnlyReal
<1>3. ASSUME NEW j \in Book!Real(ram') \ again' PROVE Newer(j, ram[j].rev)'
  <2>1. CASE copy'[j] = ram'[j].rev
    BY <1>1, <2>1 DEF Newer
  <2>2. CASE j \in Book!Real(ram) \ again /\ ram'[j].rev = ram[j].rev /\ copy'[j] = copy[j]
    <3>1. Newer(j, ram[j].rev)
      BY <2>2 DEF BookInv, NewerInv
    <3>2. QED
      BY <1>1, <2>2, <3>1 DEF Newer
  <2>3. QED
    BY <2>1, <2>2
<1>4. NewerInv'
  BY <1>2, <1>3 DEF NewerInv
<1>5. ListInv'
  BY <1>1, <1>2 DEF ListInv
<1>6. QED
  BY <1>2, <1>4, <1>5 DEF BookInv

(* The app adds or changes a contact, and may set its revision back.       *)
LEMMA AppUpdateKeeps ==
    ASSUME Book!ContactsAssumption, BookInv, NEW k \in Keys, Book!AppUpdate(k)
    PROVE  BookInv'
<1> DEFINE Fits(kind, rev, new) ==
             /\ new \in Book!Placed(ram, k, [kind |-> kind, rev |-> rev])
             /\ Book!Change(rev, new, {})
             /\ listed' = IF ram' = new THEN Book!Real(new) \cap (listed \cup {k}) ELSE listed
             /\ copy' = IF ram' = new THEN [copy EXCEPT ![k] = rev] ELSE copy
<1>a. PICK kind \in {"real", "anonymous"}, now \in Clocks :
        \E rev \in {Book!NextRev(now)} \cup Clocks : \E new : Fits(kind, rev, new)
  BY DEF Book!AppUpdate
<1>b. PICK rev \in {Book!NextRev(now)} \cup Clocks : \E new : Fits(kind, rev, new)
  BY <1>a
<1>c. PICK new : Fits(kind, rev, new)
  BY <1>b
<1>1. /\ kind \in {"real", "anonymous"}
      /\ rev \in Clocks \/ \E t \in Clocks : rev = Book!NextRev(t)
      /\ new \in Book!Placed(ram, k, [kind |-> kind, rev |-> rev])
      /\ Book!Change(rev, new, {})
      /\ listed' = IF ram' = new THEN Book!Real(new) \cap (listed \cup {k}) ELSE listed
      /\ copy' = IF ram' = new THEN [copy EXCEPT ![k] = rev] ELSE copy
  BY <1>a, <1>b, <1>c
<1> HIDE DEF Fits
<1>2. ~dump.on /\ UNCHANGED <<dump, linked, synced, fresh, lost>>
  BY DEF Book!AppUpdate
<1>3. /\ ram \in [Keys -> ContactType] /\ mark \in Nat /\ notes \subseteq Keys
      /\ copy \in [Keys -> Nat] /\ listed \subseteq Keys
  BY DEF BookInv, BookTypes
<1>4. rev \in Nat
  <2>1. \A t \in Clocks : Book!NextRev(t) \in Nat
    BY <1>3, NextRevFacts
  <2>2. QED
    BY <1>1, <2>1 DEF Book!ContactsAssumption
<1> DEFINE c == [kind |-> kind, rev |-> rev]
<1>5. c \in ContactType /\ c.rev = rev
  BY <1>4 DEF ContactType
<1>6. /\ new \in [Keys -> ContactType] /\ new[k] = c
      /\ \A j \in Keys \ {k} : new[j] \in {ram[j], Book!Gone}
  BY <1>1, <1>3, <1>5, PlacedFacts
<1> HIDE DEF c
<1>7. /\ mark' \in Nat /\ ram' \in [Keys -> ContactType] /\ notes' \subseteq Keys
      /\ Book!Seen \in Nat /\ Book!Seen' \in Nat /\ Book!Seen' >= Book!Seen
      /\ sql' = Book!OnlyReal(ram') /\ Unexcused(ram')
      /\ \/ ram' = new /\ notes' = (IF linked THEN notes \cup {} ELSE notes)
         \/ ram' = ram /\ notes' = notes /\ ram # new
  BY <1>1, <1>4, <1>6, ChangeFacts
<1>8. CASE ram' = new
  <2>1. copy' = [copy EXCEPT ![k] = rev] /\ listed' = Book!Real(new) \cap (listed \cup {k})
        /\ notes' = notes
    BY <1>1, <1>7, <1>8
  <2>2. Book!Real(new) \subseteq Keys /\ Book!Real(new) \subseteq Book!Real(ram) \cup {k}
        /\ \A j \in Book!Real(new) \ {k} : new[j] = ram[j]
    BY <1>3, <1>6 DEF Book!Real, Book!Gone
  <2>3. BookTypes'
    BY <1>2, <1>3, <1>4, <1>7, <2>1, <2>2 DEF BookInv, BookTypes
  <2>4. EndsSeen'
    <3>1. {synced, lost, dump.end} \subseteq Nat /\ EndsSeen
      BY DEF BookInv, BookTypes
    <3>2. QED
      BY <1>2, <1>7, <3>1 DEF EndsSeen
  <2>5. \A j \in Book!Real(ram') \ again' :
           \/ copy'[j] = ram'[j].rev
           \/ /\ j \in Book!Real(ram) \ again /\ ram'[j].rev = ram[j].rev
              /\ copy'[j] = copy[j]
    <3>1. \A j \in Book!Real(ram') : j \in Keys
      BY <1>8, <2>2
    <3>2. \A j \in Book!Real(ram') \ again' : j # k => j \notin again
      BY <1>7, <1>8, <2>2, <3>1 DEF Unexcused
    <3>3. QED
      BY <1>3, <1>5, <1>6, <1>8, <2>1, <2>2, <3>2
  <2>6. fresh => \A j \in Keys \ notes : j \in listed <=> j \in Book!Real(ram)
    BY <1>2 DEF BookInv, ListInv, Due
  <2>7. fresh => \A j \in Keys \ notes' : j \in listed' <=> j \in Book!Real(ram')
    BY <1>8, <2>1, <2>2, <2>6
  <2>8. QED
    BY <1>2, <1>7, <2>3, <2>4, <2>5, <2>7, QuietKeeps
<1>9. CASE ram' # new
  <2>1. ram' = ram /\ notes' = notes /\ listed' = listed /\ copy' = copy
    BY <1>1, <1>7, <1>9
  <2>2. Renewed(ram')
    BY <2>1 DEF Renewed
  <2>3. QED
    BY <1>2, <1>7, <2>1, <2>2, ChangedKeeps
<1>10. QED
  BY <1>8, <1>9

(* The app removes one.                                                    *)
LEMMA AppRemoveKeeps ==
    ASSUME Book!ContactsAssumption, BookInv, NEW k \in Keys, Book!AppRemove(k)
    PROVE  BookInv'
<1> DEFINE new == [ram EXCEPT ![k] = Book!Gone]
<1>1. /\ Book!Change(0, new, {}) /\ ~dump.on /\ k \in Book!Here(ram)
      /\ listed' = IF ram'[k] = Book!Gone THEN listed \ {k} ELSE listed
      /\ UNCHANGED <<dump, linked, copy, synced, fresh, lost>>
  BY DEF Book!AppRemove
<1>2. ram \in [Keys -> ContactType] /\ notes \subseteq Keys /\ listed \subseteq Keys
  BY DEF BookInv, BookTypes
<1>3. /\ new \in [Keys -> ContactType] /\ new[k] = Book!Gone
      /\ \A j \in Keys \ {k} : new[j] = ram[j]
  BY <1>2 DEF ContactType
<1> HIDE DEF new
<1>4. /\ mark' \in Nat /\ ram' \in [Keys -> ContactType] /\ notes' \subseteq Keys
      /\ Book!Seen \in Nat /\ Book!Seen' \in Nat /\ Book!Seen' >= Book!Seen
      /\ sql' = Book!OnlyReal(ram') /\ Unexcused(ram')
      /\ \/ ram' = new /\ notes' = (IF linked THEN notes \cup {} ELSE notes)
         \/ ram' = ram /\ notes' = notes /\ ram # new
  BY <1>1, <1>3, ChangeFacts
<1>5. CASE ram' = new
  <2>1. listed' = listed \ {k} /\ notes' = notes
    BY <1>1, <1>3, <1>4, <1>5
  <2>2. Book!Real(new) = Book!Real(ram) \ {k}
    BY <1>3 DEF Book!Real, Book!Gone
  <2>3. BookTypes'
    BY <1>1, <1>2, <1>4, <2>1 DEF BookInv, BookTypes
  <2>4. EndsSeen'
    <3>1. {synced, lost, dump.end} \subseteq Nat /\ EndsSeen
      BY DEF BookInv, BookTypes
    <3>2. QED
      BY <1>1, <1>4, <3>1 DEF EndsSeen
  <2>5. \A j \in Book!Real(ram') \ again' :
           \/ copy'[j] = ram'[j].rev
           \/ /\ j \in Book!Real(ram) \ again /\ ram'[j].rev = ram[j].rev
              /\ copy'[j] = copy[j]
    <3>1. \A j \in Book!Real(ram') : j \in Keys \ {k}
      BY <1>5, <2>2 DEF Book!Real
    <3>2. \A j \in Book!Real(ram') \ again' : j \notin again
      BY <1>3, <1>4, <1>5, <3>1 DEF Unexcused
    <3>3. QED
      BY <1>1, <1>3, <1>5, <2>2, <3>1, <3>2
  <2>6. fresh => \A j \in Keys \ notes : j \in listed <=> j \in Book!Real(ram)
    BY <1>1 DEF BookInv, ListInv, Due
  <2>7. fresh => \A j \in Keys \ notes' : j \in listed' <=> j \in Book!Real(ram')
    BY <1>5, <2>1, <2>2, <2>6
  <2>8. QED
    BY <1>1, <1>4, <2>3, <2>4, <2>5, <2>7, QuietKeeps
<1>6. CASE ram' # new
  <2>1. ram' = ram /\ notes' = notes /\ listed' = listed
    BY <1>1, <1>4, <1>6 DEF Book!Here
  <2>2. Renewed(ram')
    BY <2>1 DEF Renewed
  <2>3. QED
    BY <1>1, <1>4, <2>1, <2>2, ChangedKeeps
<1>7. QED
  BY <1>5, <1>6

-----------------------------------------------------------------------------
(* The connection.                                                         *)

(* What leaves the book and the watermark alone.                           *)
LEMMA SameBook ==
    ASSUME BookInv, UNCHANGED <<ram, sql, mark, lost>>, BookTypes',
           synced' <= Book!Seen \/ synced' <= lost, dump'.end <= Book!Seen, NewerInv', ListInv'
    PROVE  BookInv'
<1>1. Book!Seen' = Book!Seen /\ Book!OnlyReal(ram)' = Book!OnlyReal(ram)
  BY SeenIs DEF Book!OnlyReal, Book!Real
<1>2. QED
  BY <1>1 DEF BookInv, EndsSeen

(* It begins or ends, and what waits to be announced is announced.         *)
LEMMA LinkKeeps ==
    ASSUME Book!ContactsAssumption, BookInv,
           Book!Connect \/ Book!Disconnect \/ Book!Notify \/ Book!ImportReads
    PROVE  BookInv'
<1>0. BookTypes /\ EndsSeen /\ NewerInv /\ ListInv /\ UNCHANGED <<ram, sql, mark, copy, synced, lost, again>>
  BY DEF BookInv, Book!Connect, Book!Disconnect, Book!Notify, Book!ImportReads
<1>1. Book!Real(ram)' = Book!Real(ram) /\ Book!Real(ram) \subseteq Keys
  BY <1>0 DEF Book!Real
<1>2. CASE Book!Connect \/ Book!ImportReads
  <2>1. UNCHANGED <<dump, notes, listed, fresh>> /\ linked' \in BOOLEAN /\ (linked => linked')
    BY <1>0, <1>2 DEF Book!Connect, Book!ImportReads, BookTypes
  <2>2. BookTypes' /\ NewerInv' /\ ListInv'
    <3>1. BookTypes'
      BY <1>0, <2>1 DEF BookTypes
    <3>2. NewerInv'
      BY <1>0, <1>1, <2>1 DEF NewerInv, Newer, Due
    <3>3. ListInv'
      BY <1>0, <1>1, <2>1 DEF ListInv, Due
    <3>4. QED
      BY <3>1, <3>2, <3>3
  <2>3. QED
    BY <1>0, <2>1, <2>2, SameBook DEF EndsSeen
<1>3. CASE Book!Disconnect
  <2>1. dump' = Book!NoDump /\ notes' = {} /\ fresh' = FALSE /\ linked' = FALSE /\ listed' = listed
    BY <1>3 DEF Book!Disconnect
  <2>2. /\ dump'.rest = {} /\ dump'.end = 0 /\ dump'.on = FALSE
        /\ dump' \in [rest : SUBSET [key : Keys, rev : Nat], end : Nat, all : BOOLEAN, on : BOOLEAN]
    BY <2>1 DEF Book!NoDump
  <2>3. BookTypes'
    BY <1>0, <2>1, <2>2 DEF BookTypes
  <2>4. NewerInv'
    BY <1>0, <1>1, <2>2 DEF NewerInv, Newer
  <2>5. ListInv'
    BY <2>1, <2>2 DEF ListInv
  <2>6. Book!Seen \in Nat
    BY <1>0, SeenIs, SeenFacts DEF BookTypes
  <2>7. QED
    BY <1>0, <2>2, <2>3, <2>4, <2>5, <2>6, SameBook DEF EndsSeen
<1>4. CASE Book!Notify
  <2>1. PICK k \in notes :
           /\ notes' = notes \ {k}
           /\ listed' = IF k \in Book!Real(ram) THEN listed \cup {k} ELSE listed \ {k}
    BY <1>4 DEF Book!Notify
  <2>2. ~dump.on /\ UNCHANGED <<dump, linked, fresh>>
    BY <1>4 DEF Book!Notify
  <2>3. BookTypes'
    BY <1>0, <1>1, <2>1, <2>2 DEF BookTypes
  <2>4. NewerInv'
    BY <1>0, <1>1, <2>2 DEF NewerInv, Newer, Due
  <2>5. ListInv'
    <3>1. dump.rest = {} /\ (fresh => linked)
      BY <1>0, <2>2 DEF ListInv
    <3>2. fresh => \A j \in Keys \ notes : j \in listed <=> j \in Book!Real(ram)
      BY <1>0, <2>2, <3>1 DEF ListInv, Due
    <3>3. fresh => \A j \in Keys \ notes' : j \in listed' <=> j \in Book!Real(ram)
      BY <2>1, <3>2
    <3>4. QED
      BY <1>1, <2>2, <3>1, <3>3 DEF ListInv, Due
  <2>6. QED
    BY <1>0, <2>2, <2>3, <2>4, <2>5, SameBook DEF EndsSeen
<1>5. QED
  BY <1>2, <1>3, <1>4

(* A dump begins: what the app has not, or not as it is, is due.           *)
LEMMA GetKeeps ==
    ASSUME Book!ContactsAssumption, BookInv, Book!GetContacts
    PROVE  BookInv'
<1>0. BookTypes /\ EndsSeen /\ NewerInv /\ ListInv
      /\ UNCHANGED <<ram, sql, mark, notes, linked, copy, synced, fresh, lost, again>> /\ linked /\ ~dump.on
  BY DEF BookInv, Book!GetContacts
<1>1. PICK all \in BOOLEAN :
         LET chosen == {k \in Book!Real(ram) : all \/ ram[k].rev > synced}
         IN /\ dump' = [rest |-> {[key |-> k, rev |-> ram[k].rev] : k \in chosen},
                        end |-> Book!TopRev(chosen), all |-> all, on |-> TRUE]
            /\ listed' = IF all THEN {} ELSE listed
  BY DEF Book!GetContacts
<1> DEFINE chosen == {k \in Book!Real(ram) : all \/ ram[k].rev > synced}
           rest == {[key |-> k, rev |-> ram[k].rev] : k \in chosen}
<1>2. /\ dump'.rest = rest /\ dump'.end = Book!TopRev(chosen) /\ dump'.all = all /\ dump'.on = TRUE
      /\ dump' = [rest |-> rest, end |-> Book!TopRev(chosen), all |-> all, on |-> TRUE]
      /\ listed' = IF all THEN {} ELSE listed
  BY <1>1
<1>3. Book!Real(ram)' = Book!Real(ram) /\ Book!Real(ram) \subseteq Keys
  BY <1>0 DEF Book!Real
<1>4. chosen \subseteq Keys /\ \A k \in Keys : ram[k].rev \in Nat /\ ram[k].rev <= Book!Seen
  BY <1>0, <1>3, SeenIs, SeenFacts DEF BookTypes
<1>5. Book!TopRev(chosen) \in Nat /\ Book!TopRev(chosen) <= Book!Seen
  <2>1. Book!TopRev(chosen) = TopIn(ram, chosen)
    BY DEF Book!TopRev, TopIn
  <2>2. Book!Seen \in Nat
    BY <1>0, SeenIs, SeenFacts DEF BookTypes
  <2>3. TopIn(ram, chosen) \in Nat
        /\ (TopIn(ram, chosen) = 0 \/ \E k \in chosen : TopIn(ram, chosen) = ram[k].rev)
    <3> HIDE DEF chosen
    <3>1. ram \in [Keys -> ContactType] /\ chosen \in SUBSET Keys
      BY <1>0, <1>4 DEF BookTypes
    <3>2. QED
      BY <3>1, TopFacts
  <2> HIDE DEF chosen
  <2>4. QED
    BY <1>4, <2>1, <2>2, <2>3
<1>6. rest \subseteq [key : Keys, rev : Nat]
  BY <1>4
<1>7. BookTypes'
  <2> HIDE DEF rest, chosen
  <2>1. dump' \in [rest : SUBSET [key : Keys, rev : Nat], end : Nat, all : BOOLEAN, on : BOOLEAN]
    BY <1>2, <1>5, <1>6
  <2>2. listed' \subseteq Keys
    BY <1>0, <1>2 DEF BookTypes
  <2>3. QED
    BY <1>0, <2>1, <2>2 DEF BookTypes
<1>8. /\ \A k : Due(k)' <=> k \in chosen
      /\ \A c \in dump'.rest : c.key \in chosen /\ c.rev = ram[c.key].rev
  <2>1. \A c \in rest : c.key \in chosen /\ c.rev = ram[c.key].rev
    OBVIOUS
  <2>2. ASSUME NEW k \in chosen PROVE \E c \in rest : c.key = k
    <3>1. [key |-> k, rev |-> ram[k].rev] \in rest
      OBVIOUS
    <3>2. QED
      BY <3>1
  <2> HIDE DEF rest, chosen
  <2>3. \A k : Due(k)' <=> \E c \in rest : c.key = k
    BY <1>2 DEF Due
  <2>4. QED
    BY <1>2, <2>1, <2>2, <2>3
<1>9. NewerInv'
  <2> SUFFICES ASSUME NEW k \in Book!Real(ram) \ again PROVE Newer(k, ram[k].rev)'
    BY <1>0, <1>3 DEF NewerInv
  <2>1. Newer(k, ram[k].rev)
    BY <1>0 DEF NewerInv
  <2>2. copy[k] # ram[k].rev => ram[k].rev > synced /\ Due(k)'
    BY <1>8, <2>1 DEF Newer
  <2> HIDE DEF chosen
  <2>3. QED
    BY <1>0, <1>2, <1>8, <2>2 DEF Newer
<1>10. ListInv'
  <2> SUFFICES ASSUME fresh \/ all, NEW k \in Keys \ notes
               PROVE  k \in listed' \/ k \in chosen <=> k \in Book!Real(ram)
    BY <1>0, <1>2, <1>3, <1>8 DEF ListInv
  <2>1. CASE all
    BY <1>2, <2>1
  <2>2. CASE ~all
    <3>1. k \in listed <=> k \in Book!Real(ram)
      BY <1>0, <2>2 DEF ListInv, Due
    <3>2. QED
      BY <1>2, <2>2, <3>1
  <2>3. QED
    BY <2>1, <2>2
<1>11. QED
  BY <1>0, <1>2, <1>5, <1>7, <1>9, <1>10, SameBook DEF EndsSeen

(* A contact of it is sent, maybe not as it is by now.                     *)
LEMMA SendKeeps ==
    ASSUME Book!ContactsAssumption, BookInv, Book!SendContact
    PROVE  BookInv'
<1>0. BookTypes /\ EndsSeen /\ NewerInv /\ ListInv
      /\ UNCHANGED <<ram, sql, mark, notes, linked, synced, fresh, lost, again>> /\ dump.on
  BY DEF BookInv, Book!SendContact
<1>1. PICK c \in dump.rest :
         /\ dump' = [dump EXCEPT !.rest = @ \ {c}]
         /\ listed' = listed \cup {c.key}
         /\ copy' = [copy EXCEPT ![c.key] = c.rev]
  BY DEF Book!SendContact
<1>2. c.key \in Keys /\ c.rev \in Nat
  BY <1>0 DEF BookTypes
<1>3. /\ dump'.rest = dump.rest \ {c} /\ dump'.end = dump.end /\ dump'.all = dump.all
      /\ dump'.on = dump.on
      /\ dump' \in [rest : SUBSET [key : Keys, rev : Nat], end : Nat, all : BOOLEAN, on : BOOLEAN]
  BY <1>0, <1>1 DEF BookTypes
<1>4. Book!Real(ram)' = Book!Real(ram) /\ Book!Real(ram) \subseteq Keys
  BY <1>0 DEF Book!Real
<1>5. \A k : k # c.key => (Due(k)' <=> Due(k))
  BY <1>3 DEF Due
<1>6. BookTypes'
  BY <1>0, <1>1, <1>2, <1>3 DEF BookTypes
<1>7. NewerInv'
  <2> SUFFICES ASSUME NEW k \in Book!Real(ram) \ again PROVE Newer(k, ram[k].rev)'
    BY <1>0, <1>4 DEF NewerInv
  <2>1. Newer(k, ram[k].rev)
    BY <1>0 DEF NewerInv
  <2>2. CASE k = c.key
    <3>1. copy'[k] = c.rev
      BY <1>0, <1>1, <1>2, <2>2 DEF BookTypes
    <3>2. c.rev # ram[k].rev => ram[k].rev > synced /\ ram[k].rev > dump.end
      BY <2>1, <2>2 DEF Newer
    <3>3. QED
      BY <1>0, <1>3, <2>1, <3>1, <3>2 DEF Newer
  <2>3. CASE k # c.key
    <3>1. copy'[k] = copy[k]
      BY <1>0, <1>1, <2>3 DEF BookTypes
    <3>2. QED
      BY <1>0, <1>3, <1>5, <2>1, <2>3, <3>1 DEF Newer
  <2>4. QED
    BY <2>2, <2>3
<1>8. ListInv'
  <2> SUFFICES ASSUME fresh \/ dump.all, NEW k \in Keys \ notes
               PROVE  k \in listed' \/ Due(k)' <=> k \in Book!Real(ram)
    BY <1>0, <1>3, <1>4 DEF ListInv
  <2>1. k \in listed \/ Due(k) <=> k \in Book!Real(ram)
    BY <1>0 DEF ListInv
  <2>2. CASE k = c.key
    BY <1>1, <2>1, <2>2 DEF Due
  <2>3. CASE k # c.key
    BY <1>1, <1>5, <2>1, <2>3
  <2>4. QED
    BY <2>2, <2>3
<1>9. QED
  BY <1>0, <1>3, <1>6, <1>7, <1>8, SameBook DEF EndsSeen

(* It ends.                                                                *)
LEMMA EndKeeps ==
    ASSUME Book!ContactsAssumption, BookInv, Book!EndDump
    PROVE  BookInv'
<1>0. BookTypes /\ EndsSeen /\ NewerInv /\ ListInv
      /\ UNCHANGED <<ram, sql, mark, notes, linked, listed, copy, lost, again>>
      /\ dump.on /\ dump.rest = {} /\ dump' = Book!NoDump
      /\ synced' = Book!Max({synced, dump.end}) /\ fresh' = (fresh \/ dump.all)
  BY DEF BookInv, Book!EndDump, Book!End
<1>1. synced \in Nat /\ dump.end \in Nat
  BY <1>0 DEF BookTypes
<1>2. synced' \in Nat /\ synced' \in {synced, dump.end}
  BY <1>0, <1>1, BookMaxOfTwo
<1>3. /\ dump'.rest = {} /\ dump'.end = 0 /\ dump'.on = FALSE
      /\ dump' \in [rest : SUBSET [key : Keys, rev : Nat], end : Nat, all : BOOLEAN, on : BOOLEAN]
  BY <1>0 DEF Book!NoDump
<1>4. Book!Real(ram)' = Book!Real(ram) /\ Book!Real(ram) \subseteq Keys
  BY <1>0 DEF Book!Real
<1>5. BookTypes'
  <2>1. fresh' \in BOOLEAN
    BY <1>0
  <2>2. QED
    BY <1>0, <1>2, <1>3, <2>1 DEF BookTypes
<1>6. NewerInv'
  <2> SUFFICES ASSUME NEW k \in Book!Real(ram) \ again PROVE Newer(k, ram[k].rev)'
    BY <1>0, <1>4 DEF NewerInv
  <2>1. Newer(k, ram[k].rev) /\ ~Due(k)
    BY <1>0 DEF NewerInv, Due
  <2>2. copy[k] # ram[k].rev => ram[k].rev > synced'
    BY <1>0, <1>2, <2>1 DEF Newer
  <2>3. QED
    BY <1>0, <1>3, <2>2 DEF Newer
<1>7. ListInv'
  <2>1. linked
    BY <1>0 DEF ListInv
  <2>2. fresh \/ dump.all => \A k \in Keys \ notes : k \in listed <=> k \in Book!Real(ram)
    BY <1>0 DEF ListInv, Due
  <2>3. QED
    BY <1>0, <1>3, <1>4, <2>1, <2>2 DEF ListInv, Due
<1>8. Book!Seen \in Nat
  BY <1>0, SeenIs, SeenFacts DEF BookTypes
<1>9. (synced' <= Book!Seen \/ synced' <= lost) /\ dump'.end <= Book!Seen
  BY <1>0, <1>2, <1>3, <1>8 DEF EndsSeen
<1>10. QED
  BY <1>0, <1>5, <1>6, <1>7, <1>9, SameBook

(* The final save, and another process with what was saved.                *)
LEMMA StopKeeps ==
    ASSUME Book!ContactsAssumption, BookInv, Book!FinalSave \/ Book!Restart
    PROVE  BookInv'
<1>0. /\ BookTypes /\ EndsSeen /\ NewerInv /\ ListInv
      /\ ram \in [Keys -> ContactType] /\ mark \in Nat /\ lost \in Nat
      /\ sql = Book!OnlyReal(ram)
  BY DEF BookInv, BookTypes
<1>1. CASE Book!FinalSave
  <2>1. /\ sql' = sql
        /\ UNCHANGED <<ram, mark, dump, notes, linked, listed, copy, synced, fresh, lost, again>>
    BY <1>0, <1>1 DEF Book!FinalSave
  <2>2. Book!Real(ram)' = Book!Real(ram)
    BY <2>1 DEF Book!Real
  <2>3. BookTypes'
    BY <1>0, <2>1 DEF BookTypes
  <2>4. NewerInv'
    BY <1>0, <2>1, <2>2 DEF NewerInv, Newer, Due
  <2>5. ListInv'
    BY <1>0, <2>1, <2>2 DEF ListInv, Due
  <2>6. QED
    BY <1>0, <2>1, <2>3, <2>4, <2>5, SameBook DEF EndsSeen
<1>2. CASE Book!Restart
  <2>1. /\ ram' = sql /\ sql' = sql /\ mark' = 0 /\ dump' = Book!NoDump
        /\ notes' = {} /\ linked' = FALSE /\ fresh' = FALSE
        /\ lost' = Book!Max({lost, Book!Seen}) /\ UNCHANGED <<listed, copy, synced, again>>
    BY <1>2 DEF Book!Restart
  <2>2. Book!Gone \in ContactType /\ Book!Gone.kind = "none"
    BY DEF ContactType, Book!Gone
  <2>3. /\ ram' \in [Keys -> ContactType]
        /\ \A k \in Keys : ram'[k] = IF k \in Book!Real(ram) THEN ram[k] ELSE Book!Gone
    BY <1>0, <2>1, <2>2 DEF Book!OnlyReal
  <2>4. Book!Real(ram') = Book!Real(ram) /\ Book!Real(ram)' = Book!Real(ram')
    BY <2>2, <2>3 DEF Book!Real
  <2>5. sql' = Book!OnlyReal(ram)'
    BY <1>0, <2>1, <2>3, <2>4 DEF Book!OnlyReal
  <2>6. Book!Seen \in Nat
    BY <1>0, SeenIs, SeenFacts
  <2>7. Book!Seen' \in Nat
    BY <2>1, <2>3, SeenIs, SeenFacts
  <2>14. lost' \in Nat /\ lost' >= lost /\ lost' >= Book!Seen
    BY <1>0, <2>1, <2>6, BookMaxOfTwo
  <2>8. /\ dump'.rest = {} /\ dump'.end = 0 /\ dump'.on = FALSE
        /\ dump' \in [rest : SUBSET [key : Keys, rev : Nat], end : Nat, all : BOOLEAN,
                      on : BOOLEAN]
    BY <2>1 DEF Book!NoDump
  <2>9. BookTypes'
    BY <1>0, <2>1, <2>3, <2>8, <2>14 DEF BookTypes
  <2>10. EndsSeen'
    <3>1. synced \in Nat /\ (synced <= Book!Seen \/ synced <= lost)
      BY <1>0 DEF BookTypes, EndsSeen
    <3>2. synced' <= lost'
      BY <1>0, <2>1, <2>6, <2>14, <3>1
    <3>3. QED
      BY <2>7, <2>8, <3>2 DEF EndsSeen
  <2>11. NewerInv'
    <3> SUFFICES ASSUME NEW k \in Book!Real(ram) \ again PROVE Newer(k, ram[k].rev)'
      BY <2>1, <2>4 DEF NewerInv
    <3>1. Newer(k, ram[k].rev) /\ ram'[k] = ram[k]
      BY <1>0, <2>3 DEF NewerInv, Book!Real
    <3>2. QED
      BY <2>1, <2>8, <3>1 DEF Newer
  <2>12. ListInv'
    BY <2>1, <2>8 DEF ListInv
  <2>13. QED
    BY <2>5, <2>9, <2>10, <2>11, <2>12 DEF BookInv
<1>3. QED
  BY <1>1, <1>2

(* The invariant holds at the start.                                       *)
LEMMA BookStart == Book!ContactsAssumption /\ Book!Init => BookInv
<1> SUFFICES ASSUME Book!ContactsAssumption, Book!Init PROVE BookInv
  OBVIOUS
<1>1. /\ ram = [k \in Keys |-> Book!Gone] /\ sql = [k \in Keys |-> Book!Gone] /\ mark = 0
      /\ dump = Book!NoDump /\ notes = {} /\ linked = FALSE /\ listed = {}
      /\ copy = [k \in Keys |-> 0] /\ synced = 0 /\ fresh = FALSE /\ lost = 0
  BY DEF Book!Init
<1>2. Book!Gone \in ContactType /\ Book!Gone.kind = "none"
  BY DEF ContactType, Book!Gone
<1>3. /\ dump.rest = {} /\ dump.end = 0 /\ dump.on = FALSE
      /\ dump \in [rest : SUBSET [key : Keys, rev : Nat], end : Nat, all : BOOLEAN, on : BOOLEAN]
  BY <1>1 DEF Book!NoDump
<1>4. BookTypes
  BY <1>1, <1>2, <1>3 DEF BookTypes
<1>5. Book!Real(ram) = {} /\ sql = Book!OnlyReal(ram)
  BY <1>1, <1>2 DEF Book!Real, Book!OnlyReal
<1>6. EndsSeen
  <2>1. Book!Seen \in Nat
    BY <1>4, SeenIs, SeenFacts DEF BookTypes
  <2>2. QED
    BY <1>1, <1>3, <2>1 DEF EndsSeen
<1>7. NewerInv /\ ListInv
  BY <1>1, <1>3, <1>5 DEF NewerInv, ListInv
<1>8. QED
  BY <1>4, <1>5, <1>6, <1>7 DEF BookInv

(* Every step keeps the invariant.                                         *)
LEMMA BookStep ==
    ASSUME Book!ContactsAssumption, BookInv, [Book!Next]_(Book!vars)
    PROVE  BookInv'
<1>1. CASE UNCHANGED Book!vars
  <2>1. /\ BookTypes /\ EndsSeen /\ NewerInv /\ ListInv
        /\ UNCHANGED <<ram, sql, mark, dump, notes, linked, listed, copy, synced, fresh,
                      lost, again>>
    BY <1>1 DEF BookInv, Book!vars
  <2>2. Book!Real(ram)' = Book!Real(ram)
    BY <2>1 DEF Book!Real
  <2>3. BookTypes'
    BY <2>1 DEF BookTypes
  <2>4. NewerInv'
    BY <2>1, <2>2 DEF NewerInv, Newer, Due
  <2>5. ListInv'
    BY <2>1, <2>2 DEF ListInv, Due
  <2>6. QED
    BY <2>1, <2>3, <2>4, <2>5, SameBook DEF EndsSeen
<1>2. CASE Book!Next
  BY <1>2, AdvertKeeps, TouchKeeps, AppUpdateKeeps, AppRemoveKeeps, ImportKeeps, LinkKeeps,
     GetKeeps, SendKeeps, EndKeeps, StopKeeps DEF Book!Next
<1>3. QED
  BY <1>1, <1>2

(* The invariant holds throughout, for any keys, capacities, readings of   *)
(* the clock and number of refused saves.                                  *)
THEOREM BookInvariant == Book!ContactsAssumption => (Book!Spec => []BookInv)
<1> SUFFICES ASSUME Book!ContactsAssumption PROVE Book!Spec => []BookInv
  OBVIOUS
<1>1. Book!Init => BookInv
  BY BookStart
<1>2. BookInv /\ [Book!Next]_(Book!vars) => BookInv'
  BY BookStep
<1>3. QED
  BY <1>1, <1>2, PTL DEF Book!Spec

(* Whatever is heard, imported or refused, and though the clock goes back, *)
(* the copy on disk is what is in RAM, a contact the app has in another    *)
(* version comes with its next synchronisation, unless its revision is no  *)
(* later than what the process before a restart gave, and an app that has  *)
(* listed everything lists what is there (contact_import.py:77,            *)
(* frame_server_lifecycle.py:224-227, contact_commands.py:66-68).          *)
THEOREM ContactsStayInStep == Book!ContactsAssumption => (Book!Spec => []Book!ContactsAgree)
<1> SUFFICES ASSUME Book!ContactsAssumption PROVE Book!Spec => []Book!ContactsAgree
  OBVIOUS
<1>1. ASSUME BookInv PROVE Book!ContactsAgree
  <2>1. \A k \in Book!Real(ram) \ again : copy[k] # ram[k].rev => ram[k].rev > synced
    BY <1>1 DEF BookInv, NewerInv, Newer
  <2>2. ASSUME fresh, ~dump.on, notes = {} PROVE listed = Book!Real(ram)
    <3>1. listed \subseteq Keys /\ Book!Real(ram) \subseteq Keys
      BY <1>1 DEF BookInv, BookTypes, Book!Real
    <3>2. \A k \in Keys : k \in listed <=> k \in Book!Real(ram)
      BY <1>1, <2>2 DEF BookInv, ListInv, Due
    <3>3. QED
      BY <3>1, <3>2
  <2>3. QED
    BY <1>1, <2>1, <2>2 DEF BookInv, Book!ContactsAgree
<1>2. QED
  BY <1>1, BookInvariant, PTL

-----------------------------------------------------------------------------
(* The messages of a companion: CompanionInbox.                            *)
CONSTANTS Letters, ChannelLetters, Places, MaxMishaps
VARIABLES box, marked, heard, stored, stage, admitted, offered, excused, mishaps

(* The inbox, its messages and its places under other names.               *)
Inbox == INSTANCE CompanionInbox WITH
    Messages <- Letters, Channel <- ChannelLetters, Capacity <- Places,
    MaxFaults <- MaxMishaps,
    ram <- box, pending <- marked, seen <- heard, sql <- stored, faults <- mishaps

(* Induction over sequences, with a set for the property.                  *)
LEMMA SequenceInduction ==
    ASSUME NEW S, NEW T, <<>> \in T,
           \A s \in Seq(S), x \in S : s \in T => Append(s, x) \in T
    PROVE  Seq(S) \subseteq T
<1> DEFINE N == {n \in Nat : \A s \in Seq(S) : Len(s) = n => s \in T}
<1>1. 0 \in N
  <2>1. \A s \in Seq(S) : Len(s) = 0 => s = <<>>
    OBVIOUS
  <2>2. QED
    BY <2>1
<1>2. ASSUME NEW n \in Nat, n \in N PROVE n + 1 \in N
  <2>1. ASSUME NEW s \in Seq(S), Len(s) = n + 1 PROVE s \in T
    <3>1. s # <<>>
      BY <2>1
    <3>2. PICK t \in Seq(S), x \in S : s = Append(t, x)
      BY <3>1, SequenceEmptyOrAppend
    <3>3. Len(t) = n
      BY <2>1, <3>2
    <3>4. QED
      BY <1>2, <3>2, <3>3
  <2>2. QED
    BY <2>1
<1>3. Nat \subseteq N
  <2> HIDE DEF N
  <2>1. QED
    BY <1>1, <1>2, SetInduction
<1>4. QED
  BY <1>3

(* What is left of the first i, for each i up to n.                        *)
SiftStep(f, i, s, S) ==
    IF i = 0 THEN <<>> ELSE IF s[i] \in S THEN f[i - 1] ELSE Append(f[i - 1], s[i])
(* f is what the recursion in Sifted asks for.                             *)
IsSift(f, n, s, S) == f = [i \in 0..n |-> SiftStep(f, i, s, S)]

(* The recursion in Sifted has a solution.                                 *)
LEMMA SiftExists ==
    ASSUME NEW s, NEW S, NEW n \in Nat
    PROVE  \E f : IsSift(f, n, s, S)
<1> DEFINE T == {m \in Nat : \E f : IsSift(f, m, s, S)}
<1>1. 0 \in T
  <2> DEFINE f == [i \in 0..0 |-> <<>>]
  <2>1. f = [i \in 0..0 |-> SiftStep(f, i, s, S)]
    BY DEF SiftStep
  <2>2. QED
    BY <2>1 DEF IsSift
<1>2. ASSUME NEW m \in Nat, m \in T PROVE m + 1 \in T
  <2>1. PICK f : IsSift(f, m, s, S)
    BY <1>2
  <2> DEFINE g == [i \in 0..(m + 1) |-> SiftStep(f, i, s, S)]
  <2>2. \A i \in 0..m : g[i] = f[i]
    BY <2>1 DEF IsSift
  <2>3. ASSUME NEW i \in 0..(m + 1)
        PROVE  SiftStep(f, i, s, S) = SiftStep(g, i, s, S)
    <3>1. CASE i = 0
      BY <3>1 DEF SiftStep
    <3>2. CASE i # 0
      <4>1. i - 1 \in 0..m
        BY <3>2
      <4>2. g[i - 1] = f[i - 1]
        BY <2>2, <4>1
      <4> HIDE DEF g
      <4>3. QED
        BY <4>2 DEF SiftStep
    <3>3. QED
      BY <3>1, <3>2
  <2>4. g = [i \in 0..(m + 1) |-> SiftStep(g, i, s, S)]
    <3> HIDE DEF g
    <3>1. g = [i \in 0..(m + 1) |-> SiftStep(f, i, s, S)]
      BY DEF g
    <3>2. [i \in 0..(m + 1) |-> SiftStep(f, i, s, S)]
             = [i \in 0..(m + 1) |-> SiftStep(g, i, s, S)]
      BY <2>3
    <3>3. QED
      BY <3>1, <3>2
  <2> HIDE DEF g
  <2>5. QED
    BY <2>4 DEF IsSift
<1>3. Nat \subseteq T
  <2> HIDE DEF T
  <2>1. QED
    BY <1>1, <1>2, SetInduction
<1>4. QED
  BY <1>3

(* So Sifted is one.                                                       *)
LEMMA SiftedIs ==
    ASSUME NEW M, NEW s \in Seq(M), NEW S
    PROVE  IsSift(Inbox!Sifted(s, S), Len(s), s, S)
<1>0. Len(s) \in Nat
  OBVIOUS
<1>1. PICK f : IsSift(f, Len(s), s, S)
  BY <1>0, SiftExists
<1>2. QED
  BY <1>1 DEF Inbox!Sifted, IsSift, SiftStep

(* Of nothing, nothing is left.                                            *)
LEMMA MinusEmpty ==
    ASSUME NEW S
    PROVE  Inbox!Minus(<<>>, S) = <<>>
<1>1. <<>> \in Seq({}) /\ Len(<<>>) = 0
  OBVIOUS
<1>2. IsSift(Inbox!Sifted(<<>>, S), 0, <<>>, S)
  BY <1>1, SiftedIs
<1>3. Inbox!Sifted(<<>>, S)[0] = <<>>
  BY <1>2 DEF IsSift, SiftStep
<1>4. QED
  BY <1>1, <1>3 DEF Inbox!Minus

(* What is left when one more comes.                                       *)
LEMMA MinusAppend ==
    ASSUME NEW M, NEW s \in Seq(M), NEW x \in M, NEW S
    PROVE  Inbox!Minus(Append(s, x), S)
              = IF x \in S THEN Inbox!Minus(s, S) ELSE Append(Inbox!Minus(s, S), x)
<1> DEFINE t == Append(s, x)
           n == Len(s)
           f == Inbox!Sifted(s, S)
           g == Inbox!Sifted(t, S)
<1>1. /\ t \in Seq(M) /\ n \in Nat /\ Len(t) = n + 1 /\ t[n + 1] = x
      /\ \A i \in 1..n : t[i] = s[i]
  OBVIOUS
<1>2. IsSift(f, n, s, S) /\ IsSift(g, n + 1, t, S)
  BY <1>1, SiftedIs
<1> HIDE DEF t, f, g
<1>3. /\ \A i \in 0..n : f[i] = SiftStep(f, i, s, S)
      /\ \A i \in 0..(n + 1) : g[i] = SiftStep(g, i, t, S)
  BY <1>1, <1>2 DEF IsSift
<1> DEFINE T == {i \in Nat : i <= n => f[i] = g[i]}
<1>4. 0 \in T
  BY <1>1, <1>3 DEF SiftStep
<1>5. ASSUME NEW i \in Nat, i \in T PROVE i + 1 \in T
  <2>1. SUFFICES ASSUME i + 1 <= n PROVE f[i + 1] = g[i + 1]
    OBVIOUS
  <2>2. i + 1 \in 0..n /\ i + 1 \in 0..(n + 1) /\ i + 1 \in 1..n /\ (i + 1) - 1 = i /\ i + 1 # 0
    BY <1>1, <2>1
  <2>3. f[i] = g[i] /\ s[i + 1] = t[i + 1]
    BY <1>1, <1>5, <2>1, <2>2
  <2>4. f[i + 1] = SiftStep(f, i + 1, s, S) /\ g[i + 1] = SiftStep(g, i + 1, t, S)
    BY <1>3, <2>2
  <2>5. QED
    BY <2>2, <2>3, <2>4 DEF SiftStep
<1>6. f[n] = g[n]
  <2>1. Nat \subseteq T
    <3> HIDE DEF T
    <3>1. QED
      BY <1>4, <1>5, SetInduction
  <2>2. QED
    BY <1>1, <2>1
<1>7. g[n + 1] = IF x \in S THEN g[n] ELSE Append(g[n], x)
  <2>1. n + 1 \in 0..(n + 1) /\ n + 1 # 0 /\ (n + 1) - 1 = n
    BY <1>1
  <2>2. g[n + 1] = SiftStep(g, n + 1, t, S)
    BY <1>3, <2>1
  <2>3. QED
    BY <1>1, <2>1, <2>2 DEF SiftStep
<1>8. Inbox!Minus(s, S) = f[n] /\ Inbox!Minus(t, S) = g[n + 1]
  BY <1>1 DEF Inbox!Minus, f, g
<1>9. QED
  BY <1>6, <1>7, <1>8 DEF t

(* The members of a sequence.                                              *)
Elements(s) == {s[i] : i \in 1..Len(s)}

(* The members of the sequences that others are made of.                   *)
LEMMA ElementsFacts ==
    ASSUME NEW M
    PROVE  /\ Elements(<<>>) = {}
           /\ \A s \in Seq(M), x \in M : Elements(Append(s, x)) = Elements(s) \cup {x}
           /\ \A s, t \in Seq(M) : Elements(s \o t) = Elements(s) \cup Elements(t)
           /\ \A s \in Seq(M) : Elements(s) \subseteq M
<1>1. Elements(<<>>) = {}
  BY DEF Elements
<1>2. ASSUME NEW s \in Seq(M), NEW x \in M
      PROVE  Elements(Append(s, x)) = Elements(s) \cup {x}
  <2>1. /\ Len(s) \in Nat /\ Len(Append(s, x)) = Len(s) + 1
        /\ \A i \in 1..Len(s) : Append(s, x)[i] = s[i]
        /\ Append(s, x)[Len(s) + 1] = x
    OBVIOUS
  <2> DEFINE t == Append(s, x)
  <2> HIDE DEF t
  <2>2. Elements(t) \subseteq Elements(s) \cup {x}
    BY <2>1 DEF Elements, t
  <2>3. ASSUME NEW y \in Elements(s) PROVE y \in Elements(t)
    BY <2>1 DEF Elements, t
  <2>4. x \in Elements(t)
    BY <2>1 DEF Elements, t
  <2>5. QED
    BY <2>2, <2>3, <2>4 DEF t
<1>3. ASSUME NEW s \in Seq(M), NEW t \in Seq(M)
      PROVE  Elements(s \o t) = Elements(s) \cup Elements(t)
  <2> DEFINE u == s \o t
  <2>1. /\ Len(s) \in Nat /\ Len(t) \in Nat /\ Len(u) = Len(s) + Len(t)
        /\ \A i \in 1..(Len(s) + Len(t)) : u[i] = IF i <= Len(s) THEN s[i] ELSE t[i - Len(s)]
    BY ConcatProperties
  <2> HIDE DEF u
  <2>2. \A i \in 1..Len(s) : u[i] = s[i] /\ i \in 1..Len(u)
    BY <2>1
  <2>3. \A i \in 1..Len(t) : u[i + Len(s)] = t[i] /\ i + Len(s) \in 1..Len(u)
    BY <2>1
  <2>4. \A i \in 1..Len(u) : \/ i \in 1..Len(s) /\ u[i] = s[i]
                             \/ i - Len(s) \in 1..Len(t) /\ u[i] = t[i - Len(s)]
    BY <2>1
  <2>5. Elements(u) \subseteq Elements(s) \cup Elements(t)
    BY <2>4 DEF Elements
  <2>6. Elements(s) \cup Elements(t) \subseteq Elements(u)
    BY <2>2, <2>3 DEF Elements
  <2>7. QED
    BY <2>5, <2>6 DEF u
<1>4. \A s \in Seq(M) : Elements(s) \subseteq M
  BY DEF Elements
<1>5. QED
  BY <1>1, <1>2, <1>3, <1>4

(* What is left is a sequence of the members outside S.                    *)
LEMMA MinusElements ==
    ASSUME NEW M, NEW S
    PROVE  \A s \in Seq(M) : /\ Inbox!Minus(s, S) \in Seq(M)
                             /\ Elements(Inbox!Minus(s, S)) = Elements(s) \ S
<1> DEFINE T == {s \in Seq(M) : /\ Inbox!Minus(s, S) \in Seq(M)
                                /\ Elements(Inbox!Minus(s, S)) = Elements(s) \ S}
<1>1. <<>> \in T
  <2>1. <<>> \in Seq(M) /\ Inbox!Minus(<<>>, S) = <<>> /\ Elements(<<>>) = {}
    BY MinusEmpty, ElementsFacts
  <2>2. QED
    BY <2>1
<1>2. ASSUME NEW s \in Seq(M), NEW x \in M, s \in T PROVE Append(s, x) \in T
  <2>1. Inbox!Minus(s, S) \in Seq(M) /\ Elements(Inbox!Minus(s, S)) = Elements(s) \ S
    BY <1>2
  <2>2. Append(s, x) \in Seq(M) /\ Elements(Append(s, x)) = Elements(s) \cup {x}
    BY ElementsFacts
  <2>3. CASE x \in S
    BY <2>1, <2>2, <2>3, MinusAppend
  <2>4. CASE x \notin S
    <3>1. /\ Inbox!Minus(Append(s, x), S) = Append(Inbox!Minus(s, S), x)
          /\ Append(Inbox!Minus(s, S), x) \in Seq(M)
          /\ Elements(Append(Inbox!Minus(s, S), x)) = Elements(Inbox!Minus(s, S)) \cup {x}
      BY <2>1, <2>4, MinusAppend, ElementsFacts
    <3>2. QED
      BY <2>1, <2>2, <2>4, <3>1
  <2>5. QED
    BY <2>3, <2>4
<1>3. Seq(M) \subseteq T
  <2> HIDE DEF T
  <2>1. QED
    BY <1>1, <1>2, SequenceInduction
<1>4. QED
  BY <1>3

(* Twice is once with both.                                                *)
LEMMA MinusTwice ==
    ASSUME NEW M, NEW S, NEW U
    PROVE  \A s \in Seq(M) : Inbox!Minus(Inbox!Minus(s, S), U) = Inbox!Minus(s, S \cup U)
<1> DEFINE T == {s \in Seq(M) : Inbox!Minus(Inbox!Minus(s, S), U) = Inbox!Minus(s, S \cup U)}
<1>1. <<>> \in T
  <2>1. <<>> \in Seq(M) /\ Inbox!Minus(<<>>, S) = <<>>
    BY MinusEmpty
  <2>2. \A V : Inbox!Minus(<<>>, V) = <<>>
    BY MinusEmpty
  <2>3. QED
    BY <2>1, <2>2
<1>2. ASSUME NEW s \in Seq(M), NEW x \in M, s \in T PROVE Append(s, x) \in T
  <2> DEFINE k == Inbox!Minus(s, S)
  <2>1. k \in Seq(M)
    BY MinusElements
  <2>2. Inbox!Minus(k, U) = Inbox!Minus(s, S \cup U)
    BY <1>2
  <2>3. Inbox!Minus(Append(s, x), S) = IF x \in S THEN k ELSE Append(k, x)
    BY MinusAppend
  <2>4. Inbox!Minus(Append(s, x), S \cup U) =
           IF x \in S \cup U THEN Inbox!Minus(s, S \cup U)
           ELSE Append(Inbox!Minus(s, S \cup U), x)
    BY MinusAppend
  <2> HIDE DEF k
  <2>5. Inbox!Minus(Append(k, x), U) = IF x \in U THEN Inbox!Minus(k, U)
                                      ELSE Append(Inbox!Minus(k, U), x)
    BY <2>1, MinusAppend
  <2>6. Inbox!Minus(Inbox!Minus(Append(s, x), S), U) = Inbox!Minus(Append(s, x), S \cup U)
    BY <2>2, <2>3, <2>4, <2>5
  <2>7. QED
    BY <2>6
<1>3. Seq(M) \subseteq T
  <2> HIDE DEF T
  <2>1. QED
    BY <1>1, <1>2, SequenceInduction
<1>4. QED
  BY <1>3

(* Appending to two sequences in turn is appending to the second.          *)
LEMMA AppendOfConcat ==
    ASSUME NEW M, NEW s \in Seq(M), NEW t \in Seq(M), NEW x \in M
    PROVE  Append(s \o t, x) = s \o Append(t, x)
<1>1. s \o t \in Seq(M) /\ <<x>> \in Seq(M)
  BY ConcatProperties
<1>2. Append(s \o t, x) = (s \o t) \o <<x>> /\ Append(t, x) = t \o <<x>>
  BY <1>1, AppendIsConcat
<1>3. (s \o t) \o <<x>> = s \o (t \o <<x>>)
  BY <1>1, ConcatAssociative
<1>4. QED
  BY <1>2, <1>3

(* One after the other.                                                    *)
LEMMA MinusConcat ==
    ASSUME NEW M, NEW S, NEW s \in Seq(M)
    PROVE  \A t \in Seq(M) :
              Inbox!Minus(s \o t, S) = Inbox!Minus(s, S) \o Inbox!Minus(t, S)
<1> DEFINE T == {t \in Seq(M) :
                    Inbox!Minus(s \o t, S) = Inbox!Minus(s, S) \o Inbox!Minus(t, S)}
<1> DEFINE k == Inbox!Minus(s, S)
<1>1. k \in Seq(M)
  BY MinusElements
<1>2. <<>> \in T
  <2> HIDE DEF k
  <2>1. s \o <<>> = s /\ k \o <<>> = k /\ <<>> \in Seq(M)
    BY <1>1, ConcatEmptySeq
  <2>2. Inbox!Minus(<<>>, S) = <<>>
    BY MinusEmpty
  <2>3. Inbox!Minus(s \o <<>>, S) = k \o Inbox!Minus(<<>>, S)
    BY <2>1, <2>2 DEF k
  <2>4. QED
    BY <2>1, <2>3 DEF k
<1>3. ASSUME NEW t \in Seq(M), NEW x \in M, t \in T PROVE Append(t, x) \in T
  <2> DEFINE l == Inbox!Minus(t, S)
  <2>1. l \in Seq(M) /\ Inbox!Minus(s \o t, S) = k \o l
    BY <1>3, MinusElements
  <2>2. /\ s \o t \in Seq(M) /\ s \o Append(t, x) = Append(s \o t, x)
        /\ Append(t, x) \in Seq(M)
    BY AppendOfConcat, ConcatProperties
  <2>3. Inbox!Minus(Append(t, x), S) = IF x \in S THEN l ELSE Append(l, x)
    BY MinusAppend
  <2> DEFINE c == s \o t
  <2>4. Inbox!Minus(Append(c, x), S) =
           IF x \in S THEN Inbox!Minus(c, S) ELSE Append(Inbox!Minus(c, S), x)
    <3>1. c \in Seq(M)
      BY <2>2
    <3> HIDE DEF c
    <3>2. QED
      BY <3>1, MinusAppend
  <2> HIDE DEF k, l
  <2>5. k \o Append(l, x) = Append(k \o l, x)
    BY <1>1, <2>1, AppendOfConcat
  <2>6. Inbox!Minus(s \o Append(t, x), S) = k \o Inbox!Minus(Append(t, x), S)
    BY <2>1, <2>2, <2>3, <2>4, <2>5
  <2>7. QED
    BY <2>2, <2>6 DEF k
<1>4. Seq(M) \subseteq T
  <2> HIDE DEF T
  <2>1. QED
    BY <1>2, <1>3, SequenceInduction
<1>5. QED
  BY <1>4

(* Nothing goes of what has no member in S, everything of what has only    *)
(* such.                                                                   *)
LEMMA MinusExtremes ==
    ASSUME NEW M, NEW S
    PROVE  \A s \in Seq(M) : /\ Elements(s) \cap S = {} => Inbox!Minus(s, S) = s
                             /\ Elements(s) \subseteq S => Inbox!Minus(s, S) = <<>>
<1> DEFINE T == {s \in Seq(M) : /\ Elements(s) \cap S = {} => Inbox!Minus(s, S) = s
                                /\ Elements(s) \subseteq S => Inbox!Minus(s, S) = <<>>}
<1>1. <<>> \in T
  <2>1. <<>> \in Seq(M) /\ Inbox!Minus(<<>>, S) = <<>>
    BY MinusEmpty
  <2>2. \A V : Inbox!Minus(<<>>, V) = <<>>
    BY MinusEmpty
  <2>3. QED
    BY <2>1, <2>2
<1>2. ASSUME NEW s \in Seq(M), NEW x \in M, s \in T PROVE Append(s, x) \in T
  <2>1. Append(s, x) \in Seq(M) /\ Elements(Append(s, x)) = Elements(s) \cup {x}
    BY ElementsFacts
  <2>2. Inbox!Minus(Append(s, x), S)
              = IF x \in S THEN Inbox!Minus(s, S) ELSE Append(Inbox!Minus(s, S), x)
    BY MinusAppend
  <2>3. QED
    BY <1>2, <2>1, <2>2
<1>3. Seq(M) \subseteq T
  <2> HIDE DEF T
  <2>1. QED
    BY <1>1, <1>2, SequenceInduction
<1>4. QED
  BY <1>3
(* No member comes twice.                                                  *)
NoneTwice(s) == \A i, j \in 1..Len(s) : s[i] = s[j] => i = j

(* A member that is new keeps them apart.                                  *)
LEMMA NoneTwiceAppend ==
    ASSUME NEW M
    PROVE  /\ NoneTwice(<<>>)
           /\ \A s \in Seq(M), x \in M :
                 NoneTwice(Append(s, x)) <=> NoneTwice(s) /\ x \notin Elements(s)
<1>1. NoneTwice(<<>>)
  BY DEF NoneTwice
<1>2. ASSUME NEW s \in Seq(M), NEW x \in M
      PROVE  NoneTwice(Append(s, x)) <=> NoneTwice(s) /\ x \notin Elements(s)
  <2> DEFINE t == Append(s, x)
  <2>1. /\ Len(s) \in Nat /\ Len(t) = Len(s) + 1
        /\ \A i \in 1..Len(s) : t[i] = s[i]
        /\ t[Len(s) + 1] = x
    OBVIOUS
  <2> HIDE DEF t
  <2>2. ASSUME NoneTwice(t) PROVE NoneTwice(s) /\ x \notin Elements(s)
    <3>1. NoneTwice(s)
      BY <2>1, <2>2 DEF NoneTwice
    <3>2. \A i \in 1..Len(s) : t[i] # t[Len(s) + 1]
      BY <2>1, <2>2 DEF NoneTwice
    <3>3. QED
      BY <2>1, <3>1, <3>2 DEF Elements
  <2>3. ASSUME NoneTwice(s), x \notin Elements(s) PROVE NoneTwice(t)
    <3>1. \A i \in 1..Len(s) : s[i] # x
      BY <2>3 DEF Elements
    <3>2. QED
      BY <2>1, <2>3, <3>1 DEF NoneTwice
  <2>4. QED
    BY <2>2, <2>3 DEF t
<1>3. QED
  BY <1>1, <1>2

(* Taking messages out does not repeat one.                                *)
LEMMA MinusNoneTwice ==
    ASSUME NEW M, NEW S
    PROVE  \A s \in Seq(M) : NoneTwice(s) => NoneTwice(Inbox!Minus(s, S))
<1> DEFINE T == {s \in Seq(M) : NoneTwice(s) => NoneTwice(Inbox!Minus(s, S))}
<1>1. <<>> \in T
  <2>1. <<>> \in Seq(M) /\ Inbox!Minus(<<>>, S) = <<>> /\ NoneTwice(<<>>)
    BY MinusEmpty, NoneTwiceAppend
  <2>2. QED
    BY <2>1
<1>2. ASSUME NEW s \in Seq(M), NEW x \in M, s \in T PROVE Append(s, x) \in T
  <2> DEFINE k == Inbox!Minus(s, S)
  <2>1. k \in Seq(M) /\ Elements(k) = Elements(s) \ S
    BY MinusElements
  <2>2. Append(s, x) \in Seq(M)
        /\ (NoneTwice(Append(s, x)) => NoneTwice(s) /\ x \notin Elements(s))
    BY NoneTwiceAppend
  <2>3. Inbox!Minus(Append(s, x), S) = IF x \in S THEN k ELSE Append(k, x)
    BY MinusAppend
  <2>4. NoneTwice(s) => NoneTwice(k)
    BY <1>2
  <2> HIDE DEF k
  <2>5. NoneTwice(k) /\ x \notin Elements(k) => NoneTwice(Append(k, x))
    BY <2>1, NoneTwiceAppend
  <2>6. NoneTwice(Append(s, x)) => NoneTwice(Inbox!Minus(Append(s, x), S))
    BY <2>1, <2>2, <2>3, <2>4, <2>5
  <2>7. QED
    BY <2>2, <2>6
<1>3. Seq(M) \subseteq T
  <2> HIDE DEF T
  <2>1. QED
    BY <1>1, <1>2, SequenceInduction
<1>4. QED
  BY <1>3

(* Of two sequences, one after the other, no message is in both.           *)
LEMMA NoneInBoth ==
    ASSUME NEW M, NEW s \in Seq(M), NEW t \in Seq(M), NoneTwice(s \o t)
    PROVE  Elements(s) \cap Elements(t) = {}
<1> DEFINE u == s \o t
<1>1. /\ Len(s) \in Nat /\ Len(t) \in Nat /\ Len(u) = Len(s) + Len(t)
      /\ \A i \in 1..(Len(s) + Len(t)) : u[i] = IF i <= Len(s) THEN s[i] ELSE t[i - Len(s)]
  BY ConcatProperties
<1> HIDE DEF u
<1>2. ASSUME NEW i \in 1..Len(s), NEW j \in 1..Len(t) PROVE s[i] # t[j]
  <2>1. /\ i \in 1..Len(u) /\ j + Len(s) \in 1..Len(u) /\ i # j + Len(s)
        /\ u[i] = s[i] /\ u[j + Len(s)] = t[j]
    BY <1>1
  <2>2. QED
    BY <2>1 DEF NoneTwice, u
<1>3. QED
  BY <1>2 DEF Elements

(* Types of the inbox's state.                                             *)
InboxTypes ==
    /\ box \in Seq(Letters) /\ stored \in Seq(Letters)
    /\ admitted \in Seq(Letters) /\ offered \in Seq(Letters)
    /\ marked \subseteq Letters /\ heard \subseteq Letters /\ excused \subseteq Letters
    /\ stage \in Inbox!Stages

(* What was given, what SQLite holds and what RAM holds, without what is   *)
(* excused, is what was accepted.                                          *)
InTurn == offered \o Inbox!Minus(Inbox!GivenAway \o box, excused) = admitted

(* The inductive invariant of the inbox.                                   *)
InboxInv ==
    /\ InboxTypes
    /\ InTurn
    /\ Elements(offered) \cap excused = {}
    /\ NoneTwice(admitted)
    /\ stage = "offered_row" => stored # <<>>

(* The invariant holds at the start.                                       *)
LEMMA InboxStart == Inbox!Init => InboxInv
<1> SUFFICES ASSUME Inbox!Init PROVE InboxInv
  OBVIOUS
<1>1. InboxTypes
  BY DEF Inbox!Init, InboxTypes, Inbox!Stages
<1>2. NoneTwice(admitted) /\ Elements(offered) = {}
  BY NoneTwiceAppend, ElementsFacts DEF Inbox!Init
<1>3. InTurn
  <2>1. Inbox!GivenAway = <<>> /\ box = <<>> /\ excused = {} /\ offered = <<>> /\ admitted = <<>>
    BY DEF Inbox!Init, Inbox!GivenAway
  <2>2. <<>> \o <<>> = <<>>
    OBVIOUS
  <2>3. QED
    BY <2>1, <2>2, MinusEmpty DEF InTurn
<1>4. QED
  BY <1>1, <1>2, <1>3 DEF InboxInv, Inbox!Init

(* Sequences may be put together in any order.                             *)
LEMMA Regroup ==
    \A s, t, u \in Seq(Letters) : (s \o t) \o u = s \o (t \o u)
<1>1. ASSUME NEW s \in Seq(Letters), NEW t \in Seq(Letters), NEW u \in Seq(Letters)
      PROVE  (s \o t) \o u = s \o (t \o u)
  BY ConcatAssociative
<1>2. QED
  BY <1>1, Zenon

(* A head and its tail.                                                    *)
LEMMA HeadFirst ==
    ASSUME NEW s \in Seq(Letters), s # <<>>
    PROVE  /\ Head(s) \in Letters /\ Tail(s) \in Seq(Letters) /\ <<Head(s)>> \in Seq(Letters)
           /\ s = <<Head(s)>> \o Tail(s)
           /\ Head(s) \in Elements(s)
           /\ \A S : Inbox!Minus(<<Head(s)>>, S) = IF Head(s) \in S THEN <<>> ELSE <<Head(s)>>
<1>1. Head(s) \in Letters /\ Tail(s) \in Seq(Letters) /\ <<Head(s)>> \in Seq(Letters)
      /\ Len(s) \in Nat \ {0} /\ Head(s) = s[1]
  BY HeadTailProperties, EmptySeq
<1>2. s = <<Head(s)>> \o Tail(s)
  <2>1. /\ Len(<<Head(s)>> \o Tail(s)) = Len(s)
        /\ \A i \in 1..Len(s) : (<<Head(s)>> \o Tail(s))[i] = s[i]
    OBVIOUS
  <2>2. <<Head(s)>> \o Tail(s) \in Seq(Letters)
    BY <1>1, ConcatProperties
  <2>3. QED
    BY <2>1, <2>2, SeqEqual
<1>3. Head(s) \in Elements(s)
  BY <1>1 DEF Elements
<1>4. ASSUME NEW S PROVE Inbox!Minus(<<Head(s)>>, S) = IF Head(s) \in S THEN <<>> ELSE <<Head(s)>>
  <2>1. <<>> \in Seq(Letters) /\ <<Head(s)>> = Append(<<>>, Head(s))
    BY <1>1
  <2>2. Inbox!Minus(<<>>, S) = <<>>
    BY MinusEmpty
  <2>3. Inbox!Minus(Append(<<>>, Head(s)), S)
           = IF Head(s) \in S THEN <<>> ELSE Append(<<>>, Head(s))
    <3>1. \A t \in Seq(Letters), x \in Letters :
             Inbox!Minus(Append(t, x), S)
                = IF x \in S THEN Inbox!Minus(t, S) ELSE Append(Inbox!Minus(t, S), x)
      BY MinusAppend, Zenon
    <3>2. QED
      BY <1>1, <2>1, <2>2, <3>1, Zenon
  <2>4. QED
    BY <2>1, <2>3
<1>5. QED
  BY <1>1, <1>2, <1>3, <1>4

(* What the client has and what waits for it, but for a row it was given.  *)
Whole == Inbox!GivenAway \o box

(* The types of what is still to be given.                                 *)
LEMMA WholeTypes ==
    ASSUME InboxInv
    PROVE  /\ Inbox!GivenAway \in Seq(Letters) /\ Whole \in Seq(Letters)
           /\ \A S : /\ Inbox!Minus(Whole, S)
                             = Inbox!Minus(Inbox!GivenAway, S) \o Inbox!Minus(box, S)
                    /\ Inbox!Minus(Inbox!GivenAway, S) \in Seq(Letters)
                    /\ Inbox!Minus(box, S) \in Seq(Letters)
                    /\ Inbox!Minus(admitted, S)
                          = Inbox!Minus(offered, S) \o Inbox!Minus(Whole, excused \cup S)
<1>1. box \in Seq(Letters) /\ stored \in Seq(Letters) /\ offered \in Seq(Letters)
  BY DEF InboxInv, InboxTypes
<1>2. Inbox!GivenAway \in Seq(Letters)
  BY <1>1, HeadFirst DEF Inbox!GivenAway, InboxInv
<1>3. Whole \in Seq(Letters)
  BY <1>1, <1>2, ConcatProperties DEF Whole
<1>4. ASSUME NEW S
      PROVE  Inbox!Minus(Whole, S) = Inbox!Minus(Inbox!GivenAway, S) \o Inbox!Minus(box, S)
  <2>1. \A t \in Seq(Letters) : Inbox!Minus(Inbox!GivenAway \o t, S)
                                 = Inbox!Minus(Inbox!GivenAway, S) \o Inbox!Minus(t, S)
    BY <1>2, MinusConcat, Zenon
  <2>2. QED
    BY <1>1, <2>1 DEF Whole
<1>5. ASSUME NEW S
      PROVE  Inbox!Minus(admitted, S) = Inbox!Minus(offered, S) \o Inbox!Minus(Whole, excused \cup S)
  <2>1. admitted = offered \o Inbox!Minus(Whole, excused)
    BY DEF InboxInv, InTurn, Whole
  <2> DEFINE k == Inbox!Minus(Whole, excused)
  <2>2. k \in Seq(Letters) /\ Inbox!Minus(k, S) = Inbox!Minus(Whole, excused \cup S)
    BY <1>3, MinusElements, MinusTwice
  <2> HIDE DEF k
  <2>3. \A t \in Seq(Letters) : Inbox!Minus(offered \o t, S)
                                    = Inbox!Minus(offered, S) \o Inbox!Minus(t, S)
    BY <1>1, MinusConcat, Zenon
  <2>4. QED
    BY <2>1, <2>2, <2>3 DEF k
<1>6. QED
  BY <1>1, <1>2, <1>3, <1>4, <1>5, MinusElements

(* Where the histories stay as they are: the rest, too, has to be the same. *)
LEMMA SameStays ==
    ASSUME InboxInv, InboxTypes', UNCHANGED <<admitted, offered, excused>>,
           Inbox!Minus(Whole', excused) = Inbox!Minus(Whole, excused),
           stage' = "offered_row" => stored' # <<>>
    PROVE  InboxInv'
  BY DEF InboxInv, InTurn, Whole

(* Where some messages are excused: nothing else may go.                   *)
LEMMA ExcusedGo ==
    ASSUME InboxInv, InboxTypes', NEW S, Inbox!Excuse(S),
           Inbox!Minus(Whole', excused \cup S) = Inbox!Minus(Whole, excused \cup S),
           stage' = "offered_row" => stored' # <<>>
    PROVE  InboxInv'
<1>1. /\ excused' = excused \cup S /\ admitted' = Inbox!Minus(admitted, S)
      /\ offered' = Inbox!Minus(offered, S)
  BY DEF Inbox!Excuse
<1>2. admitted \in Seq(Letters) /\ offered \in Seq(Letters)
  BY DEF InboxInv, InboxTypes
<1>3. InTurn'
  <2>1. Inbox!Minus(admitted, S) = Inbox!Minus(offered, S) \o Inbox!Minus(Whole, excused \cup S)
    BY WholeTypes
  <2>2. QED
    BY <1>1, <2>1 DEF InTurn, Whole
<1>4. Elements(offered') \cap excused' = {}
  <2>1. Elements(Inbox!Minus(offered, S)) = Elements(offered) \ S
    BY <1>2, MinusElements
  <2>2. QED
    BY <1>1, <2>1 DEF InboxInv
<1>5. NoneTwice(admitted')
  BY <1>1, <1>2, MinusNoneTwice DEF InboxInv
<1>6. QED
  BY <1>3, <1>4, <1>5 DEF InboxInv

(* What is excused is a set of messages.                                   *)
LEMMA ExcuseTypes ==
    ASSUME InboxInv, NEW S, S \subseteq Letters, Inbox!Excuse(S)
    PROVE  /\ excused' \subseteq Letters
           /\ admitted' \in Seq(Letters) /\ offered' \in Seq(Letters)
<1>1. admitted \in Seq(Letters) /\ offered \in Seq(Letters) /\ excused \subseteq Letters
  BY DEF InboxInv, InboxTypes
<1>2. QED
  BY <1>1, MinusElements DEF Inbox!Excuse

(* A store that is full makes room by what it has.                         *)
LEMMA EvictedFacts ==
    ASSUME NEW s \in Seq(Letters)
    PROVE  Inbox!Evicted(s) \subseteq Elements(s) /\ Elements(s) \subseteq Letters
  BY DEF Inbox!Evicted, Elements

(* A message that is put at the end of a store that made room.             *)
LEMMA PushedFacts ==
    ASSUME NEW s \in Seq(Letters), NEW m \in Letters
    PROVE  /\ Inbox!Pushed(s, m) \in Seq(Letters) /\ Inbox!Pushed(s, m) # <<>>
           /\ \A S : Inbox!Evicted(s) \subseteq S =>
                 Inbox!Minus(Inbox!Pushed(s, m), S)
                    = IF m \in S THEN Inbox!Minus(s, S) ELSE Append(Inbox!Minus(s, S), m)
<1> DEFINE k == Inbox!Minus(s, Inbox!Evicted(s))
<1>1. k \in Seq(Letters)
  BY MinusElements
<1>2. \A S : Inbox!Evicted(s) \subseteq S => Inbox!Minus(k, S) = Inbox!Minus(s, S)
  <2>1. ASSUME NEW S, Inbox!Evicted(s) \subseteq S
        PROVE  Inbox!Minus(k, S) = Inbox!Minus(s, S)
    <3>1. Inbox!Minus(k, S) = Inbox!Minus(s, Inbox!Evicted(s) \cup S)
      BY MinusTwice
    <3>2. Inbox!Evicted(s) \cup S = S
      BY <2>1
    <3>3. QED
      BY <3>1, <3>2
  <2>2. QED
    BY <2>1
<1>3. Inbox!Pushed(s, m) = Append(k, m)
  BY DEF Inbox!Pushed
<1> HIDE DEF k
<1>4. \A S : Inbox!Minus(Append(k, m), S)
               = IF m \in S THEN Inbox!Minus(k, S) ELSE Append(Inbox!Minus(k, S), m)
  BY <1>1, MinusAppend
<1>5. Append(k, m) \in Seq(Letters) /\ Append(k, m) # <<>>
  BY <1>1, AppendProperties
<1>6. QED
  BY <1>2, <1>3, <1>4, <1>5

(* A message arrives.                                                      *)
LEMMA ReceiveKeeps ==
    ASSUME InboxInv, NEW m \in Letters, Inbox!Receive(m)
    PROVE  InboxInv'
<1> DEFINE Ev == Inbox!Evicted(box)
<1>1. /\ stage = "idle" /\ stage' = "receive" /\ stored' = stored
      /\ box' = Inbox!Pushed(box, m) /\ heard' = heard \cup {m}
      /\ \/ marked' = (marked \cap Inbox!ToSet(box')) \cup {m}
         \/ marked' = marked \cap Inbox!ToSet(box')
  BY DEF Inbox!Receive
<1>2. box \in Seq(Letters) /\ admitted \in Seq(Letters) /\ offered \in Seq(Letters)
      /\ stored \in Seq(Letters)
  BY DEF InboxInv, InboxTypes
<1>3. m \notin Elements(box)
  BY <1>2 DEF Inbox!Receive, Inbox!Contains, Elements
<1>4. Ev \subseteq Elements(box) /\ Ev \subseteq Letters /\ m \notin Ev
  BY <1>2, <1>3, EvictedFacts
<1>5. box' \in Seq(Letters) /\ Inbox!GivenAway' = stored /\ Inbox!GivenAway = stored
  BY <1>1, <1>2, PushedFacts DEF Inbox!GivenAway
<1>6. ASSUME NEW S, Ev \subseteq S
      PROVE  Inbox!Minus(Whole', S) = IF m \in S THEN Inbox!Minus(Whole, S)
                                                 ELSE Append(Inbox!Minus(Whole, S), m)
  <2>1. \A t \in Seq(Letters) : Inbox!Minus(stored \o t, S)
                                    = Inbox!Minus(stored, S) \o Inbox!Minus(t, S)
    BY <1>2, MinusConcat, Zenon
  <2>2. Inbox!Minus(box', S) = IF m \in S THEN Inbox!Minus(box, S)
                                          ELSE Append(Inbox!Minus(box, S), m)
    BY <1>1, <1>2, <1>6, PushedFacts
  <2>3. Whole' = stored \o box' /\ Whole = stored \o box
    BY <1>5 DEF Whole
  <2>4. Inbox!Minus(stored, S) \in Seq(Letters) /\ Inbox!Minus(box, S) \in Seq(Letters)
    BY <1>2, MinusElements
  <2> DEFINE a == Inbox!Minus(stored, S)
             b == Inbox!Minus(box, S)
  <2>5. Inbox!Minus(Whole', S) = a \o Inbox!Minus(box', S) /\ Inbox!Minus(Whole, S) = a \o b
    BY <1>2, <1>5, <2>1, <2>3
  <2> HIDE DEF a, b
  <2>6. a \o Append(b, m) = Append(a \o b, m)
    BY <2>4, AppendOfConcat DEF a, b
  <2>7. QED
    BY <2>2, <2>5, <2>6 DEF b
<1>7. marked' \subseteq Letters /\ heard' \subseteq Letters
  BY <1>1 DEF InboxInv, InboxTypes
<1>8. CASE Inbox!Contains(admitted, m) \/ m \in excused
  <2>1. Inbox!Excuse(Ev \cup {m})
    BY <1>8 DEF Inbox!Receive
  <2>2. InboxTypes'
    <3>1. Ev \cup {m} \subseteq Letters
      BY <1>4
    <3>2. /\ excused' \subseteq Letters
          /\ admitted' \in Seq(Letters) /\ offered' \in Seq(Letters)
      BY <2>1, <3>1, ExcuseTypes
    <3>3. QED
      BY <1>1, <1>2, <1>5, <1>7, <3>2 DEF InboxTypes, Inbox!Stages
  <2>3. Inbox!Minus(Whole', excused \cup (Ev \cup {m})) = Inbox!Minus(Whole, excused \cup (Ev \cup {m}))
    BY <1>6
  <2>4. QED
    BY <1>1, <2>1, <2>2, <2>3, ExcusedGo
<1>9. CASE ~Inbox!Contains(admitted, m) /\ m \notin excused
  <2>1. /\ admitted' = Append(Inbox!Minus(admitted, Ev), m)
        /\ offered' = Inbox!Minus(offered, Ev)
        /\ excused' = excused \cup Ev
    BY <1>9 DEF Inbox!Receive
  <2>2. m \notin Elements(admitted)
    BY <1>2, <1>9 DEF Inbox!Contains, Elements
  <2> DEFINE k == Inbox!Minus(admitted, Ev)
             o == Inbox!Minus(offered, Ev)
             w == Inbox!Minus(Whole, excused \cup Ev)
  <2>3. /\ k \in Seq(Letters) /\ Elements(k) = Elements(admitted) \ Ev /\ NoneTwice(k)
        /\ o \in Seq(Letters) /\ Elements(o) = Elements(offered) \ Ev
    BY <1>2, MinusElements, MinusNoneTwice DEF InboxInv
  <2>4. w \in Seq(Letters) /\ k = o \o w
    BY WholeTypes, MinusElements
  <2>5. Inbox!Minus(Whole', excused \cup Ev) = Append(w, m)
    BY <1>4, <1>6, <1>9
  <2> HIDE DEF k, o, w
  <2>6. o \o Append(w, m) = Append(o \o w, m)
    BY <2>3, <2>4, AppendOfConcat
  <2>7. InTurn'
    BY <2>1, <2>4, <2>5, <2>6 DEF InTurn, Whole, k, o
  <2>8. NoneTwice(Append(k, m)) /\ Append(k, m) \in Seq(Letters)
    BY <2>2, <2>3, NoneTwiceAppend, AppendProperties
  <2>9. InboxTypes'
    BY <1>1, <1>2, <1>4, <1>5, <1>7, <2>1, <2>3, <2>8 DEF InboxInv, InboxTypes, Inbox!Stages, k, o
  <2>10. Elements(offered') \cap excused' = {}
    BY <2>1, <2>3 DEF InboxInv, o
  <2>11. QED
    BY <1>1, <2>1, <2>7, <2>8, <2>9, <2>10 DEF InboxInv, k
<1>10. QED
  BY <1>8, <1>9

(* The oldest of RAM has a row.                                            *)
LEMMA SaveOldestKeeps ==
    ASSUME InboxInv, Inbox!SaveOldest
    PROVE  InboxInv'
<1> DEFINE h == Head(box)
<1>1. /\ stage \in {"receive", "command", "stop"} /\ stage' = stage /\ heard' = heard
      /\ box # <<>> /\ box' = Tail(box) /\ marked' = marked \ {h}
  BY DEF Inbox!SaveOldest, Inbox!Flushing, Inbox!Oldest
<1>2. box \in Seq(Letters) /\ stored \in Seq(Letters) /\ admitted \in Seq(Letters)
      /\ offered \in Seq(Letters)
  BY DEF InboxInv, InboxTypes
<1>3. /\ h \in Letters /\ box' \in Seq(Letters) /\ <<h>> \in Seq(Letters) /\ h \in Elements(box)
      /\ box = <<h>> \o box'
      /\ \A S : Inbox!Minus(<<h>>, S) = IF h \in S THEN <<>> ELSE <<h>>
  BY <1>1, <1>2, HeadFirst
<1> HIDE DEF h
<1>4. Inbox!GivenAway = stored /\ Inbox!GivenAway' = stored'
  BY <1>1 DEF Inbox!GivenAway
<1>5. ASSUME NEW S
      PROVE  Inbox!Minus(box, S) = Inbox!Minus(<<h>>, S) \o Inbox!Minus(box', S)
  <2>1. \A t \in Seq(Letters) : Inbox!Minus(<<h>> \o t, S)
                                    = Inbox!Minus(<<h>>, S) \o Inbox!Minus(t, S)
    <3> DEFINE e == <<h>>
    <3>1. e \in Seq(Letters)
      BY <1>3
    <3> HIDE DEF e
    <3>2. \A t \in Seq(Letters) : Inbox!Minus(e \o t, S) = Inbox!Minus(e, S) \o Inbox!Minus(t, S)
      BY <3>1, MinusConcat, Zenon
    <3>3. QED
      BY <3>2 DEF e
  <2>2. QED
    BY <1>3, <2>1
<1>6. ASSUME NEW S
      PROVE  Inbox!Minus(Whole, S) = Inbox!Minus(stored, S) \o Inbox!Minus(box, S)
  BY <1>4, WholeTypes
<1>7. CASE Inbox!Contains(stored, h)
  <2>1. UNCHANGED <<stored, admitted, offered, excused>>
    BY <1>7 DEF Inbox!SaveOldest, Inbox!Oldest, h
  <2>2. h \in excused
    <3>1. SUFFICES ASSUME h \notin excused PROVE FALSE
      OBVIOUS
    <3> DEFINE a == Inbox!Minus(stored, excused)
               b == Inbox!Minus(box, excused)
    <3>2. /\ a \in Seq(Letters) /\ b \in Seq(Letters) /\ a \o b \in Seq(Letters)
          /\ h \in Elements(a) /\ h \in Elements(b)
      <4>1. h \in Elements(stored)
        BY <1>2, <1>7 DEF Inbox!Contains, Elements
      <4>2. /\ a \in Seq(Letters) /\ Elements(a) = Elements(stored) \ excused
            /\ b \in Seq(Letters) /\ Elements(b) = Elements(box) \ excused
        BY <1>2, MinusElements
      <4> HIDE DEF a, b
      <4>3. a \o b \in Seq(Letters)
        BY <4>2, ConcatProperties
      <4>4. QED
        BY <1>3, <3>1, <4>1, <4>2, <4>3
    <3>3. admitted = offered \o (a \o b)
      BY <1>4, <1>6 DEF InboxInv, InTurn, Whole
    <3> HIDE DEF a, b
    <3>4. (offered \o a) \o b = offered \o (a \o b) /\ offered \o a \in Seq(Letters)
      <4>1. (offered \o a) \o b = offered \o (a \o b)
        BY <1>2, <3>2, Regroup, ZenonT(60)
      <4>2. QED
        BY <1>2, <3>2, <4>1, ConcatProperties
    <3>5. h \in Elements(offered \o a)
      BY <1>2, <3>2, ElementsFacts
    <3>6. NoneTwice((offered \o a) \o b)
      BY <3>3, <3>4 DEF InboxInv
    <3> DEFINE c == offered \o a
    <3>7. c \in Seq(Letters) /\ h \in Elements(c) /\ NoneTwice(c \o b)
      BY <3>4, <3>5, <3>6
    <3> HIDE DEF c
    <3>8. Elements(c) \cap Elements(b) = {}
      BY <3>2, <3>7, NoneInBoth
    <3>9. QED
      BY <3>2, <3>7, <3>8
  <2>3. Inbox!Minus(Whole', excused) = Inbox!Minus(Whole, excused)
    <3>1. Inbox!Minus(box, excused) = Inbox!Minus(box', excused)
      <4> DEFINE b == Inbox!Minus(box', excused)
      <4>1. b \in Seq(Letters) /\ Inbox!Minus(box, excused) = <<>> \o b
        BY <1>3, <1>5, <2>2, MinusElements
      <4> HIDE DEF b
      <4>2. <<>> \o b = b
        BY <4>1, ConcatEmptySeq
      <4>3. QED
        BY <4>1, <4>2 DEF b
    <3>2. \A t \in Seq(Letters) : Inbox!Minus(stored \o t, excused)
                                     = Inbox!Minus(stored, excused) \o Inbox!Minus(t, excused)
      BY <1>2, MinusConcat, Zenon
    <3>3. Whole' = stored \o box'
      BY <1>4, <2>1 DEF Whole
    <3>4. Inbox!Minus(Whole', excused)
             = Inbox!Minus(stored, excused) \o Inbox!Minus(box', excused)
      BY <1>3, <3>2, <3>3
    <3>5. QED
      BY <1>6, <3>1, <3>4
  <2>4. InboxTypes'
    BY <1>1, <1>3, <2>1 DEF InboxInv, InboxTypes
  <2>5. QED
    BY <1>1, <2>1, <2>3, <2>4, SameStays
<1>8. CASE ~Inbox!Contains(stored, h)
  <2> DEFINE Ev == Inbox!Evicted(stored)
  <2>1. stored' = Inbox!Pushed(stored, h) /\ Inbox!Excuse(Ev)
    BY <1>8 DEF Inbox!SaveOldest, Inbox!Oldest, h
  <2>2. Ev \subseteq Letters
    BY <1>2, EvictedFacts
  <2>3. InboxTypes'
    <3>1. excused' \subseteq Letters /\ admitted' \in Seq(Letters) /\ offered' \in Seq(Letters)
      BY <2>1, <2>2, ExcuseTypes
    <3>2. stored' \in Seq(Letters)
      BY <1>2, <1>3, <2>1, PushedFacts
    <3>3. QED
      BY <1>1, <1>3, <3>1, <3>2 DEF InboxInv, InboxTypes
  <2>4. Inbox!Minus(Whole', excused \cup Ev) = Inbox!Minus(Whole, excused \cup Ev)
    <3> DEFINE S == excused \cup Ev
               a == Inbox!Minus(stored, S)
               b == Inbox!Minus(box', S)
    <3>1. a \in Seq(Letters) /\ b \in Seq(Letters)
      BY <1>2, <1>3, MinusElements
    <3>2. Inbox!Minus(stored', S) = IF h \in S THEN a ELSE Append(a, h)
      <4>1. Inbox!Evicted(stored) \subseteq S
        OBVIOUS
      <4> HIDE DEF S
      <4>2. QED
        BY <1>2, <1>3, <2>1, <4>1, PushedFacts
    <3>3. Inbox!Minus(Whole', S) = Inbox!Minus(stored', S) \o b
      <4>1. stored' \in Seq(Letters) /\ Whole' = stored' \o box'
        BY <1>4, <2>3 DEF InboxTypes, Whole
      <4>2. \A s, t \in Seq(Letters) : Inbox!Minus(s \o t, S)
                                          = Inbox!Minus(s, S) \o Inbox!Minus(t, S)
        BY MinusConcat, Zenon
      <4>3. QED
        BY <1>3, <4>1, <4>2
    <3>4. Inbox!Minus(Whole, S) = a \o ((IF h \in S THEN <<>> ELSE <<h>>) \o b)
      BY <1>3, <1>5, <1>6
    <3> HIDE DEF S, a, b
    <3>5. <<>> \o b = b /\ Append(a, h) = a \o <<h>> /\ (a \o <<h>>) \o b = a \o (<<h>> \o b)
      BY <1>3, <3>1, ConcatEmptySeq, AppendIsConcat, ConcatAssociative
    <3>6. ASSUME h \in S PROVE Inbox!Minus(Whole', S) = Inbox!Minus(Whole, S)
      BY <3>2, <3>3, <3>4, <3>5, <3>6
    <3>7. ASSUME h \notin S PROVE Inbox!Minus(Whole', S) = Inbox!Minus(Whole, S)
      BY <3>2, <3>3, <3>4, <3>5, <3>7
    <3>8. QED
      BY <3>6, <3>7 DEF S
  <2>5. QED
    BY <1>1, <2>1, <2>3, <2>4, ExcusedGo
<1>9. QED
  BY <1>7, <1>8

(* The oldest row is admitted to the client's queue.                       *)
LEMMA OfferRowKeeps ==
    ASSUME InboxInv, Inbox!OfferRow
    PROVE  InboxInv'
<1> DEFINE h == Head(stored)
           t == Tail(stored)
<1>1. /\ stage = "peek" /\ stage' = "offered_row" /\ stored # <<>>
      /\ offered' = Inbox!Minus(Append(offered, h), excused)
      /\ UNCHANGED <<heard, box, marked, stored, admitted, excused>>
  BY DEF Inbox!OfferRow
<1>2. box \in Seq(Letters) /\ stored \in Seq(Letters) /\ offered \in Seq(Letters)
      /\ Elements(offered) \cap excused = {}
  BY DEF InboxInv, InboxTypes
<1>3. /\ h \in Letters /\ t \in Seq(Letters) /\ <<h>> \in Seq(Letters) /\ stored = <<h>> \o t
      /\ Inbox!Minus(<<h>>, excused) = IF h \in excused THEN <<>> ELSE <<h>>
  BY <1>1, <1>2, HeadFirst
<1>4. Inbox!GivenAway = stored /\ Inbox!GivenAway' = t
  BY <1>1 DEF Inbox!GivenAway
<1>5. offered' = (IF h \in excused THEN offered ELSE Append(offered, h))
  <2>1. Inbox!Minus(offered, excused) = offered
    BY <1>2, MinusExtremes
  <2>2. QED
    BY <1>1, <1>2, <1>3, <2>1, MinusAppend
<1>6. offered' \in Seq(Letters) /\ Elements(offered') \cap excused' = {}
  <2>1. Append(offered, h) \in Seq(Letters) /\ Elements(Append(offered, h)) = Elements(offered) \cup {h}
    BY <1>2, <1>3, ElementsFacts, AppendProperties
  <2>2. QED
    BY <1>1, <1>2, <1>5, <2>1
<1> HIDE DEF h, t
<1>7. InTurn'
  <2> DEFINE e == Inbox!Minus(<<h>>, excused)
             a == Inbox!Minus(t, excused)
             b == Inbox!Minus(box, excused)
  <2>1. a \in Seq(Letters) /\ b \in Seq(Letters) /\ e \in Seq(Letters)
    BY <1>2, <1>3, MinusElements
  <2>2. \A x, y \in Seq(Letters) : Inbox!Minus(x \o y, excused)
                                      = Inbox!Minus(x, excused) \o Inbox!Minus(y, excused)
    BY MinusConcat, Zenon
  <2>3. Inbox!Minus(stored, excused) = e \o a
    BY <1>3, <2>2
  <2>4. Inbox!Minus(stored \o box, excused) = (e \o a) \o b
    BY <1>2, <2>2, <2>3
  <2>5. Inbox!Minus(t \o box, excused) = a \o b
    BY <1>2, <1>3, <2>2
  <2>6. admitted = offered \o ((e \o a) \o b)
    BY <1>4, <2>4 DEF InboxInv, InTurn
  <2>7. e = IF h \in excused THEN <<>> ELSE <<h>>
    BY <1>3
  <2> HIDE DEF e, a, b
  <2>8. offered' = offered \o e
    BY <1>2, <1>3, <1>5, <2>7, AppendIsConcat, ConcatEmptySeq
  <2>9. a \o b \in Seq(Letters) /\ (e \o a) \o b = e \o (a \o b)
    BY <2>1, ConcatProperties, ConcatAssociative
  <2> DEFINE c == a \o b
  <2> HIDE DEF c
  <2>10. (offered \o e) \o c = offered \o (e \o c)
    <3>1. offered \in Seq(Letters) /\ e \in Seq(Letters) /\ c \in Seq(Letters)
      BY <1>2, <2>1, <2>9 DEF c
    <3>2. QED
      BY <3>1, Regroup, ZenonT(60)
  <2>11. QED
    BY <1>1, <1>4, <2>5, <2>6, <2>8, <2>9, <2>10 DEF InTurn, c
<1>8. InboxTypes'
  BY <1>1, <1>6 DEF InboxInv, InboxTypes, Inbox!Stages
<1>9. QED
  BY <1>1, <1>6, <1>7, <1>8 DEF InboxInv

(* The row is deleted, or will be given again.                             *)
LEMMA DeleteRowKeeps ==
    ASSUME InboxInv, Inbox!DeleteRow
    PROVE  InboxInv'
<1> DEFINE h == Head(stored)
           t == Tail(stored)
<1>1. /\ stage = "offered_row" /\ stage' = "idle" /\ stored # <<>>
      /\ UNCHANGED <<heard, box, marked>>
  BY DEF Inbox!DeleteRow, InboxInv
<1>2. box \in Seq(Letters) /\ stored \in Seq(Letters)
  BY DEF InboxInv, InboxTypes
<1>3. /\ h \in Letters /\ t \in Seq(Letters) /\ <<h>> \in Seq(Letters) /\ stored = <<h>> \o t
      /\ \A S : Inbox!Minus(<<h>>, S) = IF h \in S THEN <<>> ELSE <<h>>
  BY <1>1, <1>2, HeadFirst
<1>4. Inbox!GivenAway = t /\ Inbox!GivenAway' = stored'
  BY <1>1 DEF Inbox!GivenAway
<1>5. CASE stored' = t /\ UNCHANGED <<admitted, offered, excused>>
  <2>1. Whole' = Whole
    BY <1>1, <1>4, <1>5 DEF Whole
  <2>2. InboxTypes'
    BY <1>1, <1>3, <1>5 DEF InboxInv, InboxTypes, Inbox!Stages
  <2>3. QED
    BY <1>1, <1>5, <2>1, <2>2, SameStays
<1>6. CASE Inbox!Excuse({h}) /\ UNCHANGED stored
  <2>1. {h} \subseteq Letters
    BY <1>3
  <2>2. InboxTypes'
    <3>1. excused' \subseteq Letters /\ admitted' \in Seq(Letters) /\ offered' \in Seq(Letters)
      BY <1>6, <2>1, ExcuseTypes
    <3>2. QED
      BY <1>1, <1>6, <3>1 DEF InboxInv, InboxTypes, Inbox!Stages
  <2>3. Inbox!Minus(Whole', excused \cup {h}) = Inbox!Minus(Whole, excused \cup {h})
    <3> DEFINE S == excused \cup {h}
               e == <<h>>
               a == Inbox!Minus(t, S)
               b == Inbox!Minus(box, S)
    <3>1. a \in Seq(Letters) /\ b \in Seq(Letters) /\ e \in Seq(Letters)
          /\ Inbox!Minus(e, S) = <<>>
      <4>1. h \in S
        OBVIOUS
      <4>2. Inbox!Minus(e, S) = <<>> /\ e \in Seq(Letters)
        BY <1>3, <4>1
      <4> HIDE DEF S
      <4>3. a \in Seq(Letters) /\ b \in Seq(Letters)
        BY <1>2, <1>3, MinusElements
      <4>4. QED
        BY <4>2, <4>3
    <3>2. Whole' = stored \o box /\ Whole = t \o box /\ stored = e \o t
      BY <1>1, <1>3, <1>4, <1>6 DEF Whole
    <3>3. \A x, y \in Seq(Letters) : Inbox!Minus(x \o y, S)
                                        = Inbox!Minus(x, S) \o Inbox!Minus(y, S)
      BY MinusConcat, Zenon
    <3> HIDE DEF S, e
    <3>4. Inbox!Minus(stored, S) = <<>> \o a
      BY <1>3, <3>1, <3>2, <3>3
    <3>5. <<>> \o a = a
      BY <3>1, ConcatEmptySeq
    <3>6. Inbox!Minus(Whole', S) = Inbox!Minus(stored, S) \o b
          /\ Inbox!Minus(Whole, S) = a \o b
      BY <1>2, <1>3, <3>2, <3>3
    <3> HIDE DEF a, b
    <3>7. Inbox!Minus(Whole', S) = Inbox!Minus(Whole, S)
      BY <3>4, <3>5, <3>6
    <3>8. QED
      BY <3>7 DEF S
  <2>4. QED
    BY <1>1, <1>6, <2>2, <2>3, ExcusedGo
<1>7. QED
  BY <1>5, <1>6 DEF Inbox!DeleteRow

(* Without a row the head of RAM is given.                                 *)
LEMMA OfferRamKeeps ==
    ASSUME InboxInv, Inbox!OfferRam
    PROVE  InboxInv'
<1> DEFINE h == Head(box)
           t == Tail(box)
<1>1. /\ stage = "peek" /\ stage' = "idle" /\ stored = <<>> /\ stored' = <<>>
      /\ box # <<>> /\ box' = t /\ marked' = marked \ {h}
      /\ offered' = Inbox!Minus(Append(offered, h), excused)
      /\ UNCHANGED <<heard, admitted, excused>>
  BY DEF Inbox!OfferRam, Inbox!Oldest
<1>2. box \in Seq(Letters) /\ offered \in Seq(Letters) /\ Elements(offered) \cap excused = {}
  BY DEF InboxInv, InboxTypes
<1>3. /\ h \in Letters /\ t \in Seq(Letters) /\ <<h>> \in Seq(Letters) /\ box = <<h>> \o t
      /\ Inbox!Minus(<<h>>, excused) = IF h \in excused THEN <<>> ELSE <<h>>
  BY <1>1, <1>2, HeadFirst
<1>4. /\ <<>> \o box = box /\ <<>> \o t = t
      /\ Inbox!GivenAway = <<>> /\ Inbox!GivenAway' = <<>>
  BY <1>1, <1>2, <1>3, ConcatEmptySeq DEF Inbox!GivenAway
<1>5. offered' = (IF h \in excused THEN offered ELSE Append(offered, h))
  <2>1. Inbox!Minus(offered, excused) = offered
    BY <1>2, MinusExtremes
  <2>2. QED
    BY <1>1, <1>2, <1>3, <2>1, MinusAppend
<1>6. offered' \in Seq(Letters) /\ Elements(offered') \cap excused' = {}
  <2>1. Append(offered, h) \in Seq(Letters) /\ Elements(Append(offered, h)) = Elements(offered) \cup {h}
    BY <1>2, <1>3, ElementsFacts, AppendProperties
  <2>2. QED
    BY <1>1, <1>2, <1>5, <2>1
<1>7. InTurn'
  <2> DEFINE e == Inbox!Minus(<<h>>, excused)
             b == Inbox!Minus(t, excused)
  <2>1. b \in Seq(Letters) /\ e \in Seq(Letters)
    BY <1>3, MinusElements
  <2>2. \A x, y \in Seq(Letters) : Inbox!Minus(x \o y, excused)
                                      = Inbox!Minus(x, excused) \o Inbox!Minus(y, excused)
    BY MinusConcat, Zenon
  <2>3. Inbox!Minus(box, excused) = e \o b
    BY <1>3, <2>2
  <2>4. admitted = offered \o (e \o b)
    BY <1>4, <2>3 DEF InboxInv, InTurn
  <2>5. Inbox!GivenAway' \o box' = t
    BY <1>1, <1>4
  <2> HIDE DEF h, t
  <2>6. e = IF h \in excused THEN <<>> ELSE <<h>>
    BY <1>3
  <2> HIDE DEF e, b
  <2>7. offered' = offered \o e
    BY <1>2, <1>3, <1>5, <2>6, AppendIsConcat, ConcatEmptySeq
  <2>8. (offered \o e) \o b = offered \o (e \o b)
    <3>1. offered \in Seq(Letters) /\ e \in Seq(Letters) /\ b \in Seq(Letters)
      BY <1>2, <2>1
    <3>2. QED
      BY <3>1, Regroup, ZenonT(60)
  <2>9. QED
    BY <1>1, <2>4, <2>5, <2>7, <2>8 DEF InTurn, b
<1>8. InboxTypes'
  BY <1>1, <1>3, <1>6 DEF InboxInv, InboxTypes, Inbox!Stages
<1>9. QED
  BY <1>1, <1>6, <1>7, <1>8 DEF InboxInv

(* The process dies or ends.                                               *)
LEMMA InboxRestartKeeps ==
    ASSUME InboxInv, Inbox!Restart
    PROVE  InboxInv'
<1> DEFINE S == Inbox!ToSet(box) \cup (IF stage = "offered_row" THEN {Head(stored)} ELSE {})
<1>1. /\ box' = <<>> /\ marked' = {} /\ heard' = {} /\ stage' = "idle" /\ stored' = stored
      /\ Inbox!Excuse(S)
  BY DEF Inbox!Restart
<1>2. box \in Seq(Letters) /\ stored \in Seq(Letters)
  BY DEF InboxInv, InboxTypes
<1>3. Inbox!ToSet(box) = Elements(box)
  BY <1>2 DEF Inbox!ToSet, Elements
<1>4. stage = "offered_row" =>
        /\ Head(stored) \in Letters /\ Tail(stored) \in Seq(Letters)
        /\ <<Head(stored)>> \in Seq(Letters) /\ stored = <<Head(stored)>> \o Tail(stored)
        /\ \A U : Inbox!Minus(<<Head(stored)>>, U) = IF Head(stored) \in U THEN <<>> ELSE <<Head(stored)>>
  BY <1>2, HeadFirst DEF InboxInv
<1>5. S \subseteq Letters /\ Elements(box) \subseteq S
  BY <1>2, <1>3, <1>4, ElementsFacts
<1>6. stage = "offered_row" => Head(stored) \in S
  OBVIOUS
<1> HIDE DEF S
<1>7. InboxTypes'
  <2>1. excused' \subseteq Letters /\ admitted' \in Seq(Letters) /\ offered' \in Seq(Letters)
    BY <1>1, <1>5, ExcuseTypes
  <2>2. QED
    BY <1>1, <1>2, <2>1 DEF InboxTypes, Inbox!Stages
<1>8. Inbox!Minus(Whole', excused \cup S) = Inbox!Minus(Whole, excused \cup S)
  <2> DEFINE U == excused \cup S
  <2>1. Elements(box) \subseteq U /\ (stage = "offered_row" => Head(stored) \in U)
    BY <1>5, <1>6
  <2> HIDE DEF U
  <2>2. Inbox!Minus(box, U) = <<>>
    BY <1>2, <2>1, MinusExtremes
  <2> DEFINE g == Inbox!Minus(Inbox!GivenAway, U)
  <2>3. g \in Seq(Letters) /\ Inbox!Minus(Whole, U) = g \o <<>>
    BY <2>2, WholeTypes
  <2>4. Whole' = stored
    BY <1>1, <1>2, ConcatEmptySeq DEF Whole, Inbox!GivenAway
  <2>5. Inbox!Minus(stored, U) = g
    <3>1. CASE stage = "offered_row"
      <4> DEFINE e == <<Head(stored)>>
      <4>1. \A x, y \in Seq(Letters) : Inbox!Minus(x \o y, U) = Inbox!Minus(x, U) \o Inbox!Minus(y, U)
        BY MinusConcat, Zenon
      <4>2. e \in Seq(Letters) /\ Inbox!Minus(e, U) = <<>> /\ stored = e \o Tail(stored)
        BY <1>4, <2>1, <3>1
      <4> HIDE DEF e
      <4>3. Inbox!GivenAway = Tail(stored)
        BY <3>1 DEF Inbox!GivenAway
      <4>4. Inbox!Minus(stored, U) = <<>> \o g
        BY <1>4, <3>1, <4>1, <4>2, <4>3
      <4> HIDE DEF g
      <4>5. QED
        BY <2>3, <4>4, ConcatEmptySeq
    <3>2. CASE stage # "offered_row"
      BY <3>2 DEF Inbox!GivenAway
    <3>3. QED
      BY <3>1, <3>2
  <2> HIDE DEF g
  <2>6. g \o <<>> = g
    BY <2>3, ConcatEmptySeq
  <2>7. Inbox!Minus(Whole', U) = Inbox!Minus(Whole, U)
    BY <2>3, <2>4, <2>5, <2>6
  <2>8. QED
    BY <2>7 DEF U
<1>9. QED
  BY <1>1, <1>7, <1>8, ExcusedGo

(* The steps that leave the messages where they are.                       *)
LEMMA OthersKeep ==
    ASSUME InboxInv,
           Inbox!FlushEnds \/ Inbox!Command \/ Inbox!NoMessage \/ Inbox!Stop
              \/ UNCHANGED Inbox!vars
    PROVE  InboxInv'
<1>1. UNCHANGED <<heard, box, marked, stored, admitted, offered, excused>>
  BY DEF Inbox!FlushEnds, Inbox!Command, Inbox!NoMessage, Inbox!Stop, Inbox!vars
<1>2. stage' = stage \/ (stage # "offered_row" /\ stage' # "offered_row" /\ stage' \in Inbox!Stages)
  BY DEF Inbox!FlushEnds, Inbox!Command, Inbox!NoMessage, Inbox!Stop, Inbox!vars, Inbox!Flushing,
         Inbox!AfterFlush, Inbox!Stages
<1>3. Inbox!GivenAway' = Inbox!GivenAway
  BY <1>1, <1>2 DEF Inbox!GivenAway
<1>4. InboxTypes'
  BY <1>1, <1>2 DEF InboxInv, InboxTypes
<1>5. QED
  BY <1>1, <1>2, <1>3, <1>4 DEF InboxInv, InTurn

(* The invariant holds throughout, for any messages, capacity and number   *)
(* of faults and restarts.                                                 *)
THEOREM InboxInvariant == Inbox!Spec => []InboxInv
<1>1. Inbox!Init => InboxInv
  BY InboxStart
<1>2. InboxInv /\ [Inbox!Next]_(Inbox!vars) => InboxInv'
  <2> SUFFICES ASSUME InboxInv, [Inbox!Next]_(Inbox!vars) PROVE InboxInv'
    OBVIOUS
  <2>1. ASSUME NEW m \in Letters, Inbox!Receive(m) PROVE InboxInv'
    BY <2>1, ReceiveKeeps
  <2>2. QED
    BY <2>1, SaveOldestKeeps, OfferRowKeeps, DeleteRowKeeps, OfferRamKeeps, InboxRestartKeeps,
       OthersKeep DEF Inbox!Next
<1>3. QED
  BY <1>1, <1>2, PTL DEF Inbox!Spec

(* What the client was given, what SQLite holds and what RAM holds is, in  *)
(* this order, what was accepted, whatever is evicted, fails or restarts,  *)
(* but for the messages that may be missing or come twice                  *)
(* (message_delivery.py:111-113, 183-202; sqlite_handler.py:4410-4413).    *)
THEOREM MessagesGivenInTurn == Inbox!Spec => []Inbox!GivenOnceInOrder
<1>1. InboxInv => Inbox!GivenOnceInOrder
  BY DEF InboxInv, InTurn, Inbox!GivenOnceInOrder
<1>2. QED
  BY <1>1, InboxInvariant, PTL

-----------------------------------------------------------------------------
(* Who may write to a room: RoomAccess.                                    *)
CONSTANTS Deliveries, Times, Texts, ReadOnly, MaxLives, MaxTaken, MaxFailed
VARIABLES client, lives, job, taken, answered, granted, failed

(* The access list, its tasks and histories under other names.             *)
Access == INSTANCE RoomAccess WITH
    Jobs <- Deliveries, MaxFaults <- MaxFailed, acked <- answered, faults <- failed

(* Posts and commands.                                                     *)
MessageType == Access!Posts \cup Access!Commands
(* A client on the list.                                                   *)
ClientType == [role : {"guest", "writer", "admin"}, last : Nat,
               receipt : MessageType \cup {None}, life : Nat]
(* A task that delivers a message.                                         *)
DeliveryType == [who : Clients, life : Nat, msg : MessageType, at : {"waiting", "replying"}]
(* What is taken.                                                          *)
EntryType == [who : Clients, life : Nat, msg : MessageType]

(* The types.                                                              *)
AccessTypes ==
    /\ client \in [Clients -> ClientType \cup {None}]
    /\ lives \in [Clients -> Nat]
    /\ job \in [Deliveries -> DeliveryType \cup {None}]
    /\ taken \in Seq(EntryType)
    /\ granted \in [Clients -> {"guest", "writer", "admin", None}]

(* Of the clients on the list: the list has the latest object, with the    *)
(* role it was granted, a time no earlier than those of its messages, and a *)
(* receipt only of what was taken.                                         *)
ListRight(c) ==
    client[c] # None =>
        /\ client[c].life = lives[c]
        /\ client[c].role = granted[c]
        /\ \A i \in 1..Len(taken) :
              taken[i].who = c /\ taken[i].life = client[c].life
                 => taken[i].msg.time <= client[c].last
        /\ client[c].receipt # None =>
              \E i \in 1..Len(taken) :
                 taken[i] = [who |-> c, life |-> client[c].life, msg |-> client[c].receipt]

(* Nothing was taken of an object that is yet to be made.                  *)
LivesPassed == \A i \in 1..Len(taken) : taken[i].life <= lives[taken[i].who]

(* The messages of a client's object were taken in the order of their times. *)
TakenInOrder ==
    \A i, k \in 1..Len(taken) :
        i < k /\ taken[i].who = taken[k].who /\ taken[i].life = taken[k].life
           => taken[i].msg.time < taken[k].msg.time

(* What was acknowledged was taken.                                        *)
AnswersStored == \A a \in answered : \E i \in 1..Len(taken) : taken[i] = a

(* The inductive invariant of the access list.                             *)
AccessInv ==
    /\ AccessTypes
    /\ \A c \in Clients : ListRight(c)
    /\ LivesPassed
    /\ TakenInOrder
    /\ AnswersStored

USE DEF Access!AccessAssumption

(* The types, as the assumption has them.                                  *)
LEMMA Apart ==
    ASSUME Access!AccessAssumption
    PROVE  /\ None \notin MessageType /\ None \notin ClientType /\ None \notin DeliveryType
           /\ \A m \in MessageType : m.time \in Times /\ m.time \in Nat
  BY DEF MessageType, ClientType, DeliveryType, Access!Posts, Access!Commands

(* What was taken is a message of a life, at a time.                       *)
LEMMA TakenTyped ==
    ASSUME Access!AccessAssumption, taken \in Seq(EntryType)
    PROVE  \A i \in 1..Len(taken) :
              taken[i].who \in Clients /\ taken[i].life \in Nat /\ taken[i].msg.time \in Nat
<1>1. \A e \in EntryType : e.who \in Clients /\ e.life \in Nat /\ e.msg.time \in Nat
  BY Apart DEF EntryType
<1>2. \A i \in 1..Len(taken) : taken[i] \in EntryType
  OBVIOUS
<1>3. QED
  BY <1>1, <1>2

(* The invariant holds at the start.                                       *)
LEMMA AccessStart ==
    ASSUME Access!AccessAssumption, Access!Init
    PROVE  AccessInv
<1>1. /\ client = [c \in Clients |-> None] /\ lives = [c \in Clients |-> 0]
      /\ job = [j \in Deliveries |-> None] /\ taken = <<>> /\ answered = {}
      /\ granted = [c \in Clients |-> None]
  BY DEF Access!Init
<1>2. AccessTypes
  BY <1>1 DEF AccessTypes
<1>3. \A c \in Clients : ListRight(c)
  BY <1>1 DEF ListRight
<1>4. LivesPassed /\ TakenInOrder /\ AnswersStored
  BY <1>1 DEF LivesPassed, TakenInOrder, AnswersStored
<1>5. QED
  BY <1>2, <1>3, <1>4 DEF AccessInv

(* Where nothing is taken or acknowledged and no life is given, only the   *)
(* list has to be looked at.                                               *)
LEMMA ListKeeps ==
    ASSUME AccessInv, AccessTypes', UNCHANGED <<lives, taken, answered>>,
           \A c \in Clients : ListRight(c)'
    PROVE  AccessInv'
  BY DEF AccessInv, LivesPassed, TakenInOrder, AnswersStored

(* A client logs in.                                                       *)
LEMMA LoginKeeps ==
    ASSUME Access!AccessAssumption, AccessInv,
           NEW d \in Clients, NEW password \in {"blank", "writer", "admin"}, NEW now \in Times,
           Access!Login(d, password, now)
    PROVE  AccessInv'
<1> DEFINE old == IF client[d] = None THEN Access!NewClient(d) ELSE client[d]
           new == Access!Touched(old, password, now)
<1>1. /\ now > old.last /\ UNCHANGED <<job, taken, answered>>
      /\ \/ /\ client' = [client EXCEPT ![d] = new]
            /\ lives' = [lives EXCEPT ![d] = new.life]
            /\ granted' = [granted EXCEPT ![d] = new.role]
         \/ client' = client /\ UNCHANGED <<lives, granted>>
  BY DEF Access!Login, Access!RolledBack
<1>2. /\ client \in [Clients -> ClientType \cup {None}] /\ lives \in [Clients -> Nat]
      /\ granted \in [Clients -> {"guest", "writer", "admin", None}]
      /\ taken \in Seq(EntryType) /\ now \in Nat
  BY DEF AccessInv, AccessTypes
<1>3. old \in ClientType
  <2>1. CASE client[d] = None
    BY <1>2, <2>1 DEF Access!NewClient, ClientType
  <2>2. CASE client[d] # None
    BY <1>2, <2>2
  <2>3. QED
    BY <2>1, <2>2
<1>4. /\ new \in ClientType /\ new.life = old.life /\ new.receipt = old.receipt /\ new.last = now
      /\ new.role = IF password = "blank" THEN old.role ELSE password
  <2> HIDE DEF old
  <2>1. QED
    BY <1>2, <1>3 DEF Access!Touched, ClientType
<1>5. CASE UNCHANGED <<client, lives, granted>>
  BY <1>1, <1>5 DEF AccessInv, AccessTypes, ListRight, LivesPassed, TakenInOrder, AnswersStored
<1>6. CASE /\ client' = [client EXCEPT ![d] = new]
           /\ lives' = [lives EXCEPT ![d] = new.life]
           /\ granted' = [granted EXCEPT ![d] = new.role]
  <2>1. AccessTypes'
    <3> HIDE DEF old, new
    <3>1. new.life \in Nat /\ new.role \in {"guest", "writer", "admin"}
      BY <1>4 DEF ClientType
    <3>2. QED
      BY <1>1, <1>2, <1>4, <1>6, <3>1 DEF AccessInv, AccessTypes
  <2>2. old.life = (IF client[d] = None THEN lives[d] + 1 ELSE lives[d])
    BY DEF AccessInv, ListRight, Access!NewClient
  <2>3. lives'[d] >= lives[d] /\ \A c \in Clients : c # d => lives'[c] = lives[c]
    BY <1>2, <1>4, <1>6, <2>2
  <2>4. LivesPassed'
    <3>1. \A i \in 1..Len(taken) : taken[i].who \in Clients /\ taken[i].life \in Nat
      BY <1>2, TakenTyped
    <3>2. ASSUME NEW c \in Clients
          PROVE  lives'[c] >= lives[c] /\ lives[c] \in Nat /\ lives'[c] \in Nat
      <4>1. lives[c] \in Nat /\ lives'[c] \in Nat
        BY <1>2, <2>1 DEF AccessTypes
      <4> HIDE DEF new, old
      <4>2. CASE c = d
        BY <2>3, <4>1, <4>2
      <4>3. CASE c # d
        BY <2>3, <4>1, <4>3
      <4>4. QED
        BY <4>1, <4>2, <4>3
    <3>3. QED
      BY <1>1, <3>1, <3>2 DEF AccessInv, LivesPassed
  <2>5. ASSUME NEW c \in Clients PROVE ListRight(c)'
    <3>1. CASE c # d
      <4>1. client'[c] = client[c] /\ lives'[c] = lives[c] /\ granted'[c] = granted[c]
        BY <1>2, <1>6, <3>1
      <4>2. ListRight(c)
        BY DEF AccessInv
      <4>3. QED
        BY <1>1, <4>1, <4>2 DEF ListRight
    <3>2. CASE c = d
      <4>1. client'[d] = new /\ lives'[d] = new.life /\ granted'[d] = new.role
        BY <1>2, <1>6
      <4>2. ASSUME NEW i \in 1..Len(taken), taken[i].who = d, taken[i].life = new.life
            PROVE  taken[i].msg.time <= now
        <5>1. taken[i].msg.time \in Nat /\ taken[i].life <= lives[d]
          BY <1>2, <4>2, TakenTyped DEF AccessInv, LivesPassed
        <5>2. client[d] # None /\ old = client[d]
          BY <1>2, <1>4, <2>2, <4>2, <5>1
        <5>3. taken[i].msg.time <= old.last
          BY <1>4, <4>2, <5>2 DEF AccessInv, ListRight
        <5>4. old.last \in Nat
          BY <1>3 DEF ClientType
        <5>5. QED
          BY <1>1, <1>2, <5>1, <5>3, <5>4
      <4>3. new.receipt # None =>
               \E i \in 1..Len(taken) :
                  taken[i] = [who |-> d, life |-> new.life, msg |-> new.receipt]
        <5>1. CASE client[d] = None
          BY <1>4, <5>1 DEF Access!NewClient
        <5>2. CASE client[d] # None
          BY <1>4, <5>2 DEF AccessInv, ListRight
        <5>3. QED
          BY <5>1, <5>2
      <4> HIDE DEF new, old
      <4>4. QED
        BY <1>1, <1>4, <3>2, <4>1, <4>2, <4>3 DEF ListRight
    <3>3. QED
      BY <3>1, <3>2
  <2>6. TakenInOrder' /\ AnswersStored'
    BY <1>1 DEF AccessInv, TakenInOrder, AnswersStored
  <2>7. QED
    BY <2>1, <2>4, <2>5, <2>6 DEF AccessInv
<1>7. QED
  BY <1>1, <1>5, <1>6

(* A keep-alive, an eviction, an arrival, an answer and a restart.         *)
LEMMA ListSteps ==
    ASSUME Access!AccessAssumption, AccessInv,
           \/ \E c \in Clients : \/ \E t \in Times : Access!KeepAlive(c, t)
                                 \/ Access!Remove(c)
                                 \/ \E j \in Deliveries, msg \in MessageType : Access!Arrive(j, c, msg)
           \/ \E j \in Deliveries : Access!Refuse(j) \/ Access!Replied(j)
           \/ Access!Restart
           \/ UNCHANGED Access!vars
    PROVE  AccessInv'
<1>0. /\ client \in [Clients -> ClientType \cup {None}] /\ lives \in [Clients -> Nat]
      /\ job \in [Deliveries -> DeliveryType \cup {None}] /\ taken \in Seq(EntryType)
      /\ \A c \in Clients : ListRight(c)
  BY DEF AccessInv, AccessTypes
<1>1. ASSUME NEW c \in Clients, NEW t \in Times, Access!KeepAlive(c, t) PROVE AccessInv'
  <2>1. /\ client[c] # None /\ t > client[c].last /\ client' = [client EXCEPT ![c].last = t]
        /\ UNCHANGED <<lives, job, taken, answered, granted>>
    BY <1>1 DEF Access!KeepAlive, Access!Members
  <2>2. t \in Nat /\ client[c] \in ClientType
    BY <1>0, <2>1
  <2> DEFINE new == [client[c] EXCEPT !.last = t]
  <2>3. /\ new \in ClientType /\ new # None /\ client' = [client EXCEPT ![c] = new]
        /\ new.life = client[c].life /\ new.role = client[c].role
        /\ new.receipt = client[c].receipt /\ new.last = t /\ t >= client[c].last
    BY <2>1, <2>2, Apart DEF ClientType
  <2> HIDE DEF new
  <2>4. AccessTypes'
    BY <1>0, <2>1, <2>3 DEF AccessInv, AccessTypes
  <2>5. ASSUME NEW b \in Clients PROVE ListRight(b)'
    <3>1. CASE b # c
      <4>1. client'[b] = client[b]
        BY <1>0, <2>3, <3>1
      <4>2. ListRight(b)
        BY <1>0
      <4>3. QED
        BY <2>1, <4>1, <4>2 DEF ListRight
    <3>2. CASE b = c
      <4>1. client'[c] = new
        BY <1>0, <2>3
      <4>2. \A i \in 1..Len(taken) : taken[i].who = c /\ taken[i].life = client[c].life
                                        => taken[i].msg.time <= t
        <5>1. \A i \in 1..Len(taken) : taken[i].msg.time \in Nat
          BY <1>0, TakenTyped
        <5>2. client[c].last \in Nat
          BY <2>2 DEF ClientType
        <5>3. \A i \in 1..Len(taken) : taken[i].who = c /\ taken[i].life = client[c].life
                                        => taken[i].msg.time <= client[c].last
          BY <1>0, <2>1 DEF ListRight
        <5>4. QED
          BY <2>2, <2>3, <5>1, <5>2, <5>3
      <4>3. QED
        BY <1>0, <2>1, <2>3, <3>2, <4>1, <4>2 DEF ListRight
    <3>3. QED
      BY <3>1, <3>2
  <2>6. QED
    BY <2>1, <2>4, <2>5, ListKeeps
<1>2. ASSUME NEW c \in Clients, Access!Remove(c) PROVE AccessInv'
  <2>1. client' = [client EXCEPT ![c] = None] /\ UNCHANGED <<lives, job, taken, answered, granted>>
    BY <1>2 DEF Access!Remove
  <2>2. AccessTypes'
    BY <1>0, <2>1 DEF AccessInv, AccessTypes
  <2>3. \A b \in Clients : client'[b] = client[b] \/ client'[b] = None
    BY <1>0, <2>1
  <2>4. ASSUME NEW b \in Clients PROVE ListRight(b)'
    <3>1. ListRight(b)
      BY <1>0
    <3>2. CASE client'[b] = None
      BY <3>2 DEF ListRight
    <3>3. CASE client'[b] = client[b]
      BY <2>1, <3>1, <3>3 DEF ListRight
    <3>4. QED
      BY <2>3, <3>2, <3>3
  <2>5. QED
    BY <2>1, <2>2, <2>4, ListKeeps
<1>3. ASSUME UNCHANGED <<client, lives, taken, answered, granted>>,
             job' \in [Deliveries -> DeliveryType \cup {None}]
      PROVE  AccessInv'
  BY <1>0, <1>3 DEF AccessInv, AccessTypes, ListRight, LivesPassed, TakenInOrder, AnswersStored
<1>4. ASSUME NEW c \in Clients, NEW j \in Deliveries, NEW msg \in MessageType,
             Access!Arrive(j, c, msg)
      PROVE  AccessInv'
  <2>1. /\ client[c] # None /\ UNCHANGED <<client, lives, taken, answered, granted>>
        /\ job' = [job EXCEPT ![j] = [who |-> c, life |-> client[c].life, msg |-> msg,
                                      at |-> "waiting"]]
    BY <1>4 DEF Access!Arrive, Access!Members
  <2>2. client[c].life \in Nat
    BY <1>0, <2>1 DEF ClientType
  <2>3. [who |-> c, life |-> client[c].life, msg |-> msg, at |-> "waiting"] \in DeliveryType
    BY <2>2 DEF DeliveryType
  <2>4. QED
    BY <1>0, <1>3, <2>1, <2>3
<1>5. ASSUME NEW j \in Deliveries, Access!Refuse(j) \/ Access!Replied(j) PROVE AccessInv'
  BY <1>0, <1>3, <1>5 DEF Access!Refuse, Access!Replied
<1>6. ASSUME Access!Restart PROVE AccessInv'
  <2>1. /\ client' = [c \in Clients |-> None] /\ job' = [j \in Deliveries |-> None]
        /\ UNCHANGED <<lives, taken, answered, granted>>
    BY <1>6 DEF Access!Restart
  <2>2. AccessTypes'
    BY <1>0, <2>1 DEF AccessInv, AccessTypes
  <2>3. \A b \in Clients : ListRight(b)'
    BY <2>1 DEF ListRight
  <2>4. QED
    BY <2>1, <2>2, <2>3, ListKeeps
<1>7. ASSUME UNCHANGED Access!vars PROVE AccessInv'
  BY <1>0, <1>3, <1>7 DEF Access!vars
<1>8. QED
  BY <1>1, <1>2, <1>4, <1>5, <1>6, <1>7

(* What a task that has its turn with a welcome message knows.             *)
LEMMA WelcomeFacts ==
    ASSUME AccessInv, NEW j \in Deliveries, Access!Turn(j), Access!Welcome(j)
    PROVE  /\ job[j] \in DeliveryType /\ job[j].who \in Clients /\ job[j].msg \in MessageType
           /\ client[job[j].who] \in ClientType /\ client[job[j].who] # None
           /\ client[job[j].who].life = job[j].life /\ job[j].life = lives[job[j].who]
           /\ Access!Entry(j) \in EntryType
<1>1. job[j] \in DeliveryType
  BY DEF Access!Turn, AccessInv, AccessTypes
<1>2. /\ job[j].who \in Clients /\ job[j].msg \in MessageType /\ job[j].life \in Nat
  BY <1>1 DEF DeliveryType
<1>3. client[job[j].who] # None /\ client[job[j].who].life = job[j].life
  BY DEF Access!Welcome
<1>4. client[job[j].who] \in ClientType
  BY <1>2, <1>3 DEF AccessInv, AccessTypes
<1>5. job[j].life = lives[job[j].who]
  BY <1>2, <1>3 DEF AccessInv, ListRight
<1>6. Access!Entry(j) \in EntryType
  BY <1>2 DEF Access!Entry, EntryType
<1>7. QED
  BY <1>1, <1>2, <1>3, <1>4, <1>5, <1>6

(* A new message is taken, of a client that is marked with its time.       *)
LEMMA TakenKeeps ==
    ASSUME Access!AccessAssumption, AccessInv,
           NEW j \in Deliveries, Access!Turn(j), Access!Welcome(j), Access!New(j),
           NEW new \in ClientType, client' = [client EXCEPT ![job[j].who] = new],
           new.last = job[j].msg.time, new.life = client[job[j].who].life,
           new.role = client[job[j].who].role,
           new.receipt \in {client[job[j].who].receipt, job[j].msg},
           taken' = Append(taken, Access!Entry(j)),
           answered' \subseteq answered \cup {Access!Entry(j)},
           job' \in [Deliveries -> DeliveryType \cup {None}],
           UNCHANGED <<lives, granted>>
    PROVE  AccessInv'
<1> DEFINE w == job[j].who
           e == Access!Entry(j)
           n == Len(taken)
           t == job[j].msg.time
<1>1. /\ w \in Clients /\ client[w] \in ClientType /\ client[w] # None /\ new # None
      /\ client[w].life = job[j].life /\ job[j].life = lives[w]
      /\ e \in EntryType /\ e = [who |-> w, life |-> job[j].life, msg |-> job[j].msg]
  BY WelcomeFacts, Apart DEF Access!Entry
<1>2. t \in Nat /\ client[w].last \in Nat /\ t > client[w].last
  BY <1>1, WelcomeFacts, Apart DEF Access!New, ClientType
<1>3. /\ client \in [Clients -> ClientType \cup {None}] /\ taken \in Seq(EntryType)
      /\ \A c \in Clients : ListRight(c)
      /\ lives \in [Clients -> Nat]
  BY DEF AccessInv, AccessTypes
<1>4. /\ n \in Nat /\ taken' \in Seq(EntryType) /\ Len(taken') = n + 1
      /\ \A i \in 1..n : taken'[i] = taken[i] /\ i \in 1..(n + 1)
      /\ taken'[n + 1] = e /\ n + 1 \in 1..(n + 1)
      /\ \A i \in 1..(n + 1) : i \in 1..n \/ i = n + 1
  <2>1. taken' = Append(taken, e)
    OBVIOUS
  <2> HIDE DEF e
  <2>2. QED
    BY <1>1, <1>3, <2>1, AppendProperties
<1>5. AccessTypes'
  BY <1>1, <1>3, <1>4 DEF AccessInv, AccessTypes
<1>6. \A i \in 1..n : /\ taken[i].who = w /\ taken[i].life = job[j].life
                           => taken[i].msg.time < t
                      /\ taken[i].msg.time \in Nat
  <2>1. \A i \in 1..n : taken[i].msg.time \in Nat
    BY <1>3, TakenTyped
  <2>2. \A i \in 1..n : taken[i].who = w /\ taken[i].life = job[j].life
                           => taken[i].msg.time <= client[w].last
    BY <1>1, <1>3 DEF ListRight
  <2>3. QED
    BY <1>2, <2>1, <2>2
<1>7. ASSUME NEW c \in Clients PROVE ListRight(c)'
  <2>1. CASE c # w
    <3>1. client'[c] = client[c] /\ e.who # c
      BY <1>1, <1>3, <2>1
    <3>2. client[c] # None =>
            \A i \in 1..(n + 1) : taken'[i].who = c /\ taken'[i].life = client[c].life
                                     => taken'[i].msg.time <= client[c].last
      BY <1>3, <1>4, <3>1 DEF ListRight
    <3>3. client[c] # None /\ client[c].receipt # None =>
            \E i \in 1..(n + 1) :
               taken'[i] = [who |-> c, life |-> client[c].life, msg |-> client[c].receipt]
      <4>1. SUFFICES ASSUME client[c] # None, client[c].receipt # None
                     PROVE  \E i \in 1..(n + 1) :
                               taken'[i] = [who |-> c, life |-> client[c].life,
                                            msg |-> client[c].receipt]
        OBVIOUS
      <4>2. PICK i \in 1..n :
               taken[i] = [who |-> c, life |-> client[c].life, msg |-> client[c].receipt]
        BY <1>3, <4>1 DEF ListRight
      <4>3. QED
        BY <1>4, <4>2
    <3>4. QED
      BY <1>3, <1>4, <3>1, <3>2, <3>3 DEF ListRight
  <2>2. CASE c = w
    <3>1. client'[w] = new
      BY <1>1, <1>3
    <3>2. \A i \in 1..(n + 1) : taken'[i].who = w /\ taken'[i].life = new.life
                                   => taken'[i].msg.time <= new.last
      <4>1. e.msg.time = t
        BY <1>1
      <4> HIDE DEF e
      <4>2. QED
        BY <1>1, <1>2, <1>4, <1>6, <4>1
    <3>3. new.receipt # None =>
            \E i \in 1..(n + 1) :
               taken'[i] = [who |-> w, life |-> new.life, msg |-> new.receipt]
      <4>1. CASE new.receipt = job[j].msg
        BY <1>1, <1>4, <4>1
      <4>2. CASE new.receipt = client[w].receipt /\ new.receipt # None
        <5>1. PICK i \in 1..n :
                 taken[i] = [who |-> w, life |-> client[w].life, msg |-> client[w].receipt]
          BY <1>1, <1>3, <4>2 DEF ListRight
        <5>2. QED
          BY <1>4, <4>2, <5>1
      <4>3. QED
        BY <4>1, <4>2
    <3>4. new.life = lives[w] /\ new.role = granted[w]
      BY <1>1, <1>3 DEF ListRight
    <3> HIDE DEF w, e, n, t
    <3>5. QED
      BY <1>4, <2>2, <3>1, <3>2, <3>3, <3>4 DEF ListRight
  <2>3. QED
    BY <2>1, <2>2
<1>8. LivesPassed'
  <2>1. \A i \in 1..n : taken[i].life <= lives[taken[i].who]
    BY DEF AccessInv, LivesPassed
  <2>2. e.life <= lives[e.who]
    BY <1>1, <1>3
  <2> HIDE DEF e, n
  <2>3. QED
    BY <1>4, <2>1, <2>2 DEF LivesPassed
<1>9. TakenInOrder'
  <2>1. ASSUME NEW i \in 1..(n + 1), NEW k \in 1..(n + 1), i < k,
               taken'[i].who = taken'[k].who, taken'[i].life = taken'[k].life
        PROVE  taken'[i].msg.time < taken'[k].msg.time
    <3>1. i \in 1..n
      BY <1>4, <2>1
    <3>2. CASE k \in 1..n
      BY <1>4, <2>1, <3>1, <3>2 DEF AccessInv, TakenInOrder
    <3>3. CASE k = n + 1
      <4>1. e.who = w /\ e.life = job[j].life /\ e.msg.time = t
        BY <1>1
      <4> HIDE DEF e, w, t
      <4>2. taken[i].who = w /\ taken[i].life = job[j].life
        BY <1>4, <2>1, <3>1, <3>3, <4>1
      <4>3. taken[i].msg.time < t
        BY <1>6, <3>1, <4>2
      <4>4. QED
        BY <1>4, <3>1, <3>3, <4>1, <4>3
    <3>4. QED
      BY <1>4, <3>2, <3>3
  <2> HIDE DEF n
  <2>2. QED
    BY <1>4, <2>1 DEF TakenInOrder
<1>10. AnswersStored'
  <2>1. \A a \in answered : \E i \in 1..n : taken[i] = a
    BY DEF AccessInv, AnswersStored
  <2> HIDE DEF n, e
  <2>2. \A a \in answered' : \E i \in 1..(n + 1) : taken'[i] = a
    BY <1>4, <2>1 DEF e
  <2>3. QED
    BY <1>4, <2>2 DEF AnswersStored
<1>11. QED
  BY <1>5, <1>7, <1>8, <1>9, <1>10 DEF AccessInv

(* A post or a command is taken, or it is not.                             *)
LEMMA MessageKeeps ==
    ASSUME Access!AccessAssumption, AccessInv, NEW j \in Deliveries,
           Access!Post(j) \/ Access!Command(j)
    PROVE  AccessInv'
<1> DEFINE w == job[j].who
           m == job[j].msg
<1>1. /\ Access!Turn(j) /\ Access!Welcome(j) /\ Access!New(j)
      /\ UNCHANGED <<lives, granted>>
  BY DEF Access!Post, Access!Command
<1>2. /\ job[j] \in DeliveryType /\ w \in Clients /\ m \in MessageType
      /\ client[w] \in ClientType /\ client[w] # None
  BY <1>1, WelcomeFacts
<1>3. /\ client \in [Clients -> ClientType \cup {None}] /\ client[w].last \in Nat
      /\ m.time \in Nat /\ m.time > client[w].last
      /\ job \in [Deliveries -> DeliveryType \cup {None}]
  BY <1>1, <1>2, Apart DEF AccessInv, AccessTypes, ClientType, Access!New
<1>4. Access!Larger(client[w].last, m.time) = m.time
  BY <1>3 DEF Access!Larger
<1>5. CASE Access!Post(j)
  <2>1. job' = [job EXCEPT ![j] = None]
    BY <1>5 DEF Access!Post
  <2>2. job' \in [Deliveries -> DeliveryType \cup {None}]
    BY <1>3, <2>1
  <2>3. CASE UNCHANGED <<client, taken, answered>>
    BY <1>1, <2>2, <2>3
       DEF AccessInv, AccessTypes, ListRight, LivesPassed, TakenInOrder, AnswersStored
  <2>4. CASE /\ taken' = Append(taken, Access!Entry(j))
             /\ answered' = answered \cup {Access!Entry(j)}
             /\ client' = Access!Marked(j)
    <3> DEFINE new == [client[w] EXCEPT !.last = m.time, !.receipt = m]
    <3>1. /\ new \in ClientType /\ new.last = m.time /\ new.life = client[w].life
          /\ new.role = client[w].role /\ new.receipt = m
      BY <1>2, <1>3 DEF ClientType
    <3>2. client' = [client EXCEPT ![w].last = Access!Larger(client[w].last, m.time),
                                   ![w].receipt = m]
      BY <2>4 DEF Access!Marked
    <3>3. client' = [client EXCEPT ![w] = new]
      <4>1. \A L : L = m.time =>
               [client EXCEPT ![w].last = L, ![w].receipt = m] = [client EXCEPT ![w] = new]
        BY <1>2, <1>3 DEF ClientType
      <4> HIDE DEF new
      <4>2. QED
        BY <1>4, <3>2, <4>1
    <3> HIDE DEF new
    <3>4. QED
      BY <1>1, <2>2, <2>4, <3>1, <3>3, TakenKeeps
  <2>5. QED
    BY <1>5, <2>3, <2>4 DEF Access!Post, Access!NotStored
<1>6. CASE Access!Command(j)
  <2>1. /\ job' = [job EXCEPT ![j].at = "replying"] /\ client' = Access!Reserved(j)
        /\ taken' = Append(taken, Access!Entry(j)) /\ UNCHANGED answered
    BY <1>6 DEF Access!Command
  <2>2. job' \in [Deliveries -> DeliveryType \cup {None}]
    <3>1. [job[j] EXCEPT !.at = "replying"] \in DeliveryType
      BY <1>2 DEF DeliveryType
    <3>2. job' = [job EXCEPT ![j] = [job[j] EXCEPT !.at = "replying"]]
      BY <1>3, <2>1
    <3>3. QED
      BY <1>3, <3>1, <3>2
  <2> DEFINE new == [client[w] EXCEPT !.last = m.time]
  <2>3. /\ new \in ClientType /\ new.last = m.time /\ new.life = client[w].life
        /\ new.role = client[w].role /\ new.receipt = client[w].receipt
    BY <1>2, <1>3 DEF ClientType
  <2>4. client' = [client EXCEPT ![w] = new]
    <3>1. client' = [client EXCEPT ![w].last = Access!Larger(client[w].last, m.time)]
      BY <2>1 DEF Access!Reserved
    <3>2. \A L : L = m.time => [client EXCEPT ![w].last = L] = [client EXCEPT ![w] = new]
      BY <1>2, <1>3 DEF ClientType
    <3> HIDE DEF new
    <3>3. QED
      BY <1>4, <3>1, <3>2
  <2> HIDE DEF new
  <2>5. QED
    BY <1>1, <2>1, <2>2, <2>3, <2>4, TakenKeeps
<1>7. QED
  BY <1>5, <1>6

(* A post that is acknowledged again was stored.                           *)
LEMMA AgainKeeps ==
    ASSUME Access!AccessAssumption, AccessInv, NEW j \in Deliveries, Access!Again(j)
    PROVE  AccessInv'
<1>1. /\ Access!Turn(j) /\ Access!Welcome(j) /\ client[job[j].who].receipt = job[j].msg
      /\ answered' = answered \cup {Access!Entry(j)} /\ job' = [job EXCEPT ![j] = None]
      /\ UNCHANGED <<client, lives, taken, granted>>
  BY DEF Access!Again, Access!Repeated
<1>2. /\ job[j].who \in Clients /\ job[j].msg \in MessageType /\ client[job[j].who] # None
      /\ client[job[j].who].life = job[j].life /\ job[j].msg # None
  BY <1>1, WelcomeFacts, Apart
<1>3. \E i \in 1..Len(taken) : taken[i] = Access!Entry(j)
  BY <1>1, <1>2 DEF AccessInv, ListRight, Access!Entry
<1>4. job' \in [Deliveries -> DeliveryType \cup {None}]
  BY <1>1 DEF AccessInv, AccessTypes
<1>5. AnswersStored'
  BY <1>1, <1>3 DEF AccessInv, AnswersStored
<1>6. QED
  BY <1>1, <1>4, <1>5 DEF AccessInv, AccessTypes, ListRight, LivesPassed, TakenInOrder

(* The invariant of the access list: the room has the latest object of each*)
(* client on the list, whose time is no earlier than those of the messages *)
(* taken of it and whose receipt is of one of them (acl.py, text.py).      *)
THEOREM AccessInvariant ==
    ASSUME Access!AccessAssumption
    PROVE  Access!Spec => []AccessInv
<1>1. Access!Init => AccessInv
  BY AccessStart
<1>2. AccessInv /\ [Access!Next]_Access!vars => AccessInv'
  <2>1. SUFFICES ASSUME AccessInv, [Access!Next]_Access!vars PROVE AccessInv'
    OBVIOUS
  <2>2. \/ \E d \in Clients : \E password \in {"blank", "writer", "admin"}, now \in Times :
              Access!Login(d, password, now)
        \/ \/ \E c \in Clients :
                 \/ \E t \in Times : Access!KeepAlive(c, t)
                 \/ Access!Remove(c)
                 \/ \E j \in Deliveries, msg \in MessageType : Access!Arrive(j, c, msg)
           \/ \E j \in Deliveries : Access!Refuse(j) \/ Access!Replied(j)
           \/ Access!Restart
           \/ UNCHANGED Access!vars
        \/ \E j \in Deliveries : Access!Again(j)
        \/ \E j \in Deliveries : Access!Post(j) \/ Access!Command(j)
    BY <2>1 DEF Access!Next, MessageType
  <2>3. QED
    BY <2>1, <2>2, LoginKeeps, ListSteps, AgainKeeps, MessageKeeps
<1>3. QED
  BY <1>1, <1>2, PTL DEF Access!Spec

(* MessagesOnce, of GivenOnceInOrder: while a client is on the list of a   *)
(* room each of its posts and commands is taken once and in the order of   *)
(* its time, whatever comes twice or late, and what was acknowledged was   *)
(* taken (text.py: 288-330, 396-404).                                      *)
THEOREM MessagesTakenOnce ==
    Access!AccessAssumption => (Access!Spec => []Access!MessagesOnce)
<1>1. SUFFICES ASSUME Access!AccessAssumption PROVE Access!Spec => []Access!MessagesOnce
  OBVIOUS
<1>2. AccessInv => Access!MessagesOnce
  <2>1. SUFFICES ASSUME AccessInv PROVE Access!MessagesOnce
    OBVIOUS
  <2>2. DOMAIN taken = 1..Len(taken)
    BY <2>1 DEF AccessInv, AccessTypes
  <2>3. \A c \in Access!Members : client[c].role = granted[c]
    BY <2>1 DEF AccessInv, ListRight, Access!Members
  <2>4. QED
    BY <2>1, <2>2, <2>3 DEF AccessInv, TakenInOrder, AnswersStored, Access!MessagesOnce
<1>3. QED
  BY <1>1, <1>2, AccessInvariant, PTL
=============================================================================
