--------------------------- MODULE PullRespProofs ---------------------------
(***************************************************************************)
(* The exchange with the forwarder, for any number of attempts and tokens: *)
(* what a call returns is true, registrations and echoes are right, and    *)
(* PullResp implements RadioLink.                                          *)
(***************************************************************************)
EXTENDS PullResp, TLAPS

Before == {"idle", "lock", "guard"}
Refusals == {"dropped", "refused", "not_sent"}

(* The attempt's PULL_RESP is not on its way and not being served.         *)
NoCarrier(a) ==
    /\ \A i \in DOMAIN resps : resps[i].attempt # a
    /\ job # None => job.attempt # a

(* An acknowledgement of the attempt that would be true.                   *)
Verdict(a, ack) ==
    IF ack = "sent" THEN emitted[a] = 1 /\ (emitting = a => cutShort)
    ELSE NoCarrier(a) /\ (ack # "failed" => emitted[a] = 0)

(* Who transmits or waits for an acknowledgement holds the lock.           *)
LockInv == \A a \in Attempts : pc[a] \in {"guard", "ack"} => Holds(a)

PendingInv ==
    \A t \in Tokens : pending[t] # None =>
        pc[pending[t]] = "ack" /\ token[pending[t]] = t

CallInv ==
    \A a \in Attempts :
        /\ result[a] = "none" <=> pc[a] # "done"
        /\ pc[a] \in Before => /\ emitted[a] = 0
                               /\ NoCarrier(a)
                               /\ future[a] = "none"

(* A datagram belongs to an attempt that drew its token, and to nobody else*)
(* who waits for an acknowledgement of that token.                         *)
Belongs(m) ==
    /\ m.token = token[m.attempt]
    /\ pc[m.attempt] \notin Before
    /\ pending[m.token] # None => pending[m.token] = m.attempt

CarryInv ==
    /\ \A i \in DOMAIN resps : Belongs(resps[i]) /\ emitted[resps[i].attempt] = 0
    /\ job # None <=> fwd \in {"check", "poll"}
    /\ job # None => Belongs(job)
    /\ fwd = "check" => emitted[job.attempt] = 0
    /\ fwd = "poll" => emitted[job.attempt] = 1

(* No two things on their way have the same token.                         *)
UniqueInv ==
    /\ \A i, j \in DOMAIN resps : i # j => resps[i].token # resps[j].token
    /\ \A i \in DOMAIN resps : job # None => resps[i].token # job.token
    /\ \A i \in DOMAIN resps, j \in DOMAIN acks : resps[i].token # acks[j].token
    /\ \A j \in DOMAIN acks : job # None => acks[j].token # job.token

(* Wherever an acknowledgement is, it is true.                             *)
AckInv ==
    \A j \in DOMAIN acks : pending[acks[j].token] # None =>
        Verdict(pending[acks[j].token], acks[j].ack)

CallbackInv ==
    \A c \in callbacks : Verdict(c.attempt, c.ack) /\ pc[c.attempt] \notin Before

FutureInv == \A a \in Attempts : future[a] \in Acks => Verdict(a, future[a])

ResultInv ==
    \A a \in Attempts :
        /\ result[a] = "ok" => Verdict(a, "sent")
        /\ result[a] = "failed" => Verdict(a, "failed")
        /\ result[a] \in Refusals => Verdict(a, "dropped")

EchoInv == \A a \in echo : result[a] = "ok"

TrueInv == AckInv /\ CallbackInv /\ FutureInv /\ ResultInv /\ EchoInv

IInv == TypeOK /\ LockInv /\ PendingInv /\ CallInv /\ CarryInv /\ UniqueInv /\ TrueInv

-----------------------------------------------------------------------------
(* The first of the line stays first when somebody else leaves it.         *)
LEMMA WithoutKeepsHead ==
    ASSUME NEW S, NEW s \in Seq(S), NEW a
    PROVE  /\ Without(s, a) \in Seq(S)
           /\ s # <<>> /\ Head(s) # a =>
                 Without(s, a) # <<>> /\ Head(Without(s, a)) = Head(s)
<1>1. CASE ~ \E i \in DOMAIN s : s[i] = a
  BY <1>1 DEF Without
<1>2. CASE \E i \in DOMAIN s : s[i] = a
  <2> DEFINE place == CHOOSE i \in DOMAIN s : s[i] = a
             rest == [i \in 1..(Len(s) - 1) |-> IF i < place THEN s[i] ELSE s[i + 1]]
  <2>1. place \in DOMAIN s /\ s[place] = a
    BY <1>2
  <2>2. Without(s, a) = rest
    BY <1>2 DEF Without
  <2>3. Len(s) \in Nat /\ place \in 1..Len(s) /\ Len(s) >= 1
    BY <2>1
  <2> HIDE DEF place
  <2>4. rest \in Seq(S)
    BY <2>3
  <2>5. ASSUME s # <<>>, Head(s) # a
        PROVE  rest # <<>> /\ Head(rest) = Head(s)
    <3>1. Head(s) = s[1]
      BY <2>5
    <3>2. place # 1
      BY <2>1, <2>5, <3>1
    <3>3. 1 < place /\ Len(s) - 1 >= 1
      BY <2>3, <3>2
    <3>4. rest[1] = s[1] /\ Len(rest) = Len(s) - 1
      BY <2>3, <2>4, <3>3
    <3> HIDE DEF rest
    <3>5. rest # <<>> /\ Head(rest) = rest[1]
      BY <2>3, <2>4, <3>3, <3>4
    <3> QED
      BY <3>1, <3>4, <3>5
  <2> QED
    BY <2>2, <2>4, <2>5
<1> QED
  BY <1>1, <1>2

AckMessages == [token : Tokens, ack : Acks]

(* What is on its way is well-formed.                                      *)
LEMMA OnTheWay ==
    ASSUME TypeOK
    PROVE  /\ \A i \in DOMAIN resps : resps[i].token \in Tokens /\ resps[i].attempt \in Attempts
           /\ \A j \in DOMAIN acks : acks[j].token \in Tokens /\ acks[j].ack \in Acks
           /\ job # None => job.token \in Tokens /\ job.attempt \in Attempts
           /\ \A c \in callbacks : c.attempt \in Attempts /\ c.ack \in Acks
<1>1. resps \in Seq(Datagrams) /\ acks \in Seq(AckMessages) /\ job \in Datagrams \cup {None}
  BY DEF TypeOK, AckMessages
<1>2. \A i \in DOMAIN resps : resps[i] \in Datagrams
  BY <1>1
<1>3. \A j \in DOMAIN acks : acks[j] \in AckMessages
  BY <1>1
<1>4. \A c \in callbacks : c \in [attempt : Attempts, ack : Acks]
  BY DEF TypeOK
<1> QED
  BY <1>1, <1>2, <1>3, <1>4 DEF Datagrams, AckMessages

LEMMA InitIInv == ASSUME Init PROVE IInv
<1>1. TypeOK
  <2>1. <<>> \in Seq(Attempts) /\ <<>> \in Seq(Datagrams) /\ <<>> \in Seq([token : Tokens, ack : Acks])
    OBVIOUS
  <2>2. [a \in Attempts |-> 0] \in [Attempts -> Nat]
    OBVIOUS
  <2> QED
    BY <2>1, <2>2 DEF Init, TypeOK
<1> QED
  BY <1>1 DEF Init, IInv, LockInv, PendingInv, CallInv, CarryInv, UniqueInv, TrueInv,
              AckInv, CallbackInv, FutureInv, ResultInv, EchoInv, NoCarrier, Before,
              Refusals, Acks

-----------------------------------------------------------------------------
(* The sending task.                                                       *)

LEMMA CallKeeps ==
    ASSUME IInv, NEW a \in Attempts, Call(a)
    PROVE  IInv'
<1> USE DEF IInv
<1>1. /\ pc[a] = "idle" /\ pc' = [pc EXCEPT ![a] = "lock"]
      /\ line' = Append(line, a)
      /\ UNCHANGED <<running, pullAddr, token, result, echo, pending, future, callbacks,
                     resps, acks, fwd, job, emitting, emitted, cutShort>>
  BY DEF Call, ackVars, netVars, fwdVars, airVars
<1>2. TypeOK'
  BY <1>1 DEF TypeOK
<1>3. LockInv'
  <2>1. ASSUME NEW b \in Attempts, pc'[b] \in {"guard", "ack"}
        PROVE  line # <<>> /\ Head(line) = b
    BY <1>1, <2>1 DEF LockInv, Holds, TypeOK
  <2>2. line # <<>> => line' # <<>> /\ Head(line') = Head(line)
    BY <1>1 DEF TypeOK
  <2> QED
    BY <2>1, <2>2 DEF LockInv, Holds
<1>4. PendingInv' /\ CallInv' /\ CarryInv' /\ UniqueInv'
  BY <1>1 DEF PendingInv, CallInv, CarryInv, UniqueInv, Belongs, NoCarrier, TypeOK, Before
<1>5. TrueInv'
  BY <1>1 DEF TrueInv, AckInv, CallbackInv, FutureInv, ResultInv, EchoInv, Verdict,
              NoCarrier, TypeOK, Before
<1> QED
  BY <1>2, <1>3, <1>4, <1>5

LEMMA AcquireKeeps ==
    ASSUME IInv, NEW a \in Attempts, Acquire(a)
    PROVE  IInv'
<1> USE DEF IInv
<1>1. /\ pc[a] = "lock" /\ pc' = [pc EXCEPT ![a] = "guard"] /\ Holds(a)
      /\ UNCHANGED <<running, pullAddr, line, token, result, echo, pending, future,
                     callbacks, resps, acks, fwd, job, emitting, emitted, cutShort>>
  BY DEF Acquire, ackVars, netVars, fwdVars, airVars
<1>2. TypeOK'
  BY <1>1 DEF TypeOK
<1>3. LockInv'
  BY <1>1 DEF LockInv, Holds, TypeOK
<1>4. PendingInv' /\ CallInv' /\ CarryInv' /\ UniqueInv'
  BY <1>1 DEF PendingInv, CallInv, CarryInv, UniqueInv, Belongs, NoCarrier, TypeOK, Before
<1>5. TrueInv'
  BY <1>1 DEF TrueInv, AckInv, CallbackInv, FutureInv, ResultInv, EchoInv, Verdict,
              NoCarrier, TypeOK, Before
<1> QED
  BY <1>2, <1>3, <1>4, <1>5

Results == {"ok", "dropped", "refused", "failed", "no_ack", "not_sent", "cancelled"}

(* The call returns.  Its registration is gone, if it had one, its future  *)
(* is no longer pending, and what it returns is true.                      *)
LEMMA FinishKeeps ==
    ASSUME LinkAssumption, IInv, NEW a \in Attempts, NEW r \in Results,
           pc[a] # "done", Finish(a, r),
           UNCHANGED <<running, pullAddr, token, callbacks, resps, fwd, job,
                       emitting, emitted, cutShort>>,
           acks' = acks \/ acks' = <<>>,
           pending' \in [Tokens -> Attempts \cup {None}],
           \A t \in Tokens : pending'[t] # None => pending'[t] = pending[t] /\ pending[t] # a,
           future' \in [Attempts -> Acks \cup {"none", "pending", "cancelled"}],
           \A b \in Attempts : future'[b] = future[b] \/ (b = a /\ future'[b] = "cancelled"),
           echo' = echo \/ (r = "ok" /\ echo' = echo \cup {a}),
           r = "ok" => Verdict(a, "sent"),
           r = "failed" => Verdict(a, "failed"),
           r \in Refusals => Verdict(a, "dropped")
    PROVE  IInv'
<1> USE DEF IInv
<1>1. /\ line' = Without(line, a)
      /\ pc' = [pc EXCEPT ![a] = "done"]
      /\ result' = [result EXCEPT ![a] = r]
  BY DEF Finish
<1>2. /\ line' \in Seq(Attempts)
      /\ line # <<>> /\ Head(line) # a => line' # <<>> /\ Head(line') = Head(line)
  BY <1>1, WithoutKeepsHead DEF TypeOK
<1>3. /\ pc'[a] = "done" /\ result'[a] = r
      /\ \A b \in Attempts : b # a => pc'[b] = pc[b] /\ result'[b] = result[b]
  BY <1>1 DEF TypeOK
<1>4. TypeOK'
  <2>1. acks' \in Seq([token : Tokens, ack : Acks])
    <3>1. <<>> \in Seq([token : Tokens, ack : Acks])
      OBVIOUS
    <3> QED
      BY <3>1 DEF TypeOK
  <2>2. result' \in [Attempts -> Results \cup {"none"}]
    BY <1>1 DEF TypeOK, Results
  <2> QED
    BY <1>1, <1>2, <2>1, <2>2 DEF TypeOK, Results
<1>5. LockInv'
  BY <1>2, <1>3 DEF LockInv, Holds
<1>6. PendingInv'
  BY <1>3 DEF PendingInv, TypeOK
<1>7. CallInv'
  BY <1>3 DEF CallInv, NoCarrier, Before, Results
<1>8. CarryInv'
  <2>1. ASSUME NEW m \in Datagrams
        PROVE  /\ pc[m.attempt] \notin Before => pc'[m.attempt] \notin Before
               /\ pending'[m.token] # None => pending'[m.token] = pending[m.token]
    BY <1>3 DEF Datagrams, Before
  <2>2. \A i \in DOMAIN resps : resps[i] \in Datagrams
    BY DEF TypeOK
  <2>3. job # None => job \in Datagrams
    BY DEF TypeOK
  <2> QED
    BY <2>1, <2>2, <2>3 DEF CarryInv, Belongs
<1>9. UniqueInv'
  BY DEF UniqueInv
<1>10. TrueInv'
  <2> USE DEF TrueInv
  <2>3. AckInv'
    <3> SUFFICES ASSUME acks' = acks, NEW j \in DOMAIN acks, pending'[acks[j].token] # None
                 PROVE  /\ pending[acks[j].token] # None
                        /\ pending'[acks[j].token] = pending[acks[j].token]
      BY DEF AckInv, Verdict, NoCarrier
    <3>1. acks[j].token \in Tokens
      BY OnTheWay
    <3> QED
      BY <3>1
  <2>4. CallbackInv'
    <3>1. \A c \in callbacks : c.attempt \in Attempts
      BY DEF TypeOK
    <3> QED
      BY <1>3, <3>1 DEF CallbackInv, Verdict, NoCarrier, Before
  <2>5. FutureInv'
    BY DEF FutureInv, Acks, Verdict, NoCarrier
  <2>6. ResultInv'
    BY <1>3 DEF ResultInv, Verdict, NoCarrier
  <2>7. EchoInv'
    <3>1. \A b \in echo : b # a
      BY DEF TrueInv, EchoInv, CallInv, TypeOK
    <3> QED
      BY <1>3, <3>1 DEF TrueInv, EchoInv, TypeOK
  <2> QED
    BY <2>3, <2>4, <2>5, <2>6, <2>7 DEF TrueInv
<1> QED
  BY <1>4, <1>5, <1>6, <1>7, <1>8, <1>9, <1>10

LEMMA EndsKeep ==
    ASSUME LinkAssumption, IInv, NEW a \in Attempts,
           CallRefused(a) \/ GuardRefused(a) \/ TransmitFails(a)
               \/ AckTimeout(a) \/ AckResolved(a) \/ Cancel(a)
    PROVE  IInv'
<1> USE DEF IInv
<1>1. /\ pending \in [Tokens -> Attempts \cup {None}]
      /\ future \in [Attempts -> Acks \cup {"none", "pending", "cancelled"}]
      /\ token \in [Attempts -> Tokens \cup {None}]
      /\ pc[a] \in {"idle", "lock", "guard", "ack", "done"}
  BY DEF TypeOK
(* Before the transmission nothing is registered.                          *)
<1>2. ASSUME pc[a] \in Before
      PROVE  /\ \A t \in Tokens : pending[t] # a
             /\ Verdict(a, "dropped")
  <2>1. \A t \in Tokens : pending[t] = a => pc[a] = "ack"
    BY DEF PendingInv, LinkAssumption
  <2> QED
    BY <1>2, <2>1 DEF CallInv, Verdict, Before
(* After it, Unregister removes what is.                                   *)
<1>3. ASSUME pc[a] = "ack", Unregister(a)
      PROVE  /\ pending' \in [Tokens -> Attempts \cup {None}]
             /\ \A t \in Tokens : pending'[t] # None => pending'[t] = pending[t] /\ pending[t] # a
             /\ future' \in [Attempts -> Acks \cup {"none", "pending", "cancelled"}]
             /\ \A b \in Attempts : future'[b] = future[b] \/ (b = a /\ future'[b] = "cancelled")
  <2>1. pending' = [pending EXCEPT ![token[a]] = None]
    BY <1>3 DEF Unregister
  <2>2. future' = future \/ future' = [future EXCEPT ![a] = "cancelled"]
    BY <1>1, <1>3 DEF Unregister
  <2>3. \A t \in Tokens : pending[t] = a => t = token[a]
    BY DEF PendingInv, LinkAssumption
  <2> QED
    BY <1>1, <2>1, <2>2, <2>3
<1>4. CASE CallRefused(a)
  <2>1. pc[a] \in Before /\ pc[a] # "done" /\ Finish(a, "not_sent")
    BY <1>4 DEF CallRefused, Before
  <2> QED
    BY <1>1, <1>2, <1>4, <2>1, FinishKeeps
       DEF CallRefused, ackVars, netVars, fwdVars, airVars, Results, Refusals, Verdict
<1>5. CASE GuardRefused(a)
  <2>1. pc[a] \in Before /\ pc[a] # "done" /\ Finish(a, "not_sent")
    BY <1>5 DEF GuardRefused, Before
  <2> QED
    BY <1>1, <1>2, <1>5, <2>1, FinishKeeps
       DEF GuardRefused, ackVars, netVars, fwdVars, airVars, Results, Refusals, Verdict
<1>6. CASE TransmitFails(a)
  <2>1. pc[a] \in Before /\ pc[a] # "done" /\ Finish(a, "not_sent")
    BY <1>6 DEF TransmitFails, Before
  <2>2. future' = [future EXCEPT ![a] = "cancelled"]
    BY <1>6 DEF TransmitFails
  <2>3. /\ future' \in [Attempts -> Acks \cup {"none", "pending", "cancelled"}]
        /\ \A b \in Attempts : future'[b] = future[b] \/ (b = a /\ future'[b] = "cancelled")
    BY <1>1, <2>2
  <2> QED
    BY <1>1, <1>2, <1>6, <2>1, <2>3, FinishKeeps
       DEF TransmitFails, fwdVars, airVars, Results, Refusals, Verdict
<1>7. CASE AckTimeout(a)
  <2>1. pc[a] = "ack" /\ Unregister(a) /\ Finish(a, "no_ack")
    BY <1>7 DEF AckTimeout
  <2> QED
    BY <1>3, <1>7, <2>1, FinishKeeps
       DEF AckTimeout, netVars, fwdVars, airVars, Results, Refusals
<1>8. CASE AckResolved(a)
  <2>1. /\ pc[a] = "ack" /\ future[a] \in Acks /\ Unregister(a)
        /\ Finish(a, Outcome(future[a]))
        /\ echo' = IF future[a] = "sent" THEN echo \cup {a} ELSE echo
    BY <1>8 DEF AckResolved
  <2>2. Verdict(a, future[a])
    BY <2>1 DEF TrueInv, FutureInv
  <2>3. CASE future[a] = "sent"
    <3>1. Outcome(future[a]) = "ok"
      BY <2>3 DEF Outcome
    <3> QED
      BY <1>3, <1>8, <2>1, <2>2, <2>3, <3>1, FinishKeeps
         DEF AckResolved, netVars, fwdVars, airVars, Results, Refusals
  <2>4. CASE future[a] = "failed"
    <3>1. Outcome(future[a]) = "failed"
      BY <2>4 DEF Outcome
    <3> QED
      BY <1>3, <1>8, <2>1, <2>2, <2>4, <3>1, FinishKeeps
         DEF AckResolved, netVars, fwdVars, airVars, Results, Refusals
  <2>5. CASE future[a] \notin {"sent", "failed"}
    <3>1. Outcome(future[a]) \in {"dropped", "refused"}
      BY <2>1, <2>5 DEF Outcome, Acks
    <3>2. Verdict(a, "dropped")
      BY <2>2, <2>5 DEF Verdict
    <3> QED
      BY <1>3, <1>8, <2>1, <2>5, <3>1, <3>2, FinishKeeps
         DEF AckResolved, netVars, fwdVars, airVars, Results, Refusals
  <2> QED
    BY <2>3, <2>4, <2>5
<1>9. CASE Cancel(a)
  <2>1. /\ pc[a] # "done" /\ Finish(a, "cancelled")
        /\ UNCHANGED <<running, pullAddr, token, callbacks, resps, acks, fwd, job,
                       emitting, emitted, cutShort, echo>>
    BY <1>9 DEF Cancel, netVars, fwdVars, airVars
  <2>2. CASE pc[a] = "ack"
    BY <1>3, <1>9, <2>1, <2>2, FinishKeeps DEF Cancel, Results, Refusals
  <2>3. CASE pc[a] # "ack"
    <3>1. pc[a] \in Before /\ UNCHANGED <<pending, future>>
      BY <1>9, <2>3 DEF Cancel, Before
    <3> QED
      BY <1>1, <1>2, <2>1, <3>1, FinishKeeps DEF Results, Refusals
  <2> QED
    BY <2>2, <2>3
<1> QED
  BY <1>4, <1>5, <1>6, <1>7, <1>8, <1>9

(* The datagram of an attempt is the first thing on its way with its token.*)
LEMMA TransmitKeeps ==
    ASSUME LinkAssumption, IInv, NEW a \in Attempts, Transmit(a)
    PROVE  IInv'
<1> USE DEF IInv
<1>1. PICK t \in Tokens :
         /\ Fresh(t)
         /\ token' = [token EXCEPT ![a] = t]
         /\ pending' = [pending EXCEPT ![t] = a]
         /\ Datagram(a, t)
  BY DEF Transmit
<1> DEFINE m == [token |-> t, attempt |-> a]
<1>2. /\ pc[a] = "guard" /\ pc' = [pc EXCEPT ![a] = "ack"]
      /\ future' = [future EXCEPT ![a] = "pending"]
      /\ acks' = acks \/ acks' = <<>>
      /\ resps' = resps \/ resps' = Append(resps, m)
      /\ UNCHANGED <<running, pullAddr, line, result, echo, callbacks, fwd, job,
                     emitting, emitted, cutShort>>
  BY <1>1 DEF Transmit, Datagram, fwdVars, airVars
<1>3. /\ emitted[a] = 0 /\ NoCarrier(a) /\ future[a] = "none"
      /\ result[a] = "none"
      /\ \A c \in callbacks : c.attempt # a
      /\ \A u \in Tokens : pending[u] # a
  BY <1>2 DEF CallInv, TrueInv, CallbackInv, PendingInv, LinkAssumption, Before
<1>4. /\ resps \in Seq(Datagrams) /\ acks \in Seq(AckMessages)
      /\ m \in Datagrams /\ m.token = t /\ m.attempt = a
      /\ job \in Datagrams \cup {None} /\ a # None /\ t # None
  BY DEF TypeOK, Datagrams, AckMessages, LinkAssumption
<1> HIDE DEF m
<1>5. /\ acks' \in Seq(AckMessages)
      /\ \A j \in DOMAIN acks' : j \in DOMAIN acks /\ acks'[j] = acks[j]
  <2>1. <<>> \in Seq(AckMessages) /\ DOMAIN <<>> = {}
    OBVIOUS
  <2> QED
    BY <1>2, <1>4, <2>1
<1>15. resps' \in Seq(Datagrams)
  <2>1. Append(resps, m) \in Seq(Datagrams)
    BY <1>4
  <2> QED
    BY <1>2, <1>4, <2>1
<1>16. \A i \in DOMAIN resps' :
          \/ i \in DOMAIN resps /\ resps'[i] = resps[i]
          \/ i = Len(resps) + 1 /\ resps'[i] = m
  <2>1. CASE resps' = resps
    BY <2>1
  <2>2. CASE resps' = Append(resps, m)
    BY <1>4, <2>2
  <2> QED
    BY <1>2, <2>1, <2>2
<1>6. /\ pc'[a] = "ack" /\ token'[a] = t /\ pending'[t] = a /\ future'[a] = "pending"
      /\ \A b \in Attempts : b # a => pc'[b] = pc[b] /\ token'[b] = token[b] /\ future'[b] = future[b]
      /\ \A u \in Tokens : u # t => pending'[u] = pending[u]
  BY <1>1, <1>2 DEF TypeOK
<1>7. /\ pending[t] = None
      /\ \A i \in DOMAIN resps :
            /\ resps[i].token # t /\ resps[i].token \in Tokens
            /\ resps[i].attempt # a /\ resps[i].attempt \in Attempts
      /\ \A j \in DOMAIN acks : acks[j].token # t /\ acks[j].token \in Tokens
      /\ job # None =>
            /\ job.token # t /\ job.token \in Tokens
            /\ job.attempt # a /\ job.attempt \in Attempts
  BY <1>1, <1>3, OnTheWay DEF Fresh, NoCarrier
<1>8. TypeOK'
  BY <1>1, <1>2, <1>5, <1>15, <1>16 DEF TypeOK, AckMessages
<1>9. LockInv'
  BY <1>2, <1>6 DEF LockInv, Holds
<1>10. PendingInv'
  <2> SUFFICES ASSUME NEW u \in Tokens, pending'[u] # None
               PROVE  pc'[pending'[u]] = "ack" /\ token'[pending'[u]] = u
    BY DEF PendingInv
  <2>1. CASE u = t
    BY <1>6, <2>1
  <2>2. CASE u # t
    <3>1. pending[u] \in Attempts /\ pending'[u] = pending[u] /\ pending[u] # a
      BY <1>3, <1>6, <2>2 DEF TypeOK
    <3> QED
      BY <1>6, <3>1 DEF PendingInv
  <2> QED
    BY <2>1, <2>2
<1>11. CallInv'
  <2> SUFFICES ASSUME NEW b \in Attempts
               PROVE  /\ result'[b] = "none" <=> pc'[b] # "done"
                      /\ pc'[b] \in Before => /\ emitted'[b] = 0 /\ NoCarrier(b)'
                                              /\ future'[b] = "none"
    BY DEF CallInv
  <2>1. CASE b = a
    BY <1>2, <1>3, <1>6, <2>1 DEF Before
  <2>2. CASE b # a
    BY <1>2, <1>4, <1>5, <1>15, <1>16, <1>6, <2>2 DEF CallInv, NoCarrier
  <2> QED
    BY <2>1, <2>2
<1>12. CarryInv'
  <2>1. ASSUME NEW i \in DOMAIN resps'
        PROVE  Belongs(resps[i])' /\ emitted'[resps'[i].attempt] = 0
    <3>1. CASE i \in DOMAIN resps /\ resps'[i] = resps[i]
      BY <1>2, <1>6, <1>7, <3>1 DEF CarryInv, Belongs, Before
    <3>2. CASE resps'[i] = m
      BY <1>2, <1>3, <1>4, <1>6, <3>2 DEF Belongs, Before
    <3> QED
      BY <1>16, <3>1, <3>2
  <2>2. job' # None => Belongs(job)'
    BY <1>2, <1>6, <1>7 DEF CarryInv, Belongs, Before
  <2> QED
    BY <1>2, <2>1, <2>2 DEF CarryInv, Belongs
<1>13. UniqueInv'
  <2>1. ASSUME NEW i \in DOMAIN resps', NEW j \in DOMAIN resps', i # j
        PROVE  resps'[i].token # resps'[j].token
    BY <1>4, <1>7, <1>16, <2>1 DEF UniqueInv
  <2>2. ASSUME NEW i \in DOMAIN resps'
        PROVE  /\ job' # None => resps'[i].token # job'.token
               /\ \A j \in DOMAIN acks' : resps'[i].token # acks'[j].token
    BY <1>2, <1>4, <1>5, <1>7, <1>16, <2>2 DEF UniqueInv
  <2>3. \A j \in DOMAIN acks' : job' # None => acks'[j].token # job'.token
    BY <1>2, <1>5 DEF UniqueInv
  <2> QED
    BY <2>1, <2>2, <2>3 DEF UniqueInv
<1>14. TrueInv'
  <2>1. \A b \in Attempts : b # a /\ NoCarrier(b) => NoCarrier(b)'
    BY <1>2, <1>4, <1>5, <1>15, <1>16 DEF NoCarrier
  <2>2. AckInv'
    <3>1. \A j \in DOMAIN acks' :
             /\ j \in DOMAIN acks /\ acks'[j] = acks[j]
             /\ acks[j].token \in Tokens
             /\ pending'[acks[j].token] = pending[acks[j].token]
      BY <1>5, <1>15, <1>16, <1>6, <1>7
    <3>2. \A u \in Tokens : pending[u] # None => pending[u] \in Attempts /\ pending[u] # a
      BY <1>3 DEF TypeOK
    <3> QED
      BY <1>2, <2>1, <3>1, <3>2 DEF TrueInv, AckInv, Verdict
  <2>3. CallbackInv'
    <3>1. \A c \in callbacks : c.attempt \in Attempts
      BY DEF TypeOK
    <3> QED
      BY <1>2, <1>3, <1>6, <2>1, <3>1 DEF TrueInv, CallbackInv, Verdict
  <2>4. FutureInv'
    BY <1>2, <1>6, <2>1 DEF TrueInv, FutureInv, Verdict, Acks
  <2>5. ResultInv' /\ EchoInv'
    BY <1>2, <1>3, <2>1 DEF TrueInv, ResultInv, EchoInv, Verdict, Refusals
  <2> QED
    BY <2>2, <2>3, <2>4, <2>5 DEF TrueInv
<1> QED
  BY <1>8, <1>9, <1>10, <1>11, <1>12, <1>13, <1>14

-----------------------------------------------------------------------------
(* The reader and the event loop.                                          *)

LEMMA TailOf ==
    ASSUME NEW S, NEW s \in Seq(S), s # <<>>
    PROVE  /\ Tail(s) \in Seq(S) /\ Head(s) \in S
           /\ 1 \in DOMAIN s /\ Head(s) = s[1]
           /\ \A i \in DOMAIN Tail(s) :
                 i \in Nat /\ i + 1 \in DOMAIN s /\ i + 1 # 1 /\ Tail(s)[i] = s[i + 1]
OBVIOUS

LEMMA HandleAckKeeps ==
    ASSUME LinkAssumption, IInv, HandleAck
    PROVE  IInv'
<1> USE DEF IInv
<1> DEFINE m == Head(acks)
           a == pending[m.token]
<1>1. acks \in Seq(AckMessages) /\ acks # <<>>
  BY DEF HandleAck, TypeOK, AckMessages
<1>2. /\ acks' \in Seq(AckMessages) /\ 1 \in DOMAIN acks /\ m = acks[1]
      /\ \A j \in DOMAIN acks' : j + 1 \in DOMAIN acks /\ acks'[j] = acks[j + 1]
  BY <1>1, TailOf DEF HandleAck
<1>3. m.token \in Tokens /\ m.ack \in Acks
  BY <1>2, OnTheWay
<1>4. /\ pending' = [pending EXCEPT ![m.token] = None]
      /\ callbacks' = callbacks
            \/ (a # None /\ callbacks' = callbacks \cup {[attempt |-> a, ack |-> m.ack]})
      /\ UNCHANGED <<running, pullAddr, line, pc, token, result, echo, future, resps,
                     fwd, job, emitting, emitted, cutShort>>
  BY DEF HandleAck, taskVars, fwdVars, airVars
<1>5. a \in Attempts \cup {None}
  BY <1>3 DEF TypeOK
<1>6. a # None => pc[a] = "ack" /\ Verdict(a, m.ack)
  BY <1>2, <1>3 DEF PendingInv, TrueInv, AckInv
<1> HIDE DEF m, a
<1>7. \A t \in Tokens : pending'[t] # None => pending'[t] = pending[t] /\ pending[t] # None
  BY <1>3, <1>4 DEF TypeOK
<1>8. TypeOK'
  <2>1. pending' \in [Tokens -> Attempts \cup {None}]
    BY <1>4 DEF TypeOK
  <2>2. callbacks' \subseteq [attempt : Attempts, ack : Acks]
    BY <1>3, <1>4, <1>5 DEF TypeOK
  <2> QED
    BY <1>2, <1>4, <2>1, <2>2 DEF TypeOK, AckMessages
<1>9. LockInv' /\ CallInv'
  BY <1>4 DEF LockInv, Holds, CallInv, NoCarrier
<1>10. PendingInv'
  BY <1>4, <1>7 DEF PendingInv
<1>11. CarryInv'
  BY <1>4, <1>7, OnTheWay DEF CarryInv, Belongs
<1>12. UniqueInv'
  BY <1>2, <1>4 DEF UniqueInv
<1>13. TrueInv'
  <2>1. AckInv'
    <3>1. \A j \in DOMAIN acks' : acks[j + 1].token \in Tokens
      BY <1>2, OnTheWay
    <3> QED
      BY <1>2, <1>4, <1>7, <3>1 DEF TrueInv, AckInv, Verdict, NoCarrier
  <2>2. CallbackInv'
    <3>1. ASSUME NEW c \in callbacks'
          PROVE  pc[c.attempt] \notin Before /\ Verdict(c.attempt, c.ack)
      <4>1. CASE c \in callbacks
        BY <4>1 DEF TrueInv, CallbackInv
      <4>2. CASE a # None /\ c = [attempt |-> a, ack |-> m.ack]
        BY <1>6, <4>2 DEF Before
      <4> QED
        BY <1>4, <3>1, <4>1, <4>2
    <3> QED
      BY <1>4, <3>1 DEF CallbackInv, Verdict, NoCarrier
  <2>3. FutureInv' /\ ResultInv' /\ EchoInv'
    BY <1>4 DEF TrueInv, FutureInv, ResultInv, EchoInv, Verdict, NoCarrier
  <2> QED
    BY <2>1, <2>2, <2>3 DEF TrueInv
<1> QED
  BY <1>8, <1>9, <1>10, <1>11, <1>12, <1>13

LEMMA RunCallbackKeeps ==
    ASSUME LinkAssumption, IInv, RunCallback
    PROVE  IInv'
<1> USE DEF IInv
<1>1. PICK c \in callbacks :
         /\ callbacks' = callbacks \ {c}
         /\ future' = [future EXCEPT ![c.attempt] = IF @ = "pending" THEN c.ack ELSE @]
         /\ UNCHANGED <<running, pullAddr, line, pc, token, result, echo, pending, resps,
                        acks, fwd, job, emitting, emitted, cutShort>>
  BY DEF RunCallback, taskVars, netVars, fwdVars, airVars
<1>2. /\ c.attempt \in Attempts /\ c.ack \in Acks
      /\ Verdict(c.attempt, c.ack) /\ pc[c.attempt] \notin Before
  BY OnTheWay DEF TrueInv, CallbackInv
<1>3. /\ future' \in [Attempts -> Acks \cup {"none", "pending", "cancelled"}]
      /\ \A a \in Attempts : a # c.attempt => future'[a] = future[a]
      /\ future'[c.attempt] \in {future[c.attempt], c.ack}
  <2>1. future \in [Attempts -> Acks \cup {"none", "pending", "cancelled"}]
    BY DEF TypeOK
  <2>2. future' = future \/ future' = [future EXCEPT ![c.attempt] = c.ack]
    BY <1>1, <1>2, <2>1
  <2> QED
    BY <1>2, <2>1, <2>2
<1>4. TypeOK'
  BY <1>1, <1>3 DEF TypeOK
<1>5. LockInv' /\ PendingInv' /\ CarryInv' /\ UniqueInv'
  BY <1>1 DEF LockInv, Holds, PendingInv, CarryInv, Belongs, UniqueInv
<1>6. CallInv'
  BY <1>1, <1>2, <1>3 DEF CallInv, NoCarrier
<1>7. TrueInv'
  <2>1. FutureInv'
    <3> SUFFICES ASSUME NEW a \in Attempts, future'[a] \in Acks
                 PROVE  Verdict(a, future'[a])
      BY <1>1 DEF FutureInv, Verdict, NoCarrier
    <3>1. CASE future'[a] = future[a]
      BY <3>1 DEF TrueInv, FutureInv
    <3>2. CASE a = c.attempt /\ future'[a] = c.ack
      BY <1>2, <3>2
    <3> QED
      BY <1>3, <3>1, <3>2
  <2>2. AckInv' /\ CallbackInv' /\ ResultInv' /\ EchoInv'
    BY <1>1 DEF TrueInv, AckInv, CallbackInv, ResultInv, EchoInv, Verdict, NoCarrier
  <2> QED
    BY <2>1, <2>2 DEF TrueInv
<1> QED
  BY <1>4, <1>5, <1>6, <1>7

-----------------------------------------------------------------------------
(* The forwarder and the network.                                          *)

(* A step after which there is less on its way and on the air.             *)
LEMMA LessKeeps ==
    ASSUME IInv, NEW d \in {0, 1}, NEW e \in {0, 1},
           UNCHANGED <<line, pc, token, result, echo, pending, future, callbacks, emitted>>,
           running' \in BOOLEAN, pullAddr' \in BOOLEAN,
           resps' \in Seq(Datagrams), acks' \in Seq(AckMessages),
           \A i \in DOMAIN resps' : i \in Nat /\ i + d \in DOMAIN resps /\ resps'[i] = resps[i + d],
           \A j \in DOMAIN acks' : j + e \in DOMAIN acks /\ acks'[j] = acks[j + e],
           UNCHANGED <<fwd, job>> \/ (fwd' \in {"down", "ready"} /\ job' = None),
           UNCHANGED <<emitting, cutShort>> \/ (emitting' = None /\ cutShort' = FALSE),
           LinkAssumption
    PROVE  IInv'
<1> USE DEF IInv
<1>1. TypeOK'
  BY DEF TypeOK, AckMessages
<1>2. LockInv' /\ PendingInv'
  BY DEF LockInv, Holds, PendingInv
<1>3. ASSUME NEW a \in Attempts, NoCarrier(a)
      PROVE  NoCarrier(a)'
  BY <1>3 DEF NoCarrier
<1>4. ASSUME NEW a \in Attempts, NEW k \in Acks, Verdict(a, k)
      PROVE  Verdict(a, k)'
  BY <1>3, <1>4 DEF Verdict, LinkAssumption
<1>5. CallInv'
  BY <1>3 DEF CallInv
<1>6. CarryInv'
  BY DEF CarryInv, Belongs
<1>7. UniqueInv'
  <2>1. ASSUME NEW i \in DOMAIN resps', NEW j \in DOMAIN resps', i # j
        PROVE  resps'[i].token # resps'[j].token
    <3>1. i + d # j + d
      BY <2>1
    <3> QED
      BY <2>1, <3>1 DEF UniqueInv
  <2>2. ASSUME NEW i \in DOMAIN resps'
        PROVE  /\ job' # None => resps'[i].token # job'.token
               /\ \A j \in DOMAIN acks' : resps'[i].token # acks'[j].token
    BY <2>2 DEF UniqueInv
  <2>3. \A j \in DOMAIN acks' : job' # None => acks'[j].token # job'.token
    BY DEF UniqueInv
  <2> QED
    BY <2>1, <2>2, <2>3 DEF UniqueInv
<1>8. TrueInv'
  <2>1. AckInv'
    <3> SUFFICES ASSUME NEW j \in DOMAIN acks', pending[acks'[j].token] # None
                 PROVE  Verdict(pending[acks[j].token], acks[j].ack)'
      BY DEF AckInv
    <3>1. /\ acks'[j] = acks[j + e] /\ acks[j + e].token \in Tokens /\ acks[j + e].ack \in Acks
          /\ pending[acks[j + e].token] \in Attempts
          /\ Verdict(pending[acks[j + e].token], acks[j + e].ack)
      BY OnTheWay DEF TrueInv, AckInv, TypeOK
    <3> QED
      BY <1>3, <3>1 DEF Verdict, LinkAssumption
  <2>2. CallbackInv'
    BY <1>4, OnTheWay DEF TrueInv, CallbackInv
  <2>3. FutureInv'
    BY <1>4 DEF TrueInv, FutureInv
  <2>4. ResultInv' /\ EchoInv'
    BY <1>4 DEF TrueInv, ResultInv, EchoInv, Acks
  <2> QED
    BY <2>1, <2>2, <2>3, <2>4 DEF TrueInv
<1> QED
  BY <1>1, <1>2, <1>5, <1>6, <1>7, <1>8

LEMMA LossesKeep ==
    ASSUME LinkAssumption, IInv,
           PullData \/ EmissionEnds \/ LoseResp \/ LoseAck \/ ForwarderDies
               \/ ForgetAddress \/ ForwarderStarts \/ Stop
    PROVE  IInv'
<1> USE DEF IInv
<1> DEFINE RespsLess(d) ==
              /\ resps' \in Seq(Datagrams)
              /\ \A i \in DOMAIN resps' :
                    i \in Nat /\ i + d \in DOMAIN resps /\ resps'[i] = resps[i + d]
           AcksLess(e) ==
              /\ acks' \in Seq(AckMessages)
              /\ \A j \in DOMAIN acks' : j + e \in DOMAIN acks /\ acks'[j] = acks[j + e]
<1>1. /\ resps \in Seq(Datagrams) /\ acks \in Seq(AckMessages)
      /\ running \in BOOLEAN /\ pullAddr \in BOOLEAN
  BY DEF TypeOK, AckMessages
<1>2. resps' = resps => RespsLess(0)
  BY <1>1
<1>3. resps' = <<>> => RespsLess(0)
  OBVIOUS
<1>4. resps # <<>> /\ resps' = Tail(resps) => RespsLess(1)
  BY <1>1, TailOf
<1>5. acks' = acks => AcksLess(0)
  BY <1>1
<1>6. acks # <<>> /\ acks' = Tail(acks) => AcksLess(1)
  BY <1>1, TailOf
<1> USE DEF taskVars, ackVars, netVars, fwdVars, airVars
<1>7. CASE PullData \/ ForgetAddress \/ Stop \/ EmissionEnds
  BY <1>1, <1>2, <1>5, <1>7, LessKeeps DEF PullData, ForgetAddress, Stop, EmissionEnds
<1>8. CASE LoseResp
  BY <1>1, <1>4, <1>5, <1>8, LessKeeps DEF LoseResp
<1>9. CASE LoseAck
  BY <1>1, <1>2, <1>6, <1>9, LessKeeps DEF LoseAck
<1>10. CASE ForwarderDies
  BY <1>1, <1>3, <1>5, <1>10, LessKeeps DEF ForwarderDies
<1>11. CASE ForwarderStarts
  <2>1. job = None
    BY <1>11 DEF ForwarderStarts, CarryInv
  <2> QED
    BY <1>1, <1>2, <1>5, <1>11, <2>1, LessKeeps DEF ForwarderStarts
<1> QED
  BY <1>7, <1>8, <1>9, <1>10, <1>11

LEMMA ReceiveKeeps ==
    ASSUME LinkAssumption, IInv, Receive
    PROVE  IInv'
<1> USE DEF IInv
<1>1. /\ fwd = "ready" /\ fwd' = "check" /\ job = None
      /\ resps # <<>> /\ job' = Head(resps) /\ resps' = Tail(resps)
      /\ UNCHANGED <<running, pullAddr, line, pc, token, result, echo, pending, future,
                     callbacks, acks, emitting, emitted, cutShort>>
  BY DEF Receive, CarryInv, taskVars, ackVars, airVars
<1>2. /\ resps' \in Seq(Datagrams) /\ job' \in Datagrams
      /\ 1 \in DOMAIN resps /\ job' = resps[1]
      /\ \A i \in DOMAIN resps' :
            i \in Nat /\ i + 1 \in DOMAIN resps /\ i + 1 # 1 /\ resps'[i] = resps[i + 1]
  BY <1>1, TailOf DEF TypeOK
<1>3. job' # None
  BY <1>2 DEF LinkAssumption, Datagrams
<1>4. TypeOK'
  BY <1>1, <1>2 DEF TypeOK
<1>5. LockInv' /\ PendingInv'
  BY <1>1 DEF LockInv, Holds, PendingInv
<1>6. ASSUME NEW a \in Attempts, NoCarrier(a)
      PROVE  NoCarrier(a)'
  BY <1>2, <1>6 DEF NoCarrier
<1>7. ASSUME NEW a \in Attempts, NEW k \in Acks, Verdict(a, k)
      PROVE  Verdict(a, k)'
  BY <1>1, <1>6, <1>7 DEF Verdict
<1>8. CallInv'
  BY <1>1, <1>6 DEF CallInv
<1>9. CarryInv'
  BY <1>1, <1>2, <1>3 DEF CarryInv, Belongs
<1>10. UniqueInv'
  <2>1. ASSUME NEW i \in DOMAIN resps', NEW j \in DOMAIN resps', i # j
        PROVE  resps'[i].token # resps'[j].token
    <3>1. i + 1 # j + 1
      BY <1>2, <2>1
    <3> QED
      BY <1>2, <2>1, <3>1 DEF UniqueInv
  <2>2. ASSUME NEW i \in DOMAIN resps'
        PROVE  /\ resps'[i].token # job'.token
               /\ \A j \in DOMAIN acks' : resps'[i].token # acks'[j].token
    BY <1>1, <1>2, <2>2 DEF UniqueInv
  <2>3. \A j \in DOMAIN acks' : acks'[j].token # job'.token
    BY <1>1, <1>2 DEF UniqueInv
  <2> QED
    BY <2>1, <2>2, <2>3 DEF UniqueInv
<1>11. TrueInv'
  <2>1. AckInv'
    <3> SUFFICES ASSUME NEW j \in DOMAIN acks, pending[acks[j].token] # None
                 PROVE  Verdict(pending[acks[j].token], acks[j].ack)'
      BY <1>1 DEF AckInv
    <3>1. /\ acks[j].token \in Tokens /\ acks[j].ack \in Acks
          /\ pending[acks[j].token] \in Attempts
          /\ Verdict(pending[acks[j].token], acks[j].ack)
      BY OnTheWay DEF TrueInv, AckInv, TypeOK
    <3> QED
      BY <1>1, <1>6, <3>1 DEF Verdict
  <2>2. CallbackInv'
    BY <1>1, <1>7, OnTheWay DEF TrueInv, CallbackInv
  <2>3. FutureInv'
    BY <1>1, <1>7 DEF TrueInv, FutureInv
  <2>4. ResultInv' /\ EchoInv'
    BY <1>1, <1>7 DEF TrueInv, ResultInv, EchoInv, Acks
  <2> QED
    BY <2>1, <2>2, <2>3, <2>4 DEF TrueInv
<1> QED
  BY <1>4, <1>5, <1>8, <1>9, <1>10, <1>11

(* A packet goes on the air of which nothing has been said yet.            *)
LEMMA StartEmissionKeeps ==
    ASSUME LinkAssumption, IInv, StartEmission
    PROVE  IInv'
<1> USE DEF IInv
<1> DEFINE b == job.attempt
<1>1. /\ fwd = "check" /\ fwd' = "poll" /\ job # None /\ emitting = None
      /\ emitting' = b
      /\ emitted' = [emitted EXCEPT ![b] = emitted[b] + 1]
      /\ UNCHANGED <<running, pullAddr, line, pc, token, result, echo, pending, future,
                     callbacks, resps, acks, job, cutShort>>
  BY DEF StartEmission, CarryInv, taskVars, ackVars, netVars
<1>2. b \in Attempts /\ emitted[b] = 0 /\ Belongs(job)
  BY <1>1, OnTheWay DEF CarryInv
<1> HIDE DEF b
<1>3. /\ emitted' \in [Attempts -> Nat] /\ emitted'[b] = 1
      /\ \A a \in Attempts : a # b => emitted'[a] = emitted[a]
  BY <1>1, <1>2 DEF TypeOK
<1>4. TypeOK'
  BY <1>1, <1>2, <1>3 DEF TypeOK
<1>5. LockInv' /\ PendingInv' /\ UniqueInv'
  BY <1>1 DEF LockInv, Holds, PendingInv, UniqueInv
<1>6. ASSUME NEW a \in Attempts, NoCarrier(a)
      PROVE  NoCarrier(a)' /\ a # b
  BY <1>1, <1>6 DEF NoCarrier, b
<1>7. ASSUME NEW a \in Attempts, NEW k \in Acks, Verdict(a, k)
      PROVE  Verdict(a, k)'
  BY <1>1, <1>2, <1>3, <1>6, <1>7 DEF Verdict
<1>8. CallInv'
  BY <1>1, <1>3, <1>6 DEF CallInv
<1>9. CarryInv'
  <2>1. ASSUME NEW i \in DOMAIN resps
        PROVE  resps[i].attempt # b /\ resps[i].attempt \in Attempts
    <3>1. resps[i].token = token[resps[i].attempt] /\ resps[i].token # job.token
      BY <1>1 DEF CarryInv, Belongs, UniqueInv
    <3>2. job.token = token[b]
      BY <1>2 DEF Belongs, b
    <3> QED
      BY <3>1, <3>2, OnTheWay
  <2> QED
    BY <1>1, <1>3, <2>1 DEF CarryInv, Belongs, b
<1>10. TrueInv'
  <2>1. AckInv'
    <3> SUFFICES ASSUME NEW j \in DOMAIN acks, pending[acks[j].token] # None
                 PROVE  Verdict(pending[acks[j].token], acks[j].ack)'
      BY <1>1 DEF AckInv
    <3> DEFINE p == pending[acks[j].token]
               k == acks[j].ack
    <3>1. k \in Acks /\ p \in Attempts /\ Verdict(p, k)
      BY OnTheWay DEF TrueInv, AckInv, TypeOK
    <3>2. p' = p /\ k' = k
      BY <1>1
    <3> HIDE DEF p, k
    <3>3. Verdict(p, k)'
      BY <1>1, <1>2, <1>3, <1>6, <3>1, <3>2 DEF Verdict
    <3> QED
      BY <3>3 DEF p, k
  <2>2. CallbackInv'
    BY <1>1, <1>7, OnTheWay DEF TrueInv, CallbackInv
  <2>3. FutureInv'
    BY <1>1, <1>7 DEF TrueInv, FutureInv
  <2>4. ResultInv' /\ EchoInv'
    BY <1>1, <1>7 DEF TrueInv, ResultInv, EchoInv, Acks
  <2> QED
    BY <2>1, <2>2, <2>3, <2>4 DEF TrueInv
<1> QED
  BY <1>4, <1>5, <1>8, <1>9, <1>10

(* The job is over, with an acknowledgement that is true; a failed send may*)
(* have put the packet on the air.                                         *)
LEMMA ReplyKeeps ==
    ASSUME LinkAssumption, IInv, NEW k \in Acks, job # None, SendAck(k), EndJob,
           UNCHANGED <<running, pullAddr, line, pc, token, result, echo, pending, future,
                       callbacks, resps>>,
           \/ UNCHANGED <<emitting, emitted>>
           \/ /\ k = "failed" /\ emitting = None /\ emitting' = job.attempt
              /\ emitted' = [emitted EXCEPT ![job.attempt] = 1],
           cutShort' \in BOOLEAN, cutShort => cutShort',
           k = "sent" => emitted[job.attempt] = 1 /\ (emitting = job.attempt => cutShort'),
           k # "sent" => emitted[job.attempt] = 0
    PROVE  IInv'
<1> USE DEF IInv
<1> DEFINE m == [token |-> job.token, ack |-> k]
           b == job.attempt
<1>1. /\ b \in Attempts /\ job.token \in Tokens /\ Belongs(job)
      /\ acks \in Seq(AckMessages) /\ m \in AckMessages /\ m.token = job.token /\ m.ack = k
      /\ acks' = Append(acks, m) /\ fwd' = "ready" /\ job' = None
  BY OnTheWay DEF CarryInv, TypeOK, AckMessages, SendAck, EndJob
<1>2. Belongs(job) /\ job.token = token[b]
  BY <1>1 DEF Belongs
<1>2a. /\ emitting' \in Attempts \cup {None} /\ emitted' \in [Attempts -> Nat]
       /\ \A a \in Attempts :
             a # b => emitted'[a] = emitted[a] /\ (emitting' = a => emitting = a)
       /\ UNCHANGED <<emitting, emitted>> \/ (k = "failed" /\ emitted[b] = 0)
  BY <1>1 DEF TypeOK
<1> HIDE DEF m
<1>3. acks' \in Seq(AckMessages)
  BY <1>1
<1>4. \A j \in DOMAIN acks' : (j \in DOMAIN acks /\ acks'[j] = acks[j]) \/ acks'[j] = m
  BY <1>1
<1>5. TypeOK'
  BY <1>1, <1>2a, <1>3 DEF TypeOK, AckMessages
<1>6. LockInv' /\ PendingInv'
  BY DEF LockInv, Holds, PendingInv
<1>7. ASSUME NEW a \in Attempts, NoCarrier(a)
      PROVE  NoCarrier(a)' /\ a # b
  BY <1>1, <1>7 DEF NoCarrier
<1>8. ASSUME NEW a \in Attempts, NEW c \in Acks, Verdict(a, c)
      PROVE  Verdict(a, c)'
  BY <1>2a, <1>7, <1>8 DEF Verdict
<1>9. CallInv'
  BY <1>2a, <1>7 DEF CallInv
<1>11. \A i \in DOMAIN resps : resps[i].token # job.token /\ resps[i].token = token[resps[i].attempt]
  BY DEF UniqueInv, CarryInv, Belongs
<1>12. UniqueInv'
  <2>1. ASSUME NEW i \in DOMAIN resps, NEW j \in DOMAIN acks'
        PROVE  resps[i].token # acks'[j].token
    BY <1>1, <1>4, <1>11, <2>1 DEF UniqueInv
  <2> QED
    BY <1>1, <2>1 DEF UniqueInv
<1>13. /\ \A i \in DOMAIN resps : resps[i].attempt # b
       /\ k = "sent" => emitted[b] = 1 /\ (emitting = b => cutShort')
       /\ k # "sent" => emitted[b] = 0
  BY <1>2, <1>11
<1>10. CarryInv'
  BY <1>1, <1>2a, <1>13, OnTheWay DEF CarryInv, Belongs
<1>14. pending[m.token] # None => pending[m.token] = b
  BY <1>1 DEF Belongs
<1> HIDE DEF b
<1>15. TrueInv'
  <2>1. AckInv'
    <3> SUFFICES ASSUME NEW j \in DOMAIN acks', pending'[acks'[j].token] # None
                 PROVE  Verdict(pending[acks[j].token], acks[j].ack)'
      BY DEF AckInv
    <3>1. CASE j \in DOMAIN acks /\ acks'[j] = acks[j]
      <4> DEFINE p == pending[acks[j].token]
                 c == acks[j].ack
      <4>1. c \in Acks /\ p \in Attempts /\ Verdict(p, c)
        BY <3>1, OnTheWay DEF TrueInv, AckInv, TypeOK
      <4>2. p' = p /\ c' = c
        BY <3>1
      <4> HIDE DEF p, c
      <4>3. ASSUME c = "sent"
            PROVE  Verdict(p, c)'
        BY <1>2a, <4>1, <4>2, <4>3 DEF Verdict
      <4>4. ASSUME c # "sent"
            PROVE  Verdict(p, c)'
        <5>1. NoCarrier(p) /\ (c # "failed" => emitted[p] = 0)
          BY <4>1, <4>4 DEF Verdict
        <5>2. NoCarrier(p)' /\ p # b
          BY <1>1, <4>2, <5>1 DEF NoCarrier, b
        <5> QED
          BY <1>2a, <4>1, <4>2, <4>4, <5>1, <5>2 DEF Verdict, NoCarrier
      <4>5. Verdict(p, c)'
        BY <4>3, <4>4
      <4> QED
        BY <4>5 DEF p, c
    <3>2. CASE acks'[j] = m
      <4>1. pending'[acks'[j].token] = b /\ acks'[j].ack = k
        BY <1>1, <1>14, <3>2
      <4> QED
        BY <1>1, <1>2a, <1>13, <4>1 DEF Verdict, NoCarrier
    <3> QED
      BY <1>4, <3>1, <3>2
  <2>2. CallbackInv'
    BY <1>8, OnTheWay DEF TrueInv, CallbackInv
  <2>3. FutureInv'
    BY <1>8 DEF TrueInv, FutureInv
  <2>4. ResultInv' /\ EchoInv'
    BY <1>8 DEF TrueInv, ResultInv, EchoInv, Acks
  <2> QED
    BY <2>1, <2>2, <2>3, <2>4 DEF TrueInv
<1> QED
  BY <1>5, <1>6, <1>9, <1>10, <1>12, <1>15

LEMMA RepliesKeep ==
    ASSUME LinkAssumption, IInv,
           RejectFrequency \/ NotFree \/ SendBlocked \/ SendFails \/ Confirm
             \/ PollExpires
    PROVE  IInv'
<1> USE DEF taskVars, ackVars, airVars
<1>1. /\ fwd = "check" => job # None /\ emitted[job.attempt] = 0
      /\ fwd = "poll" => job # None /\ emitted[job.attempt] = 1
      /\ cutShort \in BOOLEAN
  BY DEF IInv, CarryInv, TypeOK
<1>2. CASE RejectFrequency
  BY <1>1, <1>2, ReplyKeeps DEF RejectFrequency, Acks
<1>3. CASE NotFree
  BY <1>1, <1>3, ReplyKeeps DEF NotFree, Acks
<1>4. CASE SendBlocked
  BY <1>1, <1>4, ReplyKeeps DEF SendBlocked, Acks
<1>5. CASE Confirm
  BY <1>1, <1>5, ReplyKeeps DEF Confirm, Acks
<1>6. CASE PollExpires
  BY <1>1, <1>6, ReplyKeeps DEF PollExpires, Acks
<1>7. CASE SendFails
  <2>1. /\ job # None /\ emitted[job.attempt] = 0 /\ "failed" \in Acks
        /\ SendAck("failed") /\ EndJob
        /\ UNCHANGED <<running, pullAddr, line, pc, token, result, echo, pending,
                       future, callbacks, resps, cutShort>>
        /\ emitted \in [Attempts -> Nat] /\ job.attempt \in Attempts
    BY <1>1, <1>7, OnTheWay DEF SendFails, Acks, IInv, TypeOK
  <2>2. \/ UNCHANGED <<emitting, emitted>>
        \/ /\ emitting = None /\ emitting' = job.attempt
           /\ emitted' = [emitted EXCEPT ![job.attempt] = 1]
    BY <1>7, <2>1 DEF SendFails
  <2> QED
    BY <1>1, <2>1, <2>2, ReplyKeeps
<1> QED
  BY <1>2, <1>3, <1>4, <1>5, <1>6, <1>7

-----------------------------------------------------------------------------
(* The invariant, and what follows from it.                                *)

LEMMA StepIInv == ASSUME LinkAssumption, IInv, [Next]_vars PROVE IInv'
<1>1. CASE \E a \in Attempts : Task(a)
  <2>1. PICK a \in Attempts : Task(a)
    BY <1>1
  <2> QED
    BY <2>1, CallKeeps, AcquireKeeps, TransmitKeeps, EndsKeep DEF Task
<1>2. CASE HandleAck \/ RunCallback
  BY <1>2, HandleAckKeeps, RunCallbackKeeps
<1>3. CASE Forwarder
  BY <1>3, ReceiveKeeps, StartEmissionKeeps, RepliesKeep, LossesKeep DEF Forwarder
<1>4. CASE PullData \/ LoseResp \/ LoseAck \/ ForwarderDies \/ ForgetAddress
               \/ ForwarderStarts \/ Stop
  BY <1>4, LossesKeep
<1>5. CASE UNCHANGED vars
  <2> USE <1>5 DEF vars, taskVars, ackVars, netVars, fwdVars, airVars
  <2>1. TypeOK' /\ LockInv' /\ PendingInv' /\ CallInv' /\ CarryInv' /\ UniqueInv'
    BY DEF IInv, TypeOK, LockInv, Holds, PendingInv, CallInv, NoCarrier, CarryInv,
           Belongs, UniqueInv
  <2>2. TrueInv'
    BY DEF IInv, TrueInv, AckInv, CallbackInv, FutureInv, ResultInv, EchoInv, Verdict,
           NoCarrier
  <2> QED
    BY <2>1, <2>2 DEF IInv
<1> QED
  BY <1>1, <1>2, <1>3, <1>4, <1>5 DEF Next

LEMMA Inductive == Spec => []IInv
<1>1. IInv /\ [Next]_vars => IInv'
  BY StepIInv, LinkAssumption
<1> QED
  BY <1>1, InitIInv, PTL DEF Spec

(* Type correctness of the exchange.                                       *)
THEOREM TypeCorrect == Spec => []TypeOK
<1>1. IInv => TypeOK
  BY DEF IInv
<1> QED
  BY <1>1, Inductive, PTL

(* What a call of _send_pull_resp returns is true: "ok" of a packet that   *)
(* was on the air, a refusal of one that never will be.                    *)
THEOREM ResultsTrue == Spec => []OutcomesTrue
<1>1. IInv => OutcomesTrue
  BY DEF IInv, TrueInv, ResultInv, Verdict, Refusals, OutcomesTrue
<1> QED
  BY <1>1, Inductive, PTL

(* _pending_tx_acks holds nothing but the future of the call that has      *)
(* _tx_lock and waits.                                                     *)
THEOREM RegistrationsLive == Spec => []NoStaleRegistration
<1>1. IInv => NoStaleRegistration
  BY DEF IInv, TypeOK, LockInv, PendingInv, NoStaleRegistration
<1> QED
  BY <1>1, Inductive, PTL

(* Only what was on the air and confirmed is suppressed as our own echo.   *)
THEOREM EchoesTrue == Spec => []EchoOnlyOfEmitted
<1>1. IInv => EchoOnlyOfEmitted
  BY DEF IInv, TypeOK, TrueInv, EchoInv, ResultInv, Verdict, EchoOnlyOfEmitted
<1> QED
  BY <1>1, Inductive, PTL

(* A transmission that was confirmed is over, unless the forwarder's poll  *)
(* gave up on it.                                                          *)
THEOREM OverOrCutShort == Spec => []OverUnlessCutShort
<1>1. IInv => OverUnlessCutShort
  BY DEF IInv, TrueInv, ResultInv, Verdict, OverUnlessCutShort
<1> QED
  BY <1>1, Inductive, PTL

-----------------------------------------------------------------------------
(* The implementation of RadioLink.                                        *)

LEMMA LinkInit == ASSUME Init PROVE Link!Init
BY DEF Init, Link!Init

LEMMA LinkTask ==
    ASSUME LinkAssumption, IInv, NEW a \in Attempts, Task(a)
    PROVE  [Link!Next]_(Link!vars)
<1> USE DEF IInv
<1>0. /\ pc \in [Attempts -> {"idle", "lock", "guard", "ack", "done"}]
      /\ result \in [Attempts -> Results \cup {"none"}]
      /\ emitted \in [Attempts -> Nat]
  BY DEF TypeOK, Results
<1> DEFINE out == [b \in Attempts |-> IF pc[b] = "idle" THEN "none"
                      ELSE IF pc[b] = "done" THEN result[b] ELSE "asked"]
<1>1. CASE Call(a)
  <2>1. /\ pc[a] = "idle" /\ pc' = [pc EXCEPT ![a] = "lock"] /\ result' = result
        /\ emitted' = emitted
    BY <1>1 DEF Call, airVars
  <2>2. out' = [out EXCEPT ![a] = "asked"]
    BY <1>0, <2>1
  <2>3. Link!Ask(a)
    BY <2>1, <2>2 DEF Link!Ask
  <2> QED
    BY <2>3 DEF Link!Next
<1>2. CASE Acquire(a) \/ Transmit(a)
  <2>1. /\ pc[a] \in {"lock", "guard"} /\ result' = result /\ emitted' = emitted
        /\ pc' = [pc EXCEPT ![a] = "guard"] \/ pc' = [pc EXCEPT ![a] = "ack"]
    BY <1>2 DEF Acquire, Transmit, airVars
  <2>2. out' = out
    BY <1>0, <2>1
  <2> QED
    BY <2>1, <2>2 DEF Link!vars
(* A call that returns.                                                    *)
<1>3. ASSUME NEW r \in Results, Finish(a, r), pc[a] # "done"
      PROVE  out' = [out EXCEPT ![a] = r]
  BY <1>0, <1>3 DEF Finish
<1>4. pc[a] \in Before => emitted[a] = 0
  BY DEF CallInv
<1>5. CASE CallRefused(a) \/ GuardRefused(a) \/ TransmitFails(a)
  <2>1. /\ pc[a] \in {"idle", "guard"} /\ emitted' = emitted /\ Finish(a, "not_sent")
    BY <1>5 DEF CallRefused, GuardRefused, TransmitFails, airVars
  <2>2. out' = [out EXCEPT ![a] = "not_sent"]
    BY <1>3, <2>1 DEF Results
  <2>3. Link!Refuse(a)
    BY <1>4, <2>1, <2>2 DEF Link!Refuse, Link!Refused, Before
  <2> QED
    BY <2>3 DEF Link!Next
<1>6. CASE AckTimeout(a) \/ Cancel(a)
  <2>1. /\ pc[a] \in {"lock", "guard", "ack"} /\ emitted' = emitted
        /\ Finish(a, "no_ack") \/ Finish(a, "cancelled")
    BY <1>6 DEF AckTimeout, Cancel, airVars
  <2>2. \E o \in {"no_ack", "cancelled"} : out' = [out EXCEPT ![a] = o]
    BY <1>3, <2>1 DEF Results
  <2>3. Link!GiveUp(a)
    BY <2>1, <2>2 DEF Link!GiveUp, Link!Uncertain
  <2> QED
    BY <2>3 DEF Link!Next
<1>7. CASE AckResolved(a)
  <2>1. /\ pc[a] = "ack" /\ emitted' = emitted /\ future[a] \in Acks
        /\ Finish(a, Outcome(future[a])) /\ Verdict(a, future[a])
    BY <1>7 DEF AckResolved, airVars, TrueInv, FutureInv
  <2>2. CASE future[a] = "sent"
    <3>1. Outcome(future[a]) = "ok" /\ emitted[a] = 1
      BY <2>1, <2>2 DEF Outcome, Verdict
    <3>2. out' = [out EXCEPT ![a] = "ok"]
      BY <1>3, <2>1, <3>1 DEF Results
    <3>3. Link!Confirm(a)
      BY <2>1, <3>1, <3>2 DEF Link!Confirm
    <3> QED
      BY <3>3 DEF Link!Next
  <2>4. CASE future[a] = "failed"
    <3>1. Outcome(future[a]) = "failed"
      BY <2>4 DEF Outcome
    <3>2. out' = [out EXCEPT ![a] = "failed"]
      BY <1>3, <2>1, <3>1 DEF Results
    <3>3. Link!Fail(a)
      BY <2>1, <3>2 DEF Link!Fail
    <3> QED
      BY <3>3 DEF Link!Next
  <2>3. CASE future[a] \notin {"sent", "failed"}
    <3>1. Outcome(future[a]) \in {"dropped", "refused"} /\ emitted[a] = 0
      BY <2>1, <2>3 DEF Outcome, Verdict, Acks
    <3>2. \E o \in {"dropped", "refused"} : out' = [out EXCEPT ![a] = o]
      BY <1>3, <2>1, <3>1 DEF Results
    <3>3. Link!Refuse(a)
      BY <2>1, <3>1, <3>2 DEF Link!Refuse, Link!Refused
    <3> QED
      BY <3>3 DEF Link!Next
  <2> QED
    BY <2>2, <2>3, <2>4
<1> QED
  BY <1>1, <1>2, <1>5, <1>6, <1>7 DEF Task

(* A packet goes on the air when its call waits or has given up.           *)
LEMMA LinkEmission ==
    ASSUME LinkAssumption, IInv, StartEmission \/ SendFails
    PROVE  [Link!Next]_(Link!vars)
<1> DEFINE b == job.attempt
           out == [a \in Attempts |-> IF pc[a] = "idle" THEN "none"
                      ELSE IF pc[a] = "done" THEN result[a] ELSE "asked"]
<1>1. /\ fwd = "check" /\ job # None /\ pc' = pc /\ result' = result
      /\ emitted' = [emitted EXCEPT ![b] = @ + 1] \/ emitted' = emitted
  BY DEF StartEmission, SendFails, taskVars, IInv, CarryInv
<1>2. /\ b \in Attempts /\ emitted[b] = 0 /\ pc[b] \notin Before
      /\ pc[b] \in {"idle", "lock", "guard", "ack", "done"}
      /\ result[b] \in Results \cup {"none"}
  BY <1>1, OnTheWay DEF IInv, CarryInv, Belongs, TypeOK, Results
<1>3. result[b] \notin Refusals \cup {"ok", "failed"}
  BY <1>1, <1>2 DEF IInv, TrueInv, ResultInv, Verdict, NoCarrier
<1>4. pc[b] = "done" => result[b] \in {"no_ack", "cancelled"}
  BY <1>2, <1>3 DEF Results, Refusals, IInv, CallInv
<1> HIDE DEF b
<1>5. out[b] \in {"no_ack", "cancelled", "asked"}
  BY <1>2, <1>4 DEF Before
<1>6. emitted' = [emitted EXCEPT ![b] = 1] \/ emitted' = emitted
  BY <1>1, <1>2
<1>7. out' = out
  BY <1>1
<1>8. Link!Emit(b) \/ UNCHANGED <<out, emitted>>
  BY <1>2, <1>5, <1>6, <1>7 DEF Link!Emit, Link!Uncertain
<1> QED
  BY <1>2, <1>8 DEF Link!Next, Link!vars

LEMMA LinkStep ==
    ASSUME LinkAssumption, IInv, [Next]_vars
    PROVE  [Link!Next]_(Link!vars)
<1>1. CASE \E a \in Attempts : Task(a)
  BY <1>1, LinkTask
<1>2. CASE StartEmission \/ SendFails
  BY <1>2, LinkEmission
<1>3. CASE UNCHANGED <<pc, result, emitted>>
  BY <1>3 DEF Link!vars
<1> QED
  BY <1>1, <1>2, <1>3
     DEF Next, Forwarder, HandleAck, RunCallback, PullData, Receive, RejectFrequency,
         NotFree, SendBlocked, Confirm, PollExpires, EmissionEnds, LoseResp, LoseAck,
         ForwarderDies, ForgetAddress, ForwarderStarts, Stop, vars, taskVars, airVars

(* The exchange keeps every promise of RadioLink: a packet is on the air   *)
(* once at most, and never before its call or after its refusal.           *)
THEOREM ImplementsLink == Spec => KeepsLink
<1>1. Init => Link!Init
  BY LinkInit
<1>2. IInv /\ [Next]_vars => [Link!Next]_(Link!vars)
  BY LinkStep, LinkAssumption
<1> QED
  BY <1>1, <1>2, Inductive, PTL DEF Spec, KeepsLink, Link!Spec

=============================================================================
