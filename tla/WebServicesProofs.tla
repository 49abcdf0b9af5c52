------------------------- MODULE WebServicesProofs --------------------------
(***************************************************************************)
(* What the services behind the web server promise, for all constants:     *)
(* the sessions, the throttle, the upload's guard, the static files, the   *)
(* documents, the commands, the event log; and the dates of the calendar.  *)
(* The inductive invariants stand beside each component.                   *)
(***************************************************************************)
EXTENDS Services, FiniteSets, FiniteSetTheorems, TLAPS

-----------------------------------------------------------------------------
(* WebSessions.                                                            *)

\* A free slot is good for nothing.
LEMMA FreeSlotFits == Ses!Fits(Ses!FreeSlot)
BY DEF Ses!Fits, Ses!FreeSlot, Ses!Used

\* Stale sessions are taken away and the others left as they are.
LEMMA ReapedFits ==
  ASSUME Ses!SessionsFit, NEW e
  PROVE  LET ss == Ses!Reaped(e)
         IN /\ DOMAIN ss = 1..SessionSlots
            /\ \A i \in 1..SessionSlots :
                 Ses!Fits(ss[i]) /\ (Ses!Used(ss[i]) => ss[i].epoch = e)
<1>1. ~Ses!Used(Ses!FreeSlot)
  BY DEF Ses!Used, Ses!FreeSlot
<1> QED BY <1>1, FreeSlotFits DEF Ses!SessionsFit, Ses!Reaped, Ses!Stale

\* No step of a handler leaves a session good for another generation than its own.
LEMMA SessionsKeep ==
  ASSUME Ses!SessionsFit, [Ses!Next]_vars, Ses!WebSessionsAssumption
  PROVE  Ses!SessionsFit'
<1>1. ASSUME v3' = v3 PROVE Ses!SessionsFit'
  BY <1>1 DEF Ses!SessionsFit, Ses!Fits, Ses!Used
<1>2. ASSUME NEW e, v3' = Ses!Reaped(e) PROVE Ses!SessionsFit'
  BY <1>2, ReapedFits DEF Ses!SessionsFit, Ses!Fits, Ses!Used
<1>3. CASE Ses!LoggedIn
  <2>1. CASE v6.ok
    <3> DEFINE e == v6.epoch
               ss == Ses!Reaped(e)
               new == [Ses!FreeSlot EXCEPT !.sid = Ses!Unseen, !.epoch = e, !.of = e]
    <3>1. v3' = [ss EXCEPT ![Ses!Place(ss)] = new]
      BY <1>3, <2>1 DEF Ses!LoggedIn, Ses!Generation, Ses!Created
    <3>2. Ses!Fits(new)
      <4> DEFINE free == Ses!FreeSlot
      <4>1. free \in [sid : {NoSid}, age : {0}, grant : {0}, epoch : {0}, of : {0}, proof : {0}]
        BY DEF Ses!FreeSlot
      <4> HIDE DEF free, e
      <4>2. /\ new \in [sid : {new.sid}, age : {0}, grant : {0}, epoch : {e}, of : {e}, proof : {0}]
            /\ new.age = 0 /\ new.grant = 0 /\ new.of = e /\ new.epoch = e /\ new.proof = 0
        BY <4>1 DEF free
      <4> HIDE DEF new
      <4> QED BY <4>2 DEF Ses!Fits
    <3>3. /\ DOMAIN ss = 1..SessionSlots
          /\ \A i \in 1..SessionSlots : Ses!Fits(ss[i])
      BY ReapedFits
    <3> HIDE DEF ss, new
    <3>4. DOMAIN v3' = 1..SessionSlots /\ \A i \in 1..SessionSlots : v3'[i] = new \/ v3'[i] = ss[i]
      BY <3>1, <3>3
    <3>5. \A i \in 1..SessionSlots : Ses!Fits(v3'[i])
      BY <3>2, <3>3, <3>4
    <3> QED BY <3>4, <3>5 DEF Ses!SessionsFit, Ses!Fits, Ses!Used
  <2>2. CASE ~v6.ok
    BY <1>1, <1>3, <2>2 DEF Ses!LoggedIn
  <2> QED BY <2>1, <2>2
<1>4. CASE Ses!Gate
  BY <1>2, <1>4 DEF Ses!Gate
<1>5. CASE Ses!Session
  BY <1>2, <1>5 DEF Ses!Session
<1>6. CASE Ses!Logout
  <2>1. DOMAIN v3' = 1..SessionSlots /\ \A i \in 1..SessionSlots : v3'[i] = Ses!FreeSlot \/ v3'[i] = v3[i]
    BY <1>6 DEF Ses!Logout
  <2>2. \A i \in 1..SessionSlots : Ses!Fits(v3'[i])
    BY <2>1, FreeSlotFits DEF Ses!SessionsFit
  <2> QED BY <2>1, <2>2 DEF Ses!SessionsFit, Ses!Fits, Ses!Used
<1>7. CASE Ses!Grant
  <2>1. CASE v6.ok
    <3> DEFINE e == v6.epoch
               ss == Ses!Reaped(e)
    <3>1. v3' = [i \in 1..SessionSlots |->
                  IF Ses!Used(ss[i]) /\ ss[i].sid = v5[v6.by].sid
                  THEN [ss[i] EXCEPT !.grant = GrantTtl, !.proof = e] ELSE ss[i]]
      BY <1>7, <2>1 DEF Ses!Grant, Ses!Generation
    <3>2. /\ DOMAIN ss = 1..SessionSlots
          /\ \A i \in 1..SessionSlots : Ses!Fits(ss[i]) /\ (Ses!Used(ss[i]) => ss[i].epoch = e)
      BY ReapedFits
    <3> HIDE DEF ss, e
    <3>3. ASSUME NEW s, Ses!Fits(s), Ses!Used(s), s.epoch = e
          PROVE  Ses!Fits([s EXCEPT !.grant = GrantTtl, !.proof = e])
      <4> DEFINE t == [s EXCEPT !.grant = GrantTtl, !.proof = e]
      <4>1. /\ t \in [sid : {t.sid}, age : {t.age}, grant : Nat, epoch : {t.epoch}, of : {t.of},
                     proof : {t.proof}]
            /\ t.grant = GrantTtl /\ t.proof = e /\ t.of = s.of /\ t.epoch = s.epoch
        BY <3>3 DEF Ses!Fits, Ses!WebSessionsAssumption
      <4>2. s.of = s.epoch
        BY <3>3 DEF Ses!Fits
      <4> HIDE DEF t
      <4>3. Ses!Fits(t)
        BY <3>3, <4>1, <4>2 DEF Ses!Fits, Ses!WebSessionsAssumption
      <4> QED BY <4>3 DEF t
    <3>4. \A i \in 1..SessionSlots : Ses!Fits(v3'[i])
      <4> TAKE i \in 1..SessionSlots
      <4>1. v3'[i] = IF Ses!Used(ss[i]) /\ ss[i].sid = v5[v6.by].sid
                     THEN [ss[i] EXCEPT !.grant = GrantTtl, !.proof = e] ELSE ss[i]
        BY <3>1
      <4> QED BY <3>2, <3>3, <4>1
    <3>5. DOMAIN v3' = 1..SessionSlots
      BY <3>1
    <3> QED BY <3>4, <3>5 DEF Ses!SessionsFit, Ses!Fits, Ses!Used
  <2>2. CASE ~v6.ok
    BY <1>1, <1>7, <2>2 DEF Ses!Grant
  <2> QED BY <2>1, <2>2
<1>8. CASE Ses!Elapse
  <2>1. ASSUME NEW s, NEW a, Ses!Fits(s)
        PROVE  Ses!Fits([s EXCEPT !.age = a, !.grant = Ses!Less(s.grant)])
    <3> DEFINE t == [s EXCEPT !.age = a, !.grant = Ses!Less(s.grant)]
    <3>1. Ses!Less(s.grant) \in Nat /\ (Ses!Less(s.grant) > 0 => s.grant > 0)
      BY <2>1 DEF Ses!Fits, Ses!Less
    <3>2. /\ t \in [sid : {t.sid}, age : {t.age}, grant : Nat, epoch : {t.epoch}, of : {t.of},
                   proof : {t.proof}]
          /\ t.grant = Ses!Less(s.grant) /\ t.proof = s.proof /\ t.of = s.of /\ t.epoch = s.epoch
          /\ t.sid = s.sid
      BY <2>1, <3>1 DEF Ses!Fits
    <3> HIDE DEF t
    <3>3. Ses!Fits(t)
      BY <2>1, <3>1, <3>2 DEF Ses!Fits, Ses!Used
    <3> QED BY <3>3 DEF t
  <2>2. DOMAIN v3' = 1..SessionSlots
    BY <1>8 DEF Ses!Elapse
  <2>3. ASSUME NEW i \in 1..SessionSlots PROVE Ses!Fits(v3'[i])
    <3>1. Ses!Fits(v3[i])
      BY DEF Ses!SessionsFit
    <3>2. v3'[i] = v3[i] \/ \E a : v3'[i] = [v3[i] EXCEPT !.age = a, !.grant = Ses!Less(v3[i].grant)]
      <4>1. v3'[i] = IF ~Ses!Used(v3[i]) THEN v3[i]
                     ELSE [v3[i] EXCEPT !.age = IF v3[i].age = Ttl THEN v3[i].age ELSE v3[i].age + 1,
                                        !.grant = Ses!Less(v3[i].grant)]
        BY <1>8, <3>1 DEF Ses!Elapse, Ses!Fits
      <4> QED BY <4>1
    <3> QED BY <2>1, <3>1, <3>2
  <2> QED BY <2>2, <2>3 DEF Ses!SessionsFit, Ses!Fits, Ses!Used
<1>9. CASE Ses!Change \/ Ses!Prove \/ Ses!LastChunk \/ Ses!Answer \/ Ses!Lose \/ UNCHANGED vars
  BY <1>1, <1>9 DEF Ses!Change, Ses!Prove, Ses!LastChunk, Ses!Answer, Ses!Lose, vars
<1>10. ASSUME NEW b \in Browser, Ses!Login(b) \/ Ses!Reload(b) PROVE Ses!SessionsFit'
  BY <1>1, <1>10 DEF Ses!Login, Ses!Reload
<1>11. ASSUME NEW b \in Browser, NEW what \in DOMAIN Ses!Level, Ses!Request(b, what)
       PROVE  Ses!SessionsFit'
  BY <1>1, <1>11 DEF Ses!Request
<1> QED BY <1>3, <1>4, <1>5, <1>6, <1>7, <1>8, <1>9, <1>10, <1>11 DEF Ses!Next, Ses!Handlers

\* Time takes guesses away, and adds none.
LEMMA RecentIsLess ==
  ASSUME v8 \in Seq(Nat)
  PROVE  /\ Ses!Recent \in Seq(Nat) /\ Len(Ses!Recent) <= Len(v8)
         /\ \A i \in 1..Len(Ses!Recent) : \E k \in 1..Len(v8) : Ses!Recent[i] = v8[k]
         /\ (\A k \in 1..Len(v8) : v8[k] + 1 >= Lock) => Len(Ses!Recent) = 0
<1> DEFINE S == {i \in 1..Len(v8) : v8[i] + 1 >= Lock}
           n == Len(v8)
           old == Ses!Old
<1>1. n \in Nat
  OBVIOUS
<1>2. IsFiniteSet(1..n) /\ Cardinality(1..n) = n
  <2>1. 1 \in Int /\ n \in Int
    BY <1>1
  <2>2. IsFiniteSet(1..n) /\ Cardinality(1..n) = IF 1 > n THEN 0 ELSE n - 1 + 1
    BY <2>1, FS_Interval
  <2> HIDE DEF n
  <2> QED BY <1>1, <2>2
<1>3. IsFiniteSet(S) /\ Cardinality(S) <= Cardinality(1..n) /\ Cardinality(S) \in Nat
  BY <1>2, FS_Subset, FS_CardinalityType
<1>4. old = Cardinality(S)
  BY DEF Ses!Old, Ses!Cardinality, Cardinality
<1>5. old \in 0..n
  BY <1>1, <1>2, <1>3, <1>4
<1>6. Ses!Recent = SubSeq(v8, old + 1, n)
  BY DEF Ses!Recent
<1> HIDE DEF S, old
<1>7. /\ Ses!Recent \in Seq(Nat) /\ Len(Ses!Recent) = n - old
      /\ \A i \in 1..(n - old) : Ses!Recent[i] = v8[old + i] /\ old + i \in 1..n
  <2>1. Ses!Recent \in Seq(Nat) /\ Len(Ses!Recent) = n - old
    BY <1>1, <1>5, <1>6
  <2>2. \A i \in 1..(n - old) : old + i \in 1..n
    BY <1>1, <1>5
  <2>3. ASSUME NEW i \in 1..(n - old) PROVE Ses!Recent[i] = v8[old + i]
    BY <1>1, <1>5, <1>6
  <2> QED BY <2>1, <2>2, <2>3
<1>8. ASSUME \A k \in 1..n : v8[k] + 1 >= Lock PROVE Len(Ses!Recent) = 0
  <2>1. S = 1..n
    BY <1>8 DEF S
  <2>2. old = n
    BY <1>2, <1>4, <2>1
  <2> QED BY <1>1, <1>7, <2>2
<1> HIDE DEF n
<1>9. Len(Ses!Recent) <= n
  BY <1>1, <1>5, <1>7
<1> QED BY <1>7, <1>8, <1>9 DEF n

\* A wrong guess is counted, and the last free one starts the lock.
LEMMA WrongFits ==
  ASSUME Ses!GuessesFit, v4.lock = 0, Ses!WrongGuess, v6'.at = "rest", Ses!WebSessionsAssumption
  PROVE  Ses!GuessesFit'
<1>1. /\ v4 \in [failures : 0..(FreeFailures - 1), lock : 0..Lock] /\ v8 \in Seq(Nat)
      /\ Len(v8) <= v4.failures
  BY DEF Ses!GuessesFit
<1>2. FreeFailures \in Nat \ {0} /\ Lock \in Nat \ {0}
  BY DEF Ses!WebSessionsAssumption
<1>3. v8' = Append(v8, 0) /\ v4' = Ses!Failed(v4)
  BY DEF Ses!WrongGuess
<1>4. /\ v8' \in Seq(Nat) /\ Len(v8') = Len(v8) + 1
      /\ \A i \in 1..Len(v8') : v8'[i] \in Nat
  BY <1>1, <1>3
<1>5. CASE v4.failures + 1 >= FreeFailures
  <2>1. v4' = [failures |-> 0, lock |-> Lock]
    BY <1>3, <1>5 DEF Ses!Failed
  <2>2. v4' \in [failures : 0..(FreeFailures - 1), lock : 0..Lock] /\ v4'.lock = Lock /\ v4'.failures = 0
    BY <1>2, <2>1
  <2>3. Len(v8') <= FreeFailures
    BY <1>1, <1>2, <1>4
  <2>4. \A i \in 1..Len(v8') : v8'[i] + v4'.lock >= Lock
    BY <1>2, <1>4, <2>2
  <2> QED BY <1>2, <1>4, <2>2, <2>3, <2>4 DEF Ses!GuessesFit
<1>6. CASE ~(v4.failures + 1 >= FreeFailures)
  <2> DEFINE f == v4.failures + 1
  <2>1. f \in 0..(FreeFailures - 1) /\ Len(v8') <= f
    BY <1>1, <1>2, <1>4, <1>6
  <2>2. v4' = [v4 EXCEPT !.failures = f]
    BY <1>3, <1>6 DEF Ses!Failed
  <2> HIDE DEF f
  <2>3. v4' \in [failures : 0..(FreeFailures - 1), lock : 0..Lock] /\ v4'.lock = 0 /\ v4'.failures = f
    BY <1>1, <2>1, <2>2
  <2> QED BY <1>4, <2>1, <2>3 DEF Ses!GuessesFit
<1> QED BY <1>5, <1>6

\* A right one wipes the others out.
LEMMA RightFits ==
  ASSUME Ses!RightGuess, Ses!WebSessionsAssumption
  PROVE  Ses!GuessesFit'
<1>1. v4' = [failures |-> 0, lock |-> 0] /\ v8' = <<>>
  BY DEF Ses!RightGuess
<1>2. 0 \in 0..(FreeFailures - 1) /\ 0 \in 0..Lock
  BY DEF Ses!WebSessionsAssumption
<1> QED BY <1>1, <1>2 DEF Ses!GuessesFit

\* A lock that goes by takes with it the guesses made before.
LEMMA ElapsedFits ==
  ASSUME Ses!GuessesFit, Ses!Elapse, Ses!WebSessionsAssumption
  PROVE  Ses!GuessesFit'
<1>1. /\ v4 \in [failures : 0..(FreeFailures - 1), lock : 0..Lock] /\ v8 \in Seq(Nat)
      /\ v6.at \in {"login", "proved"} => v4.lock = 0
  BY DEF Ses!GuessesFit
<1>2. FreeFailures \in Nat \ {0} /\ Lock \in Nat \ {0}
  BY DEF Ses!WebSessionsAssumption
<1> DEFINE l == Ses!Less(v4.lock)
<1>3. l \in 0..Lock /\ (v4.lock = 0 => l = 0) /\ (v4.lock # 0 => l = v4.lock - 1)
  BY <1>1, <1>2 DEF Ses!Less
<1> HIDE DEF l
<1>4. v4' = [v4 EXCEPT !.lock = l]
  BY <1>1 DEF Ses!Elapse, l
<1>5. v4' \in [failures : 0..(FreeFailures - 1), lock : 0..Lock] /\ v4'.lock = l /\ v4'.failures = v4.failures
  BY <1>1, <1>3, <1>4
<1> DEFINE r == Ses!Recent
<1>6. /\ r \in Seq(Nat) /\ Len(r) <= Len(v8)
      /\ \A i \in 1..Len(r) : \E k \in 1..Len(v8) : r[i] = v8[k]
      /\ (\A k \in 1..Len(v8) : v8[k] + 1 >= Lock) => Len(r) = 0
  BY <1>1, RecentIsLess
<1>7. v8' = [i \in 1..Len(r) |-> r[i] + 1] /\ v6' = v6
  BY DEF Ses!Elapse
<1> HIDE DEF r
<1>8. v8' \in Seq(Nat) /\ Len(v8') = Len(r)
  BY <1>6, <1>7
<1>9. CASE v4.lock = 0
  <2>1. Len(v8) <= v4.failures
    BY <1>9 DEF Ses!GuessesFit
  <2>2. l = 0 /\ Len(v8') <= v4.failures
    BY <1>1, <1>3, <1>6, <1>8, <1>9, <2>1
  <2> QED BY <1>5, <1>8, <2>2 DEF Ses!GuessesFit
<1>10. CASE v4.lock # 0
  <2>1. /\ v4.failures = 0 /\ Len(v8) <= FreeFailures
        /\ \A i \in 1..Len(v8) : v8[i] + v4.lock >= Lock
    BY <1>10 DEF Ses!GuessesFit
  <2>2. ~(v6.at \in {"login", "proved"})
    BY <1>1, <1>10
  <2>3. CASE v4.lock = 1
    <3>1. \A k \in 1..Len(v8) : v8[k] + 1 >= Lock
      BY <2>1, <2>3
    <3>2. Len(v8') = 0 /\ l = 0
      BY <1>3, <1>6, <1>8, <2>3, <3>1
    <3> QED BY <1>5, <1>7, <1>8, <2>1, <2>2, <3>2 DEF Ses!GuessesFit
  <2>4. CASE v4.lock # 1
    <3>1. l # 0 /\ v4.lock \in Nat /\ l \in Nat
      BY <1>1, <1>2, <1>3, <1>10, <2>4
    <3>2. ASSUME NEW i \in 1..Len(r) PROVE r[i] + 1 + l >= Lock
      <4>1. PICK k \in 1..Len(v8) : r[i] = v8[k]
        BY <1>6
      <4>2. v8[k] + v4.lock >= Lock /\ v8[k] \in Nat
        BY <1>1, <2>1
      <4> QED BY <1>2, <1>3, <1>10, <3>1, <4>1, <4>2
    <3>3. \A i \in 1..Len(v8') : v8'[i] + l >= Lock
      BY <1>7, <1>8, <3>2
    <3>4. Len(v8') <= FreeFailures
      BY <1>1, <1>2, <1>6, <1>8, <2>1
    <3> QED BY <1>5, <1>7, <1>8, <2>1, <2>2, <3>1, <3>3, <3>4 DEF Ses!GuessesFit
  <2> QED BY <2>3, <2>4
<1> QED BY <1>9, <1>10

\* Every step keeps the count of the guesses.
LEMMA GuessesKeep ==
  ASSUME Ses!GuessesFit, [Ses!Next]_vars, Ses!WebSessionsAssumption
  PROVE  Ses!GuessesFit'
<1>1. ASSUME v4' = v4, v8' = v8, v6'.at \in {"login", "proved"} => v6'.at = v6.at \/ v4.lock = 0
      PROVE  Ses!GuessesFit'
  BY <1>1 DEF Ses!GuessesFit
<1>2. CASE Ses!LoggedIn \/ Ses!Grant
  <2>1. v4.lock = 0
    BY <1>2 DEF Ses!GuessesFit, Ses!LoggedIn, Ses!Grant
  <2>2. v6'.at = "rest"
    <3>1. v6' = Ses!Rest
      BY <1>2 DEF Ses!LoggedIn, Ses!Grant
    <3>2. Ses!Rest.at = "rest"
      BY DEF Ses!Rest
    <3> QED BY <3>1, <3>2
  <2>3. CASE Ses!LoggedIn
    BY <2>1, <2>2, <2>3, RightFits, WrongFits DEF Ses!LoggedIn
  <2>4. CASE Ses!Grant
    BY <2>1, <2>2, <2>4, RightFits, WrongFits DEF Ses!Grant
  <2> QED BY <1>2, <2>3, <2>4
<1>3. CASE Ses!Elapse
  BY <1>3, ElapsedFits
<1>4. CASE Ses!Gate
  <2>1. v4' = v4 /\ v8' = v8 /\ v6.at = "gate"
    BY <1>4 DEF Ses!Gate
  <2>2. v6' = Ses!Rest \/ /\ v6.what \in {"session", "logout", "grant"}
                          /\ v6' = [at |-> v6.what, by |-> v6.by]
    BY <1>4 DEF Ses!Gate
  <2>3. v6'.at \notin {"login", "proved"}
    BY <2>2 DEF Ses!Rest
  <2> QED BY <1>1, <2>1, <2>3
<1>5. CASE Ses!Session \/ Ses!Logout
  BY <1>1, <1>5 DEF Ses!Session, Ses!Logout, Ses!Rest
<1>6. CASE Ses!Prove
  BY <1>1, <1>6 DEF Ses!Prove, Ses!Allowed, Ses!Rest
<1>7. CASE Ses!Change \/ Ses!LastChunk \/ Ses!Answer \/ Ses!Lose \/ UNCHANGED vars
  BY <1>1, <1>7 DEF Ses!Change, Ses!LastChunk, Ses!Answer, Ses!Lose, vars
<1>8. ASSUME NEW b \in Browser, Ses!Login(b) \/ Ses!Reload(b) PROVE Ses!GuessesFit'
  BY <1>1, <1>8 DEF Ses!Login, Ses!Reload, Ses!Allowed
<1>9. ASSUME NEW b \in Browser, NEW what \in DOMAIN Ses!Level, Ses!Request(b, what)
      PROVE  Ses!GuessesFit'
  BY <1>1, <1>9 DEF Ses!Request
<1> QED BY <1>2, <1>3, <1>4, <1>5, <1>6, <1>7, <1>8, <1>9 DEF Ses!Next, Ses!Handlers

\* An upload comes and goes whole; the guard marks it before it is there.
LEMMA UploadKeeps ==
  ASSUME Ses!UploadFits, [Ses!Next]_vars
  PROVE  Ses!UploadFits'
<1>1. CASE Ses!Gate
  <2>1. v7' = v7 \/ v7' = [by |-> v6.by, admitted |-> TRUE, ended |-> FALSE]
    BY <1>1 DEF Ses!Gate, Ses!NoUpload
  <2> QED BY <2>1 DEF Ses!UploadFits, Ses!NoUpload
<1>2. CASE Ses!LastChunk
  BY <1>2 DEF Ses!LastChunk, Ses!UploadFits, Ses!NoUpload
<1>3. CASE Ses!Answer \/ Ses!Lose
  BY <1>3 DEF Ses!Answer, Ses!Lose, Ses!UploadFits, Ses!NoUpload
<1>4. ASSUME v7' = v7 PROVE Ses!UploadFits'
  BY <1>4 DEF Ses!UploadFits, Ses!NoUpload
<1>5. CASE Ses!LoggedIn \/ Ses!Session \/ Ses!Logout \/ Ses!Prove \/ Ses!Grant
  BY <1>4, <1>5 DEF Ses!LoggedIn, Ses!Session, Ses!Logout, Ses!Prove, Ses!Grant
<1>6. CASE Ses!Change \/ Ses!Elapse \/ UNCHANGED vars
  BY <1>4, <1>6 DEF Ses!Change, Ses!Elapse, vars
<1>7. ASSUME NEW b \in Browser, Ses!Login(b) \/ Ses!Reload(b) PROVE Ses!UploadFits'
  BY <1>4, <1>7 DEF Ses!Login, Ses!Reload
<1>8. ASSUME NEW b \in Browser, NEW what \in DOMAIN Ses!Level, Ses!Request(b, what)
      PROVE  Ses!UploadFits'
  BY <1>4, <1>8 DEF Ses!Request
<1> QED BY <1>1, <1>2, <1>3, <1>5, <1>6, <1>7, <1>8 DEF Ses!Next, Ses!Handlers

\* The three hold at the start.
LEMMA SessionsStart ==
  ASSUME Ses!Init, Ses!WebSessionsAssumption
  PROVE  Ses!SessionsFit /\ Ses!GuessesFit /\ Ses!UploadFits
<1>1. Ses!SessionsFit
  BY FreeSlotFits DEF Ses!Init, Ses!SessionsFit
<1>2. Ses!GuessesFit
  <2>1. 0 \in 0..(FreeFailures - 1) /\ 0 \in 0..Lock
    BY DEF Ses!WebSessionsAssumption
  <2> QED BY <2>1 DEF Ses!Init, Ses!GuessesFit, Ses!Rest
<1> QED BY <1>1, <1>2 DEF Ses!Init, Ses!UploadFits

\* They say what the properties say, and more.
LEMMA SessionsSafe ==
  ASSUME Ses!SessionsFit, Ses!GuessesFit, Ses!UploadFits, Ses!WebSessionsAssumption
  PROVE  Ses!SessionsBelongToThePair /\ Ses!GuessesAreRationed /\ Ses!WrittenIsReported
<1>1. Ses!SessionsBelongToThePair
  BY DEF Ses!SessionsFit, Ses!SessionsBelongToThePair, Ses!Fits
<1>2. Ses!GuessesAreRationed
  <2>1. v4.failures \in 0..(FreeFailures - 1) /\ Len(v8) \in Nat /\ FreeFailures \in Nat
    BY DEF Ses!GuessesFit, Ses!WebSessionsAssumption
  <2> QED BY <2>1 DEF Ses!GuessesFit, Ses!GuessesAreRationed
<1>3. Ses!WrittenIsReported
  <2>1. ~Ses!NoUpload.ended
    BY DEF Ses!NoUpload
  <2> QED BY <2>1 DEF Ses!UploadFits, Ses!WrittenIsReported, Ses!Passes
<1> QED BY <1>1, <1>2, <1>3

-----------------------------------------------------------------------------
(* StaticFiles.                                                            *)

\* Every step of the update, the signals and the handler keeps their invariant.
LEMMA FilesKeep ==
  ASSUME Files!FilesFit, [Files!Next]_vars
  PROVE  Files!FilesFit'
<1> USE DEF Files!FilesFit, Files!BusyNow
<1>1. ASSUME NEW mode \in {"fw", "fs"}, Files!OnStart(mode) PROVE Files!FilesFit'
  <2>1. PICK fs \in BOOLEAN : fs = (v1.fs \/ mode = "fs")
    OBVIOUS
  <2>2. v1' = [v1 EXCEPT !.started = TRUE, !.starts = @ + 1, !.fs = fs]
    BY <1>1, <2>1 DEF Files!OnStart
  <2>3. /\ v1' \in [started : BOOLEAN, ended : {"none", "success", "failure"}, starts : Nat, fs : BOOLEAN]
        /\ v1'.starts = v1.starts + 1 /\ v1'.fs = fs
    <3> DEFINE n == v1.starts + 1
    <3>1. n \in Nat
      OBVIOUS
    <3>2. v1' = [v1 EXCEPT !.started = TRUE, !.starts = n, !.fs = fs]
      BY <2>2
    <3>3. v1 \in [started : BOOLEAN, ended : {"none", "success", "failure"}, starts : Nat, fs : BOOLEAN]
      OBVIOUS
    <3> HIDE DEF n, Files!FilesFit
    <3>4. v1' \in [started : BOOLEAN, ended : {"none", "success", "failure"}, starts : Nat, fs : BOOLEAN]
      BY <3>1, <3>2, <3>3
    <3>5. v1'.starts = n /\ v1'.fs = fs
      BY <3>2, <3>3
    <3> QED BY <3>4, <3>5 DEF n
  <2>4. v8' = mode /\ v2' = v2 /\ v5' = v5 /\ v6' = v6 /\ v9' = v9
    BY <1>1 DEF Files!OnStart
  <2> QED BY <2>1, <2>3, <2>4
<1>2. CASE Files!BeginUpdate \/ Files!Chunk
  BY <1>2 DEF Files!BeginUpdate, Files!Chunk
<1>3. CASE Files!EndUpdate
  <2>1. \/ \E code \in {"success", "failure"} : v1' = [v1 EXCEPT !.ended = code] /\ v2' = "none"
        \/ v1' = v1 /\ v2' = v2
    BY <1>3 DEF Files!EndUpdate
  <2>2. v5' = v5 /\ v6' = v6 /\ v7' = v7 /\ v8' = v8 /\ v9' = v9
    BY <1>3 DEF Files!EndUpdate
  <2>3. /\ v1' \in [started : BOOLEAN, ended : {"none", "success", "failure"}, starts : Nat, fs : BOOLEAN]
        /\ v1'.starts = v1.starts /\ v1'.fs = v1.fs
    BY <2>1
  <2>4. v2' = "fs" => v2 = "fs"
    BY <2>1
  <2> QED BY <2>2, <2>3, <2>4
<1>4. CASE Files!Drain
  <2>1. v1' = [v1 EXCEPT !.started = FALSE, !.ended = "none"] /\ (v2' = "none" \/ v2' = v2)
    BY <1>4 DEF Files!Drain
  <2>2. v5' = v5 /\ v6' = v6 /\ v8' = v8 /\ v9' = v9 /\ v7 \in {"drain", "rest"} /\ v7' = "rest"
    BY <1>4 DEF Files!Drain
  <2>3. /\ v1' \in [started : BOOLEAN, ended : {"none", "success", "failure"}, starts : Nat, fs : BOOLEAN]
        /\ v1'.starts = v1.starts /\ v1'.fs = v1.fs
    BY <2>1
  <2> QED BY <2>1, <2>2, <2>3
<1>5. CASE Files!NetTick
  BY <1>5 DEF Files!NetTick
<1>6. CASE Files!WebTick
  <2>1. v1' = v1 /\ v2' = v2 /\ v5' = v5 /\ v8' = v8 /\ v9' = v9 /\ v7' \in {"ack", "count", "latch"}
    BY <1>6 DEF Files!WebTick, Files!Tick
  <2>2. \/ v6' = [v6 EXCEPT !.busy = v5] /\ v5 \in BOOLEAN
        \/ v6' = [v6 EXCEPT !.acked = v6.prev]
        \/ v6' = [v6 EXCEPT !.prev = v1.starts]
    BY <1>6 DEF Files!WebTick, Files!Tick, Files!Ack
  <2>3. /\ v6' \in [busy : BOOLEAN, acked : Nat, prev : Nat, image : BOOLEAN, latched : BOOLEAN]
        /\ v6'.acked <= v1.starts /\ v6'.prev <= v1.starts
        /\ v6'.latched = v6.latched /\ v6'.image = v6.image
    BY <2>2
  <2> QED BY <2>1, <2>3
<1>7. CASE Files!Latch
  <2>1. v1' = v1 /\ v2' = v2 /\ v5' = v5 /\ v8' = v8 /\ v9' = v9
    BY <1>7 DEF Files!Latch
  <2>2. CASE ~v6.latched /\ v1.starts # 0 /\ v1.fs /\ ~Files!BusyNow
    <3>1. v6' = [v6 EXCEPT !.latched = TRUE, !.image = FALSE]
      BY <1>7, <2>2 DEF Files!Latch
    <3> QED BY <2>1, <3>1
  <2>3. CASE ~(~v6.latched /\ v1.starts # 0 /\ v1.fs /\ ~Files!BusyNow)
    <3>1. v6' = v6
      BY <1>7, <2>3 DEF Files!Latch
    <3> QED BY <2>1, <2>3, <3>1
  <2> QED BY <2>2, <2>3
<1>8. CASE Files!Restart
  <2>1. PICK image \in BOOLEAN :
          v6' = [busy |-> FALSE, acked |-> 0, prev |-> 0, image |-> image, latched |-> FALSE]
    BY <1>8 DEF Files!Restart
  <2>2. /\ v1' = [started |-> FALSE, ended |-> "none", starts |-> 0, fs |-> FALSE]
        /\ v2' = "none" /\ v5' = FALSE /\ v8' = "rest" /\ v9' = FALSE
    BY <1>8 DEF Files!Restart
  <2>3. /\ v6' \in [busy : BOOLEAN, acked : Nat, prev : Nat, image : BOOLEAN, latched : BOOLEAN]
        /\ v6'.acked = 0 /\ v6'.prev = 0 /\ ~v6'.latched
    BY <2>1
  <2>4. /\ v1' \in [started : BOOLEAN, ended : {"none", "success", "failure"}, starts : Nat, fs : BOOLEAN]
        /\ v1'.starts = 0 /\ ~v1'.fs
    BY <2>2
  <2>5. v5' \in BOOLEAN /\ ~(v9' \/ v2' = "fs" \/ v8' = "fs")
    BY <2>2
  <2> QED BY <2>3, <2>4, <2>5
<1>9. CASE Files!Get \/ Files!AskBusy \/ Files!AskStarts \/ Files!Serve \/ UNCHANGED vars
  BY <1>9 DEF Files!Get, Files!AskBusy, Files!AskStarts, Files!Serve, vars
<1> QED BY <1>1, <1>2, <1>3, <1>4, <1>5, <1>6, <1>7, <1>8, <1>9 DEF Files!Next

\* It holds at the start.
LEMMA FilesStart ==
  ASSUME Files!Init
  PROVE  Files!FilesFit
<1>1. PICK image \in BOOLEAN :
        v6 = [busy |-> FALSE, acked |-> 0, prev |-> 0, image |-> image, latched |-> FALSE]
  BY DEF Files!Init
<1>2. /\ v1 = [started |-> FALSE, ended |-> "none", starts |-> 0, fs |-> FALSE]
      /\ v2 = "none" /\ v5 = FALSE /\ v8 = "rest" /\ v9 = FALSE
  BY DEF Files!Init, Files!Fresh
<1>3. /\ v6 \in [busy : BOOLEAN, acked : Nat, prev : Nat, image : BOOLEAN, latched : BOOLEAN]
      /\ v6.acked = 0 /\ v6.prev = 0 /\ ~v6.latched
  BY <1>1
<1>4. /\ v1 \in [started : BOOLEAN, ended : {"none", "success", "failure"}, starts : Nat, fs : BOOLEAN]
      /\ v1.starts = 0 /\ ~v1.fs
  BY <1>2
<1>5. v5 \in BOOLEAN /\ ~(v9 \/ v2 = "fs" \/ v8 = "fs")
  BY <1>2
<1> QED BY <1>3, <1>4, <1>5 DEF Files!FilesFit

\* It has the property as a part.
LEMMA FilesSafe ==
  ASSUME Files!FilesFit
  PROVE  Files!TouchedIsNotServed
BY DEF Files!FilesFit, Files!TouchedIsNotServed

-----------------------------------------------------------------------------
(* WebDocuments.                                                           *)

\* The rest of the loop, the build of the log's document and its publication.
LEMMA LogStepsKeep ==
  ASSUME Docs!DocumentsFit, Docs!Happen \/ Docs!Build \/ Docs!Update
  PROVE  Docs!DocumentsFit'
<1> USE DEF Docs!DocumentsFit, Docs!TypeFits, Docs!Stamp
<1>1. CASE Docs!Happen
  <2>1. UNCHANGED <<v3, v4, v5, v6, v7, v8>> /\ v1' \in Nat /\ v2' \in BOOLEAN
    <3>1. \/ v1' = v1 + 1 /\ v2' = v2
          \/ v1' = v1 /\ v2' = ~v2
      BY <1>1 DEF Docs!Happen
    <3>2. UNCHANGED <<v3, v4, v5, v6, v7, v8>>
      BY <1>1 DEF Docs!Happen
    <3>3. v1 \in Nat /\ v2 \in BOOLEAN
      OBVIOUS
    <3>4. v1' \in Nat
      BY <3>1, <3>3
    <3>5. v2' \in BOOLEAN
      BY <3>1, <3>3, Zenon
    <3> QED BY <3>2, <3>4, <3>5
  <2>2. Docs!LogIsServed' /\ Docs!LogFits'
    BY <2>1 DEF Docs!LogIsServed, Docs!LogFits
  <2>3. Docs!ExportFits'
    BY <2>1 DEF Docs!ExportFits
  <2> QED BY <2>1, <2>2, <2>3
<1>2. CASE Docs!Build
  <2>1. /\ UNCHANGED <<v1, v2, v3, v4, v5, v6, v8>> /\ v7.at = "rest" /\ v7'.buffer = v7.buffer
        /\ v7'.at \in {"update", "export"} /\ v7'.built \in Docs!Stamp
    BY <1>2 DEF Docs!Build
  <2>2. v7' \in [at : {"rest", "update", "copying", "export", "publish", "expire", "free", "done"},
                 built : Docs!Stamp, buffer : FileBuffer \cup {None}]
    BY <1>2 DEF Docs!Build
  <2>3. Docs!LogIsServed' /\ Docs!LogFits'
    BY <2>1 DEF Docs!LogIsServed, Docs!LogFits
  <2>4. Docs!ExportFits'
    BY <2>1 DEF Docs!ExportFits
  <2> QED BY <2>1, <2>2, <2>3, <2>4
<1>3. CASE v7.at = "update" /\ v4 = "free" /\ Docs!Update
  <2>1. /\ UNCHANGED <<v1, v2, v5, v6, v8>> /\ v4' = "loop"
        /\ v3' = [v3 EXCEPT !.doc[1] = v7.built] /\ v7' = [v7 EXCEPT !.at = "copying"]
    BY <1>3 DEF Docs!Update
  <2>2. v3'.doc \in Docs!Stamp \X Docs!Stamp /\ v3'.doc[1] = v7.built
    BY <2>1
  <2>3. v3' \in [doc : Docs!Stamp \X Docs!Stamp, of : Docs!Stamp, built : BOOLEAN, age : Nat]
    BY <2>1, <2>2
  <2>4. Docs!LogIsServed' /\ Docs!LogFits'
    BY <1>3, <2>1, <2>2 DEF Docs!LogIsServed, Docs!LogFits
  <2>5. Docs!ExportFits'
    BY <1>3, <2>1 DEF Docs!ExportFits
  <2> QED BY <2>1, <2>3, <2>4, <2>5
<1>4. CASE v7.at = "update" /\ v4 = "web" /\ Docs!Update
  <2>1. /\ UNCHANGED <<v1, v2, v3, v4, v5, v6, v8>>
        /\ v7' = [v7 EXCEPT !.at = "export", !.built = Docs!Nothing]
    BY <1>4 DEF Docs!Update, Docs!Refused
  <2>2. Docs!LogIsServed' /\ Docs!LogFits'
    BY <1>4, <2>1 DEF Docs!LogIsServed, Docs!LogFits
  <2>3. Docs!ExportFits'
    BY <1>4, <2>1 DEF Docs!ExportFits
  <2> QED BY <2>1, <2>2, <2>3 DEF Docs!Nothing
<1>5. CASE v7.at = "copying" /\ Docs!Update
  <2>1. /\ UNCHANGED <<v1, v2, v5, v6, v8>> /\ v4' = "free"
        /\ v3' = [doc |-> [v3.doc EXCEPT ![2] = v7.built], of |-> v7.built, built |-> TRUE, age |-> 0]
        /\ v7' = [v7 EXCEPT !.at = "export", !.built = Docs!Nothing]
    BY <1>5 DEF Docs!Update
  <2>2. v3'.doc = <<v7.built, v7.built>>
    <3>1. v3.doc \in Docs!Stamp \X Docs!Stamp /\ v3.doc[1] = v7.built
      BY <1>5 DEF Docs!LogFits
    <3> QED BY <2>1, <3>1
  <2>3. v3' \in [doc : Docs!Stamp \X Docs!Stamp, of : Docs!Stamp, built : BOOLEAN, age : Nat]
    BY <2>1, <2>2
  <2>4. v8.at # "sending"
    BY <1>5 DEF Docs!LogFits
  <2>5. Docs!LogIsServed' /\ Docs!LogFits'
    BY <1>5, <2>1, <2>2, <2>4 DEF Docs!LogIsServed, Docs!LogFits
  <2>6. Docs!ExportFits'
    BY <1>5, <2>1 DEF Docs!ExportFits
  <2> QED BY <2>1, <2>3, <2>5, <2>6 DEF Docs!Nothing
<1> QED BY <1>1, <1>2, <1>3, <1>4, <1>5 DEF Docs!Update

\* The loop's steps with a backup file.
LEMMA FileStepsKeep ==
  ASSUME Docs!DocumentsFit, Docs!WebDocumentsAssumption,
         Docs!BuildFile \/ Docs!Publish \/ Docs!Expire \/ Docs!FreeOld \/ Docs!Elapse
  PROVE  Docs!DocumentsFit'
<1> USE DEF Docs!DocumentsFit, Docs!TypeFits, Docs!Stamp
<1>1. CASE Docs!BuildFile
  <2>1. UNCHANGED <<v1, v2, v3, v4, v6, v8>> /\ v7.at = "export" /\ v7.buffer = None
    BY <1>1 DEF Docs!BuildFile, Docs!ExportFits
  <2>2. ASSUME NEW b \in FileBuffer \ v5, v5' = v5 \cup {b},
               v7' = [v7 EXCEPT !.at = "publish", !.buffer = b]
        PROVE  Docs!ExportFits'
    BY <2>1, <2>2 DEF Docs!ExportFits, Docs!WebDocumentsAssumption
  <2>3. ASSUME UNCHANGED v5, \/ v7' = [v7 EXCEPT !.at = "publish"]
                             \/ v7' = [v7 EXCEPT !.at = "expire"]
        PROVE  Docs!ExportFits'
    <3>1. v7'.buffer = None
      BY <2>1, <2>3
    <3>2. v6' = v6 /\ v8' = v8 /\ v5' = v5
      BY <2>1, <2>3
    <3> QED BY <2>1, <3>1, <3>2 DEF Docs!ExportFits
  <2>4. Docs!ExportFits' /\ v7'.at \in {"publish", "expire"} /\ v7'.built = v7.built
    BY <1>1, <2>2, <2>3 DEF Docs!BuildFile
  <2>5. v7' \in [at : {"rest", "update", "copying", "export", "publish", "expire", "free", "done"},
                 built : Docs!Stamp, buffer : FileBuffer \cup {None}]
    BY <1>1 DEF Docs!BuildFile
  <2>6. Docs!LogIsServed' /\ Docs!LogFits'
    BY <2>1, <2>4 DEF Docs!LogIsServed, Docs!LogFits
  <2> QED BY <2>1, <2>4, <2>5, <2>6
<1>2. CASE Docs!Publish
  <2>1. /\ UNCHANGED <<v1, v2, v3, v4, v8>> /\ v7.at = "publish"
        /\ v5' = v5 \ Docs!Freed /\ v6' = Docs!Published(v7.buffer)
        /\ v7' = [v7 EXCEPT !.at = "expire", !.buffer = None]
    BY <1>2 DEF Docs!Publish
  <2>2. v6' \in [state : {"idle", "requested", "ready"}, data : FileBuffer \cup {None}, age : Nat]
    BY <2>1 DEF Docs!Published
  <2>3. v6'.data = v7.buffer /\ (v6'.state = "ready" <=> v6'.data # None)
    BY <2>1 DEF Docs!Published
  <2>4. Docs!Freed = {v6.data} \ {None}
    BY DEF Docs!Freed, Docs!ExportFits
  <2>5. Docs!ExportFits'
    BY <2>1, <2>3, <2>4 DEF Docs!ExportFits
  <2>6. Docs!LogIsServed' /\ Docs!LogFits'
    BY <2>1 DEF Docs!LogIsServed, Docs!LogFits
  <2> QED BY <2>1, <2>2, <2>5, <2>6
<1>3. CASE Docs!Expire
  <2>1. /\ UNCHANGED <<v1, v2, v3, v4, v5, v8>> /\ v7.at = "expire" /\ v7.buffer = None
        /\ \/ /\ v6.state = "ready" /\ v6' = Docs!Emptied
              /\ v7' = [v7 EXCEPT !.at = "free", !.buffer = v6.data]
           \/ v6' = v6 /\ v7' = [v7 EXCEPT !.at = "done"]
    BY <1>3 DEF Docs!Expire, Docs!ExportFits
  <2>2. CASE /\ v6.state = "ready" /\ v6' = Docs!Emptied
             /\ v7' = [v7 EXCEPT !.at = "free", !.buffer = v6.data]
    <3>1. /\ v6'.state = "idle" /\ v6'.data = None
          /\ v7'.at = "free" /\ v7'.buffer = v6.data /\ v7'.built = v7.built
      BY <2>2 DEF Docs!Emptied
    <3>2. Docs!ExportFits'
      BY <2>1, <2>2, <3>1 DEF Docs!ExportFits
    <3>3. Docs!LogIsServed' /\ Docs!LogFits'
      BY <2>1, <3>1 DEF Docs!LogIsServed, Docs!LogFits
    <3>4. v6' \in [state : {"idle", "requested", "ready"}, data : FileBuffer \cup {None}, age : Nat]
      BY <2>2 DEF Docs!Emptied
    <3>5. v7' \in [at : {"rest", "update", "copying", "export", "publish", "expire", "free", "done"},
                   built : Docs!Stamp, buffer : FileBuffer \cup {None}]
      BY <2>2
    <3> QED BY <2>1, <3>2, <3>3, <3>4, <3>5
  <2>3. CASE v6' = v6 /\ v7' = [v7 EXCEPT !.at = "done"]
    <3>1. v7'.at = "done" /\ v7'.buffer = None /\ v7'.built = v7.built
      BY <2>1, <2>3
    <3>2. Docs!ExportFits'
      BY <2>1, <2>3, <3>1 DEF Docs!ExportFits
    <3>3. Docs!LogIsServed' /\ Docs!LogFits'
      BY <2>1, <2>3, <3>1 DEF Docs!LogIsServed, Docs!LogFits
    <3>4. v7' \in [at : {"rest", "update", "copying", "export", "publish", "expire", "free", "done"},
                   built : Docs!Stamp, buffer : FileBuffer \cup {None}]
      BY <2>3
    <3> QED BY <2>1, <2>3, <3>2, <3>3, <3>4
  <2> QED BY <2>1, <2>2, <2>3
<1>4. CASE Docs!FreeOld
  <2>1. /\ UNCHANGED <<v1, v2, v3, v4, v6, v8>> /\ v7.at = "free" /\ v5' = v5 \ {v7.buffer}
        /\ v7' = [v7 EXCEPT !.at = "done", !.buffer = None]
    BY <1>4 DEF Docs!FreeOld
  <2>2. Docs!ExportFits'
    BY <2>1 DEF Docs!ExportFits
  <2>3. Docs!LogIsServed' /\ Docs!LogFits'
    BY <2>1 DEF Docs!LogIsServed, Docs!LogFits
  <2> QED BY <2>1, <2>2, <2>3
<1>5. CASE Docs!Elapse
  <2>1. /\ UNCHANGED <<v1, v2, v4, v5, v8>> /\ v7.at = "done" /\ v7' = Docs!Resting
        /\ v3' = [v3 EXCEPT !.age = IF v3.built THEN Docs!Older(@, Rebuild) ELSE @]
        /\ v6' = [v6 EXCEPT !.age = IF v6.state = "ready" THEN Docs!Older(@, ReadyTtl) ELSE @]
    BY <1>5 DEF Docs!Elapse
  <2>2. \A age \in Nat : Docs!Older(age, Rebuild) \in Nat /\ Docs!Older(age, ReadyTtl) \in Nat
    BY DEF Docs!Older, Docs!WebDocumentsAssumption
  <2>3. /\ v3' \in [doc : Docs!Stamp \X Docs!Stamp, of : Docs!Stamp, built : BOOLEAN, age : Nat]
        /\ v6' \in [state : {"idle", "requested", "ready"}, data : FileBuffer \cup {None}, age : Nat]
    BY <2>1, <2>2
  <2>4. /\ v3'.doc = v3.doc /\ v3'.of = v3.of /\ v3'.built = v3.built
        /\ v6'.state = v6.state /\ v6'.data = v6.data
        /\ v7'.at = "rest" /\ v7'.built = Docs!Nothing /\ v7'.buffer = None
    BY <2>1 DEF Docs!Resting
  <2>5. v7.buffer = None
    BY <2>1 DEF Docs!ExportFits
  <2>6. v7' \in [at : {"rest", "update", "copying", "export", "publish", "expire", "free", "done"},
                 built : Docs!Stamp, buffer : FileBuffer \cup {None}]
    BY <2>1 DEF Docs!Resting, Docs!Nothing
  <2>7. Docs!ExportFits'
    BY <2>1, <2>4, <2>5 DEF Docs!ExportFits
  <2>8. Docs!LogIsServed' /\ Docs!LogFits'
    BY <2>1, <2>4 DEF Docs!LogIsServed, Docs!LogFits
  <2> QED BY <2>1, <2>3, <2>6, <2>7, <2>8
<1> QED BY <1>1, <1>2, <1>3, <1>4, <1>5

\* The handlers' steps.
LEMMA HandlerStepsKeep ==
  ASSUME Docs!DocumentsFit, Docs!WebDocumentsAssumption,
         Docs!Send \/ Docs!Ask \/ Docs!Take \/ Docs!Answer \/ Docs!FreeSent
  PROVE  Docs!DocumentsFit'
<1> USE DEF Docs!DocumentsFit, Docs!TypeFits, Docs!Stamp
<1>1. CASE Docs!Send /\ v8.at = "rest"
  <2>1. /\ UNCHANGED <<v1, v2, v3, v5, v6, v7>> /\ v4 = "free" /\ v4' = "web"
        /\ v3.doc[1] # Docs!Nothing
        /\ v8' = [v8 EXCEPT !.at = "sending", !.built = v3.doc[1]]
    BY <1>1 DEF Docs!Send
  <2>2. v3.doc = <<v3.of, v3.of>>
    BY <2>1 DEF Docs!LogIsServed, Docs!LogFits
  <2>3. v8' \in [at : {"rest", "sending", "taken", "sent"}, built : Docs!Stamp,
                 buffer : FileBuffer \cup {None}]
    BY <2>1
  <2>4. v8'.at = "sending" /\ v8'.built = v3.of /\ v8'.buffer = v8.buffer
    BY <2>1, <2>2
  <2>5. Docs!LogIsServed' /\ Docs!LogFits'
    BY <2>1, <2>2, <2>4 DEF Docs!LogIsServed, Docs!LogFits
  <2>6. Docs!ExportFits'
    BY <1>1, <2>1, <2>4 DEF Docs!ExportFits
  <2> QED BY <2>1, <2>3, <2>5, <2>6
<1>2. CASE Docs!Send /\ v8.at # "rest"
  <2>1. /\ UNCHANGED <<v1, v2, v3, v5, v6, v7>> /\ v8.at = "sending" /\ v4' = "free"
        /\ v8' = Docs!Resting
    BY <1>2 DEF Docs!Send
  <2>2. v8' \in [at : {"rest", "sending", "taken", "sent"}, built : Docs!Stamp,
                 buffer : FileBuffer \cup {None}]
    BY <2>1 DEF Docs!Resting, Docs!Nothing
  <2>3. v8'.at = "rest" /\ v8'.buffer = None /\ v8.buffer = None
    BY <2>1 DEF Docs!Resting, Docs!ExportFits
  <2>4. Docs!LogIsServed' /\ Docs!LogFits'
    BY <2>1, <2>3 DEF Docs!LogIsServed, Docs!LogFits
  <2>5. Docs!ExportFits'
    BY <2>1, <2>3 DEF Docs!ExportFits
  <2> QED BY <2>1, <2>2, <2>4, <2>5
<1>3. CASE Docs!Ask
  <2>1. /\ UNCHANGED <<v1, v2, v3, v4, v5, v7, v8>> /\ v6.state = "idle"
        /\ v6' = [v6 EXCEPT !.state = "requested"]
    BY <1>3 DEF Docs!Ask
  <2>2. Docs!ExportFits'
    BY <2>1 DEF Docs!ExportFits
  <2>3. Docs!LogIsServed' /\ Docs!LogFits'
    BY <2>1 DEF Docs!LogIsServed, Docs!LogFits
  <2> QED BY <2>1, <2>2, <2>3
<1>4. CASE Docs!Take
  <2>1. /\ UNCHANGED <<v1, v2, v3, v4, v5, v7>> /\ v8.at = "rest" /\ v6.state = "ready"
        /\ v8' = [v8 EXCEPT !.at = "taken", !.buffer = v6.data] /\ v6' = Docs!Emptied
    BY <1>4 DEF Docs!Take
  <2>2. v6'.state = "idle" /\ v6'.data = None /\ v8'.at = "taken" /\ v8'.buffer = v6.data
    BY <2>1 DEF Docs!Emptied
  <2>3. Docs!ExportFits'
    BY <2>1, <2>2 DEF Docs!ExportFits
  <2>4. Docs!LogIsServed' /\ Docs!LogFits'
    BY <2>1, <2>2 DEF Docs!LogIsServed, Docs!LogFits
  <2> QED BY <2>1, <2>3, <2>4 DEF Docs!Emptied
<1>5. CASE Docs!Answer
  <2>1. UNCHANGED <<v1, v2, v3, v4, v7>> /\ v8.at = "taken"
    BY <1>5 DEF Docs!Answer
  <2>2. CASE v8' = [v8 EXCEPT !.at = "sent"] /\ UNCHANGED <<v5, v6>>
    <3>1. Docs!ExportFits'
      BY <2>1, <2>2 DEF Docs!ExportFits
    <3>2. Docs!LogIsServed' /\ Docs!LogFits'
      BY <2>1, <2>2 DEF Docs!LogIsServed, Docs!LogFits
    <3> QED BY <2>1, <2>2, <3>1, <3>2
  <2>3. CASE /\ v6.state = "idle" /\ v6' = Docs!Published(v8.buffer) /\ v5' = v5 \ Docs!Freed
             /\ v8' = [v8 EXCEPT !.at = "sent", !.buffer = None]
    <3>1. v6' \in [state : {"idle", "requested", "ready"}, data : FileBuffer \cup {None}, age : Nat]
      BY <2>3 DEF Docs!Published
    <3>2. v6'.data = v8.buffer /\ (v6'.state = "ready" <=> v6'.data # None)
      BY <2>3 DEF Docs!Published
    <3>3. v5' = v5
      BY <2>3 DEF Docs!Freed
    <3>4. Docs!ExportFits'
      BY <2>1, <2>3, <3>2, <3>3 DEF Docs!ExportFits
    <3>5. Docs!LogIsServed' /\ Docs!LogFits'
      BY <2>1, <2>3 DEF Docs!LogIsServed, Docs!LogFits
    <3> QED BY <2>1, <2>3, <3>1, <3>4, <3>5
  <2> QED BY <1>5, <2>2, <2>3 DEF Docs!Answer, Docs!PutsBack
<1>6. CASE Docs!FreeSent
  <2>1. /\ UNCHANGED <<v1, v2, v3, v4, v6, v7>> /\ v8.at = "sent" /\ v5' = v5 \ {v8.buffer}
        /\ v8' = Docs!Resting
    BY <1>6 DEF Docs!FreeSent
  <2>2. v8' \in [at : {"rest", "sending", "taken", "sent"}, built : Docs!Stamp,
                 buffer : FileBuffer \cup {None}]
    BY <2>1 DEF Docs!Resting, Docs!Nothing
  <2>3. v8'.at = "rest" /\ v8'.buffer = None
    BY <2>1 DEF Docs!Resting
  <2>4. Docs!ExportFits'
    BY <2>1, <2>3 DEF Docs!ExportFits
  <2>5. Docs!LogIsServed' /\ Docs!LogFits'
    BY <2>1, <2>3 DEF Docs!LogIsServed, Docs!LogFits
  <2> QED BY <2>1, <2>2, <2>4, <2>5
<1> QED BY <1>1, <1>2, <1>3, <1>4, <1>5, <1>6

\* Every step of the two tasks keeps their invariant.
LEMMA DocumentsKeep ==
  ASSUME Docs!DocumentsFit, Docs!WebDocumentsAssumption, [Docs!Next]_vars
  PROVE  Docs!DocumentsFit'
<1>1. CASE Docs!Next
  BY <1>1, LogStepsKeep, FileStepsKeep, HandlerStepsKeep DEF Docs!Next
<1>2. CASE UNCHANGED vars
  BY <1>2 DEF vars, Docs!DocumentsFit, Docs!TypeFits, Docs!LogIsServed, Docs!LogFits,
      Docs!ExportFits
<1> QED BY <1>1, <1>2

\* It holds at the start.
LEMMA DocumentsStart ==
  ASSUME Docs!Init
  PROVE  Docs!DocumentsFit
<1> USE DEF Docs!Init, Docs!Nothing
<1>1. Docs!TypeFits
  BY DEF Docs!TypeFits, Docs!Stamp, Docs!Resting
<1>2. Docs!LogIsServed /\ Docs!LogFits
  BY DEF Docs!LogIsServed, Docs!LogFits, Docs!Resting
<1>3. Docs!ExportFits
  BY DEF Docs!ExportFits, Docs!Resting
<1> QED BY <1>1, <1>2, <1>3 DEF Docs!DocumentsFit

\* It says what the properties say, and more: the owners are as many as the buffers.
LEMMA DocumentsSafe ==
  ASSUME Docs!DocumentsFit
  PROVE  Docs!LogIsServed /\ Docs!ExportHasOneOwner
<1> DEFINE owners == {<<"slot", v6.data>>, <<"loop", v7.buffer>>, <<"web", v8.buffer>>}
           held == {o \in owners : o[2] # None}
<1>1. {o[2] : o \in held} = v5
  <2>1. ASSUME NEW o \in held PROVE o[2] \in {v6.data, v7.buffer, v8.buffer} \ {None}
    OBVIOUS
  <2>2. ASSUME NEW x \in {v6.data, v7.buffer, v8.buffer}, x # None PROVE \E o \in held : x = o[2]
    <3>1. <<"slot", v6.data>> \in owners /\ <<"loop", v7.buffer>> \in owners /\ <<"web", v8.buffer>> \in owners
      OBVIOUS
    <3>2. PICK o \in owners : o[2] = x
      BY <3>1
    <3> QED BY <2>2, <3>2
  <2> HIDE DEF held
  <2> QED BY <2>1, <2>2 DEF Docs!DocumentsFit, Docs!ExportFits
<1>2. \A o, p \in held : o[2] = p[2] => o = p
  BY DEF Docs!DocumentsFit, Docs!ExportFits
<1>3. IsFiniteSet(held) /\ Cardinality(held) = Cardinality(v5)
  <2>1. IsFiniteSet(owners)
    <3>1. IsFiniteSet({<<"slot", v6.data>>, <<"loop", v7.buffer>>})
      <4>1. IsFiniteSet({<<"slot", v6.data>>})
        BY FS_Singleton
      <4>2. {<<"slot", v6.data>>, <<"loop", v7.buffer>>} = {<<"slot", v6.data>>} \cup {<<"loop", v7.buffer>>}
        OBVIOUS
      <4> QED BY <4>1, <4>2, FS_AddElement
    <3>2. owners = {<<"slot", v6.data>>, <<"loop", v7.buffer>>} \cup {<<"web", v8.buffer>>}
      OBVIOUS
    <3> QED BY <3>1, <3>2, FS_AddElement
  <2>2. IsFiniteSet(held)
    BY <2>1, FS_Subset
  <2> DEFINE f == [o \in held |-> o[2]]
  <2>3. f \in Bijection(held, v5)
    <3>1. f \in [held -> v5]
      BY <1>1
    <3>2. f \in Injection(held, v5)
      BY <1>2, <3>1 DEF Injection, IsInjective
    <3>3. f \in Surjection(held, v5)
      BY <1>1, <3>1 DEF Surjection
    <3> QED BY <3>2, <3>3 DEF Bijection
  <2>4. ExistsBijection(held, v5)
    BY <2>3 DEF ExistsBijection
  <2> HIDE DEF held, f
  <2> QED BY <2>2, <2>4, FS_Bijection
<1>4. (v6.state = "ready" <=> v6.data # None) /\ Docs!LogIsServed
  BY DEF Docs!DocumentsFit, Docs!ExportFits
<1>5. Cardinality(held) = Cardinality(v5)
  BY <1>3
<1>6. Docs!ExportHasOneOwner
  <2>1. \A S : Docs!Cardinality(S) = Cardinality(S)
    BY DEF Docs!Cardinality, Cardinality
  <2> HIDE DEF held
  <2>2. {o[2] : o \in held} = v5 /\ Docs!Cardinality(held) = Docs!Cardinality(v5)
    BY <1>1, <1>5, <2>1
  <2> USE DEF held
  <2> QED BY <1>4, <2>2 DEF Docs!ExportHasOneOwner
<1> QED BY <1>4, <1>6

-----------------------------------------------------------------------------
(* CommandPath.                                                            *)

\* What the ends of a queue are made of.
LEMMA AppendFacts ==
  ASSUME NEW S, NEW q \in Seq(S), NEW x \in S
  PROVE  /\ Append(q, x) \in Seq(S) /\ Len(Append(q, x)) = Len(q) + 1
         /\ DOMAIN Append(q, x) = 1..(Len(q) + 1) /\ DOMAIN q = 1..Len(q) /\ Len(q) \in Nat
         /\ \A i \in DOMAIN q : Append(q, x)[i] = q[i]
         /\ Append(q, x)[Len(q) + 1] = x
OBVIOUS

\* And what is left of one.
LEMMA TailFacts ==
  ASSUME NEW S, NEW q \in Seq(S), q # <<>>
  PROVE  /\ Tail(q) \in Seq(S) /\ Head(q) \in S /\ Head(q) = q[1]
         /\ Len(q) \in Nat \ {0} /\ Len(Tail(q)) = Len(q) - 1
         /\ DOMAIN Tail(q) = 1..(Len(q) - 1) /\ DOMAIN q = 1..Len(q)
         /\ \A i \in DOMAIN Tail(q) : Tail(q)[i] = q[i + 1]
OBVIOUS

\* There is always an id that nobody holds: the queue, the board and the loop have not room
\* for all.
LEMMA FreshIsFree ==
  ASSUME Cmd!PathTypes, Cmd!CommandPathAssumption, v2 = Cmd!Idle
  PROVE  Cmd!Fresh \in Cmd!Id \ Cmd!Live
<1> DEFINE Q == {v3[i].id : i \in DOMAIN v3}
           B == {v4[i].id : i \in DOMAIN v4}
           f == [i \in 1..Len(v3) |-> v3[i].id]
           g == [i \in 1..BoardSize |-> v4[i].id]
<1>1. /\ Len(v3) \in Nat /\ Len(v3) <= Depth /\ DOMAIN v3 = 1..Len(v3) /\ DOMAIN v4 = 1..BoardSize
      /\ BoardSize \in Nat /\ Depth \in Nat
  BY DEF Cmd!PathTypes, Cmd!CommandPathAssumption
<1>2. IsFiniteSet(Q) /\ Cardinality(Q) <= Depth /\ Cardinality(Q) \in Nat
  <2>1. f \in Surjection(1..Len(v3), Q)
    BY <1>1 DEF Surjection
  <2>2. IsFiniteSet(1..Len(v3)) /\ Cardinality(1..Len(v3)) = Len(v3)
    <3>1. 1 \in Int /\ Len(v3) \in Int
      BY <1>1
    <3>2. IsFiniteSet(1..Len(v3)) /\ Cardinality(1..Len(v3)) = IF 1 > Len(v3) THEN 0 ELSE Len(v3) - 1 + 1
      BY <3>1, FS_Interval
    <3> QED BY <1>1, <3>2
  <2>3. IsFiniteSet(Q) /\ Cardinality(Q) <= Len(v3)
    <3> HIDE DEF f, Q
    <3> QED BY <2>1, <2>2, FS_Surjection
  <2> HIDE DEF Q
  <2> QED BY <1>1, <2>3, FS_CardinalityType
<1>3. IsFiniteSet(B) /\ Cardinality(B) <= BoardSize /\ Cardinality(B) \in Nat
  <2>1. g \in Surjection(1..BoardSize, B)
    BY <1>1 DEF Surjection
  <2>2. IsFiniteSet(1..BoardSize) /\ Cardinality(1..BoardSize) = BoardSize
    BY <1>1, FS_Interval
  <2>3. IsFiniteSet(B) /\ Cardinality(B) <= BoardSize
    <3> HIDE DEF g, B
    <3> QED BY <2>1, <2>2, FS_Surjection
  <2> HIDE DEF B
  <2> QED BY <1>1, <2>3, FS_CardinalityType
<1> HIDE DEF f, g
<1> DEFINE U == (Q \cup B) \cup {v6.cmd.id}
<1>4. IsFiniteSet(U) /\ Cardinality(U) <= Depth + BoardSize + 1
  <2> HIDE DEF Q, B
  <2>1. /\ IsFiniteSet(Q \cup B)
        /\ Cardinality(Q \cup B) = Cardinality(Q) + Cardinality(B) - Cardinality(Q \cap B)
    BY <1>2, <1>3, FS_Union
  <2>2. Cardinality(Q \cap B) \in Nat
    <3>1. IsFiniteSet(Q \cap B)
      BY <1>2, FS_Subset
    <3> QED BY <3>1, FS_CardinalityType
  <2>3. Cardinality(Q \cup B) <= Depth + BoardSize
    BY <1>1, <1>2, <1>3, <2>1, <2>2
  <2>4. /\ IsFiniteSet(U)
        /\ Cardinality(U) = IF v6.cmd.id \in Q \cup B THEN Cardinality(Q \cup B) ELSE Cardinality(Q \cup B) + 1
    BY <2>1, FS_AddElement
  <2>5. Cardinality(Q \cup B) \in Nat
    BY <2>1, FS_CardinalityType
  <2> QED BY <1>1, <2>3, <2>4, <2>5
<1>5. Cmd!Live \cap Cmd!Id \subseteq U
  BY DEF Cmd!Live, Cmd!Idle, Cmd!Id, Cmd!NoId
<1>6. Cardinality(Cmd!Id) = BoardSize + Depth + 2 /\ IsFiniteSet(Cmd!Id)
  <2> DEFINE n == BoardSize + Depth + 2
  <2>1. Cmd!Id = 1..n
    BY DEF Cmd!Id
  <2>2. n \in Nat /\ n > 1
    BY <1>1
  <2> HIDE DEF n
  <2>3. 1 \in Int /\ n \in Int
    BY <2>2
  <2>4. IsFiniteSet(1..n) /\ Cardinality(1..n) = IF 1 > n THEN 0 ELSE n - 1 + 1
    BY <2>3, FS_Interval
  <2>5. Cardinality(1..n) = n
    BY <2>2, <2>4
  <2> QED BY <2>1, <2>4, <2>5 DEF n
<1> HIDE DEF U
<1>7. ~(Cmd!Id \subseteq U)
  <2> SUFFICES ASSUME Cmd!Id \subseteq U PROVE FALSE
    OBVIOUS
  <2>1. Cardinality(Cmd!Id) <= Cardinality(U) /\ Cardinality(U) \in Nat
    BY <1>4, FS_Subset, FS_CardinalityType
  <2> QED BY <1>1, <1>4, <1>6, <2>1
<1>8. \E i : i \in Cmd!Id \ Cmd!Live
  BY <1>5, <1>7
<1> QED BY <1>8 DEF Cmd!Fresh

\* The types.
LEMMA PathTypesKeep ==
  ASSUME Cmd!PathTypes, Cmd!CommandPathAssumption, [Cmd!Next]_vars
  PROVE  Cmd!PathTypes'
<1> DEFINE Uploads == [Conn -> [open : BOOLEAN, buf : CommandBuffer \cup {None}, whole : BOOLEAN]]
           Slot == [id : Cmd!Id \cup {Cmd!NoId}, state : {"Unknown", "Pending", "Done"}, status : Cmd!Status]
           Loop == [cmd : Cmd!Item, count : Nat]
           Fates == {"none", "underway", "refused"} \cup Cmd!Status
<1>1. /\ v1 \in Uploads /\ v2 \in Cmd!Item /\ (v2.step = "idle" <=> v2 = Cmd!Idle)
      /\ (v2.id = Cmd!NoId <=> v2 = Cmd!Idle)
      /\ v3 \in Seq(Cmd!Item) /\ Len(v3) <= Depth /\ v4 \in [1..BoardSize -> Slot] /\ v5 \in 1..BoardSize
      /\ v6 \in Loop /\ v7 \in SUBSET CommandBuffer /\ v9 \in [Cmd!Id -> Fates]
      /\ v10 \in Seq(Cmd!Id) /\ Len(v10) <= BoardSize
  BY DEF Cmd!PathTypes
<1>2. Cmd!Idle \in Cmd!Item /\ Cmd!Mqtt \in Cmd!Item /\ Cmd!Idle.step = "idle"
  BY DEF Cmd!Idle, Cmd!Mqtt, Cmd!Item, Cmd!NoId
<1>3. BoardSize \in Nat \ {0} /\ Depth \in Nat \ {0}
  BY DEF Cmd!CommandPathAssumption
<1>4. ASSUME NEW c \in Conn, Cmd!Upload(c) PROVE Cmd!PathTypes'
  <2>1. UNCHANGED <<v2, v3, v4, v5, v6, v9, v10>>
    BY <1>4 DEF Cmd!Upload
  <2>2. v1' \in Uploads /\ v7' \in SUBSET CommandBuffer
    <3>1. CASE v1' = [v1 EXCEPT ![c].open = TRUE] /\ v7' = v7
      BY <1>1, <3>1
    <3>2. ASSUME NEW b \in CommandBuffer \ v7, v7' = v7 \cup {b},
                 v1' = [v1 EXCEPT ![c] = [open |-> TRUE, buf |-> b, whole |-> FALSE]]
          PROVE  v1' \in Uploads /\ v7' \in SUBSET CommandBuffer
      BY <1>1, <3>2
    <3> HIDE DEF Uploads
    <3> QED BY <1>4, <3>1, <3>2 DEF Cmd!Upload
  <2> QED BY <1>1, <2>1, <2>2 DEF Cmd!PathTypes
<1>5. ASSUME NEW c \in Conn, Cmd!Complete(c) PROVE Cmd!PathTypes'
  <2>1. UNCHANGED <<v2, v3, v4, v5, v6, v7, v9, v10>>
    BY <1>5 DEF Cmd!Complete
  <2>2. v1' \in Uploads
    BY <1>1, <1>5 DEF Cmd!Complete
  <2> QED BY <1>1, <2>1, <2>2 DEF Cmd!PathTypes
<1>6. ASSUME NEW c \in Conn, Cmd!Close(c) PROVE Cmd!PathTypes'
  <2>1. UNCHANGED <<v2, v3, v4, v5, v6, v9, v10>>
    BY <1>6 DEF Cmd!Close
  <2>2. v1' \in Uploads /\ v7' \in SUBSET CommandBuffer
    BY <1>1, <1>6 DEF Cmd!Close, Cmd!Free, Cmd!NoUpload
  <2> QED BY <1>1, <2>1, <2>2 DEF Cmd!PathTypes
<1>7. CASE Cmd!Build
  <2>1. UNCHANGED <<v1, v3, v4, v5, v6, v7, v10>> /\ v2 = Cmd!Idle
    BY <1>7 DEF Cmd!Build
  <2>2. Cmd!Fresh \in Cmd!Id
    BY <2>1, FreshIsFree
  <2>3. PICK c \in {None} \cup Conn : v2' = [step |-> "expect", id |-> Cmd!Fresh, conn |-> c,
                                             buf |-> IF c = None THEN None ELSE v1[c].buf]
    BY <1>7 DEF Cmd!Build
  <2>4. (IF c = None THEN None ELSE v1[c].buf) \in CommandBuffer \cup {None}
    BY <1>1, <2>3
  <2>5. v2' \in Cmd!Item /\ v2'.step = "expect" /\ v2' # Cmd!Idle /\ v2'.id # Cmd!NoId
    BY <1>2, <2>2, <2>3, <2>4 DEF Cmd!Item, Cmd!Id, Cmd!NoId
  <2>6. v9' \in [Cmd!Id -> Fates]
    BY <1>1, <1>7 DEF Cmd!Build
  <2> QED BY <1>1, <2>1, <2>5, <2>6 DEF Cmd!PathTypes
<1>8. CASE Cmd!Expect
  <2>1. UNCHANGED <<v1, v3, v6, v7, v9>> /\ v2.step = "expect" /\ v2' = [v2 EXCEPT !.step = "post"]
    BY <1>8 DEF Cmd!Expect
  <2>2. v2' \in Cmd!Item /\ v2'.step = "post" /\ v2' # Cmd!Idle /\ v2'.id = v2.id /\ v2.id # Cmd!NoId
    BY <1>1, <1>2, <2>1 DEF Cmd!Item
  <2>3. [id |-> v2.id, state |-> "Pending", status |-> "Ok"] \in Slot
    BY <1>1 DEF Cmd!Item, Cmd!Status
  <2>4. v4' \in [1..BoardSize -> Slot]
    <3> DEFINE slot == [id |-> v2.id, state |-> "Pending", status |-> "Ok"]
    <3>1. \/ v4' = [i \in DOMAIN v4 |-> IF i \in Cmd!Place(v2.id) THEN slot ELSE v4[i]]
          \/ v4' = [v4 EXCEPT ![v5] = slot]
      BY <1>8 DEF Cmd!Expect
    <3>2. slot \in Slot
      BY <2>3
    <3> HIDE DEF slot, Slot
    <3> QED BY <1>1, <3>1, <3>2
  <2>5. v5' \in 1..BoardSize
    BY <1>1, <1>3, <1>8 DEF Cmd!Expect
  <2>6. v10' \in Seq(Cmd!Id) /\ Len(v10') <= BoardSize
    <3>1. v2.id \in Cmd!Id
      BY <1>1, <2>2 DEF Cmd!Item
    <3>2. v10' = Cmd!Recent(v2.id)
      BY <1>8 DEF Cmd!Expect
    <3>3. Append(v10, v2.id) \in Seq(Cmd!Id) /\ Len(Append(v10, v2.id)) = Len(v10) + 1 /\ Len(v10) \in Nat
      BY <1>1, <3>1
    <3>4. CASE Len(v10) + 1 > BoardSize
      <4>1. v10' = Tail(Append(v10, v2.id))
        BY <3>2, <3>3, <3>4 DEF Cmd!Recent
      <4> DEFINE r == Append(v10, v2.id)
      <4>2. r \in Seq(Cmd!Id) /\ Len(r) = BoardSize + 1 /\ r # <<>> /\ v10' = Tail(r)
        BY <1>1, <1>3, <3>3, <3>4, <4>1
      <4> HIDE DEF r
      <4>3. Tail(r) \in Seq(Cmd!Id) /\ Len(Tail(r)) = Len(r) - 1
        BY <4>2, TailFacts
      <4> QED BY <1>3, <4>2, <4>3
    <3>5. CASE ~(Len(v10) + 1 > BoardSize)
      BY <1>1, <1>3, <3>2, <3>3, <3>5 DEF Cmd!Recent
    <3> QED BY <3>4, <3>5
  <2> QED BY <1>1, <2>1, <2>2, <2>4, <2>5, <2>6 DEF Cmd!PathTypes
<1>9. CASE Cmd!Post
  <2>1. UNCHANGED <<v1, v4, v5, v6, v7, v10>> /\ v2.step = "post"
    BY <1>9 DEF Cmd!Post
  <2>2. CASE Len(v3) < Depth
    <3>1. /\ v3' = Append(v3, [v2 EXCEPT !.step = "posted", !.conn = None])
          /\ v2' = [v2 EXCEPT !.step = "posted"] /\ v9' = v9
      BY <1>9, <2>2 DEF Cmd!Post
    <3>2. [v2 EXCEPT !.step = "posted", !.conn = None] \in Cmd!Item
      BY <1>1 DEF Cmd!Item
    <3>3. v3' \in Seq(Cmd!Item) /\ Len(v3') <= Depth
      BY <1>1, <1>3, <2>2, <3>1, <3>2
    <3>4. v2' \in Cmd!Item /\ v2'.step = "posted" /\ v2' # Cmd!Idle /\ v2'.id = v2.id /\ v2.id # Cmd!NoId
      BY <1>1, <1>2, <2>1, <3>1 DEF Cmd!Item
    <3> QED BY <1>1, <2>1, <3>1, <3>3, <3>4 DEF Cmd!PathTypes
  <2>3. CASE ~(Len(v3) < Depth)
    <3>1. v2' = Cmd!Idle /\ v9' = [v9 EXCEPT ![v2.id] = "refused"] /\ v3' = v3
      BY <1>9, <2>3 DEF Cmd!Post
    <3>2. v9' \in [Cmd!Id -> Fates]
      BY <1>1, <3>1
    <3>3. Cmd!Idle.id = Cmd!NoId
      BY DEF Cmd!Idle
    <3> QED BY <1>1, <1>2, <2>1, <3>1, <3>2, <3>3 DEF Cmd!PathTypes
  <2> QED BY <2>2, <2>3
<1>10. CASE Cmd!Answer
  <2>1. UNCHANGED <<v3, v4, v5, v6, v7, v9, v10>> /\ v2' = Cmd!Idle /\ v1' = Cmd!HandedOver(v2.conn)
    BY <1>10 DEF Cmd!Answer
  <2>2. v1' \in Uploads
    BY <1>1, <2>1 DEF Cmd!HandedOver, Cmd!NoUpload
  <2>3. Cmd!Idle.id = Cmd!NoId
    BY DEF Cmd!Idle
  <2> QED BY <1>1, <1>2, <2>1, <2>2, <2>3 DEF Cmd!PathTypes
<1>11. CASE Cmd!PostMqtt
  <2>1. UNCHANGED <<v1, v2, v4, v5, v6, v7, v9, v10>> /\ v3' = Append(v3, Cmd!Mqtt) /\ Len(v3) < Depth
    BY <1>11 DEF Cmd!PostMqtt
  <2>2. v3' \in Seq(Cmd!Item) /\ Len(v3') <= Depth
    BY <1>1, <1>2, <1>3, <2>1
  <2> QED BY <1>1, <2>1, <2>2 DEF Cmd!PathTypes
<1>12. CASE Cmd!Receive
  <2>1. /\ UNCHANGED <<v1, v2, v4, v5, v7, v9, v10>> /\ v3' = Tail(v3) /\ v3 # <<>>
        /\ v6' = [cmd |-> Head(v3), count |-> v6.count + 1]
    BY <1>12 DEF Cmd!Receive
  <2>2. v3' \in Seq(Cmd!Item) /\ Len(v3') <= Depth /\ Head(v3) \in Cmd!Item
    BY <1>1, <1>3, <2>1
  <2>3. v6' \in Loop
    BY <1>1, <2>1, <2>2
  <2> QED BY <1>1, <2>1, <2>2, <2>3 DEF Cmd!PathTypes
<1>13. CASE Cmd!Apply
  <2>1. UNCHANGED <<v1, v2, v3, v5, v10>> /\ v6' = [v6 EXCEPT !.cmd = Cmd!Idle]
    BY <1>13 DEF Cmd!Apply
  <2>2. PICK status \in Cmd!Status : Cmd!Applied(status) /\ v4' = Cmd!Recorded(v6.cmd.id, status)
    BY <1>13 DEF Cmd!Apply
  <2>3. v6' \in Loop
    BY <1>1, <1>2, <2>1
  <2>4. v7' \in SUBSET CommandBuffer /\ v9' \in [Cmd!Id -> Fates]
    BY <1>1, <2>2 DEF Cmd!Applied, Cmd!Free
  <2>5. ASSUME v6.cmd.id # Cmd!NoId PROVE [id |-> v6.cmd.id, state |-> "Done", status |-> status] \in Slot
    BY <1>1, <2>2, <2>5 DEF Cmd!Item
  <2>6. v4' \in [1..BoardSize -> Slot]
    <3> HIDE DEF Slot
    <3> QED BY <1>1, <2>2, <2>5 DEF Cmd!Recorded
  <2> QED BY <1>1, <2>1, <2>3, <2>4, <2>6 DEF Cmd!PathTypes
<1>14. CASE Cmd!Done
  <2>1. UNCHANGED <<v1, v2, v3, v4, v5, v7, v9, v10>> /\ v6' = Cmd!Waiting
    BY <1>14 DEF Cmd!Done
  <2>2. v6' \in Loop
    BY <1>2, <2>1 DEF Cmd!Waiting
  <2> QED BY <1>1, <2>1, <2>2 DEF Cmd!PathTypes
<1>15. CASE UNCHANGED vars
  <2>1. UNCHANGED <<v1, v2, v3, v4, v5, v6, v7, v9, v10>>
    BY <1>15 DEF vars
  <2> QED BY <1>1, <2>1 DEF Cmd!PathTypes
<1> QED BY <1>4, <1>5, <1>6, <1>7, <1>8, <1>9, <1>10, <1>11, <1>12, <1>13, <1>14, <1>15 DEF Cmd!Next
\* What a step that leaves the board needs not to disturb: what became of the ids on it, and
\* what is still to come of them.
LEMMA BoardStays ==
  ASSUME Cmd!PathTypes, Cmd!RingFits, Cmd!PlacesFit, UNCHANGED <<v4, v5, v10>>,
         \A i \in DOMAIN v4 : v4[i].id # Cmd!NoId => v9'[v4[i].id] = v9[v4[i].id],
         \A id \in Cmd!Id : Cmd!Awaited(id) => Cmd!Awaited(id)'
  PROVE  Cmd!RingFits' /\ Cmd!PlacesFit'
<1>1. Cmd!RingFits'
  BY DEF Cmd!RingFits, Cmd!Spot
<1>2. ASSUME NEW i \in DOMAIN v4, v4[i].id # Cmd!NoId PROVE Cmd!Told(v4[i])'
  <2>1. v4[i].id \in Cmd!Id
    BY <1>2 DEF Cmd!PathTypes
  <2> DEFINE id == v4[i].id
  <2>2. Cmd!Told(v4[i])
    BY <1>2 DEF Cmd!PlacesFit
  <2>3. v9'[id] = v9[id] /\ (Cmd!Awaited(id) => Cmd!Awaited(id)') /\ v4'[i] = v4[i]
    BY <1>2, <2>1
  <2> QED BY <2>2, <2>3 DEF Cmd!Told, Cmd!Awaited
<1>3. Cmd!PlacesFit'
  BY <1>2 DEF Cmd!PlacesFit
<1> QED BY <1>1, <1>3

\* The ring: reserving the next place moves the newest ids on by one.
LEMMA RingTurns ==
  ASSUME Cmd!PathTypes, Cmd!CommandPathAssumption, Cmd!RingFits,
         NEW id \in Cmd!Id, NEW slot, slot.id = id,
         v4' = [v4 EXCEPT ![v5] = slot], v5' = (v5 % BoardSize) + 1, v10' = Cmd!Recent(id)
  PROVE  Cmd!RingFits'
<1>1. /\ BoardSize \in Nat \ {0} /\ v5 \in 1..BoardSize /\ DOMAIN v4 = 1..BoardSize
      /\ v10 \in Seq(Cmd!Id) /\ Len(v10) \in Nat /\ Len(v10) <= BoardSize
  BY DEF Cmd!PathTypes, Cmd!CommandPathAssumption
<1> DEFINE n == Len(v10)
           r == Append(v10, id)
<1>2. /\ r \in Seq(Cmd!Id) /\ Len(r) = n + 1 /\ DOMAIN r = 1..(n + 1) /\ DOMAIN v10 = 1..n
      /\ (\A i \in DOMAIN v10 : r[i] = v10[i]) /\ r[n + 1] = id
  BY <1>1, AppendFacts
<1>3. v5' = IF v5 = BoardSize THEN 1 ELSE v5 + 1
  BY <1>1
<1>4. CASE n < BoardSize
  <2>1. v10' = r
    <3>1. ~(Len(r) > BoardSize)
      BY <1>1, <1>2, <1>4
    <3> QED BY <3>1 DEF Cmd!Recent
  <2>2. Len(v10') = n + 1 /\ DOMAIN v10' = 1..(n + 1)
    BY <1>2, <2>1
  <2>3. ASSUME NEW j \in 1..n PROVE v4'[Cmd!Spot(j)'].id = v10'[j]
    <3>1. Cmd!Spot(j)' = Cmd!Spot(j) /\ Cmd!Spot(j) \in 1..BoardSize /\ Cmd!Spot(j) # v5
      BY <1>1, <1>3, <1>4, <2>2 DEF Cmd!Spot
    <3>2. v4'[Cmd!Spot(j)] = v4[Cmd!Spot(j)]
      BY <1>1, <3>1
    <3>3. v4[Cmd!Spot(j)].id = v10[j] /\ v10'[j] = v10[j]
      BY <1>2, <2>1 DEF Cmd!RingFits
    <3> QED BY <3>1, <3>2, <3>3
  <2>4. ASSUME NEW j \in 1..(n + 1), j = n + 1 PROVE v4'[Cmd!Spot(j)'].id = v10'[j]
    <3>1. Cmd!Spot(j)' = v5
      BY <1>1, <1>3, <2>2, <2>4 DEF Cmd!Spot
    <3>2. v4'[v5] = slot /\ v10'[j] = id
      BY <1>1, <1>2, <2>1, <2>4
    <3> QED BY <3>1, <3>2
  <2>5. ASSUME NEW j \in DOMAIN v10' PROVE v4'[Cmd!Spot(j)'].id = v10'[j]
    <3>1. j \in 1..n \/ j = n + 1
      BY <1>1, <2>2
    <3> QED BY <2>3, <2>4, <3>1
  <2> QED BY <2>5 DEF Cmd!RingFits
<1>5. CASE n = BoardSize
  <2>1. v10' = Tail(r) /\ r # <<>>
    BY <1>1, <1>2, <1>5 DEF Cmd!Recent
  <2>2. /\ Len(v10') = n /\ DOMAIN v10' = 1..n
        /\ \A j \in 1..n : v10'[j] = r[j + 1]
    <3> HIDE DEF r
    <3> QED BY <1>1, <1>2, <2>1, TailFacts
  <2>3. ASSUME NEW j \in 1..n, j < n PROVE v4'[Cmd!Spot(j)'].id = v10'[j]
    <3>0. j + 1 \in 1..n /\ j + 1 \in DOMAIN v10
      BY <1>1, <1>2, <2>3
    <3>1. /\ Cmd!Spot(j)' = Cmd!Spot(j + 1) /\ Cmd!Spot(j + 1) \in 1..BoardSize
          /\ Cmd!Spot(j + 1) # v5
      BY <1>1, <1>3, <1>5, <2>2, <2>3 DEF Cmd!Spot
    <3>2. v4'[Cmd!Spot(j + 1)] = v4[Cmd!Spot(j + 1)]
      BY <1>1, <3>1
    <3>3. v4[Cmd!Spot(j + 1)].id = v10[j + 1] /\ v10'[j] = v10[j + 1]
      BY <1>2, <2>2, <3>0 DEF Cmd!RingFits
    <3> QED BY <3>1, <3>2, <3>3
  <2>4. ASSUME NEW j \in 1..n, j = n PROVE v4'[Cmd!Spot(j)'].id = v10'[j]
    <3>1. Cmd!Spot(j)' = v5
      BY <1>1, <1>3, <2>2, <2>4 DEF Cmd!Spot
    <3>2. v4'[v5] = slot /\ v10'[j] = id
      BY <1>1, <1>2, <2>2, <2>4
    <3> QED BY <3>1, <3>2
  <2>5. ASSUME NEW j \in DOMAIN v10' PROVE v4'[Cmd!Spot(j)'].id = v10'[j]
    <3>1. j \in 1..n /\ (j < n \/ j = n)
      BY <1>1, <2>2
    <3> QED BY <2>3, <2>4, <3>1
  <2> QED BY <2>5 DEF Cmd!RingFits
<1> QED BY <1>1, <1>4, <1>5

\* What the next request is told apart by, and what the board says, outlives every step.
LEMMA BoardKeeps ==
  ASSUME Cmd!PathTypes, Cmd!CommandPathAssumption, Cmd!BoardFits, [Cmd!Next]_vars
  PROVE  Cmd!BoardFits'
<1>1. /\ BoardSize \in Nat \ {0} /\ Depth \in Nat \ {0} /\ v5 \in 1..BoardSize
      /\ DOMAIN v4 = 1..BoardSize /\ DOMAIN v3 = 1..Len(v3) /\ Len(v3) \in Nat
      /\ v3 \in Seq(Cmd!Item) /\ v2 \in Cmd!Item /\ v6.cmd \in Cmd!Item
      /\ (v2.step = "idle" <=> v2 = Cmd!Idle) /\ (v2.id = Cmd!NoId <=> v2 = Cmd!Idle)
      /\ Cmd!RingFits /\ Cmd!PlacesFit /\ Cmd!NewcomerFits
  BY DEF Cmd!PathTypes, Cmd!CommandPathAssumption, Cmd!BoardFits
<1>2. /\ Cmd!Idle.step = "idle" /\ Cmd!Idle.id = Cmd!NoId /\ Cmd!NoId \notin Cmd!Id
      /\ Cmd!Mqtt.id = Cmd!NoId
  BY DEF Cmd!Idle, Cmd!Mqtt, Cmd!Id, Cmd!NoId
<1>3. \A i \in DOMAIN v4 : v4[i].id # Cmd!NoId => v4[i].id \in Cmd!Id
  BY DEF Cmd!PathTypes
<1>4. v2.step \in {"expect", "post"} => v2.id \in Cmd!Id
  BY <1>1, <1>2 DEF Cmd!Item
\* What touches neither the commands nor the board.
<1>5. ASSUME UNCHANGED <<v2, v3, v4, v5, v6, v9, v10>> PROVE Cmd!BoardFits'
  BY <1>5 DEF Cmd!BoardFits, Cmd!RingFits, Cmd!Spot, Cmd!PlacesFit, Cmd!NewcomerFits, Cmd!Told,
      Cmd!Awaited
<1>6. CASE Cmd!Build
  <2>1. UNCHANGED <<v3, v4, v5, v6, v10>> /\ v2 = Cmd!Idle
    BY <1>6 DEF Cmd!Build
  <2>2. Cmd!Fresh \in Cmd!Id \ Cmd!Live
    BY <2>1, FreshIsFree
  <2>3. v2'.step = "expect" /\ v2'.id = Cmd!Fresh
    BY <1>6 DEF Cmd!Build
  <2>4. v9' = [i \in Cmd!Id |-> IF i = Cmd!Fresh THEN "underway" ELSE IF i \in Cmd!Live THEN v9[i] ELSE "none"]
    BY <1>6 DEF Cmd!Build
  <2>5. /\ \A i \in DOMAIN v3 : v3[i].id \in Cmd!Live
        /\ \A i \in DOMAIN v4 : v4[i].id \in Cmd!Live
        /\ v6.cmd.id \in Cmd!Live
    BY DEF Cmd!Live
  <2> DEFINE f == Cmd!Fresh
             live == Cmd!Live
  <2>6. v9'[f] = "underway" /\ \A i \in DOMAIN v4 : v4[i].id # Cmd!NoId => v9'[v4[i].id] = v9[v4[i].id]
    <3> HIDE DEF f, live
    <3> QED BY <1>3, <2>2, <2>4, <2>5 DEF f, live
  <2>7. \A id \in Cmd!Id : Cmd!Awaited(id) => Cmd!Awaited(id)'
    BY <1>2, <2>1 DEF Cmd!Awaited
  <2>8. Cmd!RingFits' /\ Cmd!PlacesFit'
    BY <1>1, <2>1, <2>6, <2>7, BoardStays
  <2>9. Cmd!NewcomerFits'
    BY <2>1, <2>2, <2>3, <2>5, <2>6 DEF Cmd!NewcomerFits
  <2> QED BY <2>8, <2>9 DEF Cmd!BoardFits
<1>7. CASE Cmd!Expect
  <2> DEFINE slot == [id |-> v2.id, state |-> "Pending", status |-> "Ok"]
  <2>1. /\ UNCHANGED <<v3, v6, v9>> /\ v2.step = "expect" /\ v10' = Cmd!Recent(v2.id)
        /\ v2'.step = "post" /\ v2'.id = v2.id
    BY <1>1, <1>7 DEF Cmd!Expect, Cmd!Item
  <2>2. Cmd!Place(v2.id) = {}
    BY <1>1, <2>1 DEF Cmd!NewcomerFits, Cmd!Place
  <2>3. v4' = [v4 EXCEPT ![v5] = slot] /\ v5' = (v5 % BoardSize) + 1
    BY <1>7, <2>2 DEF Cmd!Expect
  <2>4. v2.id \in Cmd!Id /\ slot.id = v2.id
    BY <1>4, <2>1
  <2>5. Cmd!RingFits'
    <3> DEFINE id == v2.id
    <3>1. id \in Cmd!Id /\ v10' = Cmd!Recent(id)
      BY <2>1, <2>4
    <3>2. slot.id = id
      OBVIOUS
    <3> HIDE DEF slot, id
    <3> QED BY <1>1, <2>3, <3>1, <3>2, RingTurns
  <2>6. \A id \in Cmd!Id : Cmd!Awaited(id) => Cmd!Awaited(id)'
    BY <2>1 DEF Cmd!Awaited
  <2>7. Cmd!Told(slot)'
    BY <2>1 DEF Cmd!Told, Cmd!Awaited
  <2>8. ASSUME NEW i \in DOMAIN v4, v4'[i].id # Cmd!NoId PROVE Cmd!Told(v4[i])'
    <3>1. CASE i = v5
      <4>1. v4'[i] = slot'
        BY <1>1, <2>1, <2>3, <3>1
      <4> QED BY <2>7, <4>1 DEF Cmd!Told, Cmd!Awaited
    <3>2. CASE i # v5
      <4>1. v4'[i] = v4[i] /\ v4[i].id \in Cmd!Id /\ Cmd!Told(v4[i])
        BY <1>1, <1>3, <2>3, <2>8, <3>2 DEF Cmd!PlacesFit
      <4> QED BY <2>1, <4>1 DEF Cmd!Told, Cmd!Awaited
    <3> QED BY <3>1, <3>2
  <2>9. Cmd!PlacesFit'
    BY <1>1, <2>3, <2>8 DEF Cmd!PlacesFit
  <2>10. Cmd!NewcomerFits'
    BY <1>1, <2>1 DEF Cmd!NewcomerFits
  <2> QED BY <2>5, <2>9, <2>10 DEF Cmd!BoardFits
<1>8. CASE Cmd!Post
  <2>1. UNCHANGED <<v4, v5, v6, v10>> /\ v2.step = "post" /\ v2.id \in Cmd!Id
    BY <1>4, <1>8 DEF Cmd!Post
  <2>2. CASE Len(v3) < Depth
    <3> DEFINE x == [v2 EXCEPT !.step = "posted", !.conn = None]
    <3>1. v3' = Append(v3, x) /\ v2'.step = "posted" /\ v2'.id = v2.id /\ v9' = v9
      BY <1>1, <1>8, <2>2 DEF Cmd!Post, Cmd!Item
    <3>2. x \in Cmd!Item /\ x.id = v2.id
      BY <1>1 DEF Cmd!Item
    <3> HIDE DEF x
    <3>3. /\ DOMAIN v3' = 1..(Len(v3) + 1) /\ (\A i \in DOMAIN v3 : v3'[i] = v3[i])
          /\ v3'[Len(v3) + 1] = x
      BY <1>1, <3>1, <3>2, AppendFacts
    <3>4. \A id \in Cmd!Id : Cmd!Awaited(id) => Cmd!Awaited(id)'
      BY <1>1, <2>1, <3>2, <3>3 DEF Cmd!Awaited
    <3>5. Cmd!RingFits' /\ Cmd!PlacesFit'
      BY <1>1, <2>1, <3>1, <3>4, BoardStays
    <3> QED BY <3>1, <3>5 DEF Cmd!BoardFits, Cmd!NewcomerFits
  <2>3. CASE ~(Len(v3) < Depth)
    <3>1. v2' = Cmd!Idle /\ v3' = v3 /\ v9' = [v9 EXCEPT ![v2.id] = "refused"]
      BY <1>8, <2>3 DEF Cmd!Post
    <3>2. Cmd!RingFits'
      BY <1>1, <2>1 DEF Cmd!RingFits, Cmd!Spot
    <3>3. ASSUME NEW i \in DOMAIN v4, v4[i].id # Cmd!NoId PROVE Cmd!Told(v4[i])'
      <4>1. v4[i].id \in Cmd!Id /\ Cmd!Told(v4[i]) /\ v4'[i] = v4[i]
        BY <1>1, <1>3, <2>1, <3>3 DEF Cmd!PlacesFit
      <4>2. CASE v4[i].id = v2.id
        <5>1. v9'[v2.id] = "refused" /\ v9[v2.id] = "underway"
          BY <1>1, <2>1, <3>1 DEF Cmd!PathTypes, Cmd!NewcomerFits
        <5>2. v4[i].state # "Done"
          BY <4>1, <4>2, <5>1 DEF Cmd!Told, Cmd!PathTypes, Cmd!Status
        <5> QED BY <4>1, <4>2, <5>1, <5>2 DEF Cmd!Told
      <4>3. CASE v4[i].id # v2.id
        <5>1. v9'[v4[i].id] = v9[v4[i].id]
          BY <3>1, <4>1, <4>3 DEF Cmd!PathTypes
        <5>2. Cmd!Awaited(v4[i].id) => Cmd!Awaited(v4[i].id)'
          BY <2>1, <3>1, <4>1, <4>3 DEF Cmd!Awaited
        <5> QED BY <4>1, <5>1, <5>2 DEF Cmd!Told, Cmd!Awaited
      <4> QED BY <4>2, <4>3
    <3>4. Cmd!PlacesFit'
      BY <2>1, <3>3 DEF Cmd!PlacesFit
    <3> QED BY <1>2, <3>1, <3>2, <3>4 DEF Cmd!BoardFits, Cmd!NewcomerFits
  <2> QED BY <2>2, <2>3
<1>9. CASE Cmd!Answer
  <2>1. UNCHANGED <<v3, v4, v5, v6, v9, v10>> /\ v2.step = "posted" /\ v2' = Cmd!Idle
    BY <1>9 DEF Cmd!Answer
  <2>2. \A id \in Cmd!Id : Cmd!Awaited(id) => Cmd!Awaited(id)'
    BY <2>1 DEF Cmd!Awaited
  <2>3. Cmd!RingFits' /\ Cmd!PlacesFit'
    BY <1>1, <2>1, <2>2, BoardStays
  <2> QED BY <1>2, <2>1, <2>3 DEF Cmd!BoardFits, Cmd!NewcomerFits
<1>10. CASE Cmd!PostMqtt
  <2>1. UNCHANGED <<v2, v4, v5, v6, v9, v10>> /\ v3' = Append(v3, Cmd!Mqtt) /\ v2 = Cmd!Idle
    BY <1>10 DEF Cmd!PostMqtt
  <2>2. Cmd!Mqtt \in Cmd!Item
    BY DEF Cmd!Mqtt, Cmd!Idle, Cmd!Item, Cmd!NoId
  <2>3. DOMAIN v3' = 1..(Len(v3) + 1) /\ (\A i \in DOMAIN v3 : v3'[i] = v3[i])
    BY <1>1, <2>1, <2>2, AppendFacts
  <2>4. \A id \in Cmd!Id : Cmd!Awaited(id) => Cmd!Awaited(id)'
    BY <1>1, <2>1, <2>3 DEF Cmd!Awaited
  <2>5. Cmd!RingFits' /\ Cmd!PlacesFit'
    BY <1>1, <2>1, <2>4, BoardStays
  <2> QED BY <1>2, <2>1, <2>5 DEF Cmd!BoardFits, Cmd!NewcomerFits
<1>11. CASE Cmd!Receive
  <2>1. /\ UNCHANGED <<v2, v4, v5, v9, v10>> /\ v3' = Tail(v3) /\ v3 # <<>>
        /\ v6'.cmd = Head(v3) /\ v6.cmd = Cmd!Idle
    BY <1>11 DEF Cmd!Receive
  <2>2. /\ DOMAIN v3' = 1..(Len(v3) - 1) /\ (\A i \in DOMAIN v3' : v3'[i] = v3[i + 1])
        /\ Head(v3) = v3[1] /\ Len(v3) \in Nat \ {0}
    BY <1>1, <2>1, TailFacts
  <2>3. \A id \in Cmd!Id : Cmd!Awaited(id) => Cmd!Awaited(id)'
    <3> SUFFICES ASSUME NEW id \in Cmd!Id, Cmd!Awaited(id) PROVE Cmd!Awaited(id)'
      OBVIOUS
    <3>1. ASSUME NEW i \in DOMAIN v3, v3[i].id = id PROVE Cmd!Awaited(id)'
      <4>1. CASE i = 1
        BY <2>1, <2>2, <3>1, <4>1 DEF Cmd!Awaited
      <4>2. CASE i # 1
        <5>1. i - 1 \in DOMAIN v3' /\ v3'[i - 1] = v3[i]
          BY <1>1, <2>2, <3>1, <4>2
        <5> QED BY <3>1, <5>1 DEF Cmd!Awaited
      <4> QED BY <4>1, <4>2
    <3>2. CASE v6.cmd.id = id
      BY <1>2, <2>1, <3>2
    <3>3. CASE v2.step = "post" /\ v2.id = id
      BY <2>1, <3>3 DEF Cmd!Awaited
    <3> QED BY <3>1, <3>2, <3>3 DEF Cmd!Awaited
  <2>4. Cmd!RingFits' /\ Cmd!PlacesFit'
    BY <1>1, <2>1, <2>3, BoardStays
  <2>5. \A i \in DOMAIN v3' : i + 1 \in DOMAIN v3
    BY <1>1, <2>2
  <2>6. 1 \in DOMAIN v3
    BY <1>1, <2>2
  <2>7. Cmd!NewcomerFits'
    BY <1>1, <2>1, <2>2, <2>5, <2>6 DEF Cmd!NewcomerFits
  <2> QED BY <2>4, <2>7 DEF Cmd!BoardFits
<1>12. CASE Cmd!Apply
  <2>1. UNCHANGED <<v2, v3, v5, v10>> /\ v6' = [v6 EXCEPT !.cmd = Cmd!Idle]
    BY <1>12 DEF Cmd!Apply
  <2>2. PICK status \in Cmd!Status : Cmd!Applied(status) /\ v4' = Cmd!Recorded(v6.cmd.id, status)
    BY <1>12 DEF Cmd!Apply
  <2> DEFINE id == v6.cmd.id
             slot == [id |-> id, state |-> "Done", status |-> status]
  <2>3. id \in Cmd!Id \cup {Cmd!NoId}
    BY <1>1 DEF Cmd!Item
  <2>4. /\ DOMAIN v4' = DOMAIN v4
        /\ \A i \in DOMAIN v4 : v4'[i] = IF id # Cmd!NoId /\ v4[i].id = id THEN slot ELSE v4[i]
    BY <2>2 DEF Cmd!Recorded, Cmd!Place
  <2>5. \A i \in DOMAIN v4 : v4'[i].id = v4[i].id
    BY <2>4
  <2>6. v6'.cmd = Cmd!Idle
    BY <2>1 DEF Cmd!PathTypes
  <2>7. /\ id # Cmd!NoId => v9'[id] = status
        /\ \A j \in Cmd!Id : j # id => v9'[j] = v9[j]
    BY <2>2, <2>3 DEF Cmd!Applied, Cmd!PathTypes
  <2>8. Cmd!RingFits'
    <3>1. ASSUME NEW j \in DOMAIN v10 PROVE Cmd!Spot(j)' = Cmd!Spot(j) /\ Cmd!Spot(j) \in DOMAIN v4
      <4>1. /\ v10 \in Seq(Cmd!Id) /\ Len(v10) \in Nat /\ Len(v10) <= BoardSize /\ j \in 1..Len(v10)
        BY <3>1 DEF Cmd!PathTypes
      <4> QED BY <1>1, <2>1, <4>1 DEF Cmd!Spot
    <3>2. \A j \in DOMAIN v10 : v4[Cmd!Spot(j)].id = v10[j]
      BY <1>1 DEF Cmd!RingFits
    <3>3. \A j \in DOMAIN v10 : v4'[Cmd!Spot(j)'].id = v10[j]
      BY <2>5, <3>1, <3>2
    <3> QED BY <2>1, <3>3 DEF Cmd!RingFits
  <2>9. ASSUME NEW i \in DOMAIN v4, v4[i].id # Cmd!NoId PROVE Cmd!Told(v4[i])'
    <3>1. v4[i].id \in Cmd!Id /\ Cmd!Told(v4[i])
      BY <1>1, <1>3, <2>9 DEF Cmd!PlacesFit
    <3>2. CASE v4[i].id = id
      <4>1. v4'[i].id = id /\ v4'[i].state = "Done" /\ v4'[i].status = status /\ v9'[id] = status
        BY <2>4, <2>7, <2>9, <3>2
      <4> QED BY <4>1 DEF Cmd!Told
    <3>3. CASE v4[i].id # id
      <4>1. v4'[i] = v4[i] /\ v9'[v4[i].id] = v9[v4[i].id]
        BY <2>4, <2>7, <3>1, <3>3
      <4>2. Cmd!Awaited(v4[i].id) => \/ \E k \in DOMAIN v3 : v3[k].id = v4[i].id
                                     \/ v2.step = "post" /\ v2.id = v4[i].id
        BY <3>3 DEF Cmd!Awaited
      <4> QED BY <2>1, <3>1, <4>1, <4>2 DEF Cmd!Told, Cmd!Awaited
    <3> QED BY <3>2, <3>3
  <2>10. Cmd!PlacesFit'
    BY <2>4, <2>5, <2>9 DEF Cmd!PlacesFit
  <2>11. Cmd!NewcomerFits'
    <3>1. v2.step \in {"expect", "post"} => v2.id # id /\ v9'[v2.id] = v9[v2.id] /\ v2.id # Cmd!NoId
      BY <1>1, <1>2, <1>4, <2>7 DEF Cmd!NewcomerFits
    <3> QED BY <1>1, <1>2, <2>1, <2>4, <2>5, <2>6, <3>1 DEF Cmd!NewcomerFits
  <2> QED BY <2>8, <2>10, <2>11 DEF Cmd!BoardFits
<1>13. CASE Cmd!Done
  <2>1. UNCHANGED <<v2, v3, v4, v5, v9, v10>> /\ v6.cmd = Cmd!Idle /\ v6' = Cmd!Waiting
    BY <1>13 DEF Cmd!Done
  <2>2. v6'.cmd = v6.cmd
    BY <2>1 DEF Cmd!Waiting
  <2>3. \A id \in Cmd!Id : Cmd!Awaited(id) => Cmd!Awaited(id)'
    BY <2>1, <2>2 DEF Cmd!Awaited
  <2>4. Cmd!RingFits' /\ Cmd!PlacesFit'
    BY <1>1, <2>1, <2>3, BoardStays
  <2> QED BY <1>1, <2>1, <2>2, <2>4 DEF Cmd!BoardFits, Cmd!NewcomerFits
<1>14. CASE \E c \in Conn : Cmd!Upload(c) \/ Cmd!Complete(c) \/ Cmd!Close(c)
  <2>1. UNCHANGED <<v2, v3, v4, v5, v6, v9, v10>>
    BY <1>14 DEF Cmd!Upload, Cmd!Complete, Cmd!Close
  <2> QED BY <1>5, <2>1
<1>15. CASE UNCHANGED vars
  BY <1>5, <1>15 DEF vars
<1> QED BY <1>6, <1>7, <1>8, <1>9, <1>10, <1>11, <1>12, <1>13, <1>14, <1>15 DEF Cmd!Next

\* Every step keeps the owners of the buffers apart, and none is lost.
LEMMA BuffersKeep ==
  ASSUME Cmd!PathTypes, Cmd!CommandPathAssumption, Cmd!BuffersFit, [Cmd!Next]_vars
  PROVE  Cmd!BuffersFit'
<1>1. /\ DOMAIN v3 = 1..Len(v3) /\ Len(v3) \in Nat /\ v3 \in Seq(Cmd!Item)
      /\ v1 \in [Conn -> [open : BOOLEAN, buf : CommandBuffer \cup {None}, whole : BOOLEAN]]
      /\ v2 \in Cmd!Item /\ v6.cmd \in Cmd!Item /\ v2.conn \in Conn \cup {None}
      /\ v2.buf \in CommandBuffer \cup {None}
      /\ v7 \in SUBSET CommandBuffer /\ None \notin Conn /\ None \notin CommandBuffer
      /\ Cmd!RequestsFit /\ Cmd!OwnersDiffer /\ v8 = {}
      /\ \A b \in CommandBuffer : b \in v7 <=> Cmd!Owned(b)
  BY DEF Cmd!PathTypes, Cmd!CommandPathAssumption, Cmd!BuffersFit, Cmd!Item
<1>2. /\ Cmd!Idle.step = "idle" /\ Cmd!Idle.conn = None /\ Cmd!Idle.buf = None
      /\ Cmd!Mqtt.buf = None /\ Cmd!Mqtt \in Cmd!Item
  BY DEF Cmd!Idle, Cmd!Mqtt, Cmd!Item, Cmd!NoId
<1>3. ASSUME UNCHANGED <<v1, v2, v3, v7, v8>>, v6'.cmd = v6.cmd PROVE Cmd!BuffersFit'
  BY <1>1, <1>3 DEF Cmd!BuffersFit, Cmd!RequestsFit, Cmd!OwnersDiffer, Cmd!Owned, Cmd!Asks
<1>4. ASSUME NEW c \in Conn, Cmd!Upload(c) PROVE Cmd!BuffersFit'
  <2>1. UNCHANGED <<v2, v3, v6, v8>> /\ v2 = Cmd!Idle /\ ~v1[c].open /\ v1[c].buf = None
    BY <1>1, <1>4 DEF Cmd!Upload, Cmd!RequestsFit
  <2>2. ASSUME NEW b \in CommandBuffer \ v7, v7' = v7 \cup {b},
               v1' = [v1 EXCEPT ![c] = [open |-> TRUE, buf |-> b, whole |-> FALSE]]
        PROVE  Cmd!BuffersFit'
    <3>1. /\ v1'[c].open /\ v1'[c].buf = b /\ ~v1'[c].whole /\ b # None
          /\ \A d \in Conn : d # c => v1'[d] = v1[d]
      BY <1>1, <2>2
    <3>2. \A d \in Conn : /\ Cmd!Asks(d) <=> v1[d].buf # None
                          /\ Cmd!Asks(d)' <=> v1'[d].buf # None
      BY <1>2, <2>1 DEF Cmd!Asks
    <3>3. ~Cmd!Owned(b)
      BY <1>1, <2>2
    <3>4. Cmd!RequestsFit'
      BY <1>1, <1>2, <2>1, <3>1, <3>2, <3>3 DEF Cmd!RequestsFit, Cmd!Owned
    <3>5. Cmd!OwnersDiffer'
      BY <1>1, <2>1, <3>1, <3>2, <3>3 DEF Cmd!OwnersDiffer, Cmd!Owned
    <3>6. \A e \in CommandBuffer : Cmd!Owned(e)' <=> Cmd!Owned(e) \/ e = b
      BY <2>1, <3>1, <3>2 DEF Cmd!Owned
    <3> QED BY <1>1, <2>1, <2>2, <3>4, <3>5, <3>6 DEF Cmd!BuffersFit
  <2>3. ASSUME v1' = [v1 EXCEPT ![c].open = TRUE], v7' = v7 PROVE Cmd!BuffersFit'
    <3>1. \A d \in Conn : /\ v1'[d].buf = v1[d].buf /\ v1'[d].whole = v1[d].whole
                          /\ v1[d].open => v1'[d].open
      BY <1>1, <2>3
    <3>2. \A d \in Conn : Cmd!Asks(d)' <=> Cmd!Asks(d)
      BY <2>1, <3>1 DEF Cmd!Asks
    <3>3. Cmd!RequestsFit'
      BY <1>1, <1>2, <2>1, <3>1 DEF Cmd!RequestsFit
    <3> QED BY <1>1, <2>1, <2>3, <3>1, <3>2, <3>3 DEF Cmd!BuffersFit, Cmd!OwnersDiffer, Cmd!Owned
  <2> QED BY <1>4, <2>2, <2>3 DEF Cmd!Upload
<1>5. ASSUME NEW c \in Conn, Cmd!Complete(c) PROVE Cmd!BuffersFit'
  <2>1. UNCHANGED <<v2, v3, v6, v7, v8>> /\ v1[c].buf # None /\ v1' = [v1 EXCEPT ![c].whole = TRUE]
    BY <1>5 DEF Cmd!Complete
  <2>2. \A d \in Conn : /\ v1'[d].buf = v1[d].buf /\ v1'[d].open = v1[d].open
                        /\ v1'[d].whole => v1[d].whole \/ d = c
    BY <1>1, <2>1
  <2>3. \A d \in Conn : Cmd!Asks(d)' <=> Cmd!Asks(d)
    BY <2>1, <2>2 DEF Cmd!Asks
  <2>4. Cmd!RequestsFit'
    BY <1>1, <2>1, <2>2 DEF Cmd!RequestsFit
  <2> QED BY <1>1, <2>1, <2>2, <2>3, <2>4 DEF Cmd!BuffersFit, Cmd!OwnersDiffer, Cmd!Owned
<1>6. ASSUME NEW c \in Conn, Cmd!Close(c) PROVE Cmd!BuffersFit'
  <2> DEFINE b == v1[c].buf
  <2>1. /\ UNCHANGED <<v2, v3, v6>> /\ v2 = Cmd!Idle /\ v1' = [v1 EXCEPT ![c] = Cmd!NoUpload]
        /\ v7' = v7 \ {b} /\ v8' = IF b = None \/ b \in v7 THEN v8 ELSE v8 \cup {b}
    BY <1>6 DEF Cmd!Close, Cmd!Free
  <2>2. /\ ~v1'[c].open /\ v1'[c].buf = None /\ ~v1'[c].whole
        /\ \A d \in Conn : d # c => v1'[d] = v1[d]
    BY <1>1, <2>1 DEF Cmd!NoUpload
  <2>3. \A d \in Conn : /\ Cmd!Asks(d) <=> v1[d].buf # None
                        /\ Cmd!Asks(d)' <=> v1'[d].buf # None
    BY <1>2, <2>1 DEF Cmd!Asks
  <2>4. b \in CommandBuffer \cup {None} /\ (b # None => Cmd!Owned(b) /\ b \in v7)
    BY <1>1, <2>3 DEF Cmd!Owned
  <2>5. v8' = {}
    BY <1>1, <2>1, <2>4
  <2>6. Cmd!RequestsFit'
    BY <1>1, <1>2, <2>1, <2>2 DEF Cmd!RequestsFit
  <2>7. Cmd!OwnersDiffer'
    BY <1>1, <2>1, <2>2, <2>3 DEF Cmd!OwnersDiffer
  <2>8. \A e \in CommandBuffer : Cmd!Owned(e)' <=> Cmd!Owned(e) /\ e # b
    <3>1. \A d \in Conn : d # c /\ v1[d].buf # None => v1[d].buf # b
      BY <1>1 DEF Cmd!RequestsFit
    <3>2. b # None => v6.cmd.buf # b /\ \A i \in DOMAIN v3 : v3[i].buf # b
      BY <1>1, <2>3 DEF Cmd!OwnersDiffer
    <3> QED BY <1>1, <2>1, <2>2, <2>3, <3>1, <3>2 DEF Cmd!Owned
  <2> QED BY <1>1, <2>1, <2>5, <2>6, <2>7, <2>8 DEF Cmd!BuffersFit
<1>7. CASE Cmd!Build
  <2>1. UNCHANGED <<v1, v3, v6, v7, v8>> /\ v2 = Cmd!Idle
    BY <1>7 DEF Cmd!Build
  <2>2. PICK c \in {None} \cup {c \in Conn : v1[c].whole} :
          v2' = [step |-> "expect", id |-> Cmd!Fresh, conn |-> c,
                 buf |-> IF c = None THEN None ELSE v1[c].buf]
    BY <1>7 DEF Cmd!Build
  <2>3. v2'.step = "expect" /\ v2'.conn = c /\ v2'.buf = IF c = None THEN None ELSE v1[c].buf
    BY <2>2
  <2>4. \A d \in Conn : Cmd!Asks(d)' <=> Cmd!Asks(d)
    BY <1>2, <2>1, <2>3 DEF Cmd!Asks
  <2>5. Cmd!RequestsFit'
    BY <1>1, <2>1, <2>2, <2>3 DEF Cmd!RequestsFit
  <2> QED BY <1>1, <2>1, <2>4, <2>5 DEF Cmd!BuffersFit, Cmd!OwnersDiffer, Cmd!Owned
<1>8. CASE Cmd!Expect
  <2>1. /\ UNCHANGED <<v1, v3, v6, v7, v8>> /\ v2.step = "expect" /\ v2'.step = "post"
        /\ v2'.conn = v2.conn /\ v2'.buf = v2.buf
    BY <1>1, <1>8 DEF Cmd!Expect, Cmd!Item
  <2>2. \A d \in Conn : Cmd!Asks(d)' <=> Cmd!Asks(d)
    BY <2>1 DEF Cmd!Asks
  <2>3. Cmd!RequestsFit'
    BY <1>1, <2>1 DEF Cmd!RequestsFit
  <2> QED BY <1>1, <2>1, <2>2, <2>3 DEF Cmd!BuffersFit, Cmd!OwnersDiffer, Cmd!Owned
<1>9. CASE Cmd!Post
  <2>1. UNCHANGED <<v1, v6, v7, v8>> /\ v2.step = "post"
    BY <1>9 DEF Cmd!Post
  <2>2. CASE Len(v3) < Depth
    <3> DEFINE x == [v2 EXCEPT !.step = "posted", !.conn = None]
    <3>1. /\ v3' = Append(v3, x) /\ v2'.step = "posted" /\ v2'.conn = v2.conn /\ v2'.buf = v2.buf
      BY <1>1, <1>9, <2>2 DEF Cmd!Post, Cmd!Item
    <3>2. x \in Cmd!Item /\ x.buf = v2.buf
      BY <1>1 DEF Cmd!Item
    <3> HIDE DEF x
    <3>3. /\ DOMAIN v3' = 1..(Len(v3) + 1) /\ (\A i \in DOMAIN v3 : v3'[i] = v3[i])
          /\ v3'[Len(v3) + 1] = x
      BY <1>1, <3>1, <3>2, AppendFacts
    <3>4. \A d \in Conn : /\ Cmd!Asks(d) <=> v1[d].buf # None
                          /\ Cmd!Asks(d)' <=> v1[d].buf # None /\ d # v2.conn
      BY <2>1, <3>1 DEF Cmd!Asks
    <3>5. Cmd!RequestsFit'
      BY <1>1, <2>1, <3>1 DEF Cmd!RequestsFit
    <3>6. v2.buf # None => /\ v2.conn \in Conn /\ v1[v2.conn].buf = v2.buf
                           /\ v2.buf # v6.cmd.buf /\ \A i \in DOMAIN v3 : v2.buf # v3[i].buf
      BY <1>1, <3>4 DEF Cmd!RequestsFit, Cmd!OwnersDiffer
    <3>7. \A i \in DOMAIN v3' : i \in DOMAIN v3 \/ (i = Len(v3) + 1 /\ v3'[i].buf = v2.buf)
      BY <1>1, <3>2, <3>3
    <3>8. \A d \in Conn : d # v2.conn /\ v1[d].buf # None => v1[d].buf # v2.buf
      BY <1>1, <3>6 DEF Cmd!RequestsFit
    <3>9. Cmd!OwnersDiffer'
      <4>1. \A i, j \in DOMAIN v3' : v3'[i].buf # None /\ v3'[i].buf = v3'[j].buf => i = j
        BY <1>1, <3>3, <3>6, <3>7 DEF Cmd!OwnersDiffer
      <4>2. \A i \in DOMAIN v3' : v3'[i].buf # None => v3'[i].buf # v6'.cmd.buf
        BY <1>1, <2>1, <3>3, <3>6, <3>7 DEF Cmd!OwnersDiffer
      <4>3. \A d \in Conn : Cmd!Asks(d)' => /\ v1'[d].buf # v6'.cmd.buf
                                            /\ \A i \in DOMAIN v3' : v1'[d].buf # v3'[i].buf
        BY <1>1, <2>1, <3>3, <3>4, <3>7, <3>8 DEF Cmd!OwnersDiffer
      <4> QED BY <4>1, <4>2, <4>3 DEF Cmd!OwnersDiffer
    <3>10. \A e \in CommandBuffer : Cmd!Owned(e)' <=> Cmd!Owned(e)
      <4> SUFFICES ASSUME NEW e \in CommandBuffer PROVE Cmd!Owned(e)' <=> Cmd!Owned(e)
        OBVIOUS
      <4>1. e # None /\ Len(v3) + 1 \in DOMAIN v3' /\ DOMAIN v3 \subseteq DOMAIN v3'
        BY <1>1, <3>3
      <4>2. ASSUME Cmd!Owned(e) PROVE Cmd!Owned(e)'
        BY <1>1, <2>1, <3>2, <3>3, <3>4, <4>1, <4>2 DEF Cmd!Owned, Cmd!RequestsFit
      <4>3. ASSUME Cmd!Owned(e)' PROVE Cmd!Owned(e)
        BY <1>1, <2>1, <3>3, <3>4, <3>6, <3>7, <4>1, <4>3 DEF Cmd!Owned
      <4> QED BY <4>2, <4>3
    <3> QED BY <1>1, <2>1, <3>5, <3>9, <3>10 DEF Cmd!BuffersFit
  <2>3. CASE ~(Len(v3) < Depth)
    <3>1. v2' = Cmd!Idle /\ v3' = v3
      BY <1>9, <2>3 DEF Cmd!Post
    <3>2. \A d \in Conn : Cmd!Asks(d)' <=> Cmd!Asks(d)
      BY <1>2, <2>1, <3>1 DEF Cmd!Asks
    <3>3. Cmd!RequestsFit'
      BY <1>1, <1>2, <2>1, <3>1 DEF Cmd!RequestsFit
    <3> QED BY <1>1, <2>1, <3>1, <3>2, <3>3 DEF Cmd!BuffersFit, Cmd!OwnersDiffer, Cmd!Owned
  <2> QED BY <2>2, <2>3
<1>10. CASE Cmd!Answer
  <2>1. UNCHANGED <<v3, v6, v7, v8>> /\ v2.step = "posted" /\ v2' = Cmd!Idle /\ v1' = Cmd!HandedOver(v2.conn)
    BY <1>10 DEF Cmd!Answer
  <2>2. /\ \A d \in Conn : d # v2.conn => v1'[d] = v1[d]
        /\ v2.conn \in Conn => v1'[v2.conn].open /\ v1'[v2.conn].buf = None /\ ~v1'[v2.conn].whole
    BY <1>1, <2>1 DEF Cmd!HandedOver, Cmd!NoUpload
  <2>3. \A d \in Conn : /\ Cmd!Asks(d)' <=> Cmd!Asks(d)
                        /\ Cmd!Asks(d) => v1'[d].buf = v1[d].buf
    BY <1>1, <1>2, <2>1, <2>2 DEF Cmd!Asks
  <2>4. Cmd!RequestsFit'
    BY <1>1, <1>2, <2>1, <2>2 DEF Cmd!RequestsFit
  <2>5. Cmd!OwnersDiffer'
    BY <1>1, <2>1, <2>3 DEF Cmd!OwnersDiffer
  <2>6. \A e \in CommandBuffer : Cmd!Owned(e)' <=> Cmd!Owned(e)
    BY <2>1, <2>3 DEF Cmd!Owned
  <2> QED BY <1>1, <2>1, <2>4, <2>5, <2>6 DEF Cmd!BuffersFit
<1>11. CASE Cmd!PostMqtt
  <2>1. UNCHANGED <<v1, v2, v6, v7, v8>> /\ v3' = Append(v3, Cmd!Mqtt)
    BY <1>11 DEF Cmd!PostMqtt
  <2>2. /\ DOMAIN v3' = 1..(Len(v3) + 1) /\ (\A i \in DOMAIN v3 : v3'[i] = v3[i])
        /\ v3'[Len(v3) + 1] = Cmd!Mqtt
    BY <1>1, <1>2, <2>1, AppendFacts
  <2>3. \A i \in DOMAIN v3' : i \in DOMAIN v3 \/ v3'[i].buf = None
    BY <1>1, <1>2, <2>2
  <2>4. \A d \in Conn : Cmd!Asks(d)' <=> Cmd!Asks(d)
    BY <2>1 DEF Cmd!Asks
  <2>5. Cmd!RequestsFit'
    BY <1>1, <2>1 DEF Cmd!RequestsFit
  <2>6. Cmd!OwnersDiffer'
    BY <1>1, <2>1, <2>2, <2>3, <2>4 DEF Cmd!OwnersDiffer, Cmd!Asks
  <2>7. \A e \in CommandBuffer : Cmd!Owned(e)' <=> Cmd!Owned(e)
    BY <1>1, <2>1, <2>2, <2>3, <2>4 DEF Cmd!Owned
  <2> QED BY <1>1, <2>1, <2>5, <2>6, <2>7 DEF Cmd!BuffersFit
<1>12. CASE Cmd!Receive
  <2>1. /\ UNCHANGED <<v1, v2, v7, v8>> /\ v3' = Tail(v3) /\ v3 # <<>>
        /\ v6'.cmd = Head(v3) /\ v6.cmd = Cmd!Idle
    BY <1>12 DEF Cmd!Receive
  <2>2. /\ DOMAIN v3' = 1..(Len(v3) - 1) /\ (\A i \in DOMAIN v3' : v3'[i] = v3[i + 1])
        /\ Head(v3) = v3[1] /\ Len(v3) \in Nat \ {0}
    BY <1>1, <2>1, TailFacts
  <2>3. 1 \in DOMAIN v3 /\ \A i \in DOMAIN v3' : i + 1 \in DOMAIN v3 /\ i + 1 # 1
    BY <1>1, <2>2
  <2>4. \A d \in Conn : Cmd!Asks(d)' <=> Cmd!Asks(d)
    BY <2>1 DEF Cmd!Asks
  <2>5. Cmd!RequestsFit'
    BY <1>1, <2>1 DEF Cmd!RequestsFit
  <2>6. Cmd!OwnersDiffer'
    <3>1. \A i, j \in DOMAIN v3' : v3'[i].buf # None /\ v3'[i].buf = v3'[j].buf => i = j
      <4> SUFFICES ASSUME NEW i \in DOMAIN v3', NEW j \in DOMAIN v3', v3'[i].buf # None,
                          v3'[i].buf = v3'[j].buf
                   PROVE  i = j
        OBVIOUS
      <4>1. i + 1 = j + 1
        BY <1>1, <2>2, <2>3 DEF Cmd!OwnersDiffer
      <4>2. i \in Int /\ j \in Int
        BY <1>1, <2>2
      <4> QED BY <4>1, <4>2
    <3>2. \A i \in DOMAIN v3' : v3'[i].buf # None => v3'[i].buf # v6'.cmd.buf
      BY <1>1, <2>1, <2>2, <2>3 DEF Cmd!OwnersDiffer
    <3>3. \A d \in Conn : Cmd!Asks(d)' => /\ v1'[d].buf # v6'.cmd.buf
                                          /\ \A i \in DOMAIN v3' : v1'[d].buf # v3'[i].buf
      BY <1>1, <2>1, <2>2, <2>3, <2>4 DEF Cmd!OwnersDiffer
    <3> QED BY <3>1, <3>2, <3>3 DEF Cmd!OwnersDiffer
  <2>7. \A e \in CommandBuffer : Cmd!Owned(e)' <=> Cmd!Owned(e)
    <3> SUFFICES ASSUME NEW e \in CommandBuffer PROVE Cmd!Owned(e)' <=> Cmd!Owned(e)
      OBVIOUS
    <3>1. e # None
      BY <1>1
    <3>2. ASSUME NEW i \in DOMAIN v3, v3[i].buf = e PROVE Cmd!Owned(e)'
      <4>1. CASE i = 1
        BY <2>1, <2>2, <3>2, <4>1 DEF Cmd!Owned
      <4>2. CASE i # 1
        <5>1. i - 1 \in DOMAIN v3' /\ v3'[i - 1] = v3[i]
          BY <1>1, <2>2, <3>2, <4>2
        <5> QED BY <3>2, <5>1 DEF Cmd!Owned
      <4> QED BY <4>1, <4>2
    <3>3. ASSUME Cmd!Owned(e) PROVE Cmd!Owned(e)'
      BY <1>2, <2>1, <2>4, <3>1, <3>2, <3>3 DEF Cmd!Owned
    <3>4. ASSUME Cmd!Owned(e)' PROVE Cmd!Owned(e)
      BY <2>1, <2>2, <2>3, <2>4, <3>4 DEF Cmd!Owned
    <3> QED BY <3>3, <3>4
  <2> QED BY <1>1, <2>1, <2>5, <2>6, <2>7 DEF Cmd!BuffersFit
<1>13. CASE Cmd!Apply
  <2> DEFINE b == v6.cmd.buf
  <2>1. UNCHANGED <<v1, v2, v3>> /\ v6'.cmd = Cmd!Idle
    BY <1>13 DEF Cmd!Apply, Cmd!PathTypes
  <2>2. v7' = v7 \ {b} /\ v8' = IF b = None \/ b \in v7 THEN v8 ELSE v8 \cup {b}
    BY <1>13 DEF Cmd!Apply, Cmd!Applied, Cmd!Free
  <2>3. b \in CommandBuffer \cup {None} /\ (b # None => b \in v7)
    BY <1>1 DEF Cmd!Item, Cmd!Owned
  <2>4. v8' = {}
    BY <1>1, <2>2, <2>3
  <2>5. \A d \in Conn : Cmd!Asks(d)' <=> Cmd!Asks(d)
    BY <2>1 DEF Cmd!Asks
  <2>6. Cmd!RequestsFit'
    BY <1>1, <2>1 DEF Cmd!RequestsFit
  <2>7. Cmd!OwnersDiffer'
    BY <1>1, <1>2, <2>1, <2>5 DEF Cmd!OwnersDiffer, Cmd!Asks
  <2>8. \A e \in CommandBuffer : Cmd!Owned(e)' <=> Cmd!Owned(e) /\ e # b
    BY <1>1, <1>2, <2>1, <2>5 DEF Cmd!Owned, Cmd!OwnersDiffer
  <2> QED BY <1>1, <2>2, <2>4, <2>6, <2>7, <2>8 DEF Cmd!BuffersFit
<1>14. CASE Cmd!Done
  <2>1. UNCHANGED <<v1, v2, v3, v7, v8>> /\ v6'.cmd = v6.cmd
    BY <1>14 DEF Cmd!Done, Cmd!Waiting
  <2> QED BY <1>3, <2>1
<1>15. CASE UNCHANGED vars
  BY <1>3, <1>15 DEF vars
<1> QED BY <1>4, <1>5, <1>6, <1>7, <1>8, <1>9, <1>10, <1>11, <1>12, <1>13, <1>14, <1>15 DEF Cmd!Next

\* At the start the board is empty and nothing is allocated.
LEMMA CommandStarts ==
  ASSUME Cmd!CommandPathAssumption, Cmd!Init
  PROVE  Cmd!PathTypes /\ Cmd!BoardFits /\ Cmd!BuffersFit
<1>1. Cmd!Idle \in Cmd!Item /\ Cmd!Idle.step = "idle" /\ Cmd!Idle.id = Cmd!NoId
      /\ Cmd!Idle.conn = None /\ Cmd!Idle.buf = None
  BY DEF Cmd!Idle, Cmd!Item, Cmd!NoId
<1>2. BoardSize \in Nat \ {0} /\ Depth \in Nat \ {0} /\ None \notin CommandBuffer
  BY DEF Cmd!CommandPathAssumption
<1>3. /\ v1 = [c \in Conn |-> Cmd!NoUpload] /\ v2 = Cmd!Idle /\ v3 = <<>> /\ v6 = Cmd!Waiting
      /\ v4 = [i \in 1..BoardSize |-> Cmd!NoSlot] /\ v5 = 1 /\ v7 = {} /\ v8 = {}
      /\ v9 = [i \in Cmd!Id |-> "none"] /\ v10 = <<>>
  BY DEF Cmd!Init
<1>4. Cmd!PathTypes
  BY <1>1, <1>2, <1>3 DEF Cmd!PathTypes, Cmd!NoUpload, Cmd!NoSlot, Cmd!Waiting, Cmd!Status, Cmd!NoId
<1>5. Cmd!BoardFits
  BY <1>1, <1>3 DEF Cmd!BoardFits, Cmd!RingFits, Cmd!PlacesFit, Cmd!NewcomerFits, Cmd!NoSlot
<1>6. Cmd!BuffersFit
  BY <1>1, <1>2, <1>3 DEF Cmd!BuffersFit, Cmd!RequestsFit, Cmd!OwnersDiffer, Cmd!Owned, Cmd!Asks,
       Cmd!NoUpload, Cmd!Waiting
<1> QED BY <1>4, <1>5, <1>6

\* A set of at most one element, counted.
LEMMA AtMostOne ==
  ASSUME NEW S, \A x, y \in S : x = y
  PROVE  Cmd!Cardinality(S) = IF S = {} THEN 0 ELSE 1
<1>1. Cmd!Cardinality(S) = Cardinality(S)
  BY DEF Cmd!Cardinality, Cardinality
<1>2. CASE S = {}
  BY <1>1, <1>2, FS_EmptySet
<1>3. CASE S # {}
  <2>1. PICK x : x \in S
    BY <1>3
  <2>2. S = {x}
    BY <2>1
  <2>3. Cardinality({x}) = 1
    BY FS_Singleton
  <2> QED BY <1>1, <1>3, <2>2, <2>3
<1> QED BY <1>2, <1>3

\* Clients are told the truth, and buffers have one owner, where the three hold.
LEMMA CommandSafe ==
  ASSUME Cmd!PathTypes, Cmd!CommandPathAssumption, Cmd!BoardFits, Cmd!BuffersFit
  PROVE  Cmd!BoardTellsTheTruth /\ Cmd!BufferHasOneOwner
<1>1. Cmd!BoardTellsTheTruth
  <2>1. ASSUME NEW j \in DOMAIN v10
        PROVE  /\ Cmd!Spot(j) \in DOMAIN v4 /\ v4[Cmd!Spot(j)].id = v10[j] /\ v10[j] \in Cmd!Id
               /\ v10[j] # Cmd!NoId
    <3>1. /\ BoardSize \in Nat \ {0} /\ v5 \in 1..BoardSize /\ DOMAIN v4 = 1..BoardSize
          /\ v10 \in Seq(Cmd!Id) /\ Len(v10) \in Nat /\ Len(v10) <= BoardSize /\ j \in 1..Len(v10)
      BY <2>1 DEF Cmd!PathTypes, Cmd!CommandPathAssumption
    <3>2. Cmd!Spot(j) \in DOMAIN v4
      BY <3>1 DEF Cmd!Spot
    <3>3. v10[j] \in Cmd!Id
      BY <3>1
    <3>4. Cmd!NoId \notin Cmd!Id
      BY DEF Cmd!Id, Cmd!NoId
    <3> QED BY <3>2, <3>3, <3>4 DEF Cmd!BoardFits, Cmd!RingFits
  <2>2. ASSUME NEW id \in Cmd!Range(v10)
        PROVE  \E i \in DOMAIN v4 :
                 /\ v4[i].id = id
                 /\ v4[i].state = "Done" => v4[i].status = v9[id]
                 /\ v4[i].state = "Pending" => v9[id] = "refused" \/ Cmd!Underway(id)
    <3>1. PICK j \in DOMAIN v10 : v10[j] = id
      BY <2>2 DEF Cmd!Range
    <3> DEFINE i == Cmd!Spot(j)
    <3>2. i \in DOMAIN v4 /\ v4[i].id = id /\ v4[i].id # Cmd!NoId
      BY <2>1, <3>1
    <3>3. Cmd!Told(v4[i])
      BY <3>2 DEF Cmd!BoardFits, Cmd!PlacesFit
    <3>4. Cmd!Awaited(id) => Cmd!Underway(id)
      BY DEF Cmd!Awaited, Cmd!Underway
    <3> QED BY <3>2, <3>3, <3>4 DEF Cmd!Told
  <2> QED BY <2>2 DEF Cmd!BoardTellsTheTruth
<1>2. ASSUME NEW b \in CommandBuffer
      PROVE  LET requests == {c \in Conn : v1[c].buf = b /\ ~(v2.step = "posted" /\ v2.conn = c)}
                 queued == {i \in DOMAIN v3 : v3[i].buf = b}
                 applied == IF v6.cmd.buf = b THEN {b} ELSE {}
             IN Cmd!Cardinality(requests) + Cmd!Cardinality(queued) + Cmd!Cardinality(applied)
                  = IF b \in v7 THEN 1 ELSE 0
  <2> DEFINE requests == {c \in Conn : v1[c].buf = b /\ ~(v2.step = "posted" /\ v2.conn = c)}
             queued == {i \in DOMAIN v3 : v3[i].buf = b}
             applied == IF v6.cmd.buf = b THEN {b} ELSE {}
  <2>1. b # None /\ (b \in v7 <=> Cmd!Owned(b)) /\ Cmd!RequestsFit /\ Cmd!OwnersDiffer
    BY DEF Cmd!CommandPathAssumption, Cmd!BuffersFit
  <2>2. \A c \in Conn : c \in requests <=> Cmd!Asks(c) /\ v1[c].buf = b
    BY <2>1 DEF Cmd!Asks
  <2>3. /\ \A x, y \in requests : x = y
        /\ \A x, y \in queued : x = y
        /\ \A x, y \in applied : x = y
    BY <2>1 DEF Cmd!RequestsFit, Cmd!OwnersDiffer
  <2>4. /\ requests # {} => queued = {} /\ applied = {}
        /\ queued # {} => applied = {}
    BY <2>1, <2>2 DEF Cmd!OwnersDiffer
  <2>5. b \in v7 <=> requests # {} \/ queued # {} \/ applied # {}
    BY <2>1, <2>2 DEF Cmd!Owned
  <2> HIDE DEF requests, queued, applied
  <2>6. /\ Cmd!Cardinality(requests) = IF requests = {} THEN 0 ELSE 1
        /\ Cmd!Cardinality(queued) = IF queued = {} THEN 0 ELSE 1
        /\ Cmd!Cardinality(applied) = IF applied = {} THEN 0 ELSE 1
    BY <2>3, AtMostOne
  <2>7. Cmd!Cardinality(requests) + Cmd!Cardinality(queued) + Cmd!Cardinality(applied)
          = IF b \in v7 THEN 1 ELSE 0
    BY <2>4, <2>5, <2>6
  <2> QED BY <2>7 DEF requests, queued, applied
<1>3. Cmd!BufferHasOneOwner
  BY <1>2 DEF Cmd!BufferHasOneOwner, Cmd!BuffersFit
<1> QED BY <1>1, <1>3

-----------------------------------------------------------------------------
(* EventLog.                                                               *)

\* Two numbers that have one slot are at least CAPACITY apart.
LEMMA OneSlotIsFarApart ==
  ASSUME Log!EventLogAssumption, NEW a \in Nat, NEW b \in Nat, a < b, Log!SlotOf(a) = Log!SlotOf(b)
  PROVE  a + Capacity <= b
<1>1. Capacity \in Nat /\ Capacity > 0
  BY DEF Log!EventLogAssumption
<1> DEFINE p == a \div Capacity
           q == b \div Capacity
           r == a % Capacity
<1>2. /\ p \in Nat /\ q \in Nat /\ r \in Nat
      /\ a = Capacity * p + r /\ b = Capacity * q + r
  BY <1>1 DEF Log!SlotOf
<1> HIDE DEF p, q, r
<1>3. p < q
  <2>1. CASE q <= p
    <3>1. Capacity * q <= Capacity * p
      BY <1>1, <1>2, <2>1
    <3>2. Capacity * q \in Nat /\ Capacity * p \in Nat
      BY <1>1, <1>2
    <3> QED BY <1>2, <3>1, <3>2
  <2> QED BY <1>2, <2>1
<1>4. Capacity * (p + 1) <= Capacity * q
  BY <1>1, <1>2, <1>3
<1>5. Capacity * (p + 1) = Capacity * p + Capacity /\ Capacity * p \in Nat /\ Capacity * q \in Nat
  BY <1>1, <1>2
<1> QED BY <1>1, <1>2, <1>4, <1>5

\* At the first start the log is empty.
LEMMA LogStarts ==
  ASSUME Log!Init, Log!EventLogAssumption
  PROVE  Log!LogFits
<1>1. v1 = <<>> /\ v2 = 1 /\ v6 = FALSE /\ v7 = 0 /\ v5 = [i \in 0..(Capacity - 1) |-> None]
  BY DEF Log!Init
<1>2. Log!Kept = {} /\ Log!Range(v1) = {} /\ DOMAIN v1 = {} /\ v1 \in Seq(Log!Entry)
  BY <1>1 DEF Log!Kept, Log!Range
<1>3. /\ v6 \in BOOLEAN /\ v7 \in Nat /\ v2 \in Nat \ {0}
      /\ v5 \in [0..(Capacity - 1) -> Log!Entry \cup {None}]
      /\ \A i \in DOMAIN v5 : v5[i] = None
  <2>1. v6 \in BOOLEAN
    BY <1>1, Zenon
  <2>2. v7 \in Nat /\ v2 \in Nat \ {0} /\ \A i \in 0..(Capacity - 1) : v5[i] = None
    BY <1>1
  <2>3. v5 \in [0..(Capacity - 1) -> Log!Entry \cup {None}] /\ DOMAIN v5 = 0..(Capacity - 1)
    BY <1>1
  <2> QED BY <2>1, <2>2, <2>3
<1> HIDE DEF Log!Kept, Log!Range
<1> QED BY <1>2, <1>3, Zenon DEF Log!LogFits

\* p is r with e at its end, perhaps without the first entry.
IsPushed(p, r, e) ==
  \E d \in {0, 1} :
    /\ Len(p) = Len(r) + 1 - d
    /\ \A i \in DOMAIN p : /\ i + d \in 1..(Len(r) + 1)
                           /\ p[i] = IF i + d = Len(r) + 1 THEN e ELSE r[i + d]

\* What stays of the ring when an entry is pushed.
LEMMA PushedKeeps ==
  ASSUME NEW S, NEW r \in Seq(S), NEW e \in S, Capacity \in Nat
  PROVE  Log!Pushed(r, e) \in Seq(S) /\ IsPushed(Log!Pushed(r, e), r, e)
<1> DEFINE s == Append(r, e)
<1>1. /\ s \in Seq(S) /\ Len(s) = Len(r) + 1
      /\ \A i \in 1..(Len(r) + 1) : s[i] = IF i = Len(r) + 1 THEN e ELSE r[i]
  OBVIOUS
<1>2. Len(r) \in Nat
  OBVIOUS
<1> HIDE DEF s
<1>3. CASE Len(s) > Capacity
  <2>1. Log!Pushed(r, e) = Tail(s)
    BY <1>3 DEF Log!Pushed, s
  <2>2. /\ Tail(s) \in Seq(S) /\ Len(Tail(s)) = Len(s) - 1
        /\ \A i \in DOMAIN Tail(s) : i + 1 \in 1..Len(s) /\ Tail(s)[i] = s[i + 1]
    <3>1. s # <<>>
      BY <1>1, <1>2
    <3> QED BY <1>1, <3>1
  <2> QED BY <1>1, <1>2, <2>1, <2>2 DEF IsPushed
<1>4. CASE ~(Len(s) > Capacity)
  <2>1. Log!Pushed(r, e) = s
    BY <1>4 DEF Log!Pushed, s
  <2>2. DOMAIN s = 1..(Len(r) + 1)
    BY <1>1
  <2>3. \A i \in DOMAIN s : i + 0 = i
    BY <1>2, <2>2
  <2> QED BY <1>1, <1>2, <2>1, <2>2, <2>3 DEF IsPushed
<1> QED BY <1>3, <1>4

\* An event that is logged.
LEMMA LoggedFits ==
  ASSUME Log!LogFits, Log!EventLogAssumption, NEW k, Log!LogEvent(k)
  PROVE  Log!LogFits'
<1>1. /\ v6 \in BOOLEAN /\ v2 \in Nat \ {0} /\ v7 \in Nat
      /\ v5 \in [0..(Capacity - 1) -> Log!Entry \cup {None}]
      /\ v1 \in Seq(Log!Entry)
  BY DEF Log!LogFits
<1>2. Capacity \in Nat /\ Capacity > 0 /\ None \notin Log!Entry
  BY DEF Log!EventLogAssumption
<1> DEFINE e == [seq |-> v2, n |-> v7 + 1]
           here == Log!SlotOf(v2)
           Old == Log!Range(v1) \cup Log!Kept
<1>3. e \in Log!Entry /\ e # None /\ e.seq = v2 /\ e.n = v7 + 1
  BY <1>1, <1>2 DEF Log!Entry
<1>4. PICK w \in Log!Writes(e) :
        /\ v5' = [v5 EXCEPT ![here] = w.slot]
        /\ v8' = IF w.ok THEN v8 ELSE v8 \cup {e.n}
  BY DEF Log!LogEvent
<1>5. /\ v1' = Log!Pushed(v1, e) /\ v2' = v2 + 1 /\ v7' = v7 + 1
      /\ v6 /\ v6' = v6 /\ v9' = v9
  BY DEF Log!LogEvent
<1>6. here \in 0..(Capacity - 1)
  BY <1>1, <1>2 DEF Log!SlotOf
<1> HIDE DEF e
<1>7. w.slot \in {e, v5[here]} /\ (w.ok => w.slot = e)
  BY <1>3 DEF Log!Writes
<1>8. \A x \in Log!Entry : x.seq \in Nat /\ x.n \in Nat
  BY DEF Log!Entry
<1>9. Log!Range(v1) \subseteq Log!Entry /\ Log!Kept \subseteq Log!Entry
  BY <1>1 DEF Log!Range, Log!Kept
<1>10. \A x \in Old : x \in Log!Entry /\ x.n <= v7
  BY <1>9 DEF Log!LogFits
<1>11. \A x \in Old : x.seq < v2 \/ x.n \in v9
  BY <1>1, <1>5 DEF Log!LogFits, Log!Range
<1>12. /\ v5' \in [0..(Capacity - 1) -> Log!Entry \cup {None}]
       /\ \A i \in DOMAIN v5' : i # here => v5'[i] = v5[i]
       /\ v5'[here] \in {e, v5[here]} /\ (w.ok => v5'[here] = e)
  BY <1>1, <1>3, <1>4, <1>6, <1>7
<1>13. Log!Kept' \subseteq Log!Kept \cup {e}
  BY <1>1, <1>12 DEF Log!Kept, Log!Range
<1>14. /\ v1' \in Seq(Log!Entry)
       /\ \E d \in {0, 1} :
            /\ Len(v1') = Len(v1) + 1 - d
            /\ \A i \in DOMAIN v1' : /\ i + d \in 1..(Len(v1) + 1)
                                     /\ v1'[i] = IF i + d = Len(v1) + 1 THEN e ELSE v1[i + d]
  <2>1. v1 \in Seq(Log!Entry) /\ e \in Log!Entry /\ Capacity \in Nat
    BY <1>1, <1>2, <1>3
  <2>2. v1' \in Seq(Log!Entry) /\ IsPushed(v1', v1, e)
    BY <1>5, <2>1, PushedKeeps
  <2> QED BY <2>2 DEF IsPushed
<1>15. PICK d \in {0, 1} :
         \A i \in DOMAIN v1' : /\ i + d \in 1..(Len(v1) + 1)
                               /\ v1'[i] = IF i + d = Len(v1) + 1 THEN e ELSE v1[i + d]
  BY <1>14
<1>16. Len(v1) \in Nat /\ DOMAIN v1 = 1..Len(v1) /\ DOMAIN v1' \subseteq Nat
  BY <1>1, <1>14
<1>17. ASSUME NEW i \in DOMAIN v1' PROVE v1'[i] = e \/ v1'[i] \in Log!Range(v1)
  <2>1. CASE i + d = Len(v1) + 1
    BY <1>15, <2>1
  <2>2. CASE i + d # Len(v1) + 1
    <3>1. i + d \in DOMAIN v1
      BY <1>15, <1>16, <2>2
    <3> QED BY <1>15, <2>2, <3>1 DEF Log!Range
  <2> QED BY <2>1, <2>2
<1>18. Log!Range(v1)' \subseteq Log!Range(v1) \cup {e}
  BY <1>17 DEF Log!Range
<1> DEFINE New == (Log!Range(v1) \cup Log!Kept)'
<1>19. New \subseteq Old \cup {e}
  BY <1>13, <1>18
<1> HIDE DEF Old, New, here
<1>20. \A i \in DOMAIN v5' : v5'[i] # None => Log!SlotOf(v5'[i].seq) = i
  BY <1>1, <1>3, <1>12 DEF Log!LogFits, here
<1>21. \A i, j \in DOMAIN v1' : i < j => v1'[i].seq < v1'[j].seq
  <2> SUFFICES ASSUME NEW i \in DOMAIN v1', NEW j \in DOMAIN v1', i < j
               PROVE  v1'[i].seq < v1'[j].seq
    OBVIOUS
  <2>1. i + d # Len(v1) + 1 /\ i + d \in DOMAIN v1 /\ v1'[i] = v1[i + d]
    BY <1>15, <1>16
  <2>2. v1[i + d].seq < v2
    BY <2>1 DEF Log!LogFits
  <2>3. CASE j + d = Len(v1) + 1
    BY <1>3, <1>15, <2>1, <2>2, <2>3
  <2>4. CASE j + d # Len(v1) + 1
    <3>1. j + d \in DOMAIN v1 /\ v1'[j] = v1[j + d] /\ i + d < j + d
      BY <1>15, <1>16, <2>4
    <3> QED BY <2>1, <3>1 DEF Log!LogFits
  <2> QED BY <2>3, <2>4
<1>22. \A i \in DOMAIN v1' :
         /\ v1'[i].seq < v2'
         /\ v1'[i].seq + Capacity < v2' \/ v1'[i] \in Log!Kept' \/ v1'[i].n \in v8'
  <2> SUFFICES ASSUME NEW x, x = e \/ x \in Log!Range(v1)
               PROVE  x.seq < v2' /\ (x.seq + Capacity < v2' \/ x \in Log!Kept' \/ x.n \in v8')
    BY <1>17
  <2>1. CASE x = e
    <3>1. x.seq < v2'
      BY <1>1, <1>3, <1>5, <2>1
    <3>2. CASE w.ok
      <4>1. v5'[here] = e /\ here \in DOMAIN v5'
        BY <1>6, <1>12, <3>2 DEF here
      <4>2. e \in Log!Kept'
        BY <1>3, <4>1 DEF Log!Kept, Log!Range
      <4> QED BY <2>1, <3>1, <4>2
    <3>3. CASE ~w.ok
      BY <1>4, <2>1, <3>1, <3>3
    <3> QED BY <3>2, <3>3
  <2>2. CASE x \in Log!Range(v1)
    <3>1. x.seq < v2 /\ (x.seq + Capacity < v2 \/ x \in Log!Kept \/ x.n \in v8)
      BY <2>2 DEF Log!LogFits, Log!Range
    <3>2. x \in Log!Entry /\ x.seq \in Nat
      BY <1>8, <1>9, <2>2
    <3>3. x.seq < v2' /\ (x.seq + Capacity < v2 => x.seq + Capacity < v2')
      BY <1>1, <1>2, <1>5, <3>1, <3>2
    <3>4. CASE x \in Log!Kept
      <4>1. PICK i \in DOMAIN v5 : v5[i] = x /\ x # None
        BY <3>4 DEF Log!Kept, Log!Range
      <4>2. Log!SlotOf(x.seq) = i
        BY <4>1 DEF Log!LogFits
      <4>3. CASE i = here
        <5>1. x.seq + Capacity <= v2
          BY <1>1, <3>1, <3>2, <4>2, <4>3, OneSlotIsFarApart DEF here
        <5>2. x.seq + Capacity < v2'
          BY <1>1, <1>2, <1>5, <3>2, <5>1
        <5> QED BY <3>3, <5>2
      <4>4. CASE i # here
        <5>1. x \in Log!Kept'
          BY <1>1, <1>12, <4>1, <4>4 DEF Log!Kept, Log!Range
        <5> QED BY <3>3, <5>1
      <4> QED BY <4>3, <4>4
    <3>5. CASE x.n \in v8
      BY <1>4, <3>3, <3>5
    <3> QED BY <3>1, <3>3, <3>4, <3>5
  <2> QED BY <2>1, <2>2
<1>23. \A x \in New : x.n <= v7'
  <2> SUFFICES ASSUME NEW x \in New PROVE x.n <= v7'
    OBVIOUS
  <2>1. CASE x = e
    BY <1>1, <1>3, <1>5, <2>1
  <2>2. CASE x \in Old
    <3>1. x.n \in Nat /\ x.n <= v7
      BY <1>8, <1>10, <2>2
    <3> QED BY <1>1, <1>5, <3>1
  <2> QED BY <1>19, <2>1, <2>2
<1>24. \A x, y \in New : x.seq < y.seq => x.n < y.n \/ y.n \in v9'
  <2> SUFFICES ASSUME NEW x \in New, NEW y \in New, x.seq < y.seq
               PROVE  x.n < y.n \/ y.n \in v9
    BY <1>5
  <2>1. CASE x \in Old /\ y \in Old
    BY <2>1 DEF Log!LogFits, Old
  <2>2. CASE x \in Old /\ y = e
    <3>1. x.n \in Nat /\ x.n <= v7
      BY <1>8, <1>10, <2>2
    <3> QED BY <1>1, <1>3, <2>2, <3>1
  <2>3. CASE x = e /\ y \in Old
    <3>1. y.seq \in Nat /\ e.seq = v2 /\ ~(y.seq < v2)
      BY <1>1, <1>3, <1>8, <1>10, <2>3
    <3> QED BY <1>11, <2>3, <3>1
  <2>4. CASE x = e /\ y = e
    BY <1>1, <1>3, <2>4
  <2> QED BY <1>19, <2>1, <2>2, <2>3, <2>4
<1>25. \A x \in Log!Kept' : x.seq < v2' \/ x.n \in v9'
  <2> SUFFICES ASSUME NEW x \in Log!Kept' PROVE x.seq < v2' \/ x.n \in v9'
    OBVIOUS
  <2>1. CASE x = e
    BY <1>1, <1>3, <1>5, <2>1
  <2>2. CASE x \in Old
    <3>1. x.seq \in Nat
      BY <1>8, <1>10, <2>2
    <3> QED BY <1>1, <1>5, <1>11, <2>2, <3>1
  <2> QED BY <1>13, <2>1, <2>2 DEF Old
<1>26. v6' \in BOOLEAN /\ v2' \in Nat \ {0} /\ v7' \in Nat
  BY <1>1, <1>5
<1> QED BY <1>12, <1>14, <1>20, <1>21, <1>22, <1>23, <1>24, <1>25, <1>26 DEF Log!LogFits, New

\* A restart empties the ring, and may tear the slot of the entry being written.
LEMMA RestartedFits ==
  ASSUME Log!LogFits, Log!EventLogAssumption, Log!Restart
  PROVE  Log!LogFits'
<1>1. /\ v6 \in BOOLEAN /\ v2 \in Nat \ {0} /\ v7 \in Nat
      /\ v5 \in [0..(Capacity - 1) -> Log!Entry \cup {None}]
  BY DEF Log!LogFits
<1>2. v1' = <<>> /\ v2' = 1 /\ v6' = FALSE /\ v9' = v9
  BY DEF Log!Restart
<1>3. /\ v5' \in [0..(Capacity - 1) -> Log!Entry \cup {None}]
      /\ \A i \in DOMAIN v5' : v5'[i] \in {v5[i], None}
      /\ v7' \in Nat /\ v7' >= v7
  <2>1. CASE UNCHANGED <<v5, v7>>
    BY <1>1, <2>1
  <2>2. CASE v7' = v7 + 1 /\ v5' = [v5 EXCEPT ![Log!SlotOf(v2)] = None]
    <3>1. v7' \in Nat /\ v7' >= v7
      BY <1>1, <2>2
    <3>2. DOMAIN v5' = DOMAIN v5 /\ \A i \in DOMAIN v5 : v5'[i] = v5[i] \/ v5'[i] = None
      BY <1>1, <2>2
    <3>3. v5' \in [0..(Capacity - 1) -> Log!Entry \cup {None}]
      BY <1>1, <2>2
    <3> QED BY <3>1, <3>2, <3>3
  <2> QED BY <2>1, <2>2 DEF Log!Restart
<1>4. Log!Kept' \subseteq Log!Kept
  BY <1>1, <1>3 DEF Log!Kept, Log!Range
<1>5. v1' \in Seq(Log!Entry) /\ DOMAIN v1' = {} /\ Log!Range(v1)' = {}
  BY <1>2 DEF Log!Range
<1>6. \A x \in Log!Kept : x.n <= v7 /\ x.n \in Nat
  BY <1>1 DEF Log!LogFits, Log!Kept, Log!Range, Log!Entry
<1>7. \A x \in Log!Kept' : x.n <= v7'
  BY <1>1, <1>3, <1>4, <1>6
<1>8. \A i \in DOMAIN v5' : v5'[i] # None => Log!SlotOf(v5'[i].seq) = i
  BY <1>1, <1>3 DEF Log!LogFits
<1>9. \A x, y \in Log!Kept' : x.seq < y.seq => x.n < y.n \/ y.n \in v9'
  BY <1>2, <1>4 DEF Log!LogFits
<1>10. v6' \in BOOLEAN /\ ~v6'
  BY <1>2, Zenon
<1>11. v2' \in Nat \ {0}
  BY <1>2
<1> QED BY <1>3, <1>5, <1>7, <1>8, <1>9, <1>10, <1>11 DEF Log!LogFits

\* What was found in the flash has a newest entry, if it is put in order.
LEMMA NextIsAfter ==
  ASSUME NEW S, S \subseteq Log!Entry, IsFiniteSet(S), NEW r \in Log!Sorted(S)
  PROVE  Log!NextAfter(S) \in Nat \ {0} /\ \A e \in S : e.seq < Log!NextAfter(S)
<1> DEFINE N == Cardinality(S)
<1>1. N \in Nat
  BY FS_CardinalityType
<1>2. r \in [1..N -> S] /\ \A i, j \in 1..N : i < j => r[i].seq < r[j].seq
  BY DEF Log!Sorted, Log!BySeq, Log!Cardinality, Cardinality
<1>3. \A x \in S : x.seq \in Nat
  BY DEF Log!Entry
<1>4. CASE S = {}
  BY <1>4 DEF Log!NextAfter
<1>5. CASE S # {}
  <2>1. IsFiniteSet(1..N) /\ Cardinality(1..N) = N
    <3>1. IsFiniteSet(1..N) /\ Cardinality(1..N) = IF 1 > N THEN 0 ELSE N - 1 + 1
      BY <1>1, FS_Interval
    <3> HIDE DEF N
    <3> QED BY <1>1, <3>1
  <2>2. r \in Injection(1..N, S)
    <3>1. ASSUME NEW i \in 1..N, NEW j \in 1..N, r[i] = r[j] PROVE i = j
      <4>1. r[i].seq \in Nat /\ r[j].seq \in Nat
        BY <1>2, <1>3
      <4> HIDE DEF N
      <4>2. ~(i < j) /\ ~(j < i)
        BY <1>2, <3>1, <4>1
      <4> QED BY <1>1, <4>2
    <3> QED BY <1>2, <3>1 DEF Injection, IsInjective
  <2>3. r \in Surjection(1..N, S)
    BY <2>1, <2>2, FS_Injection
  <2>4. \A x \in S : \E i \in 1..N : r[i] = x
    BY <2>3 DEF Surjection
  <2> HIDE DEF N
  <2>5. N \in 1..N
    BY <1>1, <1>5, <2>4
  <2>6. r[N] \in S /\ \A x \in S : x.seq <= r[N].seq
    <3>1. r[N] \in S
      BY <1>2, <2>5
    <3>2. ASSUME NEW x \in S PROVE x.seq <= r[N].seq
      <4>1. PICK i \in 1..N : r[i] = x
        BY <2>4
      <4>2. i = N \/ i < N
        BY <1>1
      <4> QED BY <1>2, <1>3, <2>5, <3>1, <4>1, <4>2
    <3> QED BY <3>1, <3>2
  <2>7. PICK top \in S : Log!NextAfter(S) = top.seq + 1 /\ \A x \in S : x.seq <= top.seq
    BY <1>5, <2>6 DEF Log!NextAfter
  <2> QED BY <1>3, <2>7
<1> QED BY <1>4, <1>5

\* A start.
LEMMA BegunFits ==
  ASSUME Log!LogFits, Log!EventLogAssumption, Log!Begin
  PROVE  Log!LogFits'
<1>1. /\ v6 \in BOOLEAN /\ v2 \in Nat \ {0} /\ v7 \in Nat
      /\ v5 \in [0..(Capacity - 1) -> Log!Entry \cup {None}]
      /\ Capacity \in Nat
  BY DEF Log!LogFits, Log!EventLogAssumption
<1>2. PICK bad : /\ \E valid \in {{v5[i] : i \in DOMAIN v5 \ bad} \ {None}} :
                      v1' \in Log!Sorted(valid) /\ v2' = Log!NextAfter(valid)
                 /\ v9' = v9 \cup {e.n : e \in {v5[i] : i \in bad} \ {None}}
                 /\ bad \subseteq DOMAIN v5
  <2>1. PICK bad \in {{}} \cup (IF v10 < LogMishaps THEN {{i} : i \in DOMAIN v5} ELSE {}) :
          /\ \E valid \in {{v5[i] : i \in DOMAIN v5 \ bad} \ {None}} :
               v1' \in Log!Sorted(valid) /\ v2' = Log!NextAfter(valid)
          /\ v9' = v9 \cup {e.n : e \in {v5[i] : i \in bad} \ {None}}
    BY DEF Log!Begin
  <2>2. bad \subseteq DOMAIN v5
    <3>1. bad = {} \/ bad \in {{i} : i \in DOMAIN v5}
      OBVIOUS
    <3> QED BY <3>1
  <2> QED BY <2>1, <2>2
<1> DEFINE S == {v5[i] : i \in DOMAIN v5 \ bad} \ {None}
<1>3. v1' \in Log!Sorted(S) /\ v2' = Log!NextAfter(S)
  BY <1>2
<1>4. v6' = TRUE /\ v5' = v5 /\ v7' = v7
  BY DEF Log!Begin
<1>5. S \subseteq Log!Kept /\ Log!Kept \subseteq Log!Entry
  BY <1>1 DEF Log!Kept, Log!Range
<1>6. IsFiniteSet(S)
  <2> DEFINE D == {i \in DOMAIN v5 \ bad : v5[i] # None}
             f == [i \in D |-> v5[i]]
  <2>1. D \subseteq 0..(Capacity - 1) /\ IsFiniteSet(0..(Capacity - 1))
    <3>1. 0 \in Int /\ Capacity - 1 \in Int
      BY <1>1
    <3> QED BY <1>1, <3>1, FS_Interval
  <2>2. IsFiniteSet(D)
    BY <2>1, FS_Subset
  <2>3. f \in Surjection(D, S)
    BY DEF Surjection
  <2> QED BY <2>2, <2>3, FS_Surjection
<1> HIDE DEF S
<1>7. Log!NextAfter(S) \in Nat \ {0} /\ \A e \in S : e.seq < Log!NextAfter(S)
  BY <1>3, <1>5, <1>6, NextIsAfter
<1>8. PICK N : /\ N \in Nat /\ v1' \in [1..N -> S]
               /\ \A i, j \in 1..N : i < j => v1'[i].seq < v1'[j].seq
  <2>1. Cardinality(S) \in Nat
    BY <1>6, FS_CardinalityType
  <2>2. v1' \in [1..Cardinality(S) -> S]
        /\ \A i, j \in 1..Cardinality(S) : i < j => v1'[i].seq < v1'[j].seq
    BY <1>3 DEF Log!Sorted, Log!BySeq, Log!Cardinality, Cardinality
  <2> QED BY <2>1, <2>2
<1>9. v1' \in Seq(Log!Entry) /\ DOMAIN v1' = 1..N
  BY <1>5, <1>8
<1>10. \A i \in DOMAIN v1' : v1'[i] \in S
  BY <1>8, <1>9
<1>11. Log!Range(v1)' \subseteq S /\ Log!Kept' = Log!Kept
  BY <1>4, <1>10 DEF Log!Range, Log!Kept
<1>12. (Log!Range(v1) \cup Log!Kept)' \subseteq Log!Kept
  BY <1>5, <1>11
<1>13. v2' \in Nat \ {0} /\ \A i \in DOMAIN v1' : v1'[i].seq < v2' /\ v1'[i] \in Log!Kept'
  BY <1>3, <1>5, <1>7, <1>10, <1>11
<1>14. \A x \in Log!Kept : x \in S \/ x.n \in v9'
  <2> SUFFICES ASSUME NEW x \in Log!Kept PROVE x \in S \/ x.n \in v9'
    OBVIOUS
  <2>1. PICK i \in DOMAIN v5 : v5[i] = x /\ x # None
    BY DEF Log!Kept, Log!Range
  <2>2. CASE i \in bad
    BY <1>2, <2>1, <2>2
  <2>3. CASE i \notin bad
    BY <2>1, <2>3 DEF S
  <2> QED BY <2>2, <2>3
<1>15. \A x \in Log!Kept' : x.seq < v2' \/ x.n \in v9'
  BY <1>3, <1>7, <1>11, <1>14
<1>16. \A x \in (Log!Range(v1) \cup Log!Kept)' : x.n <= v7'
  BY <1>4, <1>12 DEF Log!LogFits
<1>17. \A x, y \in (Log!Range(v1) \cup Log!Kept)' : x.seq < y.seq => x.n < y.n \/ y.n \in v9'
  BY <1>2, <1>12 DEF Log!LogFits
<1>18. \A i, j \in DOMAIN v1' : i < j => v1'[i].seq < v1'[j].seq
  BY <1>8, <1>9
<1>19. v6' \in BOOLEAN /\ v7' \in Nat
  BY <1>1, <1>4
<1>20. \A i \in DOMAIN v5' : v5'[i] # None => Log!SlotOf(v5'[i].seq) = i
  BY <1>4 DEF Log!LogFits
<1>21. v5' \in [0..(Capacity - 1) -> Log!Entry \cup {None}]
  BY <1>1, <1>4
<1> QED BY <1>9, <1>13, <1>15, <1>16, <1>17, <1>18, <1>19, <1>20, <1>21 DEF Log!LogFits

\* Every step of the log keeps LogFits.
LEMMA LogKeeps ==
  ASSUME Log!LogFits, [Log!Next]_vars, Log!EventLogAssumption
  PROVE  Log!LogFits'
<1>1. ASSUME NEW k \in Source, Log!LogEvent(k) PROVE Log!LogFits'
  BY <1>1, LoggedFits
<1>2. CASE Log!Elapse \/ UNCHANGED vars
  <2>1. v1' = v1 /\ v2' = v2 /\ v5' = v5 /\ v6' = v6 /\ v7' = v7 /\ v8' = v8 /\ v9' = v9
    BY <1>2 DEF Log!Elapse, vars
  <2> QED BY <2>1 DEF Log!LogFits, Log!Kept, Log!Range
<1>3. CASE Log!Restart
  BY <1>3, RestartedFits
<1>4. CASE Log!Begin
  BY <1>4, BegunFits
<1> QED BY <1>1, <1>2, <1>3, <1>4 DEF Log!Next

\* LogFits says more than LogIsOne.
LEMMA LogSafe ==
  ASSUME Log!LogFits
  PROVE  Log!LogIsOne
<1>1. v1 \in Seq(Log!Entry)
  BY DEF Log!LogFits
<1>2. ASSUME NEW i \in DOMAIN v1, NEW j \in DOMAIN v1, i < j
      PROVE  v1[i].n < v1[j].n \/ v1[j].n \in v9
  <2>1. v1[i] \in Log!Range(v1) /\ v1[j] \in Log!Range(v1) /\ v1[i].seq < v1[j].seq
    BY <1>2 DEF Log!Range, Log!LogFits
  <2> QED BY <2>1 DEF Log!LogFits
<1>3. ASSUME NEW e \in Log!Range(v1)
      PROVE  e.seq + Capacity < v2 \/ e \in Log!Range(v5) \/ e.n \in v8
  BY DEF Log!Range, Log!Kept, Log!LogFits
<1> QED BY <1>2, <1>3 DEF Log!LogIsOne

-----------------------------------------------------------------------------
(* Calendar.                                                               *)

\* A day in its era: c centuries, q times four years, r years and doy days of a year that
\* begins in March.
InEra(c, q, r, doy) ==
  /\ c \in Int /\ q \in Int /\ r \in Int /\ doy \in Int
  /\ 0 <= c /\ c <= 3 /\ 0 <= q /\ q <= 24 /\ 0 <= r /\ r <= 3 /\ 0 <= doy /\ doy <= 365
  /\ doy = 365 => r = 3 /\ (q < 24 \/ c = 3)
DayOfEra(c, q, r, doy) == 36524 * c + 1461 * q + 365 * r + doy
YearOf(c, q, r) == 100 * c + 4 * q + r

\* Every day of an era is one of those.
LEMMA EraIsCovered ==
  ASSUME NEW doe \in Nat, doe <= 146096
  PROVE  \E c, q, r, doy : InEra(c, q, r, doy) /\ doe = DayOfEra(c, q, r, doy)
<1>1. PICK c \in Nat, e \in Nat : c <= 3 /\ e <= 36524 /\ doe = 36524 * c + e /\ (e = 36524 => c = 3)
  <2>1. CASE doe < 36524
    <3>1. doe = 36524 * 0 + doe /\ doe \in Nat /\ doe < 36524
      BY <2>1, SMT
    <3> QED BY <3>1, SMT
  <2>2. CASE doe >= 36524 /\ doe < 73048
    <3>1. doe = 36524 * 1 + (doe - 36524) /\ doe - 36524 \in Nat /\ doe - 36524 < 36524
      BY <2>2, SMT
    <3> QED BY <3>1, SMT
  <2>3. CASE doe >= 73048 /\ doe < 109572
    <3>1. doe = 36524 * 2 + (doe - 73048) /\ doe - 73048 \in Nat /\ doe - 73048 < 36524
      BY <2>3, SMT
    <3> QED BY <3>1, SMT
  <2>4. CASE doe >= 109572
    <3>1. doe = 36524 * 3 + (doe - 109572) /\ doe - 109572 \in Nat /\ doe - 109572 <= 36524
      BY <2>4, SMT
    <3> QED BY <3>1, SMT
  <2> QED BY <2>1, <2>2, <2>3, <2>4, SMT
<1>2. PICK q \in Nat, f \in Nat : q <= 24 /\ f <= 1460 /\ e = 1461 * q + f
  <2>1. /\ e = 1461 * (e \div 1461) + (e % 1461) /\ e \div 1461 \in Nat /\ e % 1461 \in Nat
        /\ e \div 1461 <= 24 /\ e % 1461 <= 1460
    BY <1>1, SMTT(20)
  <2> QED BY <2>1, SMT
<1>3. PICK r \in Nat, doy \in Nat : r <= 3 /\ doy <= 365 /\ f = 365 * r + doy /\ (doy = 365 => r = 3)
  <2>1. CASE f < 1095
    <3>1. /\ f = 365 * (f \div 365) + (f % 365) /\ f \div 365 \in Nat /\ f % 365 \in Nat
          /\ f \div 365 <= 3 /\ f % 365 < 365
      BY <2>1, SMTT(20)
    <3> QED BY <3>1, SMT
  <2>2. CASE f >= 1095
    <3>1. f = 365 * 3 + (f - 1095) /\ f - 1095 \in Nat /\ f - 1095 <= 365
      BY <1>2, <2>2, SMT
    <3> QED BY <3>1, SMT
  <2> QED BY <2>1, <2>2, SMT
<1>4. doy = 365 => q < 24 \/ c = 3
  BY <1>1, <1>2, <1>3, SMT
<1>5. InEra(c, q, r, doy) /\ doe = DayOfEra(c, q, r, doy)
  BY <1>1, <1>2, <1>3, <1>4, SMT DEF InEra, DayOfEra
<1> QED BY <1>5, SMT

\* yearOfEra in CivilTime.cpp finds its year.
LEMMA EraTells ==
  ASSUME NEW c, NEW q, NEW r, NEW doy, InEra(c, q, r, doy)
  PROVE  /\ DayOfEra(c, q, r, doy) \in Nat /\ DayOfEra(c, q, r, doy) <= 146096
         /\ Cal!YearOfEra(DayOfEra(c, q, r, doy)) = YearOf(c, q, r)
         /\ YearOf(c, q, r) \in Nat /\ YearOf(c, q, r) <= 399
         /\ YearOf(c, q, r) \div 4 = 25 * c + q /\ YearOf(c, q, r) \div 100 = c
<1> DEFINE doe == DayOfEra(c, q, r, doy)
           y == YearOf(c, q, r)
<1>1. /\ c \in Int /\ q \in Int /\ r \in Int /\ doy \in Int
      /\ 0 <= c /\ c <= 3 /\ 0 <= q /\ q <= 24 /\ 0 <= r /\ r <= 3 /\ 0 <= doy /\ doy <= 365
      /\ doy = 365 => r = 3 /\ (q < 24 \/ c = 3)
  BY SMT DEF InEra
<1>2. doe = 36524 * c + 1461 * q + 365 * r + doy /\ y = 100 * c + 4 * q + r
  BY SMT DEF DayOfEra, YearOf
<1>3. Cal!YearOfEra(doe) = (doe - (doe \div 1460) + (doe \div 36524) - (doe \div 146096)) \div 365
  BY SMT DEF Cal!YearOfEra
<1> HIDE DEF doe, y
<1>4. doe \in Nat /\ doe <= 146096 /\ y \in Nat /\ y <= 399
  BY <1>1, <1>2, SMT
<1>5. (doe \div 36524) - (doe \div 146096) = c
  BY <1>1, <1>2, <1>4, SMTT(30)
<1>6. /\ 24 * c + q + 365 * r + doy < 1460 => doe \div 1460 = 25 * c + q
      /\ 24 * c + q + 365 * r + doy >= 1460 => doe \div 1460 = 25 * c + q + 1
  BY <1>1, <1>2, <1>4, SMTT(30)
<1>7. /\ 24 * c + q + 365 * r + doy < 1460 => doy <= 364
      /\ 24 * c + q + 365 * r + doy >= 1460 => doy >= 1
  BY <1>1, SMT
<1>8. \E k \in Nat : k <= 364 /\ doe - (doe \div 1460) + (doe \div 36524) - (doe \div 146096) = 365 * y + k
  <2>1. CASE 24 * c + q + 365 * r + doy < 1460
    <3>1. doe - (doe \div 1460) + (doe \div 36524) - (doe \div 146096) = 365 * y + doy
      BY <1>1, <1>2, <1>4, <1>5, <1>6, <1>7, <2>1, SMT
    <3> QED BY <3>1, <1>1, <1>7, <2>1, SMT
  <2>2. CASE 24 * c + q + 365 * r + doy >= 1460
    <3>1. doe - (doe \div 1460) + (doe \div 36524) - (doe \div 146096) = 365 * y + (doy - 1)
      BY <1>1, <1>2, <1>4, <1>5, <1>6, <1>7, <2>2, SMT
    <3>2. doy - 1 \in Nat /\ doy - 1 <= 364
      BY <1>1, <1>7, <2>2, SMT
    <3> QED BY <3>1, <3>2, SMT
  <2> QED BY <1>1, <2>1, <2>2, SMT
<1>9. Cal!YearOfEra(doe) = y
  BY <1>3, <1>4, <1>8, SMT
<1>10. y \div 4 = 25 * c + q /\ y \div 100 = c
  BY <1>1, <1>2, SMT
<1> QED BY <1>4, <1>9, <1>10, SMT DEF doe, y

\* A day of a year that begins in March, as a date.
MonthIndex(doy) == (5 * doy + 2) \div 153
MonthStart(mp) == (153 * mp + 2) \div 5
MonthNumber(mp) == mp + (IF mp < 10 THEN 3 ELSE -9)
MonthYear(mp) == IF mp <= 9 THEN 0 ELSE 1
Date(y, m, d) == [year |-> y, month |-> m, day |-> d]
DateIn(y, doy) ==
  Date(y + MonthYear(MonthIndex(doy)), MonthNumber(MonthIndex(doy)), doy - MonthStart(MonthIndex(doy)) + 1)

\* The day `d` is day `doy` of that year of the era.
DayIs(d, era, c, q, r, doy) ==
  /\ d \in Nat /\ era \in Nat /\ InEra(c, q, r, doy)
  /\ d + 719468 = 146097 * era + DayOfEra(c, q, r, doy)
YearIs(era, c, q, r) == 400 * era + YearOf(c, q, r)

\* Every day from 1970 on is in an era.
LEMMA DayIsCovered ==
  ASSUME NEW d \in Nat
  PROVE  \E era, c, q, r, doy : DayIs(d, era, c, q, r, doy)
<1> DEFINE z == d + 719468
           era == z \div 146097
           doe == z % 146097
<1>1. z \in Nat /\ era \in Nat /\ doe \in Nat /\ doe <= 146096 /\ z = 146097 * era + doe
  BY SMTT(20)
<1> HIDE DEF era, doe
<1>2. PICK c, q, r, doy : InEra(c, q, r, doy) /\ doe = DayOfEra(c, q, r, doy)
  BY <1>1, EraIsCovered, SMT
<1>3. DayIs(d, era, c, q, r, doy)
  BY <1>1, <1>2, SMT DEF DayIs
<1> QED BY <1>3, SMT

\* What the month of a day is.
LEMMA MonthOfDay ==
  ASSUME NEW doy \in Int, 0 <= doy, doy <= 365
  PROVE  /\ MonthIndex(doy) \in Int /\ 0 <= MonthIndex(doy) /\ MonthIndex(doy) <= 11
         /\ MonthStart(MonthIndex(doy)) <= doy /\ doy < MonthStart(MonthIndex(doy) + 1)
<1> DEFINE mp == MonthIndex(doy)
<1>1. mp = (5 * doy + 2) \div 153
  BY SMT DEF MonthIndex
<1> HIDE DEF mp
<1>2. mp \in Int /\ 0 <= mp /\ mp <= 11 /\ 153 * mp <= 5 * doy + 2 /\ 5 * doy + 2 < 153 * mp + 153
  BY <1>1, SMTT(20)
<1>3. MonthStart(mp) <= doy /\ doy < MonthStart(mp + 1)
  BY <1>2, SMTT(20) DEF MonthStart
<1> QED BY <1>2, <1>3, SMT DEF mp

\* civilFromDays finds the date.
LEMMA DateOfDay ==
  ASSUME NEW d, NEW era, NEW c, NEW q, NEW r, NEW doy, DayIs(d, era, c, q, r, doy)
  PROVE  Cal!CivilFromDays(d) = DateIn(YearIs(era, c, q, r), doy)
<1> DEFINE doe == DayOfEra(c, q, r, doy)
           y == YearOf(c, q, r)
<1>1. d \in Nat /\ era \in Nat /\ InEra(c, q, r, doy) /\ d + 719468 = 146097 * era + doe
  BY SMT DEF DayIs
<1>2. /\ doe \in Nat /\ doe <= 146096 /\ Cal!YearOfEra(doe) = y /\ y \in Nat /\ y <= 399
      /\ y \div 4 = 25 * c + q /\ y \div 100 = c
  BY <1>1, EraTells, SMT
<1>3. /\ doe = 36524 * c + 1461 * q + 365 * r + doy /\ y = 100 * c + 4 * q + r
      /\ c \in Int /\ q \in Int /\ r \in Int /\ doy \in Int /\ 0 <= doy /\ doy <= 365
  BY <1>1, SMT DEF DayOfEra, YearOf, InEra
<1> HIDE DEF doe, y
<1>4. (d + 719468) \div 146097 = era /\ (d + 719468) % 146097 = doe
  BY <1>1, <1>2, SMTT(20)
<1>5. doe - (365 * y + (y \div 4) - (y \div 100)) = doy
  BY <1>2, <1>3, SMT
<1>6. YearIs(era, c, q, r) = y + era * 400
  BY <1>1, <1>2, <1>3, SMT DEF YearIs, y
<1>7. MonthIndex(doy) \in Int /\ MonthNumber(MonthIndex(doy)) \in Int
  BY <1>3, SMT DEF MonthIndex, MonthNumber
<1>8. Cal!CivilFromDays(d) =
        [year |-> y + era * 400 + (IF MonthNumber(MonthIndex(doy)) <= 2 THEN 1 ELSE 0),
         month |-> MonthNumber(MonthIndex(doy)),
         day |-> doy - MonthStart(MonthIndex(doy)) + 1]
  BY <1>2, <1>4, <1>5, SMT DEF Cal!CivilFromDays, MonthIndex, MonthNumber, MonthStart
<1>9. (IF MonthNumber(MonthIndex(doy)) <= 2 THEN 1 ELSE 0) = MonthYear(MonthIndex(doy))
  BY <1>3, MonthOfDay, SMT DEF MonthNumber, MonthYear
<1>10. MonthYear(MonthIndex(doy)) \in Int
  BY SMT DEF MonthYear
<1> QED BY <1>6, <1>8, <1>9, SMT DEF DateIn, Date

\* Where each month starts.
LEMMA MonthStarts ==
  /\ MonthStart(0) = 0 /\ MonthStart(1) = 31 /\ MonthStart(2) = 61 /\ MonthStart(3) = 92
  /\ MonthStart(4) = 122 /\ MonthStart(5) = 153 /\ MonthStart(6) = 184 /\ MonthStart(7) = 214
  /\ MonthStart(8) = 245 /\ MonthStart(9) = 275 /\ MonthStart(10) = 306 /\ MonthStart(11) = 337
  /\ MonthStart(12) = 367
BY SMT DEF MonthStart

\* A day between the starts of two months is of the first.
LEMMA MonthIsWhere ==
  ASSUME NEW doy \in Int, NEW mp \in Int, 0 <= mp, mp <= 11,
         MonthStart(mp) <= doy, doy < MonthStart(mp + 1)
  PROVE  MonthIndex(doy) = mp
<1>1. /\ 153 * mp + 2 - 4 <= 5 * MonthStart(mp) /\ 5 * MonthStart(mp + 1) <= 153 * (mp + 1) + 2
      /\ MonthStart(mp) \in Int /\ MonthStart(mp + 1) \in Int
  BY SMTT(20) DEF MonthStart
<1>2. 153 * mp <= 5 * doy + 2 /\ 5 * doy + 2 < 153 * mp + 153
  BY <1>1, SMT
<1> QED BY <1>2, SMTT(20) DEF MonthIndex

\* The year that ends in February of this one is a leap year.
LEMMA LeapOfYear ==
  ASSUME NEW era \in Nat, NEW c, NEW q, NEW r, NEW doy, InEra(c, q, r, doy)
  PROVE  /\ Cal!IsLeapYear(YearIs(era, c, q, r) + 1) <=> r = 3 /\ (q < 24 \/ c = 3)
         /\ YearIs(era, c, q, r) \in Nat
<1> DEFINE Y == YearIs(era, c, q, r)
<1>1. /\ c \in Int /\ q \in Int /\ r \in Int
      /\ 0 <= c /\ c <= 3 /\ 0 <= q /\ q <= 24 /\ 0 <= r /\ r <= 3
  BY SMT DEF InEra
<1>2. Y = 400 * era + 100 * c + 4 * q + r
  BY <1>1, SMT DEF YearIs, YearOf
<1> HIDE DEF Y
<1>3. (Y + 1) % 4 = 0 <=> r = 3
  BY <1>1, <1>2, SMTT(20)
<1>4. (Y + 1) % 100 = 0 <=> r = 3 /\ q = 24
  BY <1>1, <1>2, SMTT(20)
<1>5. (Y + 1) % 400 = 0 <=> r = 3 /\ q = 24 /\ c = 3
  BY <1>1, <1>2, SMTT(20)
<1>6. Y \in Nat
  BY <1>1, <1>2, SMT
<1>7. Cal!IsLeapYear(Y + 1) <=> r = 3 /\ (q < 24 \/ c = 3)
  BY <1>1, <1>3, <1>4, <1>5, SMT DEF Cal!IsLeapYear
<1> QED BY <1>6, <1>7, SMT DEF Y

\* How long each month is, by where it starts.
LEMMA MonthLengths ==
  ASSUME NEW y \in Int, NEW mp \in Int, 0 <= mp, mp <= 10
  PROVE  /\ Cal!DaysInMonth(y, MonthNumber(mp)) = MonthStart(mp + 1) - MonthStart(mp)
         /\ MonthStart(mp) \in Int /\ MonthStart(mp + 1) \in Int
         /\ MonthNumber(mp) \in Int /\ 1 <= MonthNumber(mp) /\ MonthNumber(mp) <= 12
<1>1. CASE mp = 0
  BY <1>1, MonthStarts, SMT DEF Cal!DaysInMonth, MonthNumber
<1>2. CASE mp = 1
  BY <1>2, MonthStarts, SMT DEF Cal!DaysInMonth, MonthNumber
<1>3. CASE mp = 2
  BY <1>3, MonthStarts, SMT DEF Cal!DaysInMonth, MonthNumber
<1>4. CASE mp = 3
  BY <1>4, MonthStarts, SMT DEF Cal!DaysInMonth, MonthNumber
<1>5. CASE mp = 4
  BY <1>5, MonthStarts, SMT DEF Cal!DaysInMonth, MonthNumber
<1>6. CASE mp = 5
  BY <1>6, MonthStarts, SMT DEF Cal!DaysInMonth, MonthNumber
<1>7. CASE mp = 6
  BY <1>7, MonthStarts, SMT DEF Cal!DaysInMonth, MonthNumber
<1>8. CASE mp = 7
  BY <1>8, MonthStarts, SMT DEF Cal!DaysInMonth, MonthNumber
<1>9. CASE mp = 8
  BY <1>9, MonthStarts, SMT DEF Cal!DaysInMonth, MonthNumber
<1>10. CASE mp = 9
  BY <1>10, MonthStarts, SMT DEF Cal!DaysInMonth, MonthNumber
<1>11. CASE mp = 10
  BY <1>11, MonthStarts, SMT DEF Cal!DaysInMonth, MonthNumber
<1> QED BY <1>1, <1>2, <1>3, <1>4, <1>5, <1>6, <1>7, <1>8, <1>9, <1>10, <1>11, SMT

\* The fields of a date.
LEMMA DateFields ==
  ASSUME NEW y \in Int, NEW doy \in Int, 0 <= doy, doy <= 365
  PROVE  /\ DateIn(y, doy) = Date(y + MonthYear(MonthIndex(doy)), MonthNumber(MonthIndex(doy)),
                                  doy - MonthStart(MonthIndex(doy)) + 1)
         /\ MonthIndex(doy) \in Int /\ 0 <= MonthIndex(doy) /\ MonthIndex(doy) <= 11
         /\ MonthStart(MonthIndex(doy)) \in Int /\ MonthStart(MonthIndex(doy) + 1) \in Int
         /\ MonthStart(MonthIndex(doy)) <= doy /\ doy < MonthStart(MonthIndex(doy) + 1)
<1> DEFINE mp == MonthIndex(doy)
<1>1. /\ mp \in Int /\ 0 <= mp /\ mp <= 11
      /\ MonthStart(mp) <= doy /\ doy < MonthStart(mp + 1)
  BY MonthOfDay, SMT
<1>2. /\ MonthStart(mp) \in Int /\ MonthStart(mp + 1) \in Int
  BY <1>1, SMT DEF MonthStart
<1> QED BY <1>1, <1>2, SMT DEF DateIn

\* A month has a number from 1 to 12.
LEMMA MonthNumbers ==
  ASSUME NEW mp \in Int, 0 <= mp, mp <= 11
  PROVE  /\ MonthNumber(mp) \in Int /\ 1 <= MonthNumber(mp) /\ MonthNumber(mp) <= 12
         /\ (MonthNumber(mp) < 12 <=> mp # 9)
         /\ MonthYear(mp) \in Int
BY SMT DEF MonthNumber, MonthYear

\* The day after a date, by its fields.
LEMMA TomorrowOf ==
  ASSUME NEW y \in Int, NEW m \in Int, NEW d \in Int
  PROVE  /\ d < Cal!DaysInMonth(y, m) => Cal!Tomorrow(Date(y, m, d)) = Date(y, m, d + 1)
         /\ d = Cal!DaysInMonth(y, m) /\ m < 12 => Cal!Tomorrow(Date(y, m, d)) = Date(y, m + 1, 1)
         /\ d = Cal!DaysInMonth(y, m) /\ ~(m < 12) => Cal!Tomorrow(Date(y, m, d)) = Date(y + 1, 1, 1)
<1> DEFINE date == Date(y, m, d)
<1>1. [date EXCEPT !.day = @ + 1] = [year |-> y, month |-> m, day |-> d + 1]
  BY SMT DEF Date
<1>2. date.year = y /\ date.month = m /\ date.day = d
  BY SMT DEF Date
<1> HIDE DEF date
<1>4. CASE d < Cal!DaysInMonth(y, m)
  BY <1>1, <1>2, <1>4, SMT DEF Cal!Tomorrow, Date
<1>5. CASE d = Cal!DaysInMonth(y, m) /\ m < 12
  <2>1. ~(d < Cal!DaysInMonth(y, m))
    BY <1>5, SMT
  <2> QED BY <1>2, <1>5, <2>1, SMT DEF Cal!Tomorrow, Date
<1>6. CASE d = Cal!DaysInMonth(y, m) /\ ~(m < 12)
  <2>1. ~(d < Cal!DaysInMonth(y, m))
    BY <1>6, SMT
  <2> QED BY <1>2, <1>6, <2>1, SMT DEF Cal!Tomorrow, Date
<1> QED BY <1>4, <1>5, <1>6, SMT DEF date

\* The next day of the same year.
LEMMA NextInYear ==
  ASSUME NEW y \in Nat, NEW doy \in Int, 0 <= doy, doy + 1 <= 365,
         doy + 1 = 365 => Cal!IsLeapYear(y + 1)
  PROVE  DateIn(y, doy + 1) = Cal!Tomorrow(DateIn(y, doy))
<1> DEFINE mp == MonthIndex(doy)
           next == doy + 1
           ml == MonthIndex(next)
           year == y + MonthYear(mp)
           d == doy - MonthStart(mp) + 1
<1>1. /\ DateIn(y, doy) = Date(year, MonthNumber(mp), d)
      /\ mp \in Int /\ 0 <= mp /\ mp <= 11
      /\ MonthStart(mp) \in Int /\ MonthStart(mp + 1) \in Int
      /\ MonthStart(mp) <= doy /\ doy < MonthStart(mp + 1)
      /\ MonthNumber(mp) \in Int /\ (MonthNumber(mp) < 12 <=> mp # 9) /\ MonthYear(mp) \in Int
  <2>1. /\ DateIn(y, doy) = Date(year, MonthNumber(mp), d)
        /\ mp \in Int /\ 0 <= mp /\ mp <= 11
        /\ MonthStart(mp) \in Int /\ MonthStart(mp + 1) \in Int
        /\ MonthStart(mp) <= doy /\ doy < MonthStart(mp + 1)
    BY DateFields, SMT
  <2> HIDE DEF mp, year, d
  <2> QED BY <2>1, MonthNumbers, SMT
<1>2. next \in Int /\ 0 <= next /\ next <= 365 /\ next = doy + 1 /\ y \in Int
  BY SMT
<1>3. year = y + MonthYear(mp) /\ d = doy - MonthStart(mp) + 1 /\ year \in Int /\ d \in Int
  BY <1>1, SMT
<1> HIDE DEF mp, next, year, d
<1>4. DateIn(y, next) = Date(y + MonthYear(ml), MonthNumber(ml), next - MonthStart(ml) + 1)
  BY <1>2, DateFields, SMT
<1> HIDE DEF ml
<1>5. CASE next < MonthStart(mp + 1)
  <2>1. ml = mp
    BY <1>1, <1>2, <1>5, MonthIsWhere, SMT DEF ml
  <2>2. d < Cal!DaysInMonth(year, MonthNumber(mp))
    <3>1. CASE mp <= 10
      BY <1>1, <1>2, <1>3, <1>5, <3>1, MonthLengths, SMT
    <3>2. CASE mp = 11
      <4>1. MonthStart(11) = 337 /\ MonthNumber(11) = 2 /\ year = y + 1
        BY <1>3, <3>2, MonthStarts, SMT DEF MonthNumber, MonthYear
      <4>2. Cal!DaysInMonth(y + 1, 2) = IF Cal!IsLeapYear(y + 1) THEN 29 ELSE 28
        BY SMT DEF Cal!DaysInMonth
      <4> QED BY <1>1, <1>2, <1>3, <3>2, <4>1, <4>2, SMT DEF next
    <3> QED BY <1>1, <3>1, <3>2, SMT
  <2>3. Cal!Tomorrow(DateIn(y, doy)) = Date(year, MonthNumber(mp), d + 1)
    BY <1>1, <1>3, <2>2, TomorrowOf, SMT
  <2>4. next - MonthStart(mp) + 1 = d + 1
    BY <1>1, <1>2, <1>3, SMT
  <2>5. DateIn(y, next) = Cal!Tomorrow(DateIn(y, doy))
    BY <1>3, <1>4, <2>1, <2>3, <2>4, SMT
  <2> QED BY <2>5, SMT DEF next
<1>6. CASE next >= MonthStart(mp + 1)
  <2>1. next = MonthStart(mp + 1) /\ mp <= 10
    BY <1>1, <1>2, <1>6, MonthStarts, SMT
  <2>2. MonthStart(mp + 1) < MonthStart(mp + 1 + 1) /\ mp + 1 \in Int /\ 0 <= mp + 1 /\ mp + 1 <= 11
    BY <1>1, <2>1, SMT DEF MonthStart
  <2>3. ml = mp + 1
    BY <1>1, <1>2, <2>1, <2>2, MonthIsWhere, SMT DEF ml
  <2>4. d = Cal!DaysInMonth(year, MonthNumber(mp))
    BY <1>1, <1>2, <1>3, <2>1, MonthLengths, SMT
  <2>5. DateIn(y, next) = Date(y + MonthYear(mp + 1), MonthNumber(mp + 1), 1)
    BY <1>1, <1>2, <1>4, <2>1, <2>3, SMT
  <2>6. CASE mp # 9
    <3>1. Cal!Tomorrow(DateIn(y, doy)) = Date(year, MonthNumber(mp) + 1, 1)
      BY <1>1, <1>3, <2>4, <2>6, TomorrowOf, SMT
    <3>2. MonthNumber(mp + 1) = MonthNumber(mp) + 1 /\ y + MonthYear(mp + 1) = year
      BY <1>1, <1>3, <2>1, <2>6, SMT DEF MonthNumber, MonthYear
    <3> QED BY <2>5, <3>1, <3>2, SMT DEF next
  <2>7. CASE mp = 9
    <3>1. Cal!Tomorrow(DateIn(y, doy)) = Date(year + 1, 1, 1)
      BY <1>1, <1>3, <2>4, <2>7, TomorrowOf, SMT
    <3>2. MonthNumber(mp + 1) = 1 /\ y + MonthYear(mp + 1) = year + 1
      BY <1>3, <2>7, SMT DEF MonthNumber, MonthYear
    <3> QED BY <2>5, <3>1, <3>2, SMT DEF next
  <2> QED BY <2>6, <2>7, SMT
<1> QED BY <1>1, <1>2, <1>5, <1>6, SMT

\* The first day of the next year, after the last of February.
LEMMA NextYear ==
  ASSUME NEW y \in Nat, NEW doy \in Int,
         doy = IF Cal!IsLeapYear(y + 1) THEN 365 ELSE 364
  PROVE  DateIn(y + 1, 0) = Cal!Tomorrow(DateIn(y, doy))
<1>1. MonthIndex(0) = 0 /\ MonthIndex(doy) = 11
  BY SMTT(20) DEF MonthIndex
<1>2. DateIn(y + 1, 0) = Date(y + 1, 3, 1)
  BY <1>1, MonthStarts, SMT DEF DateIn, MonthNumber, MonthYear
<1>3. DateIn(y, doy) = Date(y + 1, 2, doy - 336)
  BY <1>1, MonthStarts, SMT DEF DateIn, MonthNumber, MonthYear
<1>4. doy - 336 = Cal!DaysInMonth(y + 1, 2)
  BY SMT DEF Cal!DaysInMonth
<1>5. y + 1 \in Int /\ doy - 336 \in Int
  BY SMT
<1> QED BY <1>2, <1>3, <1>4, <1>5, TomorrowOf, SMT

\* The last day of the year that begins in March.
LastOfYear(c, q, r) == IF r = 3 /\ (q < 24 \/ c = 3) THEN 365 ELSE 364

\* The day after a day of an era.
LEMMA DayAfter ==
  ASSUME NEW d, NEW era, NEW c, NEW q, NEW r, NEW doy, DayIs(d, era, c, q, r, doy)
  PROVE  /\ doy <= LastOfYear(c, q, r)
         /\ doy < LastOfYear(c, q, r) => DayIs(d + 1, era, c, q, r, doy + 1)
         /\ doy = LastOfYear(c, q, r) =>
              \E f, d2, q2, r2 : DayIs(d + 1, f, d2, q2, r2, 0) /\ YearIs(f, d2, q2, r2) = YearIs(era, c, q, r) + 1
<1>1. /\ d \in Nat /\ era \in Nat /\ c \in Int /\ q \in Int /\ r \in Int /\ doy \in Int
      /\ 0 <= c /\ c <= 3 /\ 0 <= q /\ q <= 24 /\ 0 <= r /\ r <= 3 /\ 0 <= doy /\ doy <= 365
      /\ doy = 365 => r = 3 /\ (q < 24 \/ c = 3)
      /\ d + 719468 = 146097 * era + (36524 * c + 1461 * q + 365 * r + doy)
  BY SMT DEF DayIs, InEra, DayOfEra
<1>2. doy <= LastOfYear(c, q, r)
  BY <1>1, SMT DEF LastOfYear
<1>3. ASSUME doy < LastOfYear(c, q, r) PROVE DayIs(d + 1, era, c, q, r, doy + 1)
  <2>1. InEra(c, q, r, doy + 1)
    BY <1>1, <1>3, SMT DEF InEra, LastOfYear
  <2> QED BY <1>1, <2>1, SMT DEF DayIs, DayOfEra
<1>4. ASSUME doy = LastOfYear(c, q, r)
      PROVE  \E f, d2, q2, r2 : DayIs(d + 1, f, d2, q2, r2, 0) /\ YearIs(f, d2, q2, r2) = YearIs(era, c, q, r) + 1
  <2>1. CASE r < 3
    <3>1. DayIs(d + 1, era, c, q, r + 1, 0)
      BY <1>1, <1>4, <2>1, SMT DEF DayIs, InEra, DayOfEra, LastOfYear
    <3>2. YearIs(era, c, q, r + 1) = YearIs(era, c, q, r) + 1
      BY <1>1, SMT DEF YearIs, YearOf
    <3> QED BY <3>1, <3>2, SMT
  <2>2. CASE r = 3 /\ q < 24
    <3>1. DayIs(d + 1, era, c, q + 1, 0, 0)
      BY <1>1, <1>4, <2>2, SMT DEF DayIs, InEra, DayOfEra, LastOfYear
    <3>2. YearIs(era, c, q + 1, 0) = YearIs(era, c, q, r) + 1
      BY <1>1, <2>2, SMT DEF YearIs, YearOf
    <3> QED BY <3>1, <3>2, SMT
  <2>3. CASE r = 3 /\ q = 24 /\ c < 3
    <3>1. DayIs(d + 1, era, c + 1, 0, 0, 0)
      BY <1>1, <1>4, <2>3, SMT DEF DayIs, InEra, DayOfEra, LastOfYear
    <3>2. YearIs(era, c + 1, 0, 0) = YearIs(era, c, q, r) + 1
      BY <1>1, <2>3, SMT DEF YearIs, YearOf
    <3> QED BY <3>1, <3>2, SMT
  <2>4. CASE r = 3 /\ q = 24 /\ c = 3
    <3>1. DayIs(d + 1, era + 1, 0, 0, 0, 0)
      BY <1>1, <1>4, <2>4, SMT DEF DayIs, InEra, DayOfEra, LastOfYear
    <3>2. YearIs(era + 1, 0, 0, 0) = YearIs(era, c, q, r) + 1
      BY <1>1, <2>4, SMT DEF YearIs, YearOf
    <3> QED BY <3>1, <3>2, SMT
  <2> QED BY <1>1, <2>1, <2>2, <2>3, <2>4, SMT
<1> QED BY <1>2, <1>3, <1>4, SMT

\* civilFromDays walks through the Gregorian calendar.
LEMMA DaysWalk ==
  ASSUME NEW d \in Nat
  PROVE  Cal!CivilFromDays(d + 1) = Cal!Tomorrow(Cal!CivilFromDays(d))
<1>1. PICK era, c, q, r, doy : DayIs(d, era, c, q, r, doy)
  BY DayIsCovered, SMT
<1> DEFINE y == YearIs(era, c, q, r)
<1>2. /\ era \in Nat /\ InEra(c, q, r, doy) /\ doy \in Int /\ 0 <= doy /\ doy <= 365
  BY <1>1, SMT DEF DayIs, InEra
<1>3. /\ Cal!IsLeapYear(y + 1) <=> r = 3 /\ (q < 24 \/ c = 3)
      /\ y \in Nat
  BY <1>2, LeapOfYear, SMT
<1>4. Cal!CivilFromDays(d) = DateIn(y, doy)
  BY <1>1, DateOfDay, SMT
<1>5. LastOfYear(c, q, r) = IF Cal!IsLeapYear(y + 1) THEN 365 ELSE 364
  BY <1>3, SMT DEF LastOfYear
<1>6. doy <= LastOfYear(c, q, r)
  BY <1>1, DayAfter, SMT
<1>7. CASE doy < LastOfYear(c, q, r)
  <2>1. DayIs(d + 1, era, c, q, r, doy + 1)
    BY <1>1, <1>7, DayAfter, SMT
  <2>2. Cal!CivilFromDays(d + 1) = DateIn(y, doy + 1)
    BY <2>1, DateOfDay, SMT
  <2> HIDE DEF y
  <2>3. doy + 1 <= 365 /\ (doy + 1 = 365 => Cal!IsLeapYear(y + 1))
    BY <1>2, <1>5, <1>7, SMT
  <2>4. DateIn(y, doy + 1) = Cal!Tomorrow(DateIn(y, doy))
    BY <1>2, <1>3, <2>3, NextInYear, SMT
  <2> QED BY <1>4, <2>2, <2>4, SMT
<1>8. CASE doy = LastOfYear(c, q, r)
  <2>1. PICK f, d2, q2, r2 : DayIs(d + 1, f, d2, q2, r2, 0) /\ YearIs(f, d2, q2, r2) = y + 1
    BY <1>1, <1>8, DayAfter, SMT
  <2>2. Cal!CivilFromDays(d + 1) = DateIn(y + 1, 0)
    BY <2>1, DateOfDay, SMT
  <2> HIDE DEF y
  <2>3. DateIn(y + 1, 0) = Cal!Tomorrow(DateIn(y, doy))
    BY <1>2, <1>3, <1>5, <1>8, NextYear, SMT
  <2> QED BY <1>4, <2>2, <2>3, SMT
<1> QED BY <1>2, <1>5, <1>6, <1>7, <1>8, SMT

\* daysFromCivil goes back.
LEMMA DaysReturn ==
  ASSUME NEW d \in Nat
  PROVE  Cal!DaysFromCivil(Cal!CivilFromDays(d)) = d
<1>1. PICK era, c, q, r, doy : DayIs(d, era, c, q, r, doy)
  BY DayIsCovered, SMT
<1> DEFINE y == YearOf(c, q, r)
           Y == YearIs(era, c, q, r)
           mp == MonthIndex(doy)
           date == Date(Y + MonthYear(mp), MonthNumber(mp), doy - MonthStart(mp) + 1)
<1>2. /\ era \in Nat /\ InEra(c, q, r, doy) /\ c \in Int /\ q \in Int /\ r \in Int
      /\ doy \in Int /\ 0 <= doy /\ doy <= 365
      /\ d + 719468 = 146097 * era + DayOfEra(c, q, r, doy)
  BY <1>1, SMT DEF DayIs, InEra
<1>3. y \in Nat /\ y <= 399 /\ y \div 4 = 25 * c + q /\ y \div 100 = c
  BY <1>2, EraTells, SMT
<1>4. Y = 400 * era + y /\ y = 100 * c + 4 * q + r
  BY SMT DEF YearIs, YearOf
<1>5. Y \in Int
  BY <1>2, <1>3, <1>4, SMT
<1>6. Cal!CivilFromDays(d) = date
  BY <1>1, <1>2, <1>5, DateOfDay, DateFields, SMT
<1>7. mp \in Int /\ 0 <= mp /\ mp <= 11 /\ MonthStart(mp) \in Int
  BY <1>2, <1>5, DateFields, SMT
<1>8. date.year = Y + MonthYear(mp) /\ date.month = MonthNumber(mp) /\ date.day = doy - MonthStart(mp) + 1
  BY SMT DEF Date
<1> HIDE DEF y, Y, mp, date
<1>9. (IF date.month <= 2 THEN date.year - 1 ELSE date.year) = Y
  BY <1>5, <1>7, <1>8, SMT DEF MonthNumber, MonthYear
<1>10. date.month + (IF date.month > 2 THEN -3 ELSE 9) = mp
  BY <1>7, <1>8, SMT DEF MonthNumber
<1>11. (153 * mp + 2) \div 5 = MonthStart(mp)
  BY SMT DEF MonthStart
<1>12. Y % 400 = y /\ Y \div 400 = era
  BY <1>2, <1>3, <1>4, SMTT(20)
<1>13. Cal!DaysFromCivil(date)
         = era * 146097 + y * 365 + (25 * c + q) - c + (MonthStart(mp) + date.day - 1) - 719468
  <2> DEFINE yy == IF date.month <= 2 THEN date.year - 1 ELSE date.year
             mm == date.month + (IF date.month > 2 THEN -3 ELSE 9)
  <2>1. Cal!DaysFromCivil(date)
          = (yy \div 400) * 146097 + (yy % 400) * 365 + ((yy % 400) \div 4) - ((yy % 400) \div 100)
              + (((153 * mm + 2) \div 5) + date.day - 1) - 719468
    BY SMT DEF Cal!DaysFromCivil
  <2>2. yy = Y /\ mm = mp
    BY <1>9, <1>10, SMT
  <2> HIDE DEF yy, mm
  <2> QED BY <1>3, <1>11, <1>12, <2>1, <2>2, SMT
<1>14. d + 719468 = 146097 * era + (36524 * c + 1461 * q + 365 * r + doy)
  BY <1>2, SMT DEF DayOfEra
<1>15. Cal!DaysFromCivil(date) = d
  BY <1>2, <1>3, <1>4, <1>7, <1>8, <1>13, <1>14, SMT
<1> QED BY <1>6, <1>15, SMT

\* weekdayFromDays goes round the week.
LEMMA WeekdaysWalk ==
  ASSUME NEW d \in Nat
  PROVE  Cal!Weekday(d + 1) = (Cal!Weekday(d) % 7) + 1
<1> DEFINE w == (d + 4) % 7
<1>1. w \in Int /\ 0 <= w /\ w <= 6 /\ (d + 1 + 4) % 7 = IF w = 6 THEN 0 ELSE w + 1
  BY SMTT(20)
<1> HIDE DEF w
<1>2. Cal!Weekday(d) = (IF w = 0 THEN 7 ELSE w)
  BY SMT DEF Cal!Weekday, w
<1>3. Cal!Weekday(d + 1) = IF w = 6 THEN 7 ELSE w + 1
  BY <1>1, SMT DEF Cal!Weekday
<1>4. CASE w = 0
  BY <1>2, <1>3, <1>4, SMT
<1>5. CASE w > 0
  BY <1>1, <1>2, <1>3, <1>5, SMTT(20)
<1> QED BY <1>1, <1>4, <1>5, SMT


\* A number below 100 keeps in a register.
LEMMA BcdKeeps ==
  ASSUME NEW v \in Int, 0 <= v, v <= 99
  PROVE  Cal!IsBcd(Cal!BinToBcd(v)) /\ Cal!BcdToBin(Cal!BinToBcd(v)) = v
<1>1. v \div 10 \in Int /\ 0 <= v \div 10 /\ v \div 10 <= 9 /\ v % 10 \in Int /\ 0 <= v % 10 /\ v % 10 <= 9
      /\ v = (v \div 10) * 10 + (v % 10)
  BY SMTT(20)
<1>2. (v \div 10) % 16 = v \div 10
  BY <1>1, SMTT(20)
<1> DEFINE a == v \div 10
           b == v % 10
<1>3. Cal!BinToBcd(v) = [hi |-> a, lo |-> b]
  BY <1>2, SMT DEF Cal!BinToBcd
<1>4. a \in Int /\ b \in Int /\ a <= 9 /\ b <= 9 /\ v = a * 10 + b
  BY <1>1, SMT
<1> HIDE DEF a, b
<1> QED BY <1>3, <1>4, SMT DEF Cal!IsBcd, Cal!BcdToBin

\* A number from 100 to 106 does not.
LEMMA BcdRefuses ==
  ASSUME NEW v \in Int, 100 <= v, v <= 106
  PROVE  ~Cal!IsBcd(Cal!BinToBcd(v))
<1>1. (v \div 10) % 16 = 10
  BY SMTT(20)
<1> QED BY <1>1, SMT DEF Cal!IsBcd, Cal!BinToBcd

\* The date of a day is one.
DateIs(d, y, m, e) ==
  /\ y \in Int /\ m \in Int /\ e \in Int /\ Cal!CivilFromDays(d) = Date(y, m, e)
  /\ 1 <= m /\ m <= 12 /\ 1 <= e /\ e <= Cal!DaysInMonth(y, m)
  /\ d <= 49710 => y <= 2106

\* civilFromDays makes dates that are valid, up to 2106.
LEMMA DateIsValid ==
  ASSUME NEW d \in Nat
  PROVE  \E y, m, e : DateIs(d, y, m, e)
<1>1. PICK era, c, q, r, doy : DayIs(d, era, c, q, r, doy)
  BY DayIsCovered, SMT
<1> DEFINE Y == YearIs(era, c, q, r)
           mp == MonthIndex(doy)
<1>2. /\ era \in Nat /\ InEra(c, q, r, doy) /\ c \in Int /\ q \in Int /\ r \in Int
      /\ doy \in Int /\ 0 <= doy /\ doy <= 365
      /\ 0 <= c /\ c <= 3 /\ 0 <= q /\ q <= 24 /\ 0 <= r /\ r <= 3
      /\ d + 719468 = 146097 * era + (36524 * c + 1461 * q + 365 * r + doy)
  BY <1>1, SMT DEF DayIs, InEra, DayOfEra
<1>3. Y = 400 * era + 100 * c + 4 * q + r /\ Y \in Nat
  BY <1>2, LeapOfYear, SMT DEF YearIs, YearOf
<1>4. d <= 49710 => Y <= 2105
  BY <1>2, <1>3, SMTT(30)
<1>5. /\ Cal!IsLeapYear(Y + 1) <=> r = 3 /\ (q < 24 \/ c = 3)
      /\ doy <= LastOfYear(c, q, r)
  <2>1. Cal!IsLeapYear(Y + 1) <=> r = 3 /\ (q < 24 \/ c = 3)
    BY <1>2, LeapOfYear, SMT
  <2>2. doy <= LastOfYear(c, q, r)
    BY <1>1, DayAfter, SMT
  <2> QED BY <2>1, <2>2, SMT
<1>6. Cal!CivilFromDays(d) = Date(Y + MonthYear(mp), MonthNumber(mp), doy - MonthStart(mp) + 1)
  BY <1>1, <1>2, <1>3, DateOfDay, DateFields, SMT
<1>7. /\ mp \in Int /\ 0 <= mp /\ mp <= 11
      /\ MonthStart(mp) \in Int /\ MonthStart(mp) <= doy /\ doy < MonthStart(mp + 1)
  BY <1>2, <1>3, DateFields, SMT
<1> HIDE DEF mp, Y
<1>8. /\ MonthYear(mp) \in Int /\ MonthYear(mp) <= 1
      /\ MonthNumber(mp) \in Int /\ 1 <= MonthNumber(mp) /\ MonthNumber(mp) <= 12
  BY <1>7, SMT DEF MonthYear, MonthNumber
<1>9. doy - MonthStart(mp) + 1 <= Cal!DaysInMonth(Y + MonthYear(mp), MonthNumber(mp))
  <2>1. CASE mp <= 10
    <3>1. Y + MonthYear(mp) \in Int
      BY <1>3, <1>8, SMT
    <3> QED BY <1>2, <1>7, <2>1, <3>1, MonthLengths, SMT
  <2>2. CASE mp = 11
    <3>1. MonthStart(11) = 337 /\ MonthNumber(11) = 2 /\ MonthYear(11) = 1
      BY MonthStarts, SMT DEF MonthNumber, MonthYear
    <3>2. Cal!DaysInMonth(Y + 1, 2) = IF Cal!IsLeapYear(Y + 1) THEN 29 ELSE 28
      BY SMT DEF Cal!DaysInMonth
    <3>3. doy <= IF Cal!IsLeapYear(Y + 1) THEN 365 ELSE 364
      BY <1>5, SMT DEF LastOfYear
    <3> QED BY <1>2, <2>2, <3>1, <3>2, <3>3, SMT
  <2> QED BY <1>7, <2>1, <2>2, SMT
<1> DEFINE y == Y + MonthYear(mp)
           m == MonthNumber(mp)
           e == doy - MonthStart(mp) + 1
<1>10. DateIs(d, y, m, e)
  BY <1>2, <1>3, <1>4, <1>6, <1>7, <1>8, <1>9, SMT DEF DateIs
<1> HIDE DEF y, m, e
<1> QED BY <1>10, SMT

\* A month has 28 to 31 days.
LEMMA MonthsAreShort ==
  ASSUME NEW y \in Int, NEW m \in Int, 1 <= m, m <= 12
  PROVE  Cal!DaysInMonth(y, m) \in Int /\ 28 <= Cal!DaysInMonth(y, m) /\ Cal!DaysInMonth(y, m) <= 31
<1>1. \/ m = 1 \/ m = 2 \/ m = 3 \/ m = 4 \/ m = 5 \/ m = 6
      \/ m = 7 \/ m = 8 \/ m = 9 \/ m = 10 \/ m = 11 \/ m = 12
  BY SMT
<1> QED BY <1>1, SMT DEF Cal!DaysInMonth

\* The seconds of a day make its hour, minute and second.
LEMMA SecondsSplit ==
  ASSUME NEW s \in Int, 0 <= s, s < 86400
  PROVE  \E h, i, e \in Int :
           /\ s \div 3600 = h /\ (s % 3600) \div 60 = i /\ s % 60 = e
           /\ 0 <= h /\ h <= 23 /\ 0 <= i /\ i <= 59 /\ 0 <= e /\ e <= 59
           /\ h * 3600 + i * 60 + e = s
<1> DEFINE h == s \div 3600
           rest == s % 3600
           i == rest \div 60
           e == rest % 60
<1>1. h \in Int /\ rest \in Int /\ 0 <= h /\ h <= 23 /\ 0 <= rest /\ rest < 3600 /\ s = 3600 * h + rest
  BY SMTT(20)
<1> HIDE DEF h, rest
<1>2. i \in Int /\ e \in Int /\ 0 <= i /\ i <= 59 /\ 0 <= e /\ e <= 59 /\ rest = 60 * i + e
  BY <1>1, SMTT(20)
<1> HIDE DEF i, e
<1>3. s % 60 = e
  BY <1>1, <1>2, SMTT(20)
<1>4. s \div 3600 = h /\ (s % 3600) \div 60 = i
  BY SMT DEF h, i, rest
<1>5. h * 3600 + i * 60 + e = s
  BY <1>1, <1>2, SMT
<1> QED BY <1>1, <1>2, <1>3, <1>4, <1>5, SMT

\* The registers hold this date and time, the hour in either mode.
Holds(r, y, m, e, h, i, z) ==
  /\ r.halted = FALSE
  /\ r.year = Cal!BinToBcd(y - 2000) /\ r.month = Cal!BinToBcd(m) /\ r.day = Cal!BinToBcd(e)
  /\ r.minute = Cal!BinToBcd(i) /\ r.second = Cal!BinToBcd(z)
  /\ \E n \in Int : /\ 0 <= n /\ n <= 23 /\ r.hour = Cal!BinToBcd(n)
                    /\ \/ r.half = FALSE /\ n = h
                       \/ r.half = TRUE /\ 1 <= n /\ n <= 12 /\ Cal!HourOfHalf(n, r.pm) = h

\* What decodeDs1307 makes of them.
Decodes(r, y, m, e, h, i, z) ==
  /\ e > Cal!DaysInMonth(y, m) => Cal!Decode(r).status = "BadField"
  /\ e <= Cal!DaysInMonth(y, m) /\ y < 2024 => Cal!Decode(r).status # "Ok"
  /\ e <= Cal!DaysInMonth(y, m) /\ y >= 2024 =>
       Cal!Decode(r) = [status |-> "Ok",
                        time |-> Cal!CivilToEpoch([year |-> y, month |-> m, day |-> e,
                                                   hour |-> h, minute |-> i, second |-> z])]

\* decodeDs1307 refuses a day the month does not have, refuses a year too early, and reads the rest.
LEMMA Decoding ==
  ASSUME NEW r, NEW y \in Int, NEW m \in Int, NEW e \in Int, NEW h \in Int, NEW i \in Int, NEW z \in Int,
         Holds(r, y, m, e, h, i, z),
         2000 <= y, y <= 2099, 1 <= m, m <= 12, 1 <= e, e <= 32,
         0 <= h, h <= 23, 0 <= i, i <= 59, 0 <= z, z <= 59
  PROVE  Decodes(r, y, m, e, h, i, z)
<1> DEFINE c == [year |-> y, month |-> m, day |-> e, hour |-> h, minute |-> i, second |-> z]
<1>1. PICK n \in Int :
        /\ 0 <= n /\ n <= 23 /\ r.hour = Cal!BinToBcd(n)
        /\ \/ r.half = FALSE /\ n = h
           \/ r.half = TRUE /\ 1 <= n /\ n <= 12 /\ Cal!HourOfHalf(n, r.pm) = h
  BY SMT DEF Holds
<1>2. /\ r.halted = FALSE
      /\ r.year = Cal!BinToBcd(y - 2000) /\ r.month = Cal!BinToBcd(m) /\ r.day = Cal!BinToBcd(e)
      /\ r.minute = Cal!BinToBcd(i) /\ r.second = Cal!BinToBcd(z)
  BY SMT DEF Holds
<1>3. y - 2000 \in Int /\ 0 <= y - 2000 /\ y - 2000 <= 99
  BY SMT
<1>4. /\ Cal!IsBcd(r.year) /\ Cal!BcdToBin(r.year) = y - 2000
      /\ Cal!IsBcd(r.month) /\ Cal!BcdToBin(r.month) = m
      /\ Cal!IsBcd(r.day) /\ Cal!BcdToBin(r.day) = e
      /\ Cal!IsBcd(r.hour) /\ Cal!BcdToBin(r.hour) = n
      /\ Cal!IsBcd(r.minute) /\ Cal!BcdToBin(r.minute) = i
      /\ Cal!IsBcd(r.second) /\ Cal!BcdToBin(r.second) = z
  <2>1. m <= 99 /\ e <= 99 /\ i <= 99 /\ z <= 99 /\ n <= 99 /\ 0 <= m /\ 0 <= e
    BY <1>1, SMT
  <2> QED BY <1>1, <1>2, <1>3, <2>1, BcdKeeps, SMT
<1>5. ~(\E f \in {"second", "minute", "hour", "day", "month", "year"} : ~Cal!IsBcd(r[f]))
  BY <1>4, SMT
<1>6. (IF r.half THEN Cal!HourOfHalf(n, r.pm) ELSE n) = h
  BY <1>1, SMT
<1>7. 2000 + (y - 2000) = y
  BY SMT
<1>8. Cal!DecodedFields(r) = c
  BY <1>4, <1>6, <1>7, SMT DEF Cal!DecodedFields
<1>9. r.half = FALSE \/ (r.half = TRUE /\ Cal!BcdToBin(r.hour) \in 1..12)
  BY <1>1, <1>4, SMT
<1>10. Cal!IsValidCivil(c) <=> e <= Cal!DaysInMonth(y, m)
  <2>1. Cal!DaysInMonth(y, m) \in Int
    BY MonthsAreShort, SMT
  <2>2. /\ c.year = y /\ c.month = m /\ c.day = e /\ c.hour = h /\ c.minute = i /\ c.second = z
    BY SMT
  <2> HIDE DEF c
  <2> QED BY <2>1, <2>2, SMT DEF Cal!IsValidCivil
<1>11. c.year \in Cal!MinYear..Cal!MaxYear <=> y >= 2024
  <2>1. Cal!MinYear = 2024 /\ Cal!MaxYear = 2099 /\ c.year = y
    BY SMT DEF Cal!MinYear, Cal!MaxYear
  <2>2. Cal!MinYear \in Int /\ Cal!MaxYear \in Int
    BY <2>1, SMT
  <2> QED BY <2>1, <2>2, SMT
<1> HIDE DEF c
<1>12. Cal!Decode(r) = IF ~Cal!IsValidCivil(c) THEN [status |-> "BadField"]
                       ELSE IF c.year \notin Cal!MinYear..Cal!MaxYear THEN [status |-> "ImplausibleYear"]
                       ELSE [status |-> "Ok", time |-> Cal!CivilToEpoch(c)]
  BY <1>2, <1>5, <1>8, <1>9, SMT DEF Cal!Decode
<1>13. CASE e > Cal!DaysInMonth(y, m)
  <2>1. ~(e <= Cal!DaysInMonth(y, m))
    BY <1>13, MonthsAreShort, SMT
  <2> QED BY <1>10, <1>12, <2>1, SMT DEF Decodes
<1>14. CASE e <= Cal!DaysInMonth(y, m) /\ y < 2024
  <2>1. ~(y >= 2024) /\ ~(e > Cal!DaysInMonth(y, m))
    BY <1>14, MonthsAreShort, SMT
  <2> QED BY <1>10, <1>11, <1>12, <1>14, <2>1, SMT DEF Decodes
<1>15. CASE e <= Cal!DaysInMonth(y, m) /\ y >= 2024
  <2>1. ~(y < 2024) /\ ~(e > Cal!DaysInMonth(y, m))
    BY <1>15, MonthsAreShort, SMT
  <2>2. Cal!Decode(r) = [status |-> "Ok", time |-> Cal!CivilToEpoch(c)]
    BY <1>10, <1>11, <1>12, <1>15, SMT
  <2> QED BY <2>1, <2>2, SMT DEF c, Decodes
<1>16. \/ e > Cal!DaysInMonth(y, m) \/ (e <= Cal!DaysInMonth(y, m) /\ y < 2024)
       \/ (e <= Cal!DaysInMonth(y, m) /\ y >= 2024)
  BY MonthsAreShort, SMT
<1> QED BY <1>13, <1>14, <1>15, <1>16, SMT DEF c, Decodes

\* A year the chip has no digits for: its register is not decimal.
Overrun(r) == r.halted = FALSE /\ \E v \in Int : 100 <= v /\ v <= 106 /\ r.year = Cal!BinToBcd(v)

\* decodeDs1307 refuses it.
LEMMA BeyondTheDigits ==
  ASSUME NEW r, Overrun(r)
  PROVE  Cal!Decode(r).status # "Ok"
<1>1. ~Cal!IsBcd(r.year) /\ r.halted = FALSE
  BY BcdRefuses, SMT DEF Overrun
<1>2. \E f \in {"second", "minute", "hour", "day", "month", "year"} : ~Cal!IsBcd(r[f])
  BY <1>1, SMT
<1> QED BY <1>1, <1>2, SMT DEF Cal!Decode

\* The halves of the day.
LEMMA HalvesOfTheDay ==
  ASSUME NEW h \in Int, 0 <= h, h <= 23
  PROVE  \E n \in Int : /\ n = (IF h % 12 = 0 THEN 12 ELSE h % 12) /\ 1 <= n /\ n <= 12
                        /\ Cal!HourOfHalf(n, h >= 12) = h
<1> DEFINE n == IF h % 12 = 0 THEN 12 ELSE h % 12
<1>1. n \in Int /\ 1 <= n /\ n <= 12 /\ h = (IF n = 12 THEN 0 ELSE n) + (IF h >= 12 THEN 12 ELSE 0)
  BY SMTT(20)
<1>2. n = (IF h % 12 = 0 THEN 12 ELSE h % 12)
  OBVIOUS
<1> HIDE DEF n
<1> QED BY <1>1, <1>2, SMT DEF Cal!HourOfHalf

\* A time of a day, as fields, and the registers it is written to.
TimeIs(d, s, y, m, e, h, i, z) ==
  /\ y \in Int /\ m \in Int /\ e \in Int /\ h \in Int /\ i \in Int /\ z \in Int
  /\ Cal!CivilFromDays(d) = Date(y, m, e)
  /\ 1 <= m /\ m <= 12 /\ 1 <= e /\ e <= Cal!DaysInMonth(y, m) /\ y <= 2106
  /\ 0 <= h /\ h <= 23 /\ 0 <= i /\ i <= 59 /\ 0 <= z /\ z <= 59
  /\ h * 3600 + i * 60 + z = s
Encoded(r, y, m, e, h, i, z) ==
  /\ r.halted = FALSE /\ r.half = FALSE
  /\ r.year = Cal!BinToBcd(Cal!Byte(y - 2000)) /\ r.month = Cal!BinToBcd(m)
  /\ r.day = Cal!BinToBcd(e) /\ r.hour = Cal!BinToBcd(h)
  /\ r.minute = Cal!BinToBcd(i) /\ r.second = Cal!BinToBcd(z)

\* encodeDs1307 writes the fields of a time.
LEMMA TimeFields ==
  ASSUME NEW d \in Nat, NEW s \in Nat, s < 86400, d <= 49710
  PROVE  \E y, m, e, h, i, z :
           TimeIs(d, s, y, m, e, h, i, z) /\ Encoded(Cal!Encode([day |-> d, second |-> s]), y, m, e, h, i, z)
<1>0. PICK y, m, e : DateIs(d, y, m, e)
  BY DateIsValid, SMT
<1>1. /\ y \in Int /\ m \in Int /\ e \in Int /\ Cal!CivilFromDays(d) = Date(y, m, e)
      /\ 1 <= m /\ m <= 12 /\ 1 <= e /\ e <= Cal!DaysInMonth(y, m) /\ y <= 2106
  BY <1>0, SMT DEF DateIs
<1>2. PICK h, i, z \in Int :
        /\ s \div 3600 = h /\ (s % 3600) \div 60 = i /\ s % 60 = z
        /\ 0 <= h /\ h <= 23 /\ 0 <= i /\ i <= 59 /\ 0 <= z /\ z <= 59
        /\ h * 3600 + i * 60 + z = s
  BY SecondsSplit, SMT
<1> DEFINE t == [day |-> d, second |-> s]
           r == Cal!Encode(t)
           w == Cal!Weekday(d)
<1>3. t.day = d /\ t.second = s
  BY SMT
<1> HIDE DEF t, w
<1>4. Cal!EpochToCivil(t) = [year |-> y, month |-> m, day |-> e, weekday |-> w, hour |-> h, minute |-> i, second |-> z]
  <2>1. Cal!CivilFromDays(d).year = y /\ Cal!CivilFromDays(d).month = m /\ Cal!CivilFromDays(d).day = e
    BY <1>1, SMT DEF Date
  <2> QED BY <1>2, <1>3, <2>1, SMT DEF Cal!EpochToCivil, w
<1>5. Encoded(r, y, m, e, h, i, z)
  BY <1>4, SMT DEF Cal!Encode, Encoded
<1> HIDE DEF r
<1>6. r = Cal!Encode([day |-> d, second |-> s])
  BY SMT DEF r, t
<1>7. TimeIs(d, s, y, m, e, h, i, z)
  BY <1>1, <1>2, SMT DEF TimeIs
<1> QED BY <1>5, <1>6, <1>7, SMT

\* The time of a date.
LEMMA TimeOf ==
  ASSUME NEW d \in Nat, NEW s \in Nat, NEW y \in Int, NEW m \in Int, NEW e \in Int,
         NEW h \in Int, NEW i \in Int, NEW z \in Int,
         Cal!CivilFromDays(d) = Date(y, m, e), h * 3600 + i * 60 + z = s
  PROVE  Cal!CivilToEpoch([year |-> y, month |-> m, day |-> e, hour |-> h, minute |-> i, second |-> z])
           = [day |-> d, second |-> s]
<1> DEFINE c == [year |-> y, month |-> m, day |-> e, hour |-> h, minute |-> i, second |-> z]
           date == Date(y, m, e)
<1>1. /\ c.year = y /\ c.month = m /\ c.day = e /\ c.hour = h /\ c.minute = i /\ c.second = z
      /\ date.year = y /\ date.month = m /\ date.day = e
  BY SMT DEF Date
<1>2. Cal!DaysFromCivil(date) = d
  BY DaysReturn, SMT
<1> HIDE DEF c, date
<1>3. Cal!DaysFromCivil(c) = Cal!DaysFromCivil(date)
  BY <1>1, SMT DEF Cal!DaysFromCivil
<1>4. Cal!CivilToEpoch(c) = [day |-> d, second |-> s]
  BY <1>1, <1>2, <1>3, SMT DEF Cal!CivilToEpoch
<1> QED BY <1>4 DEF c

\* What the controller writes to the chip it reads again.
LEMMA ChipReturns ==
  ASSUME NEW d \in Nat, NEW s \in Nat, s < 86400, d <= 49710,
         NEW r, r = Cal!Encode([day |-> d, second |-> s]),
         NEW year, year = Cal!CivilFromDays(d).year,
         NEW month, month = Cal!CivilFromDays(d).month
  PROVE  IF year \in Cal!MinYear..Cal!MaxYear
         THEN /\ Cal!Decode(r) = [status |-> "Ok", time |-> [day |-> d, second |-> s]]
              /\ Cal!Decode(Cal!InHalfDays(r)) = [status |-> "Ok", time |-> [day |-> d, second |-> s]]
              /\ Cal!Decode([r EXCEPT !.day = Cal!BinToBcd(Cal!DaysInMonth(year, month) + 1)]).status = "BadField"
         ELSE year >= 2000 => Cal!Decode(r).status # "Ok"
<1>1. PICK y, m, e, h, i, z :
        TimeIs(d, s, y, m, e, h, i, z) /\ Encoded(Cal!Encode([day |-> d, second |-> s]), y, m, e, h, i, z)
  BY TimeFields, SMT
<1>2. /\ y \in Int /\ m \in Int /\ e \in Int /\ h \in Int /\ i \in Int /\ z \in Int
      /\ Cal!CivilFromDays(d) = Date(y, m, e)
      /\ 1 <= m /\ m <= 12 /\ 1 <= e /\ e <= Cal!DaysInMonth(y, m) /\ y <= 2106
      /\ 0 <= h /\ h <= 23 /\ 0 <= i /\ i <= 59 /\ 0 <= z /\ z <= 59
      /\ h * 3600 + i * 60 + z = s
  BY <1>1, SMT DEF TimeIs
<1>3. Encoded(r, y, m, e, h, i, z)
  BY <1>1, SMT
<1>4. year = y /\ month = m
  BY <1>2, SMT DEF Date
<1>5. /\ r.halted = FALSE /\ r.half = FALSE
      /\ r.year = Cal!BinToBcd(Cal!Byte(y - 2000)) /\ r.month = Cal!BinToBcd(m)
      /\ r.day = Cal!BinToBcd(e) /\ r.hour = Cal!BinToBcd(h)
      /\ r.minute = Cal!BinToBcd(i) /\ r.second = Cal!BinToBcd(z)
  BY <1>3, SMT DEF Encoded
<1>6. year \in Cal!MinYear..Cal!MaxYear <=> y >= 2024 /\ y <= 2099
  <2>1. Cal!MinYear = 2024 /\ Cal!MaxYear = 2099
    BY SMT DEF Cal!MinYear, Cal!MaxYear
  <2> QED BY <1>2, <1>4, <2>1, SMT
<1>7. y >= 2000 => Cal!Byte(y - 2000) = y - 2000
  BY <1>2, SMTT(20) DEF Cal!Byte
<1> DEFINE c == [year |-> y, month |-> m, day |-> e, hour |-> h, minute |-> i, second |-> z]
           t == [day |-> d, second |-> s]
           len == Cal!DaysInMonth(y, m)
<1>8. Cal!CivilToEpoch(c) = t
  BY <1>2, TimeOf, SMT
<1>9. len \in Int /\ 28 <= len /\ len <= 31
  BY <1>2, MonthsAreShort, SMT
<1> HIDE DEF c, t, len
<1>10. CASE y >= 2024 /\ y <= 2099
  <2>1. Cal!Decode(r) = [status |-> "Ok", time |-> t]
    <3>1. Holds(r, y, m, e, h, i, z)
      BY <1>2, <1>5, <1>7, <1>10, SMT DEF Holds
    <3>2. e <= 32 /\ y >= 2000
      BY <1>2, <1>9, <1>10, SMT DEF len
    <3>3. Cal!Decode(r) = [status |-> "Ok", time |-> Cal!CivilToEpoch(c)]
      BY <1>2, <1>10, <3>1, <3>2, Decoding, SMT DEF c, Decodes
    <3> QED BY <1>8, <3>3, SMT
  <2>2. Cal!Decode(Cal!InHalfDays(r)) = [status |-> "Ok", time |-> t]
    <3> DEFINE q == Cal!InHalfDays(r)
    <3>1. Cal!BcdToBin(r.hour) = h
      BY <1>2, <1>5, BcdKeeps, SMT
    <3>2. PICK n \in Int : /\ n = (IF h % 12 = 0 THEN 12 ELSE h % 12) /\ 1 <= n /\ n <= 12
                           /\ Cal!HourOfHalf(n, h >= 12) = h
      BY <1>2, HalvesOfTheDay, SMT
    <3>3. /\ q.halted = r.halted /\ q.half = TRUE /\ q.pm = (h >= 12) /\ q.hour = Cal!BinToBcd(n)
          /\ q.year = r.year /\ q.month = r.month /\ q.day = r.day /\ q.minute = r.minute /\ q.second = r.second
      BY <3>1, <3>2, SMT DEF Cal!InHalfDays, Cal!Encode
    <3> HIDE DEF q
    <3>4. Holds(q, y, m, e, h, i, z)
      BY <1>2, <1>5, <1>7, <1>10, <3>2, <3>3, SMT DEF Holds
    <3>5. e <= 32 /\ y >= 2000
      BY <1>2, <1>9, <1>10, SMT DEF len
    <3>6. Cal!Decode(q) = [status |-> "Ok", time |-> Cal!CivilToEpoch(c)]
      BY <1>2, <1>10, <3>4, <3>5, Decoding, SMT DEF c, Decodes
    <3> QED BY <1>8, <3>6, SMT DEF q
  <2>3. Cal!Decode([r EXCEPT !.day = Cal!BinToBcd(len + 1)]).status = "BadField"
    <3> DEFINE q == [r EXCEPT !.day = Cal!BinToBcd(len + 1)]
               f == len + 1
    <3>1. /\ q.halted = r.halted /\ q.half = r.half /\ q.hour = r.hour
          /\ q.year = r.year /\ q.month = r.month /\ q.day = Cal!BinToBcd(f) /\ q.minute = r.minute /\ q.second = r.second
      BY SMT DEF Cal!Encode
    <3> HIDE DEF q
    <3>2. f \in Int /\ 1 <= f /\ f <= 32 /\ f > len /\ y >= 2000
      BY <1>2, <1>9, <1>10, SMT
    <3> HIDE DEF f
    <3>3. Holds(q, y, m, f, h, i, z)
      BY <1>2, <1>5, <1>7, <1>10, <3>1, SMT DEF Holds
    <3>4. Cal!Decode(q).status = "BadField"
      <4>1. Decodes(q, y, m, f, h, i, z)
        BY <1>2, <1>10, <3>2, <3>3, Decoding, SMT
      <4> QED BY <3>2, <4>1, SMT DEF Decodes, len
    <3> QED BY <3>4, SMT DEF q
  <2> QED BY <1>4, <1>6, <1>10, <2>1, <2>2, <2>3, SMT DEF len, t
<1>11. CASE y >= 2000 /\ y < 2024
  <2>1. Holds(r, y, m, e, h, i, z)
    BY <1>2, <1>5, <1>7, <1>11, SMT DEF Holds
  <2>2. e <= 32 /\ y <= 2099
    BY <1>2, <1>9, <1>11, SMT DEF len
  <2>3. Cal!Decode(r).status # "Ok"
    <3>1. Decodes(r, y, m, e, h, i, z)
      BY <1>2, <1>11, <2>1, <2>2, Decoding, SMT
    <3> QED BY <1>2, <1>11, <3>1, SMT DEF Decodes
  <2> QED BY <1>2, <1>6, <1>11, <2>3, SMT
<1>12. CASE y >= 2100
  <2> DEFINE v == y - 2000
  <2>1. v \in Int /\ 100 <= v /\ v <= 106 /\ r.year = Cal!BinToBcd(v)
    BY <1>2, <1>5, <1>7, <1>12, SMT
  <2> HIDE DEF v
  <2>2. Overrun(r)
    BY <1>5, <2>1, SMT DEF Overrun
  <2>3. Cal!Decode(r).status # "Ok"
    BY <2>2, BeyondTheDigits, SMT
  <2> QED BY <1>2, <1>6, <1>12, <2>3, SMT
<1>13. CASE y < 2000
  <2>1. ~(year >= 2000) /\ ~(year \in Cal!MinYear..Cal!MaxYear)
    BY <1>2, <1>4, <1>6, <1>13, SMT
  <2> QED BY <2>1, SMT
<1> QED BY <1>2, <1>10, <1>11, <1>12, <1>13, SMT

\* A day's date is true.
LEMMA DateOfDayIsTrue ==
  ASSUME v1 \in Nat, v1 <= 49710, \A s \in Seconds : s \in Nat /\ s < 86400
  PROVE  Cal!CalendarIsGregorian /\ Cal!ChipKeepsTheTime
<1>1. Cal!CalendarIsGregorian
  BY DaysWalk, DaysReturn, WeekdaysWalk, SMT DEF Cal!CalendarIsGregorian, Cal!Civil
<1>2. Cal!ChipKeepsTheTime
  BY ChipReturns, SMT DEF Cal!ChipKeepsTheTime, Cal!Civil
<1> QED BY <1>1, <1>2, SMT

-----------------------------------------------------------------------------
(* The parts.                                                              *)

\* A behaviour stays with the part it is about, and its steps are those of the part.
LEMMA PartsKeepApart ==
  ASSUME [Next]_vars
  PROVE  /\ part' = part
         /\ part = "sessions" => [Ses!Next]_vars
         /\ part = "files" => [Files!Next]_vars
         /\ part = "documents" => [Docs!Next]_vars
         /\ part = "command" => [Cmd!Next]_vars
         /\ part = "log" => [Log!Next]_vars
         /\ part = "calendar" => [Cal!Next]_v1
<1>1. CASE Next
  BY <1>1 DEF Next, CalendarEnds, vars
<1>2. CASE UNCHANGED vars
  BY <1>2 DEF vars
<1> QED BY <1>1, <1>2

SesFits == part = "sessions" => Ses!SessionsFit /\ Ses!GuessesFit /\ Ses!UploadFits

\* SessionStore, LoginThrottle, the middleware: their three invariants are inductive.
LEMMA SessionsAreFit == Spec => []SesFits
<1>1. Init => SesFits
  BY SessionsStart, ServicesAssumption DEF Init, SesFits, ServicesAssumption
<1>2. SesFits /\ [Next]_vars => SesFits'
  <2> SUFFICES ASSUME SesFits, [Next]_vars, part' = "sessions"
               PROVE  Ses!SessionsFit' /\ Ses!GuessesFit' /\ Ses!UploadFits'
    BY DEF SesFits
  <2>1. part = "sessions" /\ [Ses!Next]_vars
    BY PartsKeepApart
  <2> QED BY <2>1, SessionsKeep, GuessesKeep, UploadKeeps, ServicesAssumption
          DEF SesFits, ServicesAssumption
<1> QED BY <1>1, <1>2, PTL DEF Spec

\* SessionGate: no session and no grant outlives a change of the login pair, for any browsers,
\* slots and times.
THEOREM NoSessionOutlivesThePair == Spec => []SessionsBelongToThePair
<1>1. SesFits => SessionsBelongToThePair
  BY SessionsSafe, ServicesAssumption DEF SesFits, SessionsBelongToThePair, ServicesAssumption
<1> QED BY <1>1, SessionsAreFit, PTL

\* LoginThrottle: wrong passwords are rationed, for any number of free failures and any lock.
THEOREM GuessesAreFew == Spec => []GuessesAreRationed
<1>1. SesFits => GuessesAreRationed
  BY SessionsSafe, ServicesAssumption DEF SesFits, GuessesAreRationed, ServicesAssumption
<1> QED BY <1>1, SessionsAreFit, PTL

\* WebServerHost: an upload written to its end is reported, whatever becomes of its session.
THEOREM UploadsAreReported == Spec => []WrittenIsReported
<1>1. SesFits => WrittenIsReported
  BY SessionsSafe, ServicesAssumption DEF SesFits, WrittenIsReported, ServicesAssumption
<1> QED BY <1>1, SessionsAreFit, PTL

FileFits == part = "files" => Files!FilesFit

\* WebServices and the update signals: FilesFit is inductive.
LEMMA FilesAreFit == Spec => []FileFits
<1>1. Init => FileFits
  BY FilesStart DEF Init, FileFits
<1>2. FileFits /\ [Next]_vars => FileFits'
  <2> SUFFICES ASSUME FileFits, [Next]_vars, part' = "files" PROVE Files!FilesFit'
    BY DEF FileFits
  <2>1. part = "files" /\ [Files!Next]_vars
    BY PartsKeepApart
  <2> QED BY <2>1, FilesKeep DEF FileFits
<1> QED BY <1>1, <1>2, PTL DEF Spec

\* WebServices: no file is served from a partition that an update writes to, for any number of
\* sessions that were started.
THEOREM NoFileOfTheTouched == Spec => []TouchedIsNotServed
<1>1. FileFits => TouchedIsNotServed
  BY FilesSafe DEF FileFits, TouchedIsNotServed
<1> QED BY <1>1, FilesAreFit, PTL

DocsFits == part = "documents" => Docs!DocumentsFit

\* SharedJsonBuffer, ExportSlot and the two tasks: DocumentsFit is inductive.
LEMMA DocumentsAreFit == Spec => []DocsFits
<1>1. Init => DocsFits
  BY DocumentsStart DEF Init, DocsFits
<1>2. DocsFits /\ [Next]_vars => DocsFits'
  <2> SUFFICES ASSUME DocsFits, [Next]_vars, part' = "documents" PROVE Docs!DocumentsFit'
    BY DEF DocsFits
  <2>1. part = "documents" /\ [Docs!Next]_vars
    BY PartsKeepApart
  <2> QED BY <2>1, DocumentsKeep, ServicesAssumption DEF DocsFits, ServicesAssumption
<1> QED BY <1>1, <1>2, PTL DEF Spec

\* SharedJsonBuffer, ExportSlot: what the handlers send is whole and does not freeze, and each
\* piece of memory has one owner, for any buffers, rebuild and claim times and any log.
THEOREM DocumentsAreWhole == Spec => []DocumentsArriveWhole
<1>1. DocsFits => DocumentsArriveWhole
  BY DocumentsSafe DEF DocsFits, DocumentsArriveWhole
<1> QED BY <1>1, DocumentsAreFit, PTL

CmdFits == part = "command" => Cmd!PathTypes /\ Cmd!BoardFits /\ Cmd!BuffersFit

\* The handlers, the queue and CoreRuntime: types, BoardFits and BuffersFit are inductive.
LEMMA CommandsAreFit == Spec => []CmdFits
<1>1. Init => CmdFits
  BY CommandStarts, ServicesAssumption DEF Init, CmdFits, ServicesAssumption
<1>2. CmdFits /\ [Next]_vars => CmdFits'
  <2> SUFFICES ASSUME CmdFits, [Next]_vars, part' = "command"
               PROVE  Cmd!PathTypes' /\ Cmd!BoardFits' /\ Cmd!BuffersFit'
    BY DEF CmdFits
  <2>1. part = "command" /\ [Cmd!Next]_vars
    BY PartsKeepApart
  <2> QED BY <2>1, PathTypesKeep, BoardKeeps, BuffersKeep, ServicesAssumption
          DEF CmdFits, ServicesAssumption
<1> QED BY <1>1, <1>2, PTL DEF Spec

\* WebServices::postCommand, CoreRuntime::apply, CommandResultBoard: who polls for a command is
\* told the truth, and an uploaded backup has one owner and is freed once, for any number of
\* connections and buffers and any lengths of the queue and the board.
THEOREM CommandsStayAccountedFor == Spec => []CommandsAreAccountedFor
<1>1. CmdFits => CommandsAreAccountedFor
  BY CommandSafe, ServicesAssumption DEF CmdFits, CommandsAreAccountedFor, ServicesAssumption
<1> QED BY <1>1, CommandsAreFit, PTL

LogOk == part = "log" => Log!LogFits

\* EventLog: LogFits is inductive.
LEMMA LogIsFit == Spec => []LogOk
<1>1. Init => LogOk
  BY LogStarts, ServicesAssumption DEF Init, LogOk, ServicesAssumption
<1>2. LogOk /\ [Next]_vars => LogOk'
  <2> SUFFICES ASSUME LogOk, [Next]_vars, part' = "log" PROVE Log!LogFits'
    BY DEF LogOk
  <2>1. part = "log" /\ [Log!Next]_vars
    BY PartsKeepApart
  <2> QED BY <2>1, LogKeeps, ServicesAssumption DEF LogOk, ServicesAssumption
<1> QED BY <1>1, <1>2, PTL DEF Spec

\* EventLog::begin, EventLog::logEvent: the log is one across restarts, failed, torn and
\* unreadable writes, for any capacity, any sources and any number of events and of failures.
THEOREM LogStaysOne == Spec => []LogIsOne
<1>1. LogOk => LogIsOne
  BY LogSafe DEF LogOk, LogIsOne
<1> QED BY <1>1, LogIsFit, PTL

DayFits == part = "calendar" => v1 \in Nat /\ v1 <= LastDay

\* The walk stays within its span.
LEMMA DaysAreFit == Spec => []DayFits
<1>1. Init => DayFits
  BY ServicesAssumption, SMT DEF Init, DayFits, ServicesAssumption, Cal!CalendarAssumption, Cal!Init
<1>2. DayFits /\ [Next]_vars => DayFits'
  <2> SUFFICES ASSUME DayFits, [Next]_vars, part' = "calendar" PROVE v1' \in Nat /\ v1' <= LastDay
    BY DEF DayFits
  <2>1. part = "calendar" /\ [Cal!Next]_v1
    BY PartsKeepApart
  <2> QED BY <2>1, ServicesAssumption, SMT
          DEF DayFits, Cal!Next, ServicesAssumption, Cal!CalendarAssumption
<1> QED BY <1>1, <1>2, PTL DEF Spec

\* CivilTime, Ds1307Codec: every day that 32 bits of seconds can name has its Gregorian date,
\* and the chip keeps every time it can hold, for any span of days and any seconds.
THEOREM DatesStayTrue == Spec => []DatesAreTrue
<1>1. DayFits => DatesAreTrue
  BY DateOfDayIsTrue, ServicesAssumption, SMT
     DEF DayFits, DatesAreTrue, ServicesAssumption, Cal!CalendarAssumption
<1> QED BY <1>1, DaysAreFit, PTL
==============================================================================
