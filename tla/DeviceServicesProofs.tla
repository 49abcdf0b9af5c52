------------------------ MODULE DeviceServicesProofs ------------------------
(***************************************************************************)
(* What the services about the device and its networks promise, for all    *)
(* constants: Wi-Fi and its mailbox, MQTT, the sensors, the display, the   *)
(* clock.                                                                  *)
(* The inductive invariants stand beside each component; here is that each *)
(* step keeps them, component by component, and then, at the end, what     *)
(* follows for Services.                                                   *)
(***************************************************************************)
EXTENDS Services, FiniteSetTheorems, WellFoundedInduction, TLAPS

-----------------------------------------------------------------------------
(* WifiLink.                                                               *)

\* The steps of the mail keep its invariant; nothing else touches what it is about.
LEMMA MailKeeps ==
  ASSUME Wifi!MailFits, [Wifi!Next]_vars
  PROVE  Wifi!MailFits'
<1> USE DEF Wifi!MailFits, Wifi!Creds, Wifi!PairIsWhole, Wifi!Blank
<1>1. ASSUME NEW n \in Network, Wifi!Offer(n) PROVE Wifi!MailFits'
  BY <1>1 DEF Wifi!Offer, Wifi!MayOffer
<1>2. ASSUME NEW n \in Network \cup {None}, Wifi!Imported(n) PROVE Wifi!MailFits'
  BY <1>2 DEF Wifi!Imported
<1>3. CASE Wifi!Offered
  BY <1>3 DEF Wifi!Offered
<1>4. CASE Wifi!Take
  BY <1>4 DEF Wifi!Take
<1>5. CASE Wifi!Apply
  BY <1>5 DEF Wifi!Apply
<1>6. CASE Wifi!NoMail \/ Wifi!Tick \/ Wifi!Radio \/ Wifi!AskScan
  BY <1>6 DEF Wifi!NoMail, Wifi!Tick, Wifi!Radio, Wifi!AskScan
<1>7. CASE UNCHANGED vars
  BY <1>7 DEF vars
<1> QED BY <1>1, <1>2, <1>3, <1>4, <1>5, <1>6, <1>7 DEF Wifi!Next

Actions == [disconnect : BOOLEAN, connect : BOOLEAN, startAp : BOOLEAN, stopAp : BOOLEAN,
            startScan : BOOLEAN, up : BOOLEAN, down : BOOLEAN]
Stage == [s : Wifi!Supervisor, a : Actions]

\* What a stage of the supervisor's tick keeps: it connects, or the last attempt does not
\* lie too far back.
OnTime(p) ==
  Wifi!Joined(p.s) /\ ~p.s.linkUp /\ ~p.a.connect =>
    IF p.s.scanning THEN v9 <= RetryMax + p.s.scanAge ELSE v9 + p.s.next <= RetryMax

\* A new start of the pauses is one the supervisor can be in.
LEMMA ReconnectFits ==
  ASSUME NEW s \in Wifi!Supervisor, Wifi!WifiLinkAssumption
  PROVE  Wifi!Reconnect(s) \in Wifi!Supervisor /\ Wifi!Reconnect(s).linkUp = s.linkUp
<1>1. RetryFirst \in 0..RetryMax
  BY DEF Wifi!WifiLinkAssumption
<1> QED BY <1>1 DEF Wifi!Reconnect, Wifi!Supervisor

\* Stages 1 and 2: a change of the settings, and of the link.
LEMMA ChangedOnTime ==
  ASSUME Wifi!PursuitFits, Wifi!WifiLinkAssumption
  PROVE  LET p == Wifi!Changed([s |-> v5, a |-> Wifi!NoActions]) IN p \in Stage /\ OnTime(p)
<1> DEFINE p0 == [s |-> v5, a |-> Wifi!NoActions]
           s == [v5 EXCEPT !.cached = v1]
           r == Wifi!Reconnect(s)
<1>1. p0 \in Stage /\ OnTime(p0)
  BY DEF Wifi!PursuitFits, Stage, Actions, OnTime, Wifi!NoActions
<1>2. v1 \in Wifi!Creds /\ v5 \in Wifi!Supervisor
  BY DEF Wifi!PursuitFits
<1>3. s \in Wifi!Supervisor /\ s.cached = v1
  BY <1>2 DEF Wifi!Supervisor
<1>4. r \in Wifi!Supervisor
  BY <1>3, ReconnectFits
<1>5. CASE v1 = v5.cached
  BY <1>1, <1>5 DEF Wifi!Changed
<1>6. CASE v1 # v5.cached /\ v1.ssid = None
  <2> DEFINE t == [s EXCEPT !.mode = "SetupAp", !.apActive = TRUE, !.apRetry = IF v5.apActive THEN @ ELSE ApRetry]
             b == [Wifi!NoActions EXCEPT !.disconnect = TRUE, !.startAp = ~v5.apActive]
  <2>1. ApRetry \in Nat
    BY DEF Wifi!WifiLinkAssumption
  <2>2. t \in Wifi!Supervisor /\ t.cached = v1
    BY <1>3, <2>1 DEF Wifi!Supervisor
  <2>3. b \in Actions
    BY <1>2 DEF Actions, Wifi!NoActions, Wifi!Supervisor
  <2>4. Wifi!Changed(p0) = [s |-> t, a |-> b]
    BY <1>6 DEF Wifi!Changed
  <2> HIDE DEF t, b
  <2> QED BY <1>6, <2>2, <2>3, <2>4 DEF Stage, OnTime, Wifi!Joined
<1>7. CASE v1 # v5.cached /\ v1.ssid # None
  <2> DEFINE t == IF v5.apActive
                  THEN [r EXCEPT !.mode = "SetupApJoining", !.join = ApJoinWindow, !.apStop = Wifi!NoStop]
                  ELSE [r EXCEPT !.mode = "Station"]
             b == [Wifi!NoActions EXCEPT !.disconnect = TRUE, !.connect = TRUE, !.down = v5.linkUp]
  <2>1. ApJoinWindow \in Nat
    BY DEF Wifi!WifiLinkAssumption
  <2>2. t \in Wifi!Supervisor
    <3> HIDE DEF r
    <3> QED BY <1>4, <2>1 DEF Wifi!Supervisor
  <2>3. b \in Actions /\ b.connect
    BY <1>2 DEF Actions, Wifi!NoActions, Wifi!Supervisor
  <2>4. Wifi!Changed(p0) = [s |-> t, a |-> b]
    BY <1>7 DEF Wifi!Changed
  <2> HIDE DEF t, b
  <2> QED BY <2>2, <2>3, <2>4 DEF Stage, OnTime
<1> QED BY <1>5, <1>6, <1>7

\* A link that comes or goes leaves the retry on time.
LEMMA LinkedOnTime ==
  ASSUME NEW p \in Stage, OnTime(p), NEW up \in BOOLEAN, Wifi!WifiLinkAssumption
  PROVE  Wifi!Linked(p, up) \in Stage /\ OnTime(Wifi!Linked(p, up))
<1> DEFINE s == [p.s EXCEPT !.linkUp = up]
<1>0. p.s \in Wifi!Supervisor /\ p.a \in Actions
  BY DEF Stage
<1>1. s \in Wifi!Supervisor /\ s.linkUp = up /\ s.cached = p.s.cached
  BY <1>0 DEF Wifi!Supervisor
<1>2. Wifi!Joined(s) <=> Wifi!Joined(p.s)
  BY <1>1 DEF Wifi!Joined
<1>3. CASE Wifi!Joined(p.s) /\ up /\ ~p.s.linkUp
  <2> DEFINE t == [s EXCEPT !.retry = RetryFirst,
                            !.apStop = IF s.mode = "SetupApJoining" THEN ApLinger ELSE @]
             b == [p.a EXCEPT !.up = TRUE]
  <2>1. RetryFirst \in 0..RetryMax /\ ApLinger \in Nat
    BY DEF Wifi!WifiLinkAssumption
  <2>2. t \in Wifi!Supervisor /\ t.linkUp
    <3> HIDE DEF s
    <3> QED BY <1>1, <1>3, <2>1 DEF Wifi!Supervisor
  <2>3. b \in Actions
    BY <1>0 DEF Actions
  <2>4. Wifi!Linked(p, up) = [s |-> t, a |-> b]
    BY <1>2, <1>3 DEF Wifi!Linked
  <2> HIDE DEF t, b
  <2> QED BY <2>2, <2>3, <2>4 DEF Stage, OnTime
<1>4. CASE Wifi!Joined(p.s) /\ ~up /\ p.s.linkUp
  <2> DEFINE t == Wifi!Reconnect(s)
             b == [p.a EXCEPT !.down = TRUE, !.disconnect = TRUE, !.connect = TRUE]
  <2>2. t \in Wifi!Supervisor
    <3> HIDE DEF s
    <3> QED BY <1>1, ReconnectFits
  <2>3. b \in Actions /\ b.connect
    BY <1>0 DEF Actions
  <2>4. Wifi!Linked(p, up) = [s |-> t, a |-> b]
    BY <1>2, <1>4 DEF Wifi!Linked
  <2> HIDE DEF t, b
  <2> QED BY <2>2, <2>3, <2>4 DEF Stage, OnTime
<1>5. CASE ~(Wifi!Joined(p.s) /\ up /\ ~p.s.linkUp) /\ ~(Wifi!Joined(p.s) /\ ~up /\ p.s.linkUp)
  BY <1>5 DEF Wifi!Linked, Stage, Actions, OnTime, Wifi!Joined, Wifi!Supervisor
<1> QED BY <1>3, <1>4, <1>5

\* So does a scan that starts, ends or is given up.
LEMMA ScannedOnTime ==
  ASSUME NEW p \in Stage, OnTime(p), NEW finished \in BOOLEAN, v9 \in Nat,
         Wifi!WifiLinkAssumption
  PROVE  LET q == Wifi!Scanned(p, finished)
         IN q \in Stage /\ OnTime(q) /\ (q.s.scanning => q.s.scanAge < ScanTimeout)
<1>0. p.s \in Wifi!Supervisor /\ p.a \in Actions
  BY DEF Stage
<1>1. 0 \in 0..ScanTimeout /\ 0 < ScanTimeout /\ ScanTimeout \in Nat /\ RetryMax \in Nat
  BY DEF Wifi!WifiLinkAssumption
<1>2. CASE v7 /\ ~p.s.scanning
  <2> DEFINE t == [p.s EXCEPT !.scanning = TRUE, !.scanAge = 0]
             b == [p.a EXCEPT !.startScan = TRUE, !.disconnect = @ \/ (Wifi!Joined(p.s) /\ ~p.s.linkUp)]
  <2>1. /\ t \in Wifi!Supervisor /\ t.scanning /\ t.scanAge = 0
        /\ t.cached = p.s.cached /\ t.linkUp = p.s.linkUp
    BY <1>0, <1>1 DEF Wifi!Supervisor
  <2>2. p.a.disconnect \/ (Wifi!Joined(p.s) /\ ~p.s.linkUp) \in BOOLEAN
    OBVIOUS
  <2>3. b \in Actions /\ b.connect = p.a.connect
    BY <1>0 DEF Actions
  <2>4. Wifi!Scanned(p, finished) = [s |-> t, a |-> b]
    BY <1>2 DEF Wifi!Scanned
  <2>5. p.s.next \in Nat
    BY <1>0 DEF Wifi!Supervisor
  <2>6. Wifi!Joined(p.s) /\ ~p.s.linkUp /\ ~p.a.connect => v9 <= RetryMax
    BY <1>1, <1>2, <2>5 DEF OnTime
  <2>7. Wifi!Joined(t) <=> Wifi!Joined(p.s)
    BY <2>1 DEF Wifi!Joined
  <2> HIDE DEF t, b
  <2> QED BY <1>1, <2>1, <2>3, <2>4, <2>6, <2>7 DEF Stage, OnTime
<1>3. CASE ~(v7 /\ ~p.s.scanning) /\ p.s.scanning /\ (finished \/ p.s.scanAge >= ScanTimeout)
  <2>1. Wifi!Scanned(p, finished) = Wifi!ScanOver(p.s, p.a)
    BY <1>3 DEF Wifi!Scanned
  <2>2. CASE Wifi!Joined(p.s) /\ ~p.s.linkUp
    <3> DEFINE r == Wifi!Reconnect(p.s)
               t == [r EXCEPT !.scanning = FALSE]
               b == [p.a EXCEPT !.connect = TRUE]
    <3>1. r \in Wifi!Supervisor
      BY <1>0, ReconnectFits
    <3>2. t \in Wifi!Supervisor /\ ~t.scanning
      <4> HIDE DEF r
      <4> QED BY <3>1 DEF Wifi!Supervisor
    <3>3. b \in Actions /\ b.connect
      BY <1>0 DEF Actions
    <3>4. Wifi!Scanned(p, finished) = [s |-> t, a |-> b]
      BY <2>1, <2>2 DEF Wifi!ScanOver
    <3> HIDE DEF t, b
    <3> QED BY <3>2, <3>3, <3>4 DEF Stage, OnTime
  <2>3. CASE ~(Wifi!Joined(p.s) /\ ~p.s.linkUp)
    <3> DEFINE t == [p.s EXCEPT !.scanning = FALSE]
    <3>2. t \in Wifi!Supervisor /\ ~t.scanning /\ t.cached = p.s.cached /\ t.linkUp = p.s.linkUp
      BY <1>0 DEF Wifi!Supervisor
    <3>4. Wifi!Scanned(p, finished) = [s |-> t, a |-> p.a]
      BY <2>1, <2>3 DEF Wifi!ScanOver
    <3> HIDE DEF t
    <3> QED BY <1>0, <2>3, <3>2, <3>4 DEF Stage, OnTime, Wifi!Joined
  <2> QED BY <2>2, <2>3
<1>4. CASE ~(v7 /\ ~p.s.scanning) /\ ~(p.s.scanning /\ (finished \/ p.s.scanAge >= ScanTimeout))
  BY <1>4, <1>1 DEF Wifi!Scanned, Stage, Wifi!Supervisor
<1> QED BY <1>2, <1>3, <1>4

\* What is left to the end of a pass: a scan that runs has time left, and so has a pause.
Ready(p) ==
  /\ p \in Stage /\ OnTime(p)
  /\ p.s.scanning => p.s.scanAge < ScanTimeout
  /\ Wifi!Joined(p.s) /\ ~p.s.linkUp /\ ~p.a.connect /\ ~p.s.scanning => p.s.next # 0

\* Stages 5 and 6: the next attempt, and the access point.
LEMMA RetriedReady ==
  ASSUME NEW p \in Stage, OnTime(p), p.s.scanning => p.s.scanAge < ScanTimeout,
         Wifi!WifiLinkAssumption
  PROVE  Ready(Wifi!Retried(p))
<1>0. p.s \in Wifi!Supervisor /\ p.a \in Actions
  BY DEF Stage
<1>1. CASE Wifi!Joined(p.s) /\ ~p.s.linkUp /\ ~p.s.scanning /\ p.s.next = 0
  <2> DEFINE pause == Wifi!Lower(p.s.retry + RetryStep, RetryMax)
             t == [p.s EXCEPT !.retry = pause, !.next = pause]
             b == [p.a EXCEPT !.disconnect = TRUE, !.connect = TRUE]
  <2>1. p.s.retry \in Nat
    BY <1>0 DEF Wifi!Supervisor
  <2>2. pause \in 0..RetryMax
    BY <2>1 DEF Wifi!Lower, Wifi!WifiLinkAssumption
  <2>3. t \in Wifi!Supervisor /\ t.scanning = p.s.scanning
    <3> HIDE DEF pause
    <3> QED BY <1>0, <2>2 DEF Wifi!Supervisor
  <2>4. b \in Actions /\ b.connect
    BY <1>0 DEF Actions
  <2>5. Wifi!Retried(p) = [s |-> t, a |-> b]
    BY <1>1 DEF Wifi!Retried
  <2> HIDE DEF t, b
  <2> QED BY <1>1, <2>3, <2>4, <2>5 DEF Ready, Stage, OnTime
<1>2. CASE ~(Wifi!Joined(p.s) /\ ~p.s.linkUp /\ ~p.s.scanning /\ p.s.next = 0)
  BY <1>2 DEF Wifi!Retried, Ready
<1> QED BY <1>1, <1>2

\* And what the loop does last with the link and the access point.
LEMMA MaintainedReady ==
  ASSUME NEW p, Ready(p), NEW apUp, Wifi!WifiLinkAssumption
  PROVE  Ready(Wifi!Maintained(p, apUp))
<1> DEFINE starts == p.s.mode # "Station" /\ ~apUp /\ p.s.apRetry = 0
           over == p.s.mode = "SetupApJoining" /\ (p.s.apStop = 0 \/ p.s.join = 0)
           s == [p.s EXCEPT !.apRetry = IF starts THEN ApRetry ELSE @]
           t == [s EXCEPT !.mode = "Station", !.apActive = FALSE, !.apStop = Wifi!NoStop]
           u == IF over THEN t ELSE s
           b == [p.a EXCEPT !.startAp = @ \/ starts, !.stopAp = over]
<1>0. p.s \in Wifi!Supervisor /\ p.a \in Actions
  BY DEF Stage, Ready
<1>1. /\ s \in Wifi!Supervisor /\ s.cached = p.s.cached /\ s.linkUp = p.s.linkUp
      /\ s.scanning = p.s.scanning /\ s.scanAge = p.s.scanAge /\ s.next = p.s.next
  <2> HIDE DEF starts
  <2>1. ApRetry \in Nat
    BY DEF Wifi!WifiLinkAssumption
  <2> QED BY <1>0, <2>1 DEF Wifi!Supervisor
<1>2. /\ t \in Wifi!Supervisor /\ t.cached = s.cached /\ t.linkUp = s.linkUp
      /\ t.scanning = s.scanning /\ t.scanAge = s.scanAge /\ t.next = s.next
  <2> HIDE DEF s
  <2> QED BY <1>1 DEF Wifi!Supervisor
<1>3. b \in Actions /\ b.connect = p.a.connect
  <2>1. (p.a.startAp \/ starts) \in BOOLEAN /\ over \in BOOLEAN
    OBVIOUS
  <2> HIDE DEF starts, over
  <2> QED BY <1>0, <2>1 DEF Actions
<1>4. Wifi!Maintained(p, apUp) = [s |-> u, a |-> b]
  BY DEF Wifi!Maintained
<1>5. /\ u \in Wifi!Supervisor /\ u.cached = p.s.cached /\ u.linkUp = p.s.linkUp
      /\ u.scanning = p.s.scanning /\ u.scanAge = p.s.scanAge /\ u.next = p.s.next
  <2> HIDE DEF s, t, over
  <2> QED BY <1>1, <1>2
<1> HIDE DEF u, b
<1> QED BY <1>3, <1>4, <1>5 DEF Ready, Stage, OnTime, Wifi!Joined

\* The end of a pass: the pause and the scan are one pass older, and so is the attempt.
LEMMA AgedFits ==
  ASSUME NEW p, Ready(p), Wifi!WifiLinkAssumption, v9 \in 0..Wifi!Cap, v1 \in Wifi!Creds,
         v1' = v1,
         v6' \in Wifi!Radios,
         v5' = Wifi!Aged(p.s), v9' = IF p.a.connect THEN 0 ELSE Wifi!Later(v9)
  PROVE  Wifi!PursuitFits'
<1> DEFINE s == p.s
<1>1. s \in Wifi!Supervisor
  BY DEF Ready, Stage
<1>2. /\ s.next \in 0..RetryMax /\ s.scanAge \in 0..ScanTimeout /\ s.apRetry \in Nat
      /\ s.apStop \in Nat \cup {Wifi!NoStop} /\ s.join \in Nat
  BY <1>1 DEF Wifi!Supervisor
<1>3. RetryMax \in Nat /\ ScanTimeout \in Nat
  BY DEF Wifi!WifiLinkAssumption
<1> HIDE DEF s
<1>4. /\ Wifi!Less(s.next) \in 0..RetryMax /\ Wifi!Less(s.apRetry) \in Nat
      /\ Wifi!Less(s.apStop) \in Nat \cup {Wifi!NoStop} /\ Wifi!Less(s.join) \in Nat
  BY <1>2, <1>3 DEF Wifi!Less, Wifi!NoStop
<1> DEFINE age == IF s.scanning /\ s.scanAge < ScanTimeout THEN s.scanAge + 1 ELSE s.scanAge
<1>5. age \in 0..ScanTimeout
  BY <1>2, <1>3
<1>6. v5' = [s EXCEPT !.next = Wifi!Less(s.next), !.apRetry = Wifi!Less(s.apRetry),
                      !.apStop = Wifi!Less(s.apStop), !.join = Wifi!Less(s.join),
                      !.scanAge = age, !.at = "mail"]
  BY <1>1 DEF Wifi!Aged, s, Wifi!Supervisor
<1>7. /\ v5' \in Wifi!Supervisor /\ v5'.cached = s.cached /\ v5'.linkUp = s.linkUp
      /\ v5'.scanning = s.scanning /\ v5'.scanAge = age /\ v5'.next = Wifi!Less(s.next)
  <2> HIDE DEF age
  <2> QED BY <1>1, <1>4, <1>5, <1>6 DEF Wifi!Supervisor
<1>8. v9' \in 0..Wifi!Cap /\ (v9' = 0 \/ (~p.a.connect /\ v9' <= v9 + 1))
  BY <1>3 DEF Wifi!Later, Wifi!Cap
<1>9. ASSUME Wifi!Joined(s), ~s.linkUp
      PROVE  IF s.scanning THEN v9' <= RetryMax + age ELSE v9' + Wifi!Less(s.next) <= RetryMax
  <2>1. CASE v9' = 0
    BY <1>3, <1>4, <1>5, <2>1
  <2>2. CASE ~p.a.connect /\ v9' <= v9 + 1 /\ s.scanning
    <3>1. v9 <= RetryMax + s.scanAge /\ s.scanAge < ScanTimeout
      BY <1>9, <2>2 DEF Ready, OnTime, s
    <3>2. v9 \in Nat /\ v9' \in Nat
      BY <1>8, <1>3 DEF Wifi!Cap
    <3> QED BY <1>2, <1>3, <2>2, <3>1, <3>2
  <2>3. CASE ~p.a.connect /\ v9' <= v9 + 1 /\ ~s.scanning
    <3>1. v9 + s.next <= RetryMax /\ s.next # 0
      BY <1>9, <2>3 DEF Ready, OnTime, s
    <3>2. v9 \in Nat /\ v9' \in Nat
      BY <1>8, <1>3 DEF Wifi!Cap
    <3>3. Wifi!Less(s.next) = s.next - 1
      BY <1>2, <3>1 DEF Wifi!Less
    <3> QED BY <1>2, <1>3, <2>3, <3>1, <3>2, <3>3
  <2> QED BY <1>8, <2>1, <2>2, <2>3
<1>10. Wifi!Joined(v5') <=> Wifi!Joined(s)
  BY <1>7 DEF Wifi!Joined
<1> HIDE DEF age
<1> QED BY <1>7, <1>8, <1>9, <1>10 DEF Wifi!PursuitFits, Wifi!Cap, Wifi!Joined, Wifi!Creds,
    Wifi!Supervisor

\* The radio is left in one of its states, whatever is asked of it.
LEMMA AppliedFits ==
  ASSUME NEW a, Wifi!PursuitFits
  PROVE  \A r \in Wifi!Applied(a) : r \in Wifi!Radios
<1> DEFINE r1 == IF a.disconnect THEN [v6 EXCEPT !.link = FALSE, !.joins = FALSE] ELSE v6
           r2 == IF a.stopAp THEN {[r1 EXCEPT !.ap = FALSE]} ELSE {r1}
           r3 == IF a.startAp THEN UNION {{[r EXCEPT !.ap = TRUE], r} : r \in r2} ELSE r2
           r4 == {IF a.startScan THEN [r EXCEPT !.scan = TRUE] ELSE r : r \in r3}
           r5 == {IF a.connect THEN [r EXCEPT !.joins = TRUE] ELSE r : r \in r4}
<1>1. \A r \in Wifi!Radios : /\ [r EXCEPT !.ap = FALSE] \in Wifi!Radios /\ [r EXCEPT !.ap = TRUE] \in Wifi!Radios
                        /\ [r EXCEPT !.scan = TRUE] \in Wifi!Radios /\ [r EXCEPT !.joins = TRUE] \in Wifi!Radios
                        /\ [r EXCEPT !.link = FALSE, !.joins = FALSE] \in Wifi!Radios
  BY DEF Wifi!Radios
<1>2. v6 \in Wifi!Radios
  BY DEF Wifi!PursuitFits
<1>3. r1 \in Wifi!Radios
  BY <1>1, <1>2
<1> HIDE DEF r1
<1>4. r2 \subseteq Wifi!Radios
  BY <1>1, <1>3
<1> HIDE DEF r2
<1>5. r3 \subseteq Wifi!Radios
  BY <1>1, <1>4
<1> HIDE DEF r3
<1>6. r4 \subseteq Wifi!Radios
  BY <1>1, <1>5
<1> HIDE DEF r4
<1>7. r5 \subseteq Wifi!Radios
  BY <1>1, <1>6
<1>8. Wifi!Applied(a) = r5
  BY DEF Wifi!Applied, r1, r2, r3, r4
<1> QED BY <1>7, <1>8

\* Every step keeps the invariant of the pursuit.
LEMMA PursuitKeeps ==
  ASSUME Wifi!PursuitFits, Wifi!MailFits, [Wifi!Next]_vars, Wifi!WifiLinkAssumption
  PROVE  Wifi!PursuitFits'
<1>1. CASE Wifi!Tick
  <2> DEFINE p1 == Wifi!Changed([s |-> v5, a |-> Wifi!NoActions])
             p2 == Wifi!Linked(p1, v6.link)
             p3 == Wifi!Scanned(p2, v5.scanning /\ ~v6.scan)
             p4 == Wifi!Retried(p3)
             p5 == Wifi!Maintained(p4, v6.ap)
  <2>1. p1 \in Stage /\ OnTime(p1)
    BY ChangedOnTime
  <2>2. p2 \in Stage /\ OnTime(p2)
    <3>1. v6.link \in BOOLEAN
      BY DEF Wifi!PursuitFits, Wifi!Radios
    <3> HIDE DEF p1
    <3> QED BY <2>1, <3>1, LinkedOnTime
  <2>3. p3 \in Stage /\ OnTime(p3) /\ (p3.s.scanning => p3.s.scanAge < ScanTimeout)
    <3>1. v9 \in Nat
      BY DEF Wifi!PursuitFits, Wifi!Cap, Wifi!WifiLinkAssumption
    <3>2. (v5.scanning /\ ~v6.scan) \in BOOLEAN
      OBVIOUS
    <3> HIDE DEF p2
    <3> QED BY <2>2, <3>1, <3>2, ScannedOnTime
  <2>4. Ready(p4)
    <3> HIDE DEF p3
    <3> QED BY <2>3, RetriedReady
  <2>5. Ready(p5)
    <3> HIDE DEF p4
    <3> QED BY <2>4, MaintainedReady
  <2>6. /\ v6' \in Wifi!Applied(p5.a) /\ v5' = Wifi!Aged(p5.s) /\ v1' = v1
        /\ v9' = IF p5.a.connect THEN 0 ELSE Wifi!Later(v9)
    BY <1>1 DEF Wifi!Tick
  <2> HIDE DEF p5
  <2>7. v9 \in 0..Wifi!Cap /\ v1 \in Wifi!Creds
    BY DEF Wifi!PursuitFits
  <2>8. v6' \in Wifi!Radios
    BY <2>6, AppliedFits
  <2> QED BY <2>5, <2>6, <2>7, <2>8, AgedFits
<1>2. ASSUME v1' \in Wifi!Creds, v6' \in Wifi!Radios,
             v9' = v9, v5' = v5 \/ v5' = [v5 EXCEPT !.at = "tick"]
      PROVE  Wifi!PursuitFits'
  <2>1. v5 \in Wifi!Supervisor
    BY DEF Wifi!PursuitFits
  <2>2. /\ v5' \in Wifi!Supervisor /\ v5'.cached = v5.cached /\ v5'.linkUp = v5.linkUp
        /\ v5'.scanning = v5.scanning /\ v5'.scanAge = v5.scanAge /\ v5'.next = v5.next
    BY <1>2, <2>1 DEF Wifi!Supervisor
  <2> QED BY <1>2, <2>2 DEF Wifi!PursuitFits, Wifi!Joined, Wifi!Cap, Wifi!Creds, Wifi!Supervisor
<1>3. CASE ~Wifi!Tick
  <2>1. v1' \in Wifi!Creds
    BY MailKeeps DEF Wifi!MailFits, Wifi!Creds
  <2>2. v9' = v9 /\ (v5' = v5 \/ v5' = [v5 EXCEPT !.at = "tick"])
    BY <1>3 DEF Wifi!Next, Wifi!Offer, Wifi!Imported, Wifi!Offered, Wifi!Take, Wifi!Apply,
        Wifi!NoMail, Wifi!Radio, Wifi!AskScan, vars
  <2>3. v6' \in Wifi!Radios
    <3>1. v6 \in Wifi!Radios
      BY DEF Wifi!PursuitFits
    <3>2. CASE Wifi!Radio
      BY <3>1, <3>2 DEF Wifi!Radio, Wifi!Radios
    <3>3. CASE v6' = v6
      BY <3>1, <3>3
    <3> QED BY <1>3, <3>2, <3>3 DEF Wifi!Next, Wifi!Offer, Wifi!Imported, Wifi!Offered,
        Wifi!Take, Wifi!Apply, Wifi!NoMail, Wifi!AskScan, vars
  <2> QED BY <1>2, <2>1, <2>2, <2>3
<1> QED BY <1>1, <1>3

\* It starts out that way.
LEMMA WifiStarts ==
  ASSUME Wifi!Init, Wifi!WifiLinkAssumption
  PROVE  Wifi!MailFits /\ Wifi!PursuitFits
<1>1. v1 \in Wifi!Creds /\ v1.ssid = v1.pass
  BY DEF Wifi!Init, Wifi!Creds, Wifi!Blank
<1>2. Wifi!MailFits
  BY <1>1 DEF Wifi!Init, Wifi!MailFits, Wifi!PairIsWhole, Wifi!Creds, Wifi!Blank
<1>3. v5 \in Wifi!Supervisor /\ ~v5.scanning /\ v5.next <= RetryMax
  BY <1>1 DEF Wifi!Init, Wifi!Begun, Wifi!Supervisor, Wifi!NoStop, Wifi!WifiLinkAssumption
<1>4. v9 = 0 /\ 0 \in 0..Wifi!Cap
  BY DEF Wifi!Init, Wifi!Cap, Wifi!WifiLinkAssumption
<1>5. v6 \in Wifi!Radios
  BY DEF Wifi!Init, Wifi!Radios
<1>6. v5.next \in Nat
  BY <1>3 DEF Wifi!Supervisor
<1> QED BY <1>1, <1>2, <1>3, <1>4, <1>5, <1>6 DEF Wifi!PursuitFits

\* What the two say of the network.
LEMMA WifiSafe ==
  ASSUME Wifi!MailFits, Wifi!PursuitFits, Wifi!WifiLinkAssumption
  PROVE  Wifi!PairIsWhole /\ Wifi!LinkIsPursued
<1>1. v5.scanAge \in 0..ScanTimeout /\ v5.next \in Nat /\ v9 \in Nat
  BY DEF Wifi!PursuitFits, Wifi!Supervisor, Wifi!Cap, Wifi!WifiLinkAssumption
<1> QED BY <1>1 DEF Wifi!MailFits, Wifi!PursuitFits, Wifi!LinkIsPursued, Wifi!WifiLinkAssumption

\* A set of numbers that is not empty has a least one.
LEMMA LeastNat ==
  ASSUME NEW T, T \subseteq Nat, T # {}
  PROVE  \E m \in T : \A k \in T : m <= k
<1> DEFINE R == OpToRel(<, Nat)
<1>1. IsWellFoundedOn(R, Nat)
  BY NatLessThanWellFounded
<1>2. \A a, b \in Nat : a < b => <<a, b>> \in R
  BY DEF OpToRel
<1> HIDE DEF R
<1>3. PICK m \in T : \A k \in T : ~(<<k, m>> \in R)
  BY <1>1, WFMin
<1>4. ASSUME NEW k \in T PROVE m <= k
  <2>1. k \in Nat /\ m \in Nat
    OBVIOUS
  <2>2. ~(<<k, m>> \in R)
    BY <1>3
  <2>3. ~(k < m)
    BY <1>2, <2>1, <2>2, Zenon
  <2> QED BY <2>1, <2>3
<1> QED BY <1>4

-----------------------------------------------------------------------------
(* DisplayPanel.                                                           *)

\* The row that flushRows() sends next is one of those that wait.
LEMMA FirstWaits ==
  ASSUME NEW S \in SUBSET Pan!Row, S # {}, Pan!DisplayPanelAssumption
  PROVE  Pan!First(S) \in S
<1>1. S \in SUBSET Nat
  BY DEF Pan!Row, Pan!DisplayPanelAssumption
<1>2. \E r \in S : \A t \in S : r <= t
  BY <1>1, LeastNat
<1> QED BY <1>2 DEF Pan!First

\* A failed transfer gives the panel up, if it changes that at all.
LEMMA FailedGivesUp ==
  ASSUME Pan!Failed
  PROVE  v4' => v4
BY DEF Pan!Failed

\* Every step of the panel keeps its invariant.
LEMMA PanelKeeps ==
  ASSUME Pan!PanelFits, [Pan!Next]_vars, Pan!DisplayPanelAssumption
  PROVE  Pan!PanelFits'
<1> USE DEF Pan!PanelFits
<1>1. ASSUME Pan!SendRow PROVE Pan!PanelFits'
  <2>1. PICK ok \in BOOLEAN, r \in {Pan!First(v10)} :
          /\ v10' = Pan!StillDirty(r, ok)
          /\ v9' = IF r \in v10' THEN v9 ELSE [v9 EXCEPT ![r] = v11[r]]
          /\ IF ok THEN v12' = [v12 EXCEPT ![r] = v11[r]] /\ v4' = v4
             ELSE /\ v12' \in {[v12 EXCEPT ![r] = i] : i \in {Garbage, v12[r], v11[r]}}
                  /\ Pan!Failed
    BY <1>1 DEF Pan!SendRow
  <2>2. r \in v10 /\ r \in Pan!Row
    BY <1>1, <2>1, FirstWaits DEF Pan!SendRow
  <2>3. v11' = v11 /\ (v4' => v4)
    BY <1>1, <2>1, FailedGivesUp DEF Pan!SendRow
  <2>4. CASE ok
    BY <2>1, <2>2, <2>3, <2>4 DEF Pan!StillDirty
  <2>5. CASE ~ok
    BY <2>1, <2>2, <2>3, <2>5 DEF Pan!StillDirty
  <2> QED BY <2>4, <2>5
<1>2. ASSUME NEW frame \in [Pan!Row -> Image], Pan!Draw(frame), v4' = v4, v9' = v9, v12' = v12
      PROVE  Pan!PanelFits'
  BY <1>2 DEF Pan!Draw
<1>3. ASSUME v9' = v9, v10' = v10, v11' = v11, v12' = v12, v4' => v4
      PROVE  Pan!PanelFits'
  BY <1>3
<1>4. CASE Pan!Finish \/ Pan!ContrastStep
  BY <1>3, <1>4, FailedGivesUp DEF Pan!Finish, Pan!ContrastStep, Pan!tiles, Pan!serv, Pan!panel
<1>5. CASE Pan!Render \/ Pan!ResetHook
  BY <1>2, <1>3, <1>5 DEF Pan!Render, Pan!ResetHook, Pan!serv, Pan!panel
<1>6. CASE Pan!Begin \/ Pan!Set \/ UNCHANGED vars
  BY <1>3, <1>6 DEF Pan!Begin, Pan!Set, vars, Pan!tiles, Pan!serv, Pan!panel
<1>7. CASE Pan!RetryProbe
  <2>1. v9' = v9 /\ v11' = v11
    BY <1>7 DEF Pan!RetryProbe
  <2>2. \/ v10' = v10 /\ v12' = v12 /\ v4' = v4
        \/ v10' = Pan!Row /\ v12' = [r \in Pan!Row |-> Garbage]
    BY <1>7 DEF Pan!RetryProbe, Pan!InvalidatedRows, Pan!panel
  <2> QED BY <2>1, <2>2
<1> QED BY <1>1, <1>4, <1>5, <1>6, <1>7 DEF Pan!Next

\* It holds at the start.
LEMMA PanelStarts ==
  ASSUME Pan!Init
  PROVE  Pan!PanelFits
BY DEF Pan!Init, Pan!PanelFits

\* It has the property as a part.
LEMMA PanelSafe ==
  ASSUME Pan!PanelFits
  PROVE  Pan!PanelShowsTheFrame
BY DEF Pan!PanelFits, Pan!PanelShowsTheFrame

-----------------------------------------------------------------------------
(* Sensors.                                                                *)

\* A sensor that gets another probe begins anew.
LEMMA RemappedFits ==
  ASSUME NEW s, NEW address \in Probe \cup {None}, Sens!SensorsAssumption
  PROVE  LET t == Sens!Remapped(s, address)
         IN Sens!Fits(t, None, Sens!NoRun) /\ t.address = address
<1>1. /\ 0 \in 0..RecoverCount /\ 0 # RecoverCount /\ ~(0 > 0) /\ 0 <= 0
      /\ 0 \in 0..FaultCount /\ 0 # FaultCount
  BY DEF Sens!SensorsAssumption
<1> QED BY <1>1 DEF Sens!Remapped, Sens!NewSensor, Sens!Reset, Sens!NoRun, Sens!Fits,
                    Sens!LogicalSensor, Sens!Assigned

\* A scan takes its runs from a sensor, and nothing else.
LEMMA ScannedFits ==
  ASSUME NEW s, NEW probe, NEW c, NEW found, Sens!Fits(s, probe, c), Sens!SensorsAssumption
  PROVE  LET t == Sens!Scanned(s, found)
         IN Sens!Fits(t, probe, Sens!NoRun) /\ t.address = s.address
<1> DEFINE t == Sens!Scanned(s, found)
<1>1. /\ t \in Sens!LogicalSensor /\ t.deb = s.deb /\ t.address = s.address
  BY DEF Sens!Scanned, Sens!Fits, Sens!LogicalSensor, Sens!Assigned
<1>2. /\ 0 \in 0..RecoverCount /\ ~(0 > 0) /\ 0 \in 0..FaultCount
      /\ 0 <= t.deb.good /\ 0 <= t.deb.bad
  BY <1>1 DEF Sens!SensorsAssumption, Sens!LogicalSensor
<1>3. /\ Sens!NoRun \in [good : 0..RecoverCount, silent : 0..FaultCount]
      /\ Sens!NoRun.good = 0 /\ Sens!NoRun.silent = 0
  BY <1>2 DEF Sens!NoRun
<1> HIDE DEF t
<1>4. Sens!Fits(t, probe, Sens!NoRun)
  BY <1>1, <1>2, <1>3 DEF Sens!Fits, Sens!Assigned
<1> QED BY <1>1, <1>4 DEF t

\* SensorDebounce.onReading(), for a good reading and for any other.
LEMMA DebouncedFits ==
  ASSUME NEW s \in Sens!LogicalSensor, NEW r \in Sens!Reading, Sens!SensorsAssumption
  PROVE  LET d == s.deb
             e == Sens!Debounced(d, r)
             status == Sens!Effective(d, r)
         IN /\ e.good \in 0..RecoverCount /\ e.bad \in 0..FaultCount
            /\ e.state \in {"Unknown", "Ok", "Fault"}
            /\ e.lastBad \in {"NoResponse", "CrcError", "PowerOnValue"}
            /\ e \in [state : {"Unknown", "Ok", "Fault"}, good : 0..RecoverCount, bad : 0..FaultCount,
                      lastBad : {"NoResponse", "CrcError", "PowerOnValue"}]
            /\ status = "Ok" =>
                 /\ e.good = Sens!More(d.good, RecoverCount) /\ e.bad = 0 
                 /\ e.state = IF e.good = RecoverCount THEN "Ok" ELSE d.state
            /\ status # "Ok" =>
                 /\ e.good = 0 /\ e.bad = Sens!More(d.bad, FaultCount) /\ e.lastBad = status
                 /\ e.state = IF e.bad = FaultCount THEN "Fault" ELSE d.state
<1> DEFINE d == s.deb
           status == Sens!Effective(d, r)
           good == Sens!More(d.good, RecoverCount)
           bad == Sens!More(d.bad, FaultCount)
           e == Sens!Debounced(d, r)
           Deb == [state : {"Unknown", "Ok", "Fault"}, good : 0..RecoverCount, bad : 0..FaultCount,
                   lastBad : {"NoResponse", "CrcError", "PowerOnValue"}]
<1>1. /\ RecoverCount \in Nat /\ FaultCount \in Nat
      /\ 0 \in 0..RecoverCount /\ 0 \in 0..FaultCount
  BY DEF Sens!SensorsAssumption
<1>2. d \in Deb
  BY DEF Sens!LogicalSensor
<1>3. good \in 0..RecoverCount /\ bad \in 0..FaultCount
  BY <1>1, <1>2 DEF Sens!More
<1>4. good >= RecoverCount <=> good = RecoverCount
  BY <1>1, <1>3
<1>5. bad >= FaultCount <=> bad = FaultCount
  BY <1>1, <1>3
<1>6. status \in {"Ok", "NoResponse", "CrcError", "PowerOnValue"}
  BY DEF Sens!Effective, Sens!Reading
<1>7. CASE status = "Ok"
  <2>1. e = [d EXCEPT !.bad = 0, !.good = good, !.state = IF good = RecoverCount THEN "Ok" ELSE @]
    <3>1. [d EXCEPT !.bad = 0, !.good = Sens!More(@, RecoverCount)] = [d EXCEPT !.bad = 0, !.good = good]
      BY <1>2
    <3> HIDE DEF d, good
    <3> QED BY <1>2, <1>3, <1>4, <1>7, <3>1 DEF Sens!Debounced
  <2> HIDE DEF d, e, status, good, bad
  <2>2. /\ e \in Deb /\ e.good = good /\ e.bad = 0
        /\ e.state = IF good = RecoverCount THEN "Ok" ELSE d.state
    BY <1>1, <1>2, <1>3, <2>1
  <2> QED BY <1>7, <2>2 DEF d, e, status, good
<1>8. CASE status # "Ok"
  <2>1. e = [d EXCEPT !.good = 0, !.bad = bad, !.lastBad = status,
                      !.state = IF bad = FaultCount THEN "Fault" ELSE @]
    <3>1. [d EXCEPT !.good = 0, !.bad = Sens!More(@, FaultCount), !.lastBad = status]
            = [d EXCEPT !.good = 0, !.bad = bad, !.lastBad = status]
      BY <1>2
    <3> HIDE DEF d, bad
    <3> QED BY <1>2, <1>3, <1>5, <1>8, <3>1 DEF Sens!Debounced
  <2> HIDE DEF d, e, status, good, bad
  <2>2. /\ e \in Deb /\ e.good = 0 /\ e.bad = bad /\ e.lastBad = status
        /\ e.state = IF bad = FaultCount THEN "Fault" ELSE d.state
    BY <1>1, <1>2, <1>3, <1>6, <1>8, <2>1
  <2> QED BY <1>8, <2>2 DEF d, e, status, bad
<1> QED BY <1>7, <1>8

\* A reading leaves a sensor fit, good or bad.
LEMMA ReadFits ==
  ASSUME NEW s, NEW probe, NEW c, Sens!Fits(s, probe, c), Sens!Assigned(s),
         NEW r \in Sens!Reading, Sens!SensorsAssumption
  PROVE  LET t == Sens!ReadBy(s, r)
         IN /\ Sens!Fits(t, IF Sens!Effective(s.deb, r) = "Ok" THEN s.address ELSE probe, Sens!Counted(c, r))
            /\ t.address = s.address
<1> DEFINE e == Sens!Debounced(s.deb, r)
           status == Sens!Effective(s.deb, r)
           t == Sens!ReadBy(s, r)
           f == Sens!Counted(c, r)
<1>1. s \in Sens!LogicalSensor /\ c.good \in 0..RecoverCount /\ c.silent \in 0..FaultCount
  BY DEF Sens!Fits
<1>2. /\ e.good \in 0..RecoverCount /\ e.bad \in 0..FaultCount
      /\ e \in [state : {"Unknown", "Ok", "Fault"}, good : 0..RecoverCount, bad : 0..FaultCount,
                lastBad : {"NoResponse", "CrcError", "PowerOnValue"}]
      /\ status = "Ok" =>
           /\ e.good = Sens!More(s.deb.good, RecoverCount) /\ e.bad = 0 
           /\ e.state = IF e.good = RecoverCount THEN "Ok" ELSE s.deb.state
      /\ status # "Ok" =>
           /\ e.good = 0 /\ e.bad = Sens!More(s.deb.bad, FaultCount) /\ e.lastBad = status
           /\ e.state = IF e.bad = FaultCount THEN "Fault" ELSE s.deb.state
  BY <1>1, DebouncedFits
<1>3. /\ t \in Sens!LogicalSensor /\ t.deb = e /\ t.address = s.address
      /\ t.goodSinceScan = (s.goodSinceScan \/ r.status = "Ok")
  <2>1. t = [s EXCEPT !.goodSinceScan = (s.goodSinceScan \/ r.status = "Ok"), !.deb = e]
    BY <1>1 DEF Sens!ReadBy, Sens!LogicalSensor
  <2>2. (s.goodSinceScan \/ r.status = "Ok") \in BOOLEAN
    OBVIOUS
  <2> HIDE DEF t, e
  <2> QED BY <1>1, <1>2, <2>1, <2>2 DEF Sens!LogicalSensor
<1>4. /\ f = [good |-> f.good, silent |-> f.silent]
      /\ f.good = IF r.status = "Ok" /\ ~r.is85 THEN Sens!More(c.good, RecoverCount) ELSE 0
      /\ f.silent = IF r.status = "NoResponse" THEN Sens!More(c.silent, FaultCount) ELSE 0
  BY DEF Sens!Counted
<1>5. /\ s.deb.good \in 0..RecoverCount /\ s.deb.bad \in 0..FaultCount
      /\ c.good <= s.deb.good /\ c.silent <= s.deb.bad
  BY <1>1 DEF Sens!Fits, Sens!LogicalSensor
<1>6. RecoverCount \in Nat \ {0} /\ FaultCount \in Nat \ {0}
  BY DEF Sens!SensorsAssumption
<1>7. (r.status = "Ok" /\ ~r.is85 => status = "Ok") /\ (r.status = "NoResponse" => status = "NoResponse")
  BY DEF Sens!Effective
<1>8. status = "Ok" => r.status = "Ok"
  BY DEF Sens!Effective
<1> HIDE DEF e, status, t, f
<1>9. /\ f.good \in 0..RecoverCount /\ f.good <= e.good
      /\ f.good > 0 => r.status = "Ok"
  BY <1>2, <1>4, <1>5, <1>1, <1>6, <1>7 DEF Sens!More
<1>10. /\ f.silent \in 0..FaultCount /\ f.silent <= e.bad
       /\ f.silent > 0 => r.status = "NoResponse"
  BY <1>2, <1>4, <1>5, <1>1, <1>6, <1>7 DEF Sens!More
<1>11. /\ e.state = "Ok" => (status = "Ok" \/ s.deb.state = "Ok")
       /\ e.good = RecoverCount => e.state = "Ok"
       /\ e.bad = FaultCount => e.state = "Fault"
  BY <1>2, <1>6
<1>12. Sens!Fits(t, IF status = "Ok" THEN s.address ELSE probe, f)
  <2>1. e.state = "Ok" => (IF status = "Ok" THEN s.address ELSE probe) = s.address
    BY <1>11 DEF Sens!Fits
  <2>2. f \in [good : 0..RecoverCount, silent : 0..FaultCount]
    BY <1>4, <1>9, <1>10
  <2>3. Sens!Assigned(t)
    BY <1>3 DEF Sens!Assigned
  <2>4. f.good > 0 => t.goodSinceScan
    BY <1>3, <1>9
  <2>5. f.silent > 0 => e.lastBad = "NoResponse"
    BY <1>2, <1>7, <1>10
  <2> QED BY <1>3, <1>9, <1>10, <1>11, <2>1, <2>2, <2>3, <2>4, <2>5 DEF Sens!Fits
<1> QED BY <1>3, <1>12 DEF t, f, status

\* evaluateMissing() looks at everything but the alarm itself.
LEMMA EvaluatedFits ==
  ASSUME NEW s, NEW probe, NEW c, Sens!Fits(s, probe, c)
  PROVE  LET t == [s EXCEPT !.missing = Sens!IsMissing(s)]
         IN Sens!Fits(t, probe, c) /\ t.missing = Sens!IsMissing(t) /\ t.address = s.address
<1> DEFINE t == [s EXCEPT !.missing = Sens!IsMissing(s)]
<1>1. Sens!IsMissing(s) \in BOOLEAN
  BY DEF Sens!IsMissing, Sens!Assigned, Sens!Fits, Sens!LogicalSensor
<1>2. s \in Sens!LogicalSensor
  BY DEF Sens!Fits
<1>3. /\ t \in Sens!LogicalSensor /\ t.missing = Sens!IsMissing(s) /\ t.deb = s.deb
      /\ t.address = s.address /\ t.goodSinceScan = s.goodSinceScan
      /\ t.missingScan = s.missingScan
  BY <1>1, <1>2 DEF Sens!LogicalSensor
<1> HIDE DEF t
<1>4. Sens!Fits(t, probe, c)
  BY <1>3 DEF Sens!Fits, Sens!Assigned
<1>5. t.missing = Sens!IsMissing(t)
  BY <1>3 DEF Sens!IsMissing, Sens!Assigned
<1> QED BY <1>3, <1>4, <1>5 DEF t

\* No two sensors are left with one probe, and none with a text that is no address.
LEMMA KeptFits ==
  ASSUME NEW texts \in [Sens!Logical -> Probe \cup {None, Invalid}], Sens!SensorsAssumption
  PROVE  LET kept == Sens!Kept(texts)
         IN /\ kept \in [Sens!Logical -> Probe \cup {None}]
            /\ \A k, l \in Sens!Logical : k # l /\ kept[k] # None => kept[k] # kept[l]
<1>1. \A k, l \in Sens!Logical : k # l => k < l \/ l < k
  BY DEF Sens!Logical, Sens!SensorsAssumption
<1> DEFINE kept == Sens!Kept(texts)
<1>2. kept = [l \in Sens!Logical |->
                IF texts[l] = Invalid \/ \E k \in Sens!Logical : k < l /\ texts[k] = texts[l]
                THEN None ELSE texts[l]]
  BY DEF Sens!Kept
<1> HIDE DEF kept
<1>3. kept \in [Sens!Logical -> Probe \cup {None}]
  BY <1>2
<1>4. ASSUME NEW k \in Sens!Logical, NEW l \in Sens!Logical, k # l, kept[k] # None, kept[k] = kept[l]
      PROVE  FALSE
  <2>1. kept[k] = texts[k] /\ kept[l] = texts[l] /\ texts[k] = texts[l]
    BY <1>2, <1>4
  <2>2. ~(k < l) /\ ~(l < k)
    BY <1>2, <1>4, <2>1
  <2> QED BY <1>1, <1>4, <2>2
<1> QED BY <1>3, <1>4 DEF kept

\* What a command or a tick leaves: a mapping that is kept, sensors that follow it, and
\* alarms that follow them.
LEMMA EvaluatedFit ==
  ASSUME NEW texts \in [Sens!Logical -> Probe \cup {None}],
         \A k, l \in Sens!Logical : k # l /\ texts[k] # None => texts[k] # texts[l],
         NEW ss, v1' = texts, v2' = Sens!Evaluated(ss),
         \A l \in Sens!Logical : Sens!Fits(ss[l], v6'[l], v7'[l]) /\ ss[l].address = texts[l]
  PROVE  Sens!SensorsFit'
<1>1. \A l \in Sens!Logical : v2'[l] = [ss[l] EXCEPT !.missing = Sens!IsMissing(ss[l])]
  BY DEF Sens!Evaluated
<1>2. ASSUME NEW l \in Sens!Logical
      PROVE  Sens!Fits(v2'[l], v6'[l], v7'[l]) /\ v2'[l].missing = Sens!IsMissing(v2'[l])
               /\ v2'[l].address = texts[l]
  <2> DEFINE t == [ss[l] EXCEPT !.missing = Sens!IsMissing(ss[l])]
  <2>1. Sens!Fits(t, v6'[l], v7'[l]) /\ t.missing = Sens!IsMissing(t) /\ t.address = ss[l].address
    BY EvaluatedFits
  <2>2. v2'[l] = t
    BY <1>1
  <2> HIDE DEF t
  <2> QED BY <2>1, <2>2
<1>3. v1' \in [Sens!Logical -> Probe \cup {None, Invalid}]
  OBVIOUS
<1>4. \A k, l \in Sens!Logical : k # l /\ Sens!Assigned(v2'[k]) => v2'[k].address # v2'[l].address
  BY <1>2 DEF Sens!Assigned
<1> QED BY <1>2, <1>3, <1>4 DEF Sens!SensorsFit, Sens!Logical, Sens!Fits, Sens!IsMissing,
    Sens!Assigned, Sens!LogicalSensor

\* So does the new map from the settings to the probes.
LEMMA SyncedFits ==
  ASSUME Sens!SensorsFit, Sens!SensorsAssumption, NEW texts \in [Sens!Logical -> Probe \cup {None}],
         NEW l \in Sens!Logical
  PROVE  LET synced == Sens!Synced(v2, texts)
         IN /\ synced[l].address = texts[l]
            /\ Sens!Fits(synced[l], IF Sens!Moved(l, texts) THEN None ELSE v6[l],
                         IF Sens!Moved(l, texts) THEN Sens!NoRun ELSE v7[l])
<1>1. Sens!Synced(v2, texts)[l] = IF Sens!Moved(l, texts) THEN Sens!Remapped(v2[l], texts[l]) ELSE v2[l]
  BY DEF Sens!Synced, Sens!Moved
<1>2. Sens!Fits(v2[l], v6[l], v7[l])
  BY DEF Sens!SensorsFit
<1>3. texts[l] \in Probe \cup {None}
  OBVIOUS
<1>4. LET t == Sens!Remapped(v2[l], texts[l]) IN Sens!Fits(t, None, Sens!NoRun) /\ t.address = texts[l]
  BY <1>3, RemappedFits
<1> QED BY <1>1, <1>2, <1>4 DEF Sens!Moved

\* The commands of the mapping, and the tick that waits.
LEMMA MappedFits ==
  ASSUME Sens!SensorsFit, Sens!SensorsAssumption,
         NEW entered \in [Sens!Logical -> Probe \cup {None, Invalid}],
         LET texts == Sens!Kept(entered)
         IN /\ Sens!Follow(texts, Sens!Evaluated(Sens!Synced(v2, texts)))
            /\ v6' = [k \in Sens!Logical |-> IF Sens!Moved(k, texts) THEN None ELSE v6[k]]
            /\ v7' = [k \in Sens!Logical |-> IF Sens!Moved(k, texts) THEN Sens!NoRun ELSE v7[k]]
  PROVE  Sens!SensorsFit'
<1> DEFINE texts == Sens!Kept(entered)
           ss == Sens!Synced(v2, texts)
<1>1. /\ texts \in [Sens!Logical -> Probe \cup {None}]
      /\ \A k, l \in Sens!Logical : k # l /\ texts[k] # None => texts[k] # texts[l]
  BY KeptFits
<1>2. v1' = texts /\ v2' = Sens!Evaluated(ss)
  BY DEF Sens!Follow
<1>3. ASSUME NEW l \in Sens!Logical
      PROVE  Sens!Fits(ss[l], v6'[l], v7'[l]) /\ ss[l].address = texts[l]
  <2>1. /\ v6'[l] = IF Sens!Moved(l, texts) THEN None ELSE v6[l]
        /\ v7'[l] = IF Sens!Moved(l, texts) THEN Sens!NoRun ELSE v7[l]
    OBVIOUS
  <2> HIDE DEF texts
  <2> QED BY <1>1, <2>1, SyncedFits
<1> HIDE DEF ss, texts
<1> QED BY <1>1, <1>2, <1>3, EvaluatedFit

\* Every step of the sensors keeps their invariant.
LEMMA SensorsKeep ==
  ASSUME Sens!SensorsFit, [Sens!Next]_vars, Sens!SensorsAssumption
  PROVE  Sens!SensorsFit'
<1>1. v1 \in [Sens!Logical -> Probe \cup {None, Invalid}]
  BY DEF Sens!SensorsFit
<1>2. ASSUME NEW l \in Sens!Logical, NEW p \in Probe, Sens!Assign(l, p)
      PROVE  Sens!SensorsFit'
  <2> DEFINE entered == [k \in Sens!Logical |-> IF k = l THEN p
                                               ELSE IF v2[k].address = p THEN None ELSE v1[k]]
  <2>1. entered \in [Sens!Logical -> Probe \cup {None, Invalid}]
    BY <1>1
  <2>2. LET texts == Sens!Kept(entered)
        IN /\ Sens!Follow(texts, Sens!Evaluated(Sens!Synced(v2, texts)))
           /\ v6' = [k \in Sens!Logical |-> IF Sens!Moved(k, texts) THEN None ELSE v6[k]]
           /\ v7' = [k \in Sens!Logical |-> IF Sens!Moved(k, texts) THEN Sens!NoRun ELSE v7[k]]
    BY <1>2 DEF Sens!Assign
  <2> HIDE DEF entered
  <2> QED BY <2>1, <2>2, MappedFits
<1>3. ASSUME NEW l \in Sens!Logical, Sens!Clear(l)
      PROVE  Sens!SensorsFit'
  <2> DEFINE entered == [v1 EXCEPT ![l] = None]
  <2>1. entered \in [Sens!Logical -> Probe \cup {None, Invalid}]
    BY <1>1
  <2>2. LET texts == Sens!Kept(entered)
        IN /\ Sens!Follow(texts, Sens!Evaluated(Sens!Synced(v2, texts)))
           /\ v6' = [k \in Sens!Logical |-> IF Sens!Moved(k, texts) THEN None ELSE v6[k]]
           /\ v7' = [k \in Sens!Logical |-> IF Sens!Moved(k, texts) THEN Sens!NoRun ELSE v7[k]]
    BY <1>3 DEF Sens!Clear
  <2> HIDE DEF entered
  <2> QED BY <2>1, <2>2, MappedFits
<1>4. CASE Sens!WaitTick
  <2>1. LET texts == Sens!Kept(v1)
        IN /\ Sens!Follow(texts, Sens!Evaluated(Sens!Synced(v2, texts)))
           /\ v6' = [k \in Sens!Logical |-> IF Sens!Moved(k, texts) THEN None ELSE v6[k]]
           /\ v7' = [k \in Sens!Logical |-> IF Sens!Moved(k, texts) THEN Sens!NoRun ELSE v7[k]]
    BY <1>4 DEF Sens!WaitTick
  <2> QED BY <1>1, <2>1, MappedFits
<1>5. CASE Sens!RequestRescan \/ Sens!Enter \/ UNCHANGED vars
  <2>1. v1' \in [Sens!Logical -> Probe \cup {None, Invalid}] /\ v2' = v2 /\ v6' = v6 /\ v7' = v7
    BY <1>1, <1>5 DEF Sens!RequestRescan, Sens!Enter, vars
  <2> QED BY <2>1 DEF Sens!SensorsFit, Sens!Logical, Sens!Fits, Sens!IsMissing, Sens!Assigned,
      Sens!LogicalSensor
<1>6. CASE Sens!ScanTick
  <2> DEFINE texts == Sens!Kept(v1)
             ss == [l \in Sens!Logical |-> IF Sens!Moved(l, texts)
                                            THEN Sens!Scanned(Sens!Remapped(v2[l], texts[l]), v3')
                                            ELSE Sens!Scanned(v2[l], v3')]
  <2>1. /\ v1' = texts /\ v2' = Sens!Evaluated(ss)
        /\ v6' = [l \in Sens!Logical |-> IF Sens!Moved(l, texts) THEN None ELSE v6[l]]
        /\ v7' = [l \in Sens!Logical |-> Sens!NoRun]
    BY <1>6 DEF Sens!ScanTick, Sens!Follow
  <2>2. /\ texts \in [Sens!Logical -> Probe \cup {None}]
        /\ \A k, l \in Sens!Logical : k # l /\ texts[k] # None => texts[k] # texts[l]
    BY <1>1, KeptFits
  <2> HIDE DEF texts
  <2>3. ASSUME NEW l \in Sens!Logical
        PROVE  Sens!Fits(ss[l], v6'[l], v7'[l]) /\ ss[l].address = texts[l]
    <3>1. CASE Sens!Moved(l, texts)
      <4> DEFINE t == Sens!Remapped(v2[l], texts[l])
      <4>1. texts[l] \in Probe \cup {None}
        BY <2>2
      <4>2. Sens!Fits(t, None, Sens!NoRun) /\ t.address = texts[l]
        BY <4>1, RemappedFits
      <4>3. ss[l] = Sens!Scanned(t, v3') /\ v6'[l] = None /\ v7'[l] = Sens!NoRun
        BY <2>1, <3>1
      <4> HIDE DEF t, ss
      <4> QED BY <4>2, <4>3, ScannedFits
    <3>2. CASE ~Sens!Moved(l, texts)
      <4>1. Sens!Fits(v2[l], v6[l], v7[l]) /\ v2[l].address = texts[l]
        BY <3>2 DEF Sens!SensorsFit, Sens!Moved
      <4>2. ss[l] = Sens!Scanned(v2[l], v3') /\ v6'[l] = v6[l] /\ v7'[l] = Sens!NoRun
        BY <2>1, <3>2
      <4> HIDE DEF ss
      <4> QED BY <4>1, <4>2, ScannedFits
    <3> QED BY <3>1, <3>2
  <2> HIDE DEF ss
  <2> QED BY <2>1, <2>2, <2>3, EvaluatedFit
<1>7. CASE Sens!ReadTick
  <2> DEFINE texts == Sens!Kept(v1)
             synced == Sens!Synced(v2, texts)
  <2>1. PICK rs \in [Sens!Logical -> Sens!Reading] :
          /\ v1' = texts
          /\ v2' = Sens!Evaluated([l \in Sens!Logical |->
                     IF Sens!Assigned(synced[l]) THEN Sens!ReadBy(synced[l], rs[l]) ELSE synced[l]])
          /\ v6' = [l \in Sens!Logical |->
                     IF Sens!Assigned(synced[l]) /\ Sens!Effective(synced[l].deb, rs[l]) = "Ok" THEN texts[l]
                     ELSE IF Sens!Moved(l, texts) THEN None ELSE v6[l]]
          /\ v7' = [l \in Sens!Logical |->
                    IF texts[l] = None THEN Sens!NoRun
                    ELSE Sens!Counted(IF Sens!Moved(l, texts) THEN Sens!NoRun ELSE v7[l], rs[l])]
    <3>1. PICK t \in {texts}, rs \in [Sens!Logical -> Sens!Reading] :
            \E s \in {Sens!Synced(v2, t)} :
              /\ Sens!Follow(t, Sens!Evaluated([l \in Sens!Logical |->
                     IF Sens!Assigned(s[l]) THEN Sens!ReadBy(s[l], rs[l]) ELSE s[l]]))
              /\ v6' = [l \in Sens!Logical |->
                     IF Sens!Assigned(s[l]) /\ Sens!Effective(s[l].deb, rs[l]) = "Ok" THEN t[l]
                     ELSE IF Sens!Moved(l, t) THEN None ELSE v6[l]]
              /\ v7' = [l \in Sens!Logical |->
                    IF t[l] = None THEN Sens!NoRun
                    ELSE Sens!Counted(IF Sens!Moved(l, t) THEN Sens!NoRun ELSE v7[l], rs[l])]
      <4> HIDE DEF texts
      <4> QED BY <1>7, Zenon DEF Sens!ReadTick, texts
    <3>2. t = texts
      BY <3>1
    <3>3. PICK s \in {Sens!Synced(v2, t)} :
              /\ Sens!Follow(t, Sens!Evaluated([l \in Sens!Logical |->
                     IF Sens!Assigned(s[l]) THEN Sens!ReadBy(s[l], rs[l]) ELSE s[l]]))
              /\ v6' = [l \in Sens!Logical |->
                     IF Sens!Assigned(s[l]) /\ Sens!Effective(s[l].deb, rs[l]) = "Ok" THEN t[l]
                     ELSE IF Sens!Moved(l, t) THEN None ELSE v6[l]]
              /\ v7' = [l \in Sens!Logical |->
                    IF t[l] = None THEN Sens!NoRun
                    ELSE Sens!Counted(IF Sens!Moved(l, t) THEN Sens!NoRun ELSE v7[l], rs[l])]
      BY <3>1
    <3>4. s = synced
      BY <3>2, <3>3
    <3> HIDE DEF texts, synced
    <3>5. WITNESS rs \in [Sens!Logical -> Sens!Reading]
    <3> QED BY <3>2, <3>3, <3>4, Zenon DEF Sens!Follow
  <2>2. /\ texts \in [Sens!Logical -> Probe \cup {None}]
        /\ \A k, l \in Sens!Logical : k # l /\ texts[k] # None => texts[k] # texts[l]
    BY <1>1, KeptFits
  <2> DEFINE ss == [l \in Sens!Logical |->
                     IF Sens!Assigned(synced[l]) THEN Sens!ReadBy(synced[l], rs[l]) ELSE synced[l]]
  <2> HIDE DEF texts
  <2>3. ASSUME NEW l \in Sens!Logical
        PROVE  Sens!Fits(ss[l], v6'[l], v7'[l]) /\ ss[l].address = texts[l]
    <3> DEFINE probe == IF Sens!Moved(l, texts) THEN None ELSE v6[l]
               c == IF Sens!Moved(l, texts) THEN Sens!NoRun ELSE v7[l]
    <3>1. synced[l].address = texts[l] /\ Sens!Fits(synced[l], probe, c)
      BY <2>2, SyncedFits
    <3>2. rs[l] \in Sens!Reading
      OBVIOUS
    <3>3. CASE Sens!Assigned(synced[l])
      <4>1. texts[l] # None
        BY <3>1, <3>3 DEF Sens!Assigned
      <4>2. /\ ss[l] = Sens!ReadBy(synced[l], rs[l]) /\ v7'[l] = Sens!Counted(c, rs[l])
            /\ v6'[l] = IF Sens!Effective(synced[l].deb, rs[l]) = "Ok" THEN synced[l].address ELSE probe
        BY <2>1, <3>1, <3>3, <4>1
      <4> HIDE DEF ss, synced, probe, c
      <4> QED BY <3>1, <3>2, <3>3, <4>2, ReadFits
    <3>4. CASE ~Sens!Assigned(synced[l])
      <4>1. texts[l] = None
        BY <3>1, <3>4 DEF Sens!Assigned
      <4>2. ss[l] = synced[l] /\ v7'[l] = Sens!NoRun /\ v6'[l] = probe
        BY <2>1, <3>1, <3>4, <4>1
      <4>3. /\ Sens!NoRun \in [good : 0..RecoverCount, silent : 0..FaultCount]
            /\ Sens!NoRun.good = 0 /\ Sens!NoRun.silent = 0
        BY DEF Sens!NoRun, Sens!SensorsAssumption
      <4>4. synced[l].deb.good >= 0 /\ synced[l].deb.bad >= 0
        BY <3>1 DEF Sens!Fits, Sens!LogicalSensor
      <4> HIDE DEF ss, synced, probe, c
      <4> QED BY <3>1, <3>4, <4>2, <4>3, <4>4 DEF Sens!Fits
    <3> QED BY <3>3, <3>4
  <2>4. v1' = texts /\ v2' = Sens!Evaluated(ss)
    BY <2>1
  <2> HIDE DEF ss
  <2> QED BY <2>2, <2>3, <2>4, EvaluatedFit
<1> QED BY <1>2, <1>3, <1>4, <1>5, <1>6, <1>7 DEF Sens!Next

\* It holds at the start, whatever the settings saved.
LEMMA SensorsStart ==
  ASSUME Sens!Init, Sens!SensorsAssumption
  PROVE  Sens!SensorsFit
<1>1. PICK t \in [Sens!Logical -> Probe \cup {None, Invalid}] : v1 = Sens!Kept(t)
  BY DEF Sens!Init
<1>2. /\ v1 \in [Sens!Logical -> Probe \cup {None}]
      /\ \A k, l \in Sens!Logical : k # l /\ v1[k] # None => v1[k] # v1[l]
  BY <1>1, KeptFits
<1> DEFINE ss == Sens!Synced([l \in Sens!Logical |-> Sens!NewSensor], v1)
<1>3. ASSUME NEW l \in Sens!Logical
      PROVE  Sens!Fits(ss[l], None, Sens!NoRun) /\ ss[l].address = v1[l]
  <2>1. ss[l] = IF v1[l] = None THEN Sens!NewSensor ELSE Sens!Remapped(Sens!NewSensor, v1[l])
    BY DEF Sens!Synced, Sens!NewSensor
  <2>2. Sens!Fits(Sens!NewSensor, None, Sens!NoRun) /\ Sens!NewSensor.address = None
    <3>1. /\ 0 \in 0..RecoverCount /\ 0 # RecoverCount /\ ~(0 > 0) /\ 0 <= 0
          /\ 0 \in 0..FaultCount /\ 0 # FaultCount
      BY DEF Sens!SensorsAssumption
    <3> QED BY <3>1 DEF Sens!NewSensor, Sens!Reset, Sens!NoRun, Sens!Fits, Sens!LogicalSensor,
        Sens!Assigned
  <2>3. v1[l] \in Probe \cup {None}
    BY <1>2
  <2> HIDE DEF ss
  <2> QED BY <2>1, <2>2, <2>3, RemappedFits
<1>4. /\ v2 = Sens!Evaluated(ss) /\ v6 = [l \in Sens!Logical |-> None]
      /\ v7 = [l \in Sens!Logical |-> Sens!NoRun]
  BY DEF Sens!Init
<1> HIDE DEF ss
<1>5. ASSUME NEW l \in Sens!Logical
      PROVE  Sens!Fits(v2[l], v6[l], v7[l]) /\ v2[l].missing = Sens!IsMissing(v2[l])
               /\ v2[l].address = v1[l]
  <2>1. v2[l] = [ss[l] EXCEPT !.missing = Sens!IsMissing(ss[l])] /\ v6[l] = None /\ v7[l] = Sens!NoRun
    BY <1>4 DEF Sens!Evaluated
  <2> QED BY <1>3, <2>1, EvaluatedFits
<1> QED BY <1>2, <1>5 DEF Sens!SensorsFit, Sens!Assigned

\* It says what the properties say, and more.
LEMMA SensorsSafe ==
  ASSUME Sens!SensorsFit, Sens!SensorsAssumption
  PROVE  Sens!TemperatureIsOfItsProbe /\ Sens!MissingIsTold
<1>1. Sens!TemperatureIsOfItsProbe
  BY DEF Sens!SensorsFit, Sens!TemperatureIsOfItsProbe, Sens!Fits
<1>2. ASSUME NEW l \in Sens!Logical
      PROVE  /\ v7[l].good >= RecoverCount => ~v2[l].missing
             /\ v7[l].silent >= FaultCount => v2[l].missing
             /\ ~Sens!Assigned(v2[l]) => ~v2[l].missing
  <2>1. Sens!Fits(v2[l], v6[l], v7[l]) /\ v2[l].missing = Sens!IsMissing(v2[l])
    BY DEF Sens!SensorsFit
  <2>2. /\ v2[l].deb.good \in 0..RecoverCount /\ v2[l].deb.bad \in 0..FaultCount
        /\ v7[l].good \in 0..RecoverCount /\ v7[l].silent \in 0..FaultCount
    BY <2>1 DEF Sens!Fits, Sens!LogicalSensor
  <2>3. RecoverCount \in Nat \ {0} /\ FaultCount \in Nat \ {0}
    BY DEF Sens!SensorsAssumption
  <2>4. v7[l].good >= RecoverCount => v2[l].deb.good = RecoverCount /\ v7[l].good > 0
    BY <2>1, <2>2, <2>3 DEF Sens!Fits
  <2>5. v7[l].silent >= FaultCount => v2[l].deb.bad = FaultCount /\ v7[l].silent > 0
    BY <2>1, <2>2, <2>3 DEF Sens!Fits
  <2> QED BY <2>1, <2>4, <2>5 DEF Sens!Fits, Sens!IsMissing
<1> QED BY <1>1, <1>2 DEF Sens!MissingIsTold

-----------------------------------------------------------------------------
(* TimeKeeping.                                                            *)

\* A time that is as old as it can be told stays so.
LEMMA OlderFits ==
  ASSUME NEW age \in 0..Time!Cap, Time!TimeAssumption
  PROVE  LET t == Time!Older(age, 1, Time!Cap) IN t \in 0..Time!Cap /\ t <= age + 1
BY DEF Time!Older, Time!Cap, Time!TimeAssumption

\* Every step of the clocks keeps their invariant.
LEMMA TimeKeeps ==
  ASSUME Time!TimeFits, [Time!Next]_vars, Time!TimeAssumption
  PROVE  Time!TimeFits'
<1> USE DEF Time!TimeFits, Time!ClocksAgree
<1>1. /\ Resync \in Nat /\ ClockRetry \in Nat /\ MaxPass \in Nat /\ MaxPass > 0 /\ Wrong \in Nat
      /\ Time!Cap \in Nat /\ 0 \in 0..Time!Cap /\ 0 \in 0..MaxPass
      /\ Time!Cap = Resync + ClockRetry + 2 * MaxPass + 1 
  BY DEF Time!TimeAssumption, Time!Cap
<1> HIDE DEF Time!Cap
<1>2. CASE Time!Begin
  <2>1. ~v3.up
    BY <1>2 DEF Time!Begin
  <2>2. PICK there \in BOOLEAN :
          /\ v8' = [present |-> there, valid |-> there /\ v9.runs]
          /\ v2' = IF there /\ v9.runs THEN [source |-> "Rtc", behind |-> v9.behind] ELSE Time!Unset
    BY <1>2 DEF Time!Begin
  <2>3. /\ v3' = v3 /\ v4' = v4 /\ v5' = v5 /\ v7' = v7 /\ v9' = v9 /\ v12' = v12
        /\ v10' = 0 /\ v11' = 0
    BY <1>2 DEF Time!Begin
  <2>4. ~v7.set
    BY <1>2 DEF Time!Begin
  <2>5. /\ v8' \in [present : BOOLEAN, valid : BOOLEAN]
        /\ v8'.present /\ v8'.valid => there /\ v9.runs
    <3>1. PICK valid \in BOOLEAN : valid = (there /\ v9.runs)
      OBVIOUS
    <3> QED BY <2>2, <3>1
  <2>6. /\ v2' \in [source : {"None", "Rtc", "Ntp"}, behind : Nat] /\ v2'.source # "Ntp"
        /\ there /\ v9.runs => v2'.source = "Rtc" /\ v2'.behind = v9.behind
    BY <2>2 DEF Time!Unset
  <2> QED BY <1>1, <2>1, <2>3, <2>4, <2>5, <2>6
<1>3. CASE Time!OnNetworkUp
  <2>1. /\ v1' = v1 /\ v1 /\ v2' = v2 /\ v4' = v4 /\ v6' = TRUE /\ v7' = v7 /\ v8' = v8 /\ v9' = v9
        /\ v10' = v10 /\ v11' = v11 /\ v12' = 0 /\ (v5' = v5 \/ v5' = 0)
    BY <1>3 DEF Time!OnNetworkUp
  <2>2. PICK attempted \in BOOLEAN : attempted = ~v6
    OBVIOUS
  <2>3. v3' = [v3 EXCEPT !.up = TRUE, !.armed = TRUE, !.synced = FALSE, !.attempted = attempted]
    BY <1>3, <2>2 DEF Time!OnNetworkUp
  <2>4. v3'.armed /\ ~v3'.synced
        /\ v3' \in [up : BOOLEAN, armed : BOOLEAN, synced : BOOLEAN, attempted : BOOLEAN, ever : BOOLEAN]
    BY <2>3
  <2> QED BY <1>1, <2>1, <2>4
<1>4. CASE Time!OnNetworkDown
  <2>1. /\ v1' = v1 /\ v2' = v2 /\ v4' = v4 /\ v5' = v5 /\ v7' = v7 /\ v8' = v8 /\ v9' = v9
        /\ v10' = v10 /\ v11' = v11 /\ v12' = v12 /\ v3' = [v3 EXCEPT !.up = FALSE]
    BY <1>4 DEF Time!OnNetworkDown
  <2> QED BY <1>1, <2>1
<1>5. CASE Time!OnSntpSync
  <2>1. /\ v1 /\ v1' = v1 /\ v6' = v6 /\ v2' = v2 /\ v3' = v3 /\ v4' = v4 /\ v5' = v5 /\ v8' = v8 /\ v9' = v9
        /\ v10' = v10 /\ v11' = v11 /\ v12' = v12 /\ v7' = [set |-> TRUE, behind |-> 0]
    BY <1>5 DEF Time!OnSntpSync
  <2> QED BY <1>1, <2>1
<1>6. CASE Time!Drift
  BY <1>1, <1>6 DEF Time!Drift
<1>7. CASE Time!Restart
  <2>1. /\ v2' = Time!Unset /\ v3' = Time!NoNet /\ v4' = Time!Cap /\ v5' = Time!Cap /\ v7' = Time!Nothing
        /\ v8' = [present |-> FALSE, valid |-> FALSE] /\ v10' = 0 /\ v11' = 0 /\ v12' = Time!Cap
    BY <1>7 DEF Time!Restart
  <2>2. v9' \in [runs : BOOLEAN, behind : Nat]
    BY <1>7 DEF Time!Restart
  <2> QED BY <1>1, <2>1, <2>2 DEF Time!Unset, Time!NoNet, Time!Nothing
<1>8. CASE Time!Elapse
  BY <1>1, <1>8, OlderFits DEF Time!Elapse
<1>9. CASE Time!Tick /\ v7.set
  <2>1. PICK n : /\ n = [v3 EXCEPT !.ever = TRUE, !.synced = TRUE, !.armed = FALSE]
                 /\ \E due : v3' = [n EXCEPT !.attempted = @ \/ due]
    BY <1>9 DEF Time!Tick
  <2>2. /\ v3' \in [up : BOOLEAN, armed : BOOLEAN, synced : BOOLEAN, attempted : BOOLEAN, ever : BOOLEAN]
        /\ v3'.up = v3.up /\ v3'.ever /\ v3'.synced
    <3>1. PICK due : v3' = [n EXCEPT !.attempted = @ \/ due]
      BY <2>1
    <3>2. PICK attempted \in BOOLEAN : attempted = (n.attempted \/ due)
      OBVIOUS
    <3>3. /\ n \in [up : BOOLEAN, armed : BOOLEAN, synced : BOOLEAN, attempted : BOOLEAN, ever : BOOLEAN]
          /\ n.up = v3.up /\ n.ever /\ n.synced
      BY <2>1
    <3>4. v3' = [n EXCEPT !.attempted = attempted]
      BY <3>1, <3>2
    <3> QED BY <3>3, <3>4
  <2>3. /\ v1' = v1 /\ v6' = v6 /\ v4' = 0 /\ v10' = 0 /\ v12' = v12 /\ (v5' = 0 \/ v5' = v5)
    BY <1>9 DEF Time!Tick
  <2>4. /\ v2' = [source |-> "Ntp", behind |-> v7.behind] /\ v11' = 0 /\ v7' = Time!Nothing
        /\ \E w \in Time!Writes(v7.behind) : v9' = w.chip /\ v8' = Time!RtcAfter(w.ok)
    BY <1>9 DEF Time!Tick, Time!TakeAnswer
  <2>5. PICK w \in Time!Writes(v7.behind) : v9' = w.chip /\ v8' = Time!RtcAfter(w.ok)
    BY <2>4
  <2> DEFINE Left == {v9, [runs |-> TRUE, behind |-> Wrong], [runs |-> FALSE, behind |-> Wrong]}
  <2>6. \/ w.ok = TRUE /\ w.chip = [runs |-> TRUE, behind |-> v7.behind]
        \/ w.ok = FALSE /\ w.chip \in [runs : BOOLEAN, behind : Nat]
    <3>1. \A c \in Left : c \in [runs : BOOLEAN, behind : Nat]
      <4>1. /\ v9 \in [runs : BOOLEAN, behind : Nat]
            /\ [runs |-> TRUE, behind |-> Wrong] \in [runs : BOOLEAN, behind : Nat]
            /\ [runs |-> FALSE, behind |-> Wrong] \in [runs : BOOLEAN, behind : Nat]
        BY <1>1
      <4> HIDE DEF Time!TimeFits
      <4> QED BY <4>1, Zenon
    <3>2. \/ w = [ok |-> TRUE, chip |-> [runs |-> TRUE, behind |-> v7.behind]]
          \/ \E c \in Left : w = [ok |-> FALSE, chip |-> c]
      <4> HIDE DEF Left
      <4>1. w \in {[ok |-> TRUE, chip |-> [runs |-> TRUE, behind |-> v7.behind]]}
                     \cup {[ok |-> FALSE, chip |-> c] : c \in Left}
        BY DEF Time!Writes, Left
      <4> QED BY <4>1
    <3> HIDE DEF Left, Time!TimeFits
    <3>3. CASE w = [ok |-> TRUE, chip |-> [runs |-> TRUE, behind |-> v7.behind]]
      BY <3>3
    <3>4. ASSUME NEW c \in Left, w = [ok |-> FALSE, chip |-> c]
          PROVE  w.ok = FALSE /\ w.chip \in [runs : BOOLEAN, behind : Nat]
      <4>1. w.ok = FALSE /\ w.chip = c
        BY <3>4
      <4> QED BY <3>1, <4>1
    <3> QED BY <3>2, <3>3, <3>4
  <2>10. /\ v2' \in [source : {"None", "Rtc", "Ntp"}, behind : Nat] /\ v2'.behind <= MaxPass
         /\ v2'.source = "Ntp" /\ v7' \in [set : BOOLEAN, behind : Nat] /\ ~v7'.set /\ v11' = 0
    BY <1>1, <1>9, <2>4 DEF Time!Nothing
  <2>7. CASE w.ok = TRUE /\ w.chip = [runs |-> TRUE, behind |-> v7.behind]
    <3>1. v9' = [runs |-> TRUE, behind |-> v7.behind] /\ v8' = [present |-> TRUE, valid |-> TRUE]
      BY <2>5, <2>7 DEF Time!RtcAfter
    <3>2. v9'.runs /\ v9'.behind = v2'.behind + v11'
      BY <2>4, <3>1
    <3> QED BY <1>1, <2>2, <2>3, <2>10, <3>1, <3>2
  <2>8. CASE w.ok = FALSE /\ w.chip \in [runs : BOOLEAN, behind : Nat]
    <3>1. v9' \in [runs : BOOLEAN, behind : Nat] /\ v8' = [v8 EXCEPT !.present = FALSE]
      BY <2>5, <2>8 DEF Time!RtcAfter
    <3>2. ~v8'.present /\ v8' \in [present : BOOLEAN, valid : BOOLEAN]
      BY <3>1
    <3> QED BY <1>1, <2>2, <2>3, <2>10, <3>1, <3>2
  <2> QED BY <2>6, <2>7, <2>8
<1>10. CASE Time!Tick /\ ~v7.set
  <2>1. PICK due : /\ due = (v6 /\ Time!SyncIsDue(v3, v4, v5))
                   /\ v3' = [v3 EXCEPT !.attempted = @ \/ due]
                   /\ v5' = IF due THEN 0 ELSE v5
    BY <1>10 DEF Time!Tick
  <2>2. /\ v3' \in [up : BOOLEAN, armed : BOOLEAN, synced : BOOLEAN, attempted : BOOLEAN, ever : BOOLEAN]
        /\ v3'.up = v3.up /\ v3'.ever = v3.ever /\ v3'.synced = v3.synced /\ v3'.armed = v3.armed
    <3>1. PICK attempted \in BOOLEAN : attempted = (v3.attempted \/ due)
      OBVIOUS
    <3>2. v3' = [v3 EXCEPT !.attempted = attempted]
      BY <2>1, <3>1
    <3> QED BY <3>2
  <2>3. /\ v1' = v1 /\ v6' = v6 /\ v4' = v4 /\ v10' = 0 /\ v12' = v12
        /\ v2' = v2 /\ v9' = v9 /\ v8' = v8 /\ v11' = v11 /\ v7' = v7
    BY <1>10 DEF Time!Tick, Time!KeepTime
  <2>4. v3.up => v4 <= Resync \/ v5' <= ClockRetry
    <3>1. CASE due
      BY <1>1, <2>1, <3>1
    <3>2. CASE ~due /\ v3.up
      <4>1. ~Time!SyncIsDue(v3, v4, v5)
        BY <2>1, <3>2
      <4>2. ~(v3.ever /\ v4 >= Resync) /\ ~(~v3.synced /\ v3.attempted /\ v5 >= ClockRetry)
              /\ ~(v3.armed /\ ~v3.attempted)
        BY <3>2, <4>1 DEF Time!SyncIsDue
      <4>3. v5' = v5
        BY <2>1, <3>2
      <4> QED BY <1>1, <3>2, <4>2, <4>3
    <3> QED BY <3>1, <3>2
  <2>5. v5' \in 0..Time!Cap
    BY <1>1, <2>1
  <2> QED BY <1>1, <1>10, <2>2, <2>3, <2>4, <2>5
<1>11. CASE UNCHANGED vars
  BY <1>11 DEF vars, Time!Cap
<1> QED BY <1>2, <1>3, <1>4, <1>5, <1>6, <1>7, <1>8, <1>9, <1>10, <1>11 DEF Time!Next

\* It holds at the start.
LEMMA TimeStarts ==
  ASSUME Time!Init, Time!TimeAssumption
  PROVE  Time!TimeFits
<1>1. MaxPass \in Nat /\ Time!Cap \in Nat /\ Wrong \in Nat
  BY DEF Time!TimeAssumption, Time!Cap
<1> QED BY <1>1 DEF Time!Init, Time!Unset, Time!NoNet, Time!Nothing, Time!TimeFits, Time!ClocksAgree

\* The clocks agree and are tended where it holds.
LEMMA TimeSafe ==
  ASSUME Time!TimeFits, Time!TimeAssumption
  PROVE  Time!ClocksAgree /\ Time!ClockIsTended
<1>1. MaxPass \in Nat /\ Resync \in Nat /\ ClockRetry \in Nat /\ Time!Cap \in Nat
  BY DEF Time!TimeAssumption, Time!Cap
<1> QED BY <1>1 DEF Time!TimeFits, Time!ClockIsTended

-----------------------------------------------------------------------------
(* Mqtt.                                                                   *)

\* What a pass keeps of what the broker was told.
LEMMA TickTells ==
  ASSUME Mq!PublisherFits, Mq!Tick
  PROVE  Mq!PublisherFits'
<1> DEFINE P == [phase : {"Idle", "Discovery", "Availability", "States", "Subscribe", "Live"}, cursor : Nat,
                 dirty : SUBSET Mq!Entity, current : [Mq!Entity -> Value \cup {None}], outbox : Nat]
<1>0. PICK p : /\ \E full \in BOOLEAN : v6' = Mq!Refreshed(Mq!Told(p.a), full)
               /\ v9' = IF p.a.started THEN Mq!Silent ELSE v9
  BY Zenon DEF Mq!Tick
<1> DEFINE a == p.a
<1>1. PICK full \in BOOLEAN : /\ v6' = Mq!Refreshed(Mq!Told(a), full)
                              /\ v9' = IF a.started THEN Mq!Silent ELSE v9
  BY <1>0
<1> HIDE DEF a
<1>2. v8' = {} /\ UNCHANGED <<v7, v10>>
  BY DEF Mq!Tick
<1>3. /\ v6 \in P /\ v9 \in [Mq!Entity -> Value \cup {None}] /\ v7 \in [Mq!Entity -> Value]
      /\ v10 \subseteq Mq!Entity /\ v8 \subseteq Mq!Entity
      /\ \A e \in Mq!Entity : Mq!Reported(e) /\ e \notin v6.dirty \cup v8 => v9[e] = v6.current[e] /\ e \notin v10
  BY DEF Mq!PublisherFits
<1> DEFINE q == Mq!Told(a)
<1>4. /\ q \in P /\ q.dirty = v6.dirty \cup v8 /\ q.current = v6.current
      /\ a.ended \/ a.started => q.phase \in {"Idle", "Discovery"}
      /\ ~a.ended /\ ~a.started => q.phase = v6.phase /\ q.cursor = v6.cursor
  <2>1. CASE a.ended
    BY <1>3, <2>1 DEF Mq!Told, Mq!Idle
  <2>2. CASE ~a.ended /\ a.started
    BY <1>3, <2>2 DEF Mq!Told, Mq!Discovering
  <2>3. CASE ~a.ended /\ ~a.started
    BY <1>3, <2>3 DEF Mq!Told
  <2> QED BY <2>1, <2>2, <2>3
<1> HIDE DEF q
<1>5. v6' = [q EXCEPT !.dirty = @ \cup {e \in Mq!Entity : full \/ v7[e] # q.current[e]}, !.current = v7]
  BY <1>1 DEF Mq!Refreshed, q
<1>6. /\ v6' \in P /\ v6'.phase = q.phase /\ v6'.cursor = q.cursor /\ v6'.current = v7
      /\ v6'.dirty = q.dirty \cup {e \in Mq!Entity : full \/ v7[e] # q.current[e]}
  <2>1. v7 \in [Mq!Entity -> Value \cup {None}]
    BY <1>3
  <2> QED BY <1>4, <1>5, <2>1
<1>7. Mq!Silent \in [Mq!Entity -> Value \cup {None}]
  BY DEF Mq!Silent
<1>8. ASSUME NEW e \in Mq!Entity, Mq!Reported(e)', e \notin (v6.dirty \cup v8)'
      PROVE  v9'[e] = v6'.current[e] /\ e \notin v10'
  <2>1. q.phase \in {"Subscribe", "Live"} \/ (q.phase = "States" /\ q.cursor > e)
    BY <1>6, <1>8 DEF Mq!Reported
  <2>2. ~a.ended /\ ~a.started
    BY <1>4, <2>1
  <2>3. Mq!Reported(e) /\ v9' = v9
    BY <1>1, <1>4, <2>1, <2>2 DEF Mq!Reported
  <2>4. e \notin v6.dirty \cup v8 /\ v7[e] = v6.current[e]
    BY <1>2, <1>4, <1>6, <1>8
  <2> QED BY <1>2, <1>3, <1>6, <2>3, <2>4
<1> QED BY <1>1, <1>2, <1>3, <1>6, <1>7, <1>8 DEF Mq!PublisherFits

\* What one message to the broker keeps of it.
LEMMA PumpTells ==
  ASSUME Mq!PublisherFits, Mq!MqttAssumption, Mq!Pump
  PROVE  Mq!PublisherFits'
<1> DEFINE P == [phase : {"Idle", "Discovery", "Availability", "States", "Subscribe", "Live"}, cursor : Nat,
                 dirty : SUBSET Mq!Entity, current : [Mq!Entity -> Value \cup {None}], outbox : Nat]
<1>1. UNCHANGED <<v7, v8>>
  BY DEF Mq!Pump
<1>2. /\ v6 \in P /\ v9 \in [Mq!Entity -> Value \cup {None}] /\ v7 \in [Mq!Entity -> Value]
      /\ v10 \subseteq Mq!Entity /\ v8 \subseteq Mq!Entity
      /\ \A e \in Mq!Entity : Mq!Reported(e) /\ e \notin v6.dirty \cup v8 => v9[e] = v6.current[e] /\ e \notin v10
  BY DEF Mq!PublisherFits
<1>3. ASSUME NEW q \in P, Mq!Sent(q), q.dirty = v6.dirty, q.current = v6.current,
             \A e \in Mq!Entity : (q.phase \in {"Subscribe", "Live"} \/ (q.phase = "States" /\ q.cursor > e))
                                  => Mq!Reported(e)
      PROVE  Mq!PublisherFits'
  <2>1. v6' = q /\ v9' = v9 /\ v10' = v10
    BY <1>3 DEF Mq!Sent
  <2>2. ASSUME NEW e \in Mq!Entity, Mq!Reported(e)' PROVE Mq!Reported(e)
    BY <1>3, <2>1, <2>2 DEF Mq!Reported
  <2>3. ASSUME NEW e \in Mq!Entity, Mq!Reported(e)', e \notin (v6.dirty \cup v8)'
        PROVE  v9'[e] = v6'.current[e] /\ e \notin v10'
    BY <1>1, <1>2, <1>3, <2>1, <2>2, <2>3
  <2> QED BY <1>1, <1>2, <2>1, <2>3 DEF Mq!PublisherFits
<1>4. ASSUME NEW f, NEW q \in P, Mq!Published(f, q), q.dirty = v6.dirty, q.current = v6.current,
             \A e \in Mq!Entity : (q.phase \in {"Subscribe", "Live"} \/ (q.phase = "States" /\ q.cursor > e))
                                  => Mq!Reported(e) \/ e = f
      PROVE  Mq!PublisherFits'
  <2>1. /\ v6' = [q EXCEPT !.dirty = @ \ {f}] /\ v9' = [v9 EXCEPT ![f] = v6.current[f]]
        /\ v10' = v10 \ {f}
    BY <1>4 DEF Mq!Published
  <2>2. v6' \in P /\ v6'.phase = q.phase /\ v6'.cursor = q.cursor /\ v6'.current = v6.current
        /\ v6'.dirty = v6.dirty \ {f}
    BY <1>4, <2>1
  <2>3. v9' \in [Mq!Entity -> Value \cup {None}]
        /\ \A e \in Mq!Entity : v9'[e] = IF e = f THEN v6.current[e] ELSE v9[e]
    BY <1>2, <2>1
  <2>4. ASSUME NEW e \in Mq!Entity, Mq!Reported(e)', e \notin (v6.dirty \cup v8)'
        PROVE  v9'[e] = v6'.current[e] /\ e \notin v10'
    <3>1. Mq!Reported(e) \/ e = f
      BY <1>4, <2>2, <2>4 DEF Mq!Reported
    <3>2. CASE e = f
      BY <2>1, <2>2, <2>3, <3>2
    <3>3. CASE e # f
      <4>1. Mq!Reported(e) /\ e \notin v6.dirty \cup v8
        BY <1>1, <2>2, <2>4, <3>1, <3>3
      <4> QED BY <1>2, <2>1, <2>2, <2>3, <3>3, <4>1
    <3> QED BY <3>2, <3>3
  <2> QED BY <1>1, <1>2, <2>1, <2>2, <2>3, <2>4 DEF Mq!PublisherFits
<1>5. CASE Mq!Describe
  <2> DEFINE q == IF v6.cursor < Entities THEN [v6 EXCEPT !.cursor = @ + 1] ELSE [v6 EXCEPT !.phase = "Availability"]
  <2>1. v6.phase = "Discovery" /\ Mq!Sent(q)
    BY <1>5 DEF Mq!Describe
  <2>2. q \in P /\ q.dirty = v6.dirty /\ q.current = v6.current /\ q.phase \in {"Discovery", "Availability"}
    BY <1>2, <2>1
  <2> HIDE DEF q
  <2> QED BY <1>3, <2>1, <2>2
<1>6. CASE Mq!Announce
  <2> DEFINE q == [v6 EXCEPT !.phase = "States", !.cursor = 0]
  <2>1. Mq!Sent(q)
    BY <1>6 DEF Mq!Announce
  <2>2. q \in P /\ q.dirty = v6.dirty /\ q.current = v6.current /\ q.phase = "States" /\ q.cursor = 0
    BY <1>2
  <2>3. \A e \in Mq!Entity : ~(0 > e)
    BY DEF Mq!Entity, Mq!MqttAssumption
  <2> HIDE DEF q
  <2> QED BY <1>3, <2>1, <2>2, <2>3
<1>7. CASE Mq!Report /\ v6.cursor < Entities
  <2> DEFINE q == [v6 EXCEPT !.cursor = @ + 1]
  <2>1. v6.phase = "States" /\ Mq!Published(v6.cursor, q)
    BY <1>7 DEF Mq!Report
  <2>2. q \in P /\ q.dirty = v6.dirty /\ q.current = v6.current /\ q.phase = "States" /\ q.cursor = v6.cursor + 1
    BY <1>2, <2>1
  <2>3. \A e \in Mq!Entity : v6.cursor + 1 > e => Mq!Reported(e) \/ e = v6.cursor
    BY <1>2, <2>1 DEF Mq!Entity, Mq!Reported, Mq!MqttAssumption
  <2> HIDE DEF q
  <2> QED BY <1>4, <2>1, <2>2, <2>3
<1>8. CASE Mq!Report /\ ~(v6.cursor < Entities)
  <2> DEFINE q == [v6 EXCEPT !.phase = "Subscribe"]
  <2>1. v6.phase = "States" /\ Mq!Sent(q)
    BY <1>8 DEF Mq!Report
  <2>2. q \in P /\ q.dirty = v6.dirty /\ q.current = v6.current
    BY <1>2
  <2>3. \A e \in Mq!Entity : Mq!Reported(e)
    BY <1>2, <1>8, <2>1 DEF Mq!Entity, Mq!Reported, Mq!MqttAssumption
  <2> HIDE DEF q
  <2> QED BY <1>3, <2>1, <2>2, <2>3
<1>9. CASE Mq!Subscribe
  <2> DEFINE q == [v6 EXCEPT !.phase = "Live", !.cursor = 0]
  <2>1. v6.phase = "Subscribe" /\ Mq!Sent(q)
    BY <1>9 DEF Mq!Subscribe
  <2>2. q \in P /\ q.dirty = v6.dirty /\ q.current = v6.current
    BY <1>2
  <2>3. \A e \in Mq!Entity : Mq!Reported(e)
    BY <2>1 DEF Mq!Reported
  <2> HIDE DEF q
  <2> QED BY <1>3, <2>1, <2>2, <2>3
<1>10. CASE Mq!Update
  <2>1. v6.phase = "Live"
    BY <1>10 DEF Mq!Update
  <2>2. \A e \in Mq!Entity : Mq!Reported(e)
    BY <2>1 DEF Mq!Reported
  <2>3. CASE v6.dirty # {}
    <3>1. Mq!Published(Mq!First(v6.dirty), v6)
      BY <1>10, <2>3 DEF Mq!Update
    <3> QED BY <1>2, <1>4, <2>2, <3>1
  <2>4. CASE v6.dirty = {}
    <3> DEFINE q == [v6 EXCEPT !.outbox = @ - 1]
    <3>1. v6.outbox > 0 /\ Mq!Sent(q)
      BY <1>10, <2>4 DEF Mq!Update
    <3>2. q \in P /\ q.dirty = v6.dirty /\ q.current = v6.current
      BY <1>2, <3>1
    <3> HIDE DEF q
    <3> QED BY <1>3, <2>2, <3>1, <3>2
  <2> QED BY <2>3, <2>4
<1> HIDE DEF P
<1> QED BY <1>5, <1>6, <1>7, <1>8, <1>9, <1>10 DEF Mq!Pump

\* Every step keeps PublisherFits.
LEMMA PublisherKeeps ==
  ASSUME Mq!PublisherFits, Mq!MqttAssumption, [Mq!Next]_vars
  PROVE  Mq!PublisherFits'
<1>1. CASE Mq!Event
  <2>1. UNCHANGED <<v7, v8, v9, v10>> /\ v6' = [v6 EXCEPT !.outbox = @ + 1]
    BY <1>1 DEF Mq!Event
  <2>2. /\ v6'.phase = v6.phase /\ v6'.cursor = v6.cursor /\ v6'.dirty = v6.dirty /\ v6'.current = v6.current
        /\ v6' \in [phase : {"Idle", "Discovery", "Availability", "States", "Subscribe", "Live"}, cursor : Nat,
                    dirty : SUBSET Mq!Entity, current : [Mq!Entity -> Value \cup {None}], outbox : Nat]
    BY <2>1 DEF Mq!PublisherFits
  <2> QED BY <2>1, <2>2 DEF Mq!PublisherFits, Mq!Reported
<1>2. ASSUME NEW f \in Mq!Entity, Mq!Command(f)
      PROVE  Mq!PublisherFits'
  <2>1. UNCHANGED <<v6, v7, v9>> /\ v8' = v8 \cup {f} /\ v10' = v10 \cup {f}
    BY <1>2 DEF Mq!Command, Mq!loop, Mq!Answered
  <2> QED BY <2>1 DEF Mq!PublisherFits, Mq!Reported
<1>3. CASE Mq!Change
  <2>1. UNCHANGED <<v6, v8, v9, v10>> /\ v7' \in [Mq!Entity -> Value]
    BY <1>3 DEF Mq!Change, Mq!loop, Mq!PublisherFits
  <2> QED BY <2>1 DEF Mq!PublisherFits, Mq!Reported
<1>4. CASE UNCHANGED <<v6, v7, v8, v9, v10>>
  BY <1>4 DEF Mq!PublisherFits, Mq!Reported
<1>5. Mq!Wire \/ Mq!Enter \/ Mq!Wifi \/ UNCHANGED vars => UNCHANGED <<v6, v7, v8, v9, v10>>
  BY DEF Mq!Wire, Mq!Enter, Mq!Wifi, Mq!loop, vars
<1> QED BY <1>1, <1>2, <1>3, <1>4, <1>5, TickTells, PumpTells DEF Mq!Next

\* An attempt that begins is in the pause that comes after the one it waited for.
LEMMA AttemptBegins ==
  ASSUME Mq!MqttAssumption, NEW b \in Nat, Mq!Pause(b), NEW s, NEW n \in Nat, n <= 1,
         s.backoff = Mq!Lower(2 * b, BackoffMax), s.age = 1, s.next = b - 1
  PROVE  Mq!OpenFor(s, n) /\ Mq!Pause(s.backoff)
<1>1. s.backoff = IF 2 * b < BackoffMax THEN 2 * b ELSE BackoffMax
  BY DEF Mq!Lower
<1>2. b >= 1 /\ 1 + (b - 1) = b
  BY DEF Mq!MqttAssumption, Mq!Pause
<1>3. CASE b = BackoffFirst
  BY <1>1, <1>3 DEF Mq!MqttAssumption, Mq!OpenFor, Mq!InFirst, Mq!Pause
<1>4. CASE b = 2 * BackoffFirst
  BY <1>1, <1>4 DEF Mq!MqttAssumption, Mq!OpenFor, Mq!InSecond, Mq!Pause
<1>5. CASE b >= 4 * BackoffFirst
  BY <1>1, <1>5 DEF Mq!MqttAssumption, Mq!OpenFor, Mq!InLater, Mq!Pause
<1> QED BY <1>3, <1>4, <1>5 DEF Mq!Pause

\* One that begins while the last is under way.
LEMMA AttemptBeginsAgain ==
  ASSUME Mq!MqttAssumption, NEW s, NEW t, NEW n \in Nat, NEW m \in Nat, m <= n + 1,
         s.backoff \in Nat, s.age \in 0..AttemptTimeout, s.next = 0, Mq!OpenFor(s, n),
         t.backoff = Mq!Lower(2 * s.backoff, BackoffMax), t.age = 1, t.next = s.backoff - 1
  PROVE  Mq!OpenFor(t, m)
<1>1. t.backoff = IF 2 * s.backoff < BackoffMax THEN 2 * s.backoff ELSE BackoffMax
  BY DEF Mq!Lower
<1>2. ~Mq!InLater(s)
  BY DEF Mq!InLater, Mq!MqttAssumption
<1>3. CASE Mq!InFirst(s) /\ n <= s.age
  BY <1>1, <1>3 DEF Mq!MqttAssumption, Mq!OpenFor, Mq!InFirst, Mq!InSecond
<1>4. CASE Mq!InSecond(s) /\ n <= BackoffFirst + s.age
  BY <1>1, <1>4 DEF Mq!MqttAssumption, Mq!OpenFor, Mq!InSecond, Mq!InLater
<1> QED BY <1>2, <1>3, <1>4 DEF Mq!OpenFor

\* One that goes on.
LEMMA AttemptGoesOn ==
  ASSUME Mq!MqttAssumption, NEW s, NEW t, NEW n \in Nat, NEW m \in Nat, m <= n + 1,
         s.backoff \in Nat, s.age \in Nat, s.next \in Nat, Mq!OpenFor(s, n),
         t.backoff = s.backoff, t.age = s.age + 1, t.next = s.next - 1
  PROVE  Mq!OpenFor(t, m)
BY DEF Mq!MqttAssumption, Mq!OpenFor, Mq!InFirst, Mq!InSecond, Mq!InLater

\* What MqttSession decides.
Session == [ep : Broker \cup {None}, configure : BOOLEAN, backoff : Nat, next : Nat, pending : BOOLEAN,
            age : 0..AttemptTimeout, aborted : BOOLEAN, effective : BOOLEAN, wifi : BOOLEAN]
MqttActions == [disconnect : BOOLEAN, force : BOOLEAN, abort : BOOLEAN, configure : BOOLEAN,
                connect : BOOLEAN, started : BOOLEAN, ended : BOOLEAN]
Decision == [s : Session, a : MqttActions]

Rest(p) == Mq!Settled(Mq!Attempted(Mq!Configured(Mq!TimedOut(p))))

\* Steps 5 to 8 with Wi-Fi and no connection: an attempt is torn down or begins.
LEMMA Unconnected ==
  ASSUME Mq!MqttAssumption, NEW p \in Decision, v2 = TRUE, ~Mq!Connected, p.s.pending => ~p.s.configure
  PROVE  LET q == Rest(p)
             now == p.s.next = 0 \/ p.s.configure
             out == p.s.pending /\ ~p.s.aborted /\ p.s.age >= AttemptTimeout
         IN /\ q \in Decision
            /\ q.s.ep = p.s.ep /\ ~q.s.effective /\ q.s.wifi /\ ~q.s.configure
            /\ now => /\ q.s.pending /\ ~q.s.aborted /\ q.s.age = 0
                      /\ q.s.next = p.s.backoff /\ q.s.backoff = Mq!Lower(2 * p.s.backoff, BackoffMax)
            /\ ~now => /\ q.s.pending = p.s.pending /\ q.s.age = p.s.age
                       /\ q.s.next = p.s.next /\ q.s.backoff = p.s.backoff
                       /\ q.s.aborted = (p.s.aborted \/ out)
                       /\ q.a.connect = p.a.connect /\ (out => q.a.abort)
<1> DEFINE out == p.s.pending /\ ~p.s.aborted /\ p.s.age >= AttemptTimeout
           p3 == Mq!TimedOut(p)
           p4 == Mq!Configured(p3)
           p5 == Mq!Attempted(p4)
           q == Mq!Settled(p5)
<1>1. p.s \in Session /\ p.a \in MqttActions
  BY DEF Decision
<1>2. /\ p3.s \in Session /\ p3.a \in MqttActions /\ p3.a.connect = p.a.connect /\ (out => p3.a.abort)
      /\ p3.s.configure = p.s.configure /\ p3.s.next = p.s.next /\ p3.s.pending = p.s.pending
      /\ p3.s.age = p.s.age /\ p3.s.backoff = p.s.backoff /\ p3.s.ep = p.s.ep
      /\ p3.s.aborted = (p.s.aborted \/ out)
  <2>1. CASE out
    <3>1. p3 = [s |-> [p.s EXCEPT !.aborted = TRUE], a |-> [p.a EXCEPT !.abort = TRUE]]
      BY <2>1 DEF Mq!TimedOut
    <3>2. p3.s = [p.s EXCEPT !.aborted = TRUE] /\ p3.a = [p.a EXCEPT !.abort = TRUE]
      BY <3>1
    <3>3. (p.s.aborted \/ out) = TRUE
      BY <2>1
    <3> HIDE DEF p3, out
    <3>4. p3.a \in MqttActions /\ p3.a.connect = p.a.connect /\ p3.a.abort
      BY <1>1, <3>2 DEF MqttActions
    <3>5. p3.s \in Session
      BY <1>1, <3>2 DEF Session
    <3>6. /\ p3.s.configure = p.s.configure /\ p3.s.next = p.s.next /\ p3.s.pending = p.s.pending
          /\ p3.s.age = p.s.age /\ p3.s.backoff = p.s.backoff /\ p3.s.ep = p.s.ep /\ p3.s.aborted = TRUE
      BY <1>1, <3>2 DEF Session
    <3> QED BY <3>3, <3>4, <3>5, <3>6
  <2>2. CASE ~out
    <3>1. p3 = p
      BY <2>2 DEF Mq!TimedOut
    <3>2. (p.s.aborted \/ out) = p.s.aborted
      BY <1>1, <2>2 DEF Session
    <3> QED BY <1>1, <2>2, <3>1, <3>2
  <2> QED BY <2>1, <2>2
<1>3. p3 \in Decision
  BY <1>1, <1>2 DEF Mq!TimedOut, Decision
<1> HIDE DEF p3
<1>4. p3.s \in Session /\ p3.a \in MqttActions
  BY <1>2
<1>5. /\ p4 \in Decision /\ ~p4.s.configure /\ p4.a.connect = p3.a.connect /\ p4.a.abort = p3.a.abort
      /\ p4.s.next = (IF p3.s.configure THEN 0 ELSE p3.s.next) /\ p4.s.pending = p3.s.pending
      /\ p4.s.age = p3.s.age /\ p4.s.backoff = p3.s.backoff /\ p4.s.ep = p3.s.ep
      /\ p4.s.aborted = p3.s.aborted
  <2>1. CASE p3.s.configure
    BY <1>4, <2>1 DEF Mq!Configured, Decision, Session, MqttActions
  <2>2. CASE ~p3.s.configure
    BY <1>3, <1>4, <2>2 DEF Mq!Configured
  <2> QED BY <2>1, <2>2
<1> HIDE DEF p4
<1>6. p4.s \in Session /\ p4.a \in MqttActions
  BY <1>5 DEF Decision
<1>7. CASE p4.s.next = 0
  <2>1. Mq!Lower(2 * p4.s.backoff, BackoffMax) \in Nat
    BY <1>6 DEF Mq!Lower, Session, Mq!MqttAssumption
  <2>2. p5 = [s |-> [p4.s EXCEPT !.pending = TRUE, !.age = 0, !.aborted = FALSE,
                                 !.next = p4.s.backoff, !.backoff = Mq!Lower(2 * @, BackoffMax)],
              a |-> [p4.a EXCEPT !.connect = TRUE]]
    BY <1>7 DEF Mq!Attempted
  <2>3. /\ p5.s \in Session /\ p5.a \in MqttActions
        /\ p5.s.pending /\ ~p5.s.aborted /\ p5.s.age = 0 /\ ~p5.s.configure /\ p5.s.ep = p4.s.ep
        /\ p5.s.next = p4.s.backoff /\ p5.s.backoff = Mq!Lower(2 * p4.s.backoff, BackoffMax)
    <3>1. p5.a = [p4.a EXCEPT !.connect = TRUE]
          /\ p5.s = [p4.s EXCEPT !.pending = TRUE, !.age = 0, !.aborted = FALSE, !.next = p4.s.backoff,
                                 !.backoff = Mq!Lower(2 * p4.s.backoff, BackoffMax)]
      BY <1>6, <2>2 DEF Session
    <3>2. 0 \in 0..AttemptTimeout
      BY DEF Mq!MqttAssumption
    <3>3. p5.a \in MqttActions
      BY <1>6, <3>1 DEF MqttActions
    <3> HIDE DEF p5
    <3> QED BY <1>5, <1>6, <2>1, <3>1, <3>2, <3>3 DEF Session
  <2> HIDE DEF p5
  <2>4. /\ q = [s |-> [p5.s EXCEPT !.effective = FALSE, !.wifi = TRUE],
                a |-> [p5.a EXCEPT !.started = FALSE, !.ended = p5.s.effective]]
    BY <2>3 DEF Mq!Settled, Session
  <2>5. /\ q \in Decision /\ q.s.ep = p5.s.ep /\ ~q.s.effective /\ q.s.wifi /\ ~q.s.configure
        /\ q.s.pending /\ ~q.s.aborted /\ q.s.age = 0
        /\ q.s.next = p5.s.next /\ q.s.backoff = p5.s.backoff
    <3>1. q.s = [p5.s EXCEPT !.effective = FALSE, !.wifi = TRUE]
          /\ q.a = [p5.a EXCEPT !.started = FALSE, !.ended = p5.s.effective] /\ q = [s |-> q.s, a |-> q.a]
      BY <2>4
    <3> HIDE DEF q
    <3>2. q.a \in MqttActions
      BY <2>3, <3>1 DEF Session, MqttActions
    <3>3. q.s \in Session
      BY <2>3, <3>1 DEF Session
    <3> QED BY <2>3, <3>1, <3>2, <3>3 DEF Decision, Session
  <2> HIDE DEF q
  <2>6. p.s.next = 0 \/ p.s.configure
    BY <1>2, <1>5, <1>7
  <2>7. q = Rest(p)
    BY DEF q, p5, p4, p3, Rest
  <2> HIDE DEF out
  <2> QED BY <1>2, <1>5, <2>3, <2>5, <2>6, <2>7
<1>8. CASE p4.s.next # 0
  <2>1. p5 = p4
    BY <1>8 DEF Mq!Attempted
  <2> HIDE DEF p5
  <2>2. /\ q = [s |-> [p4.s EXCEPT !.effective = FALSE, !.wifi = TRUE],
                a |-> [p4.a EXCEPT !.started = FALSE, !.ended = p4.s.effective]]
    BY <1>6, <2>1 DEF Mq!Settled, Session
  <2>3. /\ q \in Decision /\ q.s.ep = p4.s.ep /\ ~q.s.effective /\ q.s.wifi /\ ~q.s.configure
        /\ q.s.pending = p4.s.pending /\ q.s.aborted = p4.s.aborted /\ q.s.age = p4.s.age
        /\ q.s.next = p4.s.next /\ q.s.backoff = p4.s.backoff
        /\ q.a.connect = p4.a.connect /\ q.a.abort = p4.a.abort
    <3>1. q.s = [p4.s EXCEPT !.effective = FALSE, !.wifi = TRUE]
          /\ q.a = [p4.a EXCEPT !.started = FALSE, !.ended = p4.s.effective] /\ q = [s |-> q.s, a |-> q.a]
      BY <2>2
    <3> HIDE DEF q
    <3>2. q.a \in MqttActions /\ q.a.connect = p4.a.connect /\ q.a.abort = p4.a.abort
      BY <1>6, <3>1 DEF Session, MqttActions
    <3>3. q.s \in Session
      BY <1>6, <3>1 DEF Session
    <3> QED BY <1>5, <1>6, <3>1, <3>2, <3>3 DEF Decision, Session
  <2> HIDE DEF q
  <2>4. ~(p.s.next = 0 \/ p.s.configure)
    BY <1>2, <1>5, <1>8
  <2>5. q = Rest(p)
    BY DEF q, p5, p4, p3, Rest
  <2>6. p4.s.next = p.s.next
    BY <1>2, <1>5, <2>4
  <2> QED BY <1>2, <1>5, <2>3, <2>4, <2>5, <2>6
<1> QED BY <1>7, <1>8

\* The same without Wi-Fi or connected: no attempt begins, and none is left.
LEMMA ConnectedOrDown ==
  ASSUME Mq!MqttAssumption, NEW p \in Decision, v2 \in BOOLEAN, v2 = FALSE \/ Mq!Connected,
         Mq!Pause(p.s.backoff), p.s.pending => v2 /\ ~p.s.effective
  PROVE  LET q == Rest(p)
         IN /\ q \in Decision /\ q.a.connect = p.a.connect
            /\ ~q.s.pending /\ Mq!Pause(q.s.backoff)
            /\ v2 = FALSE => q.s.wifi = FALSE
<1> DEFINE p4 == Mq!Configured(p)
           q == Mq!Settled(p4)
<1>1. p.s \in Session /\ p.a \in MqttActions
  BY DEF Decision
<1>2. Mq!TimedOut(p) = p
  BY DEF Mq!TimedOut
<1>3. /\ p4.s \in Session /\ p4.a \in MqttActions /\ p4.s.pending = p.s.pending /\ p4.s.backoff = p.s.backoff
      /\ p4.s.effective = p.s.effective /\ p4.a.connect = p.a.connect
  <2>1. CASE p.s.configure /\ ~Mq!Connected
    BY <1>1, <2>1 DEF Mq!Configured, Session, MqttActions
  <2>2. CASE ~(p.s.configure /\ ~Mq!Connected)
    BY <1>1, <2>2 DEF Mq!Configured
  <2> QED BY <2>1, <2>2
<1> HIDE DEF p4
<1>4. Mq!Attempted(p4) = p4
  BY DEF Mq!Attempted
<1>5. q = Rest(p)
  BY <1>2, <1>4 DEF q, p4, Rest
<1>6. BackoffFirst \in Nat /\ Mq!Pause(BackoffFirst)
  BY DEF Mq!MqttAssumption, Mq!Pause
<1> DEFINE now == v2 /\ Mq!Connected
           s == [p4.s EXCEPT !.effective = now, !.wifi = v2]
<1>7. now \in BOOLEAN
  BY DEF Mq!Connected
<1>8. /\ q.s = IF now /\ ~p4.s.effective THEN [s EXCEPT !.backoff = BackoffFirst, !.pending = FALSE] ELSE s
      /\ q.a = [p4.a EXCEPT !.started = now /\ ~p4.s.effective, !.ended = ~now /\ p4.s.effective]
      /\ q = [s |-> q.s, a |-> q.a]
  BY DEF Mq!Settled
<1> HIDE DEF q
<1>9. /\ s \in Session /\ s.pending = p4.s.pending /\ s.backoff = p4.s.backoff /\ s.wifi = v2
      /\ q.a \in MqttActions /\ q.a.connect = p4.a.connect
  <2>1. (now /\ ~p4.s.effective) \in BOOLEAN /\ (~now /\ p4.s.effective) \in BOOLEAN
    BY <1>7
  <2> HIDE DEF now
  <2> QED BY <1>3, <1>7, <1>8, <2>1 DEF Session, MqttActions
<1>10. CASE now /\ ~p4.s.effective
  <2> HIDE DEF s
  <2>1. /\ q.s \in Session /\ q.s.pending = FALSE /\ q.s.backoff = BackoffFirst /\ q.s.wifi = s.wifi
    BY <1>6, <1>8, <1>9, <1>10 DEF Session
  <2> QED BY <1>3, <1>5, <1>6, <1>8, <1>9, <2>1 DEF Decision
<1>11. CASE ~(now /\ ~p4.s.effective)
  <2>1. ~p.s.pending
    BY <1>3, <1>11
  <2> HIDE DEF s
  <2>2. q.s = s
    BY <1>8, <1>11
  <2> QED BY <1>3, <1>5, <1>8, <1>9, <2>1, <2>2 DEF Decision
<1> QED BY <1>10, <1>11

\* A new pause leaves a session.
LEMMA Repaused ==
  ASSUME NEW s \in Session, NEW b \in Nat, NEW n \in Nat
  PROVE  [s EXCEPT !.backoff = b, !.next = n] \in Session
<1> DEFINE t == [s EXCEPT !.backoff = b]
<1>1. t \in Session
  BY DEF Session
<1> HIDE DEF t
<1>2. [t EXCEPT !.next = n] \in Session
  BY <1>1 DEF Session
<1> QED BY <1>2 DEF t

\* And so does another endpoint.
LEMMA Renewed ==
  ASSUME Mq!MqttAssumption, v3 \in Session, v1 \in Broker \cup {None}
  PROVE  [v3 EXCEPT !.ep = v1, !.configure = TRUE, !.backoff = BackoffFirst, !.next = 0, !.pending = FALSE]
           \in Session
<1> DEFINE t == [v3 EXCEPT !.ep = v1, !.configure = TRUE]
           u == [t EXCEPT !.backoff = BackoffFirst, !.next = 0]
<1>1. t \in Session
  BY DEF Session
<1> HIDE DEF t
<1>2. u \in Session
  <2>1. BackoffFirst \in Nat /\ 0 \in Nat
    BY DEF Mq!MqttAssumption
  <2> QED BY <1>1, <2>1, Repaused, Zenon
<1> HIDE DEF u
<1>3. [u EXCEPT !.pending = FALSE] \in Session
  BY <1>2 DEF Session
<1> QED BY <1>3 DEF t, u

\* Steps 1 to 4: what of the last pass is left.
LEMMA EdgedFits ==
  ASSUME Mq!MqttAssumption, Mq!SessionFits, v1 # None
  PROVE  LET p == Mq!Edged(Mq!Changed([s |-> v3, a |-> Mq!NoActions])) IN
         /\ p \in Decision /\ ~p.a.connect /\ p.s.ep = v1 /\ p.s.effective = v3.effective
         /\ Mq!Pause(p.s.backoff)
         /\ p.s.pending => v2 /\ ~p.s.configure /\ ~p.s.effective
         /\ v3.ep = v1 /\ v3.wifi = v2 =>
              /\ p.s.pending = v3.pending /\ p.s.aborted = v3.aborted /\ p.s.age = v3.age
              /\ p.s.next = v3.next /\ p.s.backoff = v3.backoff /\ p.s.configure = v3.configure
         /\ v2 /\ ~(v3.ep = v1 /\ v3.wifi = v2) => ~p.s.pending /\ p.s.next = 0
<1> DEFINE p1 == Mq!Changed([s |-> v3, a |-> Mq!NoActions])
           p == Mq!Edged(p1)
           s == [p1.s EXCEPT !.pending = @ /\ v2 = p1.s.wifi]
<1>1. /\ v3 \in Session /\ v2 \in BOOLEAN /\ v1 \in Broker \cup {None} /\ Mq!Pause(v3.backoff)
      /\ v3.pending => v3.wifi /\ ~v3.configure /\ ~v3.effective
  BY DEF Mq!SessionFits, Session
<1>2. BackoffFirst \in Nat /\ Mq!Pause(BackoffFirst)
  BY DEF Mq!MqttAssumption, Mq!Pause
<1>3. Mq!NoActions \in MqttActions /\ ~Mq!NoActions.connect
  BY DEF Mq!NoActions, MqttActions
<1>4. /\ p1.s \in Session /\ p1.a \in MqttActions /\ ~p1.a.connect /\ p1.s.ep = v1 /\ p1.s.wifi = v3.wifi
      /\ p1.s.effective = v3.effective /\ Mq!Pause(p1.s.backoff)
      /\ p1.s.pending => v3.wifi /\ ~p1.s.configure /\ ~p1.s.effective
      /\ v3.ep = v1 => p1.s = v3
      /\ v3.ep # v1 => ~p1.s.pending /\ p1.s.next = 0
  <2>1. CASE v3.ep = v1
    <3>1. p1 = [s |-> v3, a |-> Mq!NoActions]
      BY <2>1 DEF Mq!Changed
    <3> QED BY <1>1, <1>3, <2>1, <3>1
  <2>2. CASE v3.ep # v1
    <3>1. /\ p1.s = [v3 EXCEPT !.ep = v1, !.configure = TRUE, !.backoff = BackoffFirst, !.next = 0,
                               !.pending = FALSE]
          /\ p1.a = [Mq!NoActions EXCEPT !.disconnect = Mq!Connected, !.abort = ~Mq!Connected /\ v3.pending]
      BY <2>2 DEF Mq!Changed
    <3> HIDE DEF p1
    <3>2. p1.s \in Session /\ p1.s.ep = v1 /\ p1.s.wifi = v3.wifi /\ p1.s.effective = v3.effective
          /\ p1.s.backoff = BackoffFirst /\ p1.s.pending = FALSE /\ p1.s.next = 0
      <4>1. v3 \in Session /\ v1 \in Broker \cup {None} /\ BackoffFirst \in Nat
        BY <1>1, <1>2
      <4>2. p1.s = [v3 EXCEPT !.ep = v1, !.configure = TRUE, !.backoff = BackoffFirst, !.next = 0,
                              !.pending = FALSE]
        BY <3>1
      <4>3. p1.s \in Session
        BY <1>1, <4>2, Renewed
      <4>4. p1.s.ep = v1 /\ p1.s.wifi = v3.wifi /\ p1.s.effective = v3.effective
            /\ p1.s.backoff = BackoffFirst /\ p1.s.pending = FALSE /\ p1.s.next = 0
        BY <4>1, <4>2 DEF Session
      <4> QED BY <4>3, <4>4
    <3>3. Mq!Connected \in BOOLEAN /\ (~Mq!Connected /\ v3.pending) \in BOOLEAN
      BY DEF Mq!Connected
    <3>4. p1.a \in MqttActions /\ ~p1.a.connect
      BY <1>3, <3>1, <3>3 DEF MqttActions
    <3> QED BY <1>2, <2>2, <3>2, <3>4
  <2> QED BY <2>1, <2>2
<1> HIDE DEF p1
<1>5. (p1.s.pending /\ v2 = p1.s.wifi) \in BOOLEAN
  OBVIOUS
<1>6. /\ s \in Session /\ s.pending = (p1.s.pending /\ v2 = p1.s.wifi) /\ s.ep = p1.s.ep /\ s.effective = p1.s.effective
      /\ s.backoff = p1.s.backoff /\ s.configure = p1.s.configure /\ s.age = p1.s.age /\ s.next = p1.s.next
      /\ s.aborted = p1.s.aborted
  BY <1>4, <1>5 DEF Session
<1>7. /\ p.s = IF v2 /\ ~p1.s.wifi THEN [s EXCEPT !.backoff = BackoffFirst, !.next = 0] ELSE s
      /\ p.a = [p1.a EXCEPT !.force = ~v2 /\ Mq!Connected] /\ p = [s |-> p.s, a |-> p.a]
  <2> DEFINE r == IF v2 /\ ~p1.s.wifi THEN [s EXCEPT !.backoff = BackoffFirst, !.next = 0] ELSE s
             b == [p1.a EXCEPT !.force = ~v2 /\ Mq!Connected]
  <2>1. p = [s |-> r, a |-> b]
    BY DEF Mq!Edged
  <2> HIDE DEF p, r, b
  <2>2. p.s = r /\ p.a = b /\ p = [s |-> p.s, a |-> p.a]
    BY <2>1
  <2> QED BY <2>2 DEF r, b
<1> HIDE DEF p, s
<1>8. p.a \in MqttActions /\ ~p.a.connect
  <2>1. (~v2 /\ Mq!Connected) \in BOOLEAN
    BY DEF Mq!Connected
  <2> QED BY <1>4, <1>7, <2>1 DEF MqttActions
<1>9. CASE v2 /\ ~v3.wifi
  <2>1. p.s = [s EXCEPT !.backoff = BackoffFirst, !.next = 0]
    BY <1>4, <1>7, <1>9
  <2>2. /\ p.s \in Session /\ p.s.pending = s.pending /\ p.s.backoff = BackoffFirst /\ p.s.next = 0
        /\ p.s.ep = s.ep /\ p.s.effective = s.effective
    <3>1. s \in Session /\ BackoffFirst \in Nat
      BY <1>2, <1>6
    <3>2. p.s \in Session
      <4>1. 0 \in Nat
        OBVIOUS
      <4>2. [s EXCEPT !.backoff = BackoffFirst, !.next = 0] \in Session
        BY <3>1, <4>1, Repaused, Zenon
      <4> QED BY <2>1, <4>2
    <3>3. /\ p.s.pending = s.pending /\ p.s.backoff = BackoffFirst /\ p.s.next = 0
          /\ p.s.ep = s.ep /\ p.s.effective = s.effective
      BY <2>1, <3>1 DEF Session
    <3> QED BY <3>2, <3>3
  <2>3. ~p.s.pending
    <3>1. ~p1.s.pending
      BY <1>4, <1>9
    <3>2. s.pending = FALSE
      BY <1>6, <3>1
    <3> QED BY <2>2, <3>2
  <2>4. p \in Decision
    BY <1>7, <1>8, <2>2 DEF Decision
  <2> QED BY <1>2, <1>4, <1>6, <1>8, <1>9, <2>2, <2>3, <2>4 DEF p, p1
<1>10. CASE ~(v2 /\ ~v3.wifi)
  <2>1. p.s = s
    BY <1>4, <1>7, <1>10
  <2>2. p \in Decision
    BY <1>6, <1>7, <1>8, <2>1 DEF Decision
  <2>3. p.s.pending => v2 /\ ~p.s.configure /\ ~p.s.effective
    BY <1>1, <1>4, <1>6, <2>1
  <2>4. ASSUME v3.ep = v1, v3.wifi = v2
        PROVE  /\ p.s.pending = v3.pending /\ p.s.aborted = v3.aborted /\ p.s.age = v3.age
               /\ p.s.next = v3.next /\ p.s.backoff = v3.backoff /\ p.s.configure = v3.configure
    <3>1. (v3.pending /\ v2 = v3.wifi) = v3.pending
      BY <1>1, <2>4 DEF Session
    <3> QED BY <1>4, <1>6, <2>1, <2>4, <3>1
  <2>5. ASSUME v2, ~(v3.ep = v1 /\ v3.wifi = v2)
        PROVE  ~p.s.pending /\ p.s.next = 0
    <3>1. v3.ep # v1
      BY <1>1, <1>10, <2>5 DEF Session
    <3> QED BY <1>4, <1>6, <2>1, <3>1
  <2> QED BY <1>4, <1>6, <1>8, <2>1, <2>2, <2>3, <2>4, <2>5 DEF p, p1
<1> QED BY <1>9, <1>10

\* The client after a pass: it is opening where it began to, or was and is not torn down.
LEMMA WireAfter ==
  ASSUME Mq!SessionFits, NEW a, v4' \in Broker \cup {None},
         \E w \in Mq!Ended(a) : v5' = Mq!Redialled(w, a, v4')
  PROVE  /\ v5' \in [state : {"closed", "opening", "open", "closing"}, to : Broker \cup {None}]
         /\ v5'.state = "opening" => a.connect \/ (v5.state = "opening" /\ ~a.abort)
<1> DEFINE W == [state : {"closed", "opening", "open", "closing"}, to : Broker \cup {None}]
<1>1. v5 \in W
  BY DEF Mq!SessionFits
<1>2. PICK w \in Mq!Ended(a) : v5' = Mq!Redialled(w, a, v4')
  OBVIOUS
<1>3. /\ w \in W
      /\ w.state = "opening" => v5.state = "opening" /\ ~a.abort
  BY <1>1, <1>2 DEF Mq!Ended, Mq!Closed, Mq!Connected
<1>4. CASE a.connect
  BY <1>2, <1>3, <1>4 DEF Mq!Redialled
<1>5. CASE ~a.connect
  BY <1>2, <1>3, <1>5 DEF Mq!Redialled
<1> QED BY <1>4, <1>5

\* Ageing leaves a session.
LEMMA AgedSessionFits ==
  ASSUME Mq!MqttAssumption, NEW s \in Session
  PROVE  /\ Mq!Aged(s) \in Session
         /\ Mq!Aged(s).next = Mq!Less(s.next)
         /\ Mq!Aged(s).age = IF s.pending THEN Mq!Lower(s.age + 1, AttemptTimeout) ELSE 0
         /\ Mq!Aged(s).backoff = s.backoff /\ Mq!Aged(s).pending = s.pending
         /\ Mq!Aged(s).aborted = s.aborted /\ Mq!Aged(s).ep = s.ep /\ Mq!Aged(s).wifi = s.wifi
         /\ Mq!Aged(s).configure = s.configure /\ Mq!Aged(s).effective = s.effective
<1> DEFINE n == Mq!Less(s.next)
           a == IF s.pending THEN Mq!Lower(s.age + 1, AttemptTimeout) ELSE 0
           t == [s EXCEPT !.next = n]
<1>1. n \in Nat
  BY DEF Mq!Less, Session
<1>2. a \in 0..AttemptTimeout
  BY DEF Mq!Lower, Session, Mq!MqttAssumption
<1>3. Mq!Aged(s) = [s EXCEPT !.next = n, !.age = a]
  BY DEF Mq!Aged
<1> HIDE DEF n, a
<1>4. t \in Session
  BY <1>1 DEF Session
<1> HIDE DEF t
<1>5. [t EXCEPT !.age = a] \in Session
  BY <1>2, <1>4 DEF Session
<1>6. Mq!Aged(s) = [t EXCEPT !.age = a]
  BY <1>3 DEF t
<1>7. /\ Mq!Aged(s).next = n /\ Mq!Aged(s).age = a
      /\ Mq!Aged(s).backoff = s.backoff /\ Mq!Aged(s).pending = s.pending
      /\ Mq!Aged(s).aborted = s.aborted /\ Mq!Aged(s).ep = s.ep /\ Mq!Aged(s).wifi = s.wifi
      /\ Mq!Aged(s).configure = s.configure /\ Mq!Aged(s).effective = s.effective
  BY <1>3 DEF Session
<1> QED BY <1>5, <1>6, <1>7 DEF n, a

\* ConnectivityRuntime.tick(): a pass keeps SessionFits.
LEMMA TickIsInTime ==
  ASSUME Mq!MqttAssumption, Mq!SessionFits, Mq!Tick
  PROVE  Mq!SessionFits'
<1> DEFINE p == Mq!SessionTick
           e == Mq!Edged(Mq!Changed([s |-> v3, a |-> Mq!NoActions]))
<1>1. /\ v3' = Mq!Aged(p.s) /\ v4' = IF p.a.configure THEN v1 ELSE v4
      /\ \E w \in Mq!Ended(p.a) : v5' = Mq!Redialled(w, p.a, v4')
      /\ v11' = IF v5'.state = "opening" /\ v2 /\ v3.wifi /\ v3.ep = v1 /\ v1 # None
                THEN Mq!Lower(v11 + 1, Mq!HungCap) ELSE 0
      /\ UNCHANGED <<v1, v2>>
  BY DEF Mq!Tick
<1>2. /\ v3 \in Session /\ v2 \in BOOLEAN /\ v1 \in Broker \cup {None} /\ v4 \in Broker \cup {None} /\ v11 \in Nat
      /\ Mq!Pause(v3.backoff)
      /\ v3.pending => v3.wifi /\ ~v3.configure /\ ~v3.effective
      /\ v3.pending /\ ~v3.aborted => Mq!OpenFor(v3, v11)
      /\ v5.state = "opening" /\ v3.wifi /\ v3.ep # None => v3.pending /\ ~v3.aborted
      /\ v11 > 0 => v3.pending /\ ~v3.aborted
  BY DEF Mq!SessionFits, Session
<1>3. v4' \in Broker \cup {None}
  BY <1>1, <1>2
<1>4. /\ v5' \in [state : {"closed", "opening", "open", "closing"}, to : Broker \cup {None}]
      /\ v5'.state = "opening" => p.a.connect \/ (v5.state = "opening" /\ ~p.a.abort)
  <2> HIDE DEF p
  <2> QED BY <1>1, <1>3, WireAfter
<1>5. v11' \in Nat /\ v11' <= v11 + 1
  BY <1>1, <1>2 DEF Mq!Lower, Mq!HungCap, Mq!MqttAssumption
<1>6. ASSUME p \in Decision, Mq!Pause(v3'.backoff), v3'.pending = FALSE, v11' = 0,
             v5'.state = "opening" /\ v3'.wifi => v3'.ep = None
      PROVE  Mq!SessionFits'
  <2>1. v3' \in Session
    BY <1>1, <1>6, AgedSessionFits DEF Decision
  <2> HIDE DEF p
  <2> QED BY <1>1, <1>2, <1>3, <1>4, <1>6, <2>1 DEF Mq!SessionFits, Session
<1>7. CASE v1 = None
  <2> DEFINE q == Mq!Changed([s |-> v3, a |-> Mq!NoActions])
  <2>1. q.s \in Session /\ q.a \in MqttActions /\ Mq!Pause(q.s.backoff) /\ q.s.ep = None
    <3>1. CASE v3.ep = v1
      <4>1. q = [s |-> v3, a |-> Mq!NoActions]
        BY <3>1 DEF Mq!Changed
      <4>2. Mq!NoActions \in MqttActions
        BY DEF Mq!NoActions, MqttActions
      <4>3. q.s = v3 /\ q.a = Mq!NoActions
        BY <4>1
      <4> HIDE DEF q
      <4> QED BY <1>2, <1>7, <3>1, <4>2, <4>3
    <3>2. CASE v3.ep # v1
      <4>1. /\ q.s = [v3 EXCEPT !.ep = v1, !.configure = TRUE, !.backoff = BackoffFirst, !.next = 0,
                                !.pending = FALSE]
            /\ q.a = [Mq!NoActions EXCEPT !.disconnect = Mq!Connected, !.abort = ~Mq!Connected /\ v3.pending]
        BY <3>2 DEF Mq!Changed
      <4> HIDE DEF q
      <4>2. (~Mq!Connected /\ v3.pending) \in BOOLEAN /\ Mq!Connected \in BOOLEAN
        BY DEF Mq!Connected
      <4>3. q.a \in MqttActions
        BY <4>1, <4>2 DEF MqttActions, Mq!NoActions
      <4>4. q.s \in Session
        BY <1>2, <4>1, Renewed
      <4>5. q.s.backoff = BackoffFirst /\ q.s.ep = v1
        BY <1>2, <4>1 DEF Session
      <4> QED BY <1>7, <4>3, <4>4, <4>5 DEF Mq!Pause
    <3> QED BY <3>1, <3>2
  <2>2. p = Mq!Disabled(q)
    BY <1>7 DEF Mq!SessionTick
  <2> HIDE DEF p, q
  <2>3. /\ p.s = [q.s EXCEPT !.effective = FALSE, !.configure = FALSE, !.pending = FALSE, !.wifi = v2]
        /\ p.a = [q.a EXCEPT !.disconnect = Mq!Connected, !.ended = q.s.effective] /\ p = [s |-> p.s, a |-> p.a]
    BY <2>2 DEF Mq!Disabled
  <2>4. p.s \in Session /\ p.s.pending = FALSE /\ p.s.backoff = q.s.backoff /\ p.s.ep = None
    BY <1>2, <2>1, <2>3 DEF Session
  <2>5. p.a \in MqttActions
    BY <2>1, <2>3 DEF Session, MqttActions, Mq!Connected
  <2>6. p \in Decision
    BY <2>3, <2>4, <2>5 DEF Decision
  <2>7. v3'.pending = FALSE /\ v3'.backoff = q.s.backoff /\ v3'.ep = None
    BY <1>1, <2>4, AgedSessionFits
  <2> QED BY <1>1, <1>6, <1>7, <2>1, <2>6, <2>7 DEF p
<1>8. CASE v1 # None
  <2>1. /\ e \in Decision /\ ~e.a.connect /\ e.s.ep = v1 /\ e.s.effective = v3.effective
        /\ Mq!Pause(e.s.backoff)
        /\ e.s.pending => v2 /\ ~e.s.configure /\ ~e.s.effective
        /\ v3.ep = v1 /\ v3.wifi = v2 =>
             /\ e.s.pending = v3.pending /\ e.s.aborted = v3.aborted /\ e.s.age = v3.age
             /\ e.s.next = v3.next /\ e.s.backoff = v3.backoff /\ e.s.configure = v3.configure
        /\ v2 /\ ~(v3.ep = v1 /\ v3.wifi = v2) => ~e.s.pending /\ e.s.next = 0
    BY <1>8, EdgedFits
  <2>2. p = Rest(e)
    BY <1>8 DEF Mq!SessionTick, Rest
  <2> HIDE DEF p, e
  <2>3. CASE v2 = FALSE \/ Mq!Connected
    <3>1. /\ p \in Decision /\ p.a.connect = e.a.connect
          /\ ~p.s.pending /\ Mq!Pause(p.s.backoff)
          /\ v2 = FALSE => p.s.wifi = FALSE
      BY <1>2, <2>1, <2>2, <2>3, ConnectedOrDown
    <3>2. p.s \in Session /\ p.s.pending = FALSE
      BY <3>1 DEF Decision, Session
    <3>3. v3'.pending = FALSE /\ v3'.backoff = p.s.backoff /\ v3'.wifi = p.s.wifi
      BY <1>1, <3>2, AgedSessionFits
    <3>4. v2 = FALSE \/ v5'.state # "opening"
      BY <1>4, <2>1, <2>3, <3>1 DEF Mq!Connected
    <3>5. v11' = 0
      BY <1>1, <3>4
    <3> QED BY <1>6, <3>1, <3>3, <3>4, <3>5 DEF p
  <2>4. CASE v2 = TRUE /\ ~Mq!Connected
    <3> DEFINE now == e.s.next = 0 \/ e.s.configure
               out == e.s.pending /\ ~e.s.aborted /\ e.s.age >= AttemptTimeout
    <3>1. /\ p \in Decision
          /\ p.s.ep = e.s.ep /\ ~p.s.effective /\ p.s.wifi /\ ~p.s.configure
          /\ now => /\ p.s.pending /\ ~p.s.aborted /\ p.s.age = 0
                    /\ p.s.next = e.s.backoff /\ p.s.backoff = Mq!Lower(2 * e.s.backoff, BackoffMax)
          /\ ~now => /\ p.s.pending = e.s.pending /\ p.s.age = e.s.age
                     /\ p.s.next = e.s.next /\ p.s.backoff = e.s.backoff
                     /\ p.s.aborted = (e.s.aborted \/ out)
                     /\ p.a.connect = e.a.connect /\ (out => p.a.abort)
      BY <2>1, <2>2, <2>4, Unconnected
    <3>2. p.s \in Session /\ e.s \in Session
      BY <2>1, <3>1 DEF Decision
    <3>3. /\ v3' \in Session /\ v3'.next = Mq!Less(p.s.next)
          /\ v3'.age = IF p.s.pending THEN Mq!Lower(p.s.age + 1, AttemptTimeout) ELSE 0
          /\ v3'.backoff = p.s.backoff /\ v3'.pending = p.s.pending
          /\ v3'.aborted = p.s.aborted /\ v3'.ep = p.s.ep /\ v3'.wifi = p.s.wifi
          /\ v3'.configure = p.s.configure /\ v3'.effective = p.s.effective
      BY <1>1, <3>2, AgedSessionFits
    <3>4. CASE now
      <4>1. /\ v3'.pending /\ ~v3'.aborted /\ v3'.age = 1 /\ v3'.next = e.s.backoff - 1
            /\ v3'.backoff = Mq!Lower(2 * e.s.backoff, BackoffMax) /\ e.s.backoff \in Nat
        BY <2>1, <3>1, <3>2, <3>3, <3>4 DEF Mq!Lower, Mq!Less, Mq!Pause, Mq!MqttAssumption, Session
      <4>2. Mq!Pause(v3'.backoff) /\ Mq!OpenFor(v3', 0) /\ Mq!OpenFor(v3', 1)
        BY <2>1, <4>1, AttemptBegins
      <4>3. Mq!OpenFor(v3', v11')
        <5>1. CASE v11 = 0 \/ v11' = 0
          <6>1. v11' = 0 \/ v11' = 1
            BY <1>2, <1>5, <5>1
          <6> QED BY <4>2, <6>1
        <5>2. CASE v11 > 0 /\ v11' # 0
          <6>1. v3.ep = v1 /\ v3.wifi = v2
            BY <1>1, <1>2, <2>4, <5>2 DEF Session
          <6>2. v3.pending /\ ~v3.aborted /\ Mq!OpenFor(v3, v11) /\ v3.next = 0
            BY <1>2, <2>1, <3>4, <5>2, <6>1
          <6>3. v3.backoff \in Nat /\ v3.age \in 0..AttemptTimeout /\ v3.backoff = e.s.backoff
            BY <1>2, <2>1, <6>1 DEF Session
          <6> QED BY <1>2, <1>5, <4>1, <6>2, <6>3, AttemptBeginsAgain
        <5> QED BY <1>2, <5>1, <5>2
      <4> QED BY <1>1, <1>2, <1>3, <1>4, <1>5, <3>1, <3>3, <4>1, <4>2, <4>3 DEF Mq!SessionFits,
          Session
    <3>5. CASE ~now
      <4>1. v3.ep = v1 /\ v3.wifi = v2
        BY <2>1, <2>4, <3>5
      <4>2. /\ v3'.pending = v3.pending /\ v3'.aborted = (v3.aborted \/ out) /\ v3'.backoff = v3.backoff
            /\ v3'.next = Mq!Less(v3.next) /\ v3.next # 0
            /\ v3'.age = IF v3.pending THEN Mq!Lower(v3.age + 1, AttemptTimeout) ELSE 0
        BY <2>1, <3>1, <3>3, <3>5, <4>1
      <4>3. v5'.state = "opening" => v3.pending /\ ~v3.aborted /\ ~out
        BY <1>2, <1>4, <1>8, <2>1, <2>4, <3>1, <3>5, <4>1
      <4>4. ASSUME v3'.pending, ~v3'.aborted PROVE Mq!OpenFor(v3', v11')
        <5>1. v3.pending /\ ~v3.aborted /\ v3.age < AttemptTimeout
          <6>1. v3.pending /\ ~v3.aborted /\ ~out
            BY <4>2, <4>4
          <6>2. e.s.pending /\ ~e.s.aborted /\ e.s.age = v3.age
            BY <2>1, <4>1, <6>1
          <6>3. ~(v3.age >= AttemptTimeout)
            BY <6>1, <6>2
          <6>4. v3.age \in Nat /\ AttemptTimeout \in Nat
            BY <1>2 DEF Session, Mq!MqttAssumption
          <6> QED BY <6>1, <6>3, <6>4
        <5>2. /\ v3'.age = v3.age + 1 /\ v3'.next = v3.next - 1
              /\ v3.age \in Nat /\ v3.next \in Nat /\ v3.backoff \in Nat
          BY <1>2, <4>2, <5>1 DEF Session, Mq!Lower, Mq!Less, Mq!MqttAssumption
        <5> QED BY <1>2, <1>5, <4>2, <5>1, <5>2, AttemptGoesOn
      <4>5. v11' > 0 => v5'.state = "opening"
        BY <1>1
      <4>6. Mq!Pause(v3'.backoff) /\ (v3'.pending => v3'.wifi /\ ~v3'.configure /\ ~v3'.effective)
        BY <1>2, <3>1, <3>3, <4>2
      <4>7. v5'.state = "opening" => v3'.pending /\ ~v3'.aborted
        BY <4>2, <4>3
      <4> QED BY <1>1, <1>2, <1>3, <1>4, <1>5, <3>3, <4>4, <4>5, <4>6, <4>7 DEF Mq!SessionFits,
          Session
    <3> QED BY <3>4, <3>5
  <2> QED BY <1>2, <2>3, <2>4
<1> QED BY <1>7, <1>8

\* Every step keeps SessionFits.
LEMMA SessionIsInTime ==
  ASSUME Mq!SessionFits, Mq!MqttAssumption, [Mq!Next]_vars
  PROVE  Mq!SessionFits'
<1>1. CASE Mq!Wire
  <2>1. UNCHANGED <<v1, v2, v3, v4, v11>>
    BY <1>1 DEF Mq!Wire
  <2>2. /\ v5' \in [state : {"closed", "opening", "open", "closing"}, to : Broker \cup {None}]
        /\ v5'.state # "opening"
    BY <1>1 DEF Mq!Wire, Mq!Closed, Mq!SessionFits
  <2> QED BY <2>1, <2>2 DEF Mq!SessionFits
<1>2. CASE Mq!Enter
  <2>1. UNCHANGED <<v2, v3, v4, v5, v11>> /\ v1' \in Broker \cup {None}
    BY <1>2 DEF Mq!Enter, Mq!loop
  <2> QED BY <2>1 DEF Mq!SessionFits
<1>3. CASE Mq!Wifi
  <2>1. UNCHANGED <<v1, v3, v4, v5, v11>> /\ v2' \in BOOLEAN
    BY <1>3 DEF Mq!Wifi, Mq!loop
  <2> QED BY <2>1 DEF Mq!SessionFits
<1>4. CASE UNCHANGED <<v1, v2, v3, v4, v5, v11>>
  BY <1>4 DEF Mq!SessionFits
<1>5. Mq!Pump \/ Mq!Event \/ Mq!Change \/ (\E f \in Mq!Entity : Mq!Command(f)) \/ UNCHANGED vars
        => UNCHANGED <<v1, v2, v3, v4, v5, v11>>
  BY DEF Mq!Pump, Mq!Event, Mq!Change, Mq!Command, Mq!loop, vars
<1> QED BY <1>1, <1>2, <1>3, <1>4, <1>5, TickIsInTime DEF Mq!Next

\* Both hold at the start.
LEMMA MqttStarts ==
  ASSUME Mq!Init, Mq!MqttAssumption
  PROVE  Mq!PublisherFits /\ Mq!SessionFits
<1>1. Mq!PublisherFits
  BY DEF Mq!Init, Mq!PublisherFits, Mq!Silent, Mq!Reported
<1>2. Mq!SessionFits
  <2>1. (v1 # None) \in BOOLEAN /\ BackoffFirst \in Nat /\ 0 \in 0..AttemptTimeout
    BY DEF Mq!MqttAssumption
  <2>2. v3 \in Session /\ v3.pending = FALSE /\ v3.backoff = BackoffFirst
    BY <2>1, SMTT(20) DEF Mq!Init, Mq!NewSession, Session
  <2>3. /\ v5 \in [state : {"closed", "opening", "open", "closing"}, to : Broker \cup {None}]
        /\ v5.state = "closed"
    BY DEF Mq!Init, Mq!Closed
  <2>4. v1 \in Broker \cup {None} /\ v4 \in Broker \cup {None} /\ v2 \in BOOLEAN /\ v11 = 0
    BY DEF Mq!Init
  <2> QED BY <2>2, <2>3, <2>4 DEF Mq!SessionFits, Session, Mq!Pause
<1> QED BY <1>1, <1>2

\* They say what the properties say, and more.
LEMMA MqttSafe ==
  ASSUME Mq!PublisherFits, Mq!SessionFits, Mq!MqttAssumption
  PROVE  Mq!BrokerIsTold /\ Mq!NoAttemptHangs
<1>1. Mq!BrokerIsTold
  BY DEF Mq!BrokerIsTold, Mq!PublisherFits
<1>2. v11 > 0 => Mq!OpenFor(v3, v11) /\ v3.age \in 0..AttemptTimeout
  BY DEF Mq!SessionFits
<1>3. Mq!NoAttemptHangs
  BY <1>2 DEF Mq!NoAttemptHangs, Mq!OpenFor, Mq!MqttAssumption, Mq!SessionFits
<1> QED BY <1>1, <1>3

-----------------------------------------------------------------------------
(* DisplayScreens.                                                         *)

\* Division, and how it goes on with the next number.
LEMMA DivMod ==
  ASSUME NEW n \in Nat, NEW d \in Nat \ {0}
  PROVE  /\ n \div d \in Nat /\ n % d \in 0..(d - 1)
         /\ n = d * (n \div d) + (n % d)
<1>1. d \in Int /\ d > 0 /\ n \in Int
  OBVIOUS
<1>2. n = d * (n \div d) + (n % d)
  BY <1>1, SMTT(20)
<1>3. n \div d \in Nat
  OBVIOUS
<1>4. n % d \in 0..(d - 1)
  OBVIOUS
<1> QED BY <1>2, <1>3, <1>4

\* A quotient is known from its bounds.
LEMMA DivIs ==
  ASSUME NEW n \in Nat, NEW d \in Nat \ {0}, NEW q \in Nat, NEW r \in 0..(d - 1), n = d * q + r
  PROVE  n \div d = q /\ n % d = r
<1>1. n \div d \in Nat /\ n % d \in 0..(d - 1) /\ n = d * (n \div d) + (n % d)
  BY DivMod
<1> DEFINE p == n \div d
           s == n % d
<1>2. d * p + s = d * q + r /\ p \in Nat /\ s \in 0..(d - 1)
  BY <1>1
<1> HIDE DEF p, s
<1>3. ASSUME p > q PROVE FALSE
  <2>1. d * p >= d * (q + 1)
    BY <1>2, <1>3
  <2>2. d * (q + 1) = d * q + d
    BY SMT
  <2> QED BY <1>2, <2>1, <2>2
<1>4. ASSUME p < q PROVE FALSE
  <2>1. d * q >= d * (p + 1)
    BY <1>2, <1>4
  <2>2. d * (p + 1) = d * p + d
    BY <1>2, SMT
  <2> QED BY <1>2, <2>1, <2>2
<1>5. p = q
  BY <1>2, <1>3, <1>4
<1>6. r = s
  BY <1>2, <1>5
<1> QED BY <1>5, <1>6 DEF p, s

\* The larger number has the larger quotient.
LEMMA DivGrows ==
  ASSUME NEW m \in Nat, NEW n \in Nat, m <= n, NEW d \in Nat \ {0}
  PROVE  m \div d <= n \div d
<1> DEFINE p == m \div d
           q == n \div d
<1>1. /\ p \in Nat /\ q \in Nat /\ m % d \in 0..(d - 1) /\ n % d \in 0..(d - 1)
      /\ m = d * p + (m % d) /\ n = d * q + (n % d)
  BY DivMod
<1> HIDE DEF p, q
<1>2. ASSUME p > q PROVE FALSE
  <2>1. d * p >= d * (q + 1)
    BY <1>1, <1>2
  <2>2. d * (q + 1) = d * q + d
    BY <1>1, SMT
  <2>3. d * p \in Nat /\ d * q \in Nat
    BY <1>1
  <2> QED BY <1>1, <2>1, <2>2, <2>3
<1>3. p <= q
  BY <1>1, <1>2
<1> QED BY <1>3 DEF p, q

\* The next number: one more in the same stretch, or the first of the next.
LEMMA DivNext ==
  ASSUME NEW n \in Nat, NEW d \in Nat \ {0}
  PROVE  IF n % d = d - 1 THEN (n + 1) \div d = (n \div d) + 1 /\ (n + 1) % d = 0
         ELSE (n + 1) \div d = n \div d /\ (n + 1) % d = (n % d) + 1
<1>1. n \div d \in Nat /\ n % d \in 0..(d - 1) /\ n = d * (n \div d) + (n % d)
  BY DivMod
<1> DEFINE p == n \div d
           s == n % d
<1>2. p \in Nat /\ s \in 0..(d - 1) /\ n = d * p + s
  BY <1>1
<1> HIDE DEF p, s
<1>3. CASE s = d - 1
  <2>1. n + 1 = d * (p + 1) + 0
    BY <1>2, <1>3
  <2>2. (n + 1) \div d = p + 1 /\ (n + 1) % d = 0
    BY <2>1, <1>2, DivIs
  <2> QED BY <2>2, <1>3 DEF p, s
<1>4. CASE s # d - 1
  <2>1. n + 1 = d * p + (s + 1) /\ s + 1 \in 0..(d - 1)
    BY <1>2, <1>4
  <2>2. (n + 1) \div d = p /\ (n + 1) % d = s + 1
    <3> HIDE DEF p, s
    <3> QED BY <2>1, <1>2, DivIs
  <2> QED BY <2>2, <1>4 DEF p, s
<1> QED BY <1>3, <1>4

\* The lap of a round is that of all sub-pages; no set of alarms has more sub-pages.
LEMMA RoundIsLong ==
  ASSUME Scr!ScreensAssumption
  PROVE  /\ Scr!Longest \in Nat \ {0} /\ Scr!Longest \in Period /\ \A p \in Period : p <= Scr!Longest
         /\ Scr!Round \in Nat
<1>1. \E p \in Period : \A q \in Period : q <= p
  BY DEF Scr!ScreensAssumption
<1>2. Scr!Longest \in Period /\ \A p \in Period : p <= Scr!Longest
  BY <1>1 DEF Scr!Longest
<1> QED BY <1>2 DEF Scr!ScreensAssumption, Scr!Round

\* The number of sub-pages: one at least if there is an alarm, and every alarm is on one.
LEMMA SubPagesFit ==
  ASSUME Scr!ScreensAssumption, NEW set \in SUBSET Scr!Alarm
  PROVE  /\ Scr!SubPages(set) \in Nat /\ Scr!SubPages(set) <= Scr!SubPages(Scr!Alarm)
         /\ (set = {} => Scr!SubPages(set) = 0) /\ (set # {} => Scr!SubPages(set) > 0)
         /\ \A a \in set : /\ Scr!SubPageOf(set, a) \in 0..(Scr!SubPages(set) - 1)
                           /\ Cardinality({b \in set : b < a}) \in Nat
<1> DEFINE P == PerSubPage
<1>1. P \in Nat \ {0} /\ Alarms \in Nat \ {0}
  BY DEF Scr!ScreensAssumption
<1>2. IsFiniteSet(Scr!Alarm)
  BY <1>1, FS_Interval DEF Scr!Alarm
<1>3. /\ IsFiniteSet(set) /\ Cardinality(set) \in Nat /\ Cardinality(Scr!Alarm) \in Nat
      /\ Cardinality(set) <= Cardinality(Scr!Alarm)
  BY <1>2, FS_Subset, FS_CardinalityType
<1>4. \A s : Scr!Cardinality(s) = Cardinality(s)
  BY DEF Scr!Cardinality, Cardinality
<1>5. \A s : Scr!SubPages(s) = (Cardinality(s) + P - 1) \div P
  BY <1>4 DEF Scr!SubPages
<1>6. /\ Cardinality(set) + P - 1 \in Nat /\ Cardinality(Scr!Alarm) + P - 1 \in Nat
      /\ Cardinality(set) + P - 1 <= Cardinality(Scr!Alarm) + P - 1
  BY <1>1, <1>3
<1> HIDE DEF P
<1>7. Scr!SubPages(set) \in Nat /\ Scr!SubPages(set) <= Scr!SubPages(Scr!Alarm)
  BY <1>1, <1>5, <1>6, DivMod, DivGrows
<1>8. ASSUME set = {} PROVE Scr!SubPages(set) = 0
  <2>1. Cardinality(set) + P - 1 = P * 0 + (P - 1) /\ P - 1 \in 0..(P - 1)
    BY <1>1, <1>8, FS_EmptySet
  <2> QED BY <1>1, <1>5, <1>6, <2>1, DivIs
<1>9. ASSUME NEW a \in set
      PROVE  /\ Scr!SubPageOf(set, a) \in 0..(Scr!SubPages(set) - 1)
             /\ Cardinality({b \in set : b < a}) \in Nat
  <2> DEFINE low == {b \in set : b < a}
             k == Cardinality(low)
             c == Cardinality(set)
  <2>1. low \subseteq set \ {a} /\ a \in Int
    BY <1>1 DEF Scr!Alarm
  <2>2. IsFiniteSet(set \ {a}) /\ Cardinality(set \ {a}) = c - 1
    BY <1>3, FS_RemoveElement
  <2>3. k \in Nat /\ k <= c - 1
    BY <2>1, <2>2, FS_Subset, FS_CardinalityType
  <2>4. Scr!SubPageOf(set, a) = k \div P
    BY <1>4 DEF Scr!SubPageOf, P
  <2>5. Scr!SubPages(set) = (c + P - 1) \div P
    BY <1>5
  <2> HIDE DEF k, c
  <2>6. c \in Nat /\ (c - 1) \in Nat
    BY <1>3, <2>3 DEF c
  <2>7. c - 1 = P * ((c - 1) \div P) + ((c - 1) % P) /\ (c - 1) \div P \in Nat /\ (c - 1) % P \in 0..(P - 1)
    BY <1>1, <2>6, DivMod
  <2>8. c + P - 1 = P * ((c - 1) \div P + 1) + ((c - 1) % P) /\ c + P - 1 \in Nat
    BY <1>1, <2>6, <2>7
  <2>9. (c + P - 1) \div P = (c - 1) \div P + 1
    <3> DEFINE x == (c - 1) \div P
               y == (c - 1) % P
    <3>1. c + P - 1 = P * (x + 1) + y /\ x + 1 \in Nat /\ y \in 0..(P - 1)
      BY <2>7, <2>8
    <3> HIDE DEF x, y
    <3>2. (c + P - 1) \div P = x + 1
      BY <1>1, <2>8, <3>1, DivIs
    <3> QED BY <3>2 DEF x
  <2>10. k \div P <= (c - 1) \div P /\ k \div P \in Nat
    BY <1>1, <2>3, <2>6, DivGrows, DivMod
  <2>11. Scr!SubPageOf(set, a) \in 0..(Scr!SubPages(set) - 1)
    <3> DEFINE x == (c - 1) \div P
               y == k \div P
    <3>1. y <= x /\ x \in Nat /\ y \in Nat /\ Scr!SubPageOf(set, a) = y /\ Scr!SubPages(set) = x + 1
      BY <2>4, <2>5, <2>7, <2>9, <2>10
    <3> HIDE DEF x, y
    <3> QED BY <3>1
  <2> QED BY <2>3, <2>11 DEF k
<1>10. ASSUME set # {} PROVE Scr!SubPages(set) > 0
  <2>1. PICK a \in set : TRUE
    BY <1>10
  <2>2. Scr!SubPageOf(set, a) \in 0..(Scr!SubPages(set) - 1)
    BY <1>9
  <2> QED BY <2>2, <1>7
<1> QED BY <1>7, <1>8, <1>9, <1>10

\* The lap of all alarms.
LEMMA LapFits ==
  ASSUME Scr!ScreensAssumption
  PROVE  /\ Scr!Lap \in Nat /\ Scr!SubPages(Scr!Alarm) \in Nat \ {0}
         /\ Scr!Lap = (Scr!SubPages(Scr!Alarm) - 1) * SubPage
<1>1. 0 \in Scr!Alarm
  BY DEF Scr!Alarm, Scr!ScreensAssumption
<1>2. Scr!SubPages(Scr!Alarm) \in Nat \ {0}
  BY <1>1, SubPagesFit
<1> QED BY <1>2 DEF Scr!Lap, Scr!ScreensAssumption

\* renderAlarmsPage(): an alarm is shown on its sub-page.
LEMMA ShownOnItsOwn ==
  ASSUME Scr!ScreensAssumption, v1 \in SUBSET Scr!Alarm, NEW sub \in Nat, NEW a \in v1
  PROVE  a \in Scr!Shown(sub) <=> sub = Scr!SubPageOf(v1, a)
<1> DEFINE P == PerSubPage
           k == Cardinality({b \in v1 : b < a})
           x == k \div P
           y == k % P
<1>1. P \in Nat \ {0}
  BY DEF Scr!ScreensAssumption
<1>2. \A s : Scr!Cardinality(s) = Cardinality(s)
  BY DEF Scr!Cardinality, Cardinality
<1>3. a \in Scr!Shown(sub) <=> k >= sub * P /\ k < (sub + 1) * P
  BY <1>2 DEF Scr!Shown
<1>4. Scr!SubPageOf(v1, a) = x
  BY <1>2 DEF Scr!SubPageOf
<1>5. k \in Nat
  BY SubPagesFit
<1> HIDE DEF k, P
<1>6. k = P * x + y /\ x \in Nat /\ y \in 0..(P - 1)
  BY <1>1, <1>5, DivMod
<1> HIDE DEF x, y
<1>7. ASSUME sub = x PROVE k >= sub * P /\ k < (sub + 1) * P
  <2>1. P * x = sub * P /\ (sub + 1) * P = P * x + P /\ P * x \in Nat
    BY <1>1, <1>6, <1>7
  <2> QED BY <1>1, <1>6, <2>1
<1>8. ASSUME sub < x PROVE ~(k < (sub + 1) * P)
  <2>1. (sub + 1) * P <= P * x /\ P * x \in Nat /\ (sub + 1) * P \in Nat
    BY <1>1, <1>6, <1>8
  <2> QED BY <1>1, <1>6, <2>1
<1>9. ASSUME sub > x PROVE ~(k >= sub * P)
  <2>1. sub * P >= P * (x + 1) /\ P * (x + 1) = P * x + P /\ P * x \in Nat /\ sub * P \in Nat
    BY <1>1, <1>6, <1>9
  <2> QED BY <1>1, <1>6, <2>1
<1> QED BY <1>3, <1>4, <1>6, <1>7, <1>8, <1>9

\* An alarm that is not on the next screen of the page has waited a step longer, and no
\* longer than that.
LEMMA WaitGoesOn ==
  ASSUME Scr!ScreensAssumption, NEW own \in Nat, NEW all \in Nat \ {0}, own < all,
         NEW age \in Nat, NEW wait \in Nat, NEW next \in Nat,
         Scr!Waited(own, all, age \div SubPage, age % SubPage, wait),
         next <= wait + 1, ((age + 1) \div SubPage) % all = own => next = 0
  PROVE  Scr!Waited(own, all, (age + 1) \div SubPage, (age + 1) % SubPage, next)
<1> DEFINE S == SubPage
           x == age \div S
           r == age % S
           q == x % all
<1>1. S \in Nat \ {0} /\ Scr!Lap \in Nat /\ Scr!Round \in Nat
  BY LapFits, RoundIsLong DEF Scr!ScreensAssumption
<1>2. x \in Nat /\ r \in 0..(S - 1)
  BY <1>1, DivMod
<1>3. q \in 0..(all - 1)
  BY <1>2, DivMod
<1>4. IF r = S - 1 THEN (age + 1) \div S = x + 1 /\ (age + 1) % S = 0
      ELSE (age + 1) \div S = x /\ (age + 1) % S = r + 1
  BY <1>1, DivNext
<1> DEFINE L == Scr!Lap
           R == Scr!Round
<1>5. /\ q = own => wait = 0
      /\ q > own => wait <= (q - own - 1) * S + r + 1
      /\ q < own /\ x < all => wait <= L + R + q * S + r + 1
      /\ q < own /\ x >= all => wait <= (all - 1 - own + q) * S + r + 1
  BY DEF Scr!Waited
<1>6. CASE r # S - 1
  <2>1. Scr!Waited(own, all, x, r + 1, next)
    <3>1. q = own => next = 0
      BY <1>4, <1>6
    <3> HIDE DEF S, x, r, q, L, R
    <3>2. q > own => next <= (q - own - 1) * S + (r + 1) + 1
      <4>1. q > own => (q - own - 1) * S \in Nat
        BY <1>1, <1>3
      <4> QED BY <4>1, <1>2, <1>5
    <3>3. q < own /\ x < all => next <= L + R + q * S + (r + 1) + 1
      <4>1. q * S \in Nat /\ L \in Nat /\ R \in Nat
        BY <1>1, <1>3 DEF L, R
      <4> QED BY <4>1, <1>2, <1>5
    <3>4. q < own /\ x >= all => next <= (all - 1 - own + q) * S + (r + 1) + 1
      <4>1. (all - 1 - own + q) * S \in Nat
        <5>1. all - 1 - own + q \in Nat
          BY <1>3
        <5> QED BY <5>1, <1>1
      <4> QED BY <4>1, <1>2, <1>5
    <3> QED BY <3>1, <3>2, <3>3, <3>4 DEF Scr!Waited, q, S, L, R
  <2> QED BY <2>1, <1>4, <1>6
<1>7. CASE r = S - 1
  <2> DEFINE p == (x + 1) % all
  <2>1. IF q = all - 1 THEN p = 0 ELSE p = q + 1
    BY <1>2, DivNext
  <2>2. p = own => next = 0
    BY <1>4, <1>7
  <2>3. q = all - 1 => x + 1 >= all
    <3>1. x = all * (x \div all) + q /\ x \div all \in Nat
      BY <1>2, DivMod
    <3>2. all * (x \div all) \in Nat
      BY <3>1
    <3> HIDE DEF x, q
    <3> QED BY <3>1, <3>2, <1>2
  <2> HIDE DEF S, x, r, q, p, L, R
  <2>4. /\ q > own => next <= (q - own - 1) * S + S + 1
        /\ q < own /\ x < all => next <= L + R + q * S + S + 1
        /\ q < own /\ x >= all => next <= (all - 1 - own + q) * S + S + 1
        /\ q = own => next <= 1
    <3>1. q > own => (q - own - 1) * S \in Nat
      BY <1>1, <1>3
    <3>2. q * S \in Nat /\ L \in Nat /\ R \in Nat
      BY <1>1, <1>3 DEF L, R
    <3>3. (all - 1 - own + q) * S \in Nat
      <4>1. all - 1 - own + q \in Nat
        BY <1>3
      <4> QED BY <4>1, <1>1
    <3> QED BY <3>1, <3>2, <3>3, <1>1, <1>2, <1>5, <1>7
  <2>5. Scr!Waited(own, all, x + 1, 0, next)
    <3>1. CASE q # all - 1
      <4>1. p = q + 1
        BY <2>1, <3>1
      <4>2. /\ q > own => (q - own - 1) * S + S = (p - own - 1) * S
            /\ q * S + S = p * S
            /\ (all - 1 - own + q) * S + S = (all - 1 - own + p) * S
        BY <4>1, <1>1, <1>3
      <4>3. p > own => next <= (p - own - 1) * S + 0 + 1
        <5>1. CASE q > own
          <6>1. (q - own - 1) * S \in Nat /\ (p - own - 1) * S \in Int
            BY <5>1, <4>1, <1>1, <1>3
          <6> QED BY <6>1, <5>1, <4>2, <2>4, <1>1
        <5>2. CASE p > own /\ q = own
          <6>1. (p - own - 1) * S = 0
            BY <5>2, <4>1, <1>1, <1>3
          <6> QED BY <6>1, <5>2, <2>4
        <5> QED BY <5>1, <5>2, <4>1, <1>3
      <4>4. p < own /\ x + 1 < all => next <= L + R + p * S + 0 + 1
        <5>1. q * S \in Nat /\ p * S \in Nat /\ L \in Nat /\ R \in Nat
          BY <4>1, <1>1, <1>3 DEF L, R
        <5> QED BY <5>1, <4>1, <4>2, <2>4, <1>1, <1>2, <1>3
      <4>5. p < own /\ x + 1 >= all => next <= (all - 1 - own + p) * S + 0 + 1
        <5> SUFFICES ASSUME p < own, x + 1 >= all
                     PROVE  next <= (all - 1 - own + p) * S + 0 + 1
          OBVIOUS
        <5>1. x >= all \/ x + 1 = all
          BY <1>2
        <5>2. CASE x + 1 = all
          <6>1. q = x
            <7>1. x = all * 0 + x /\ x \in 0..(all - 1)
              BY <5>2, <1>2
            <7> QED BY <7>1, <1>2, DivIs DEF q
          <6> QED BY <6>1, <5>2, <3>1, <1>2
        <5>3. CASE x >= all
          <6>1. (all - 1 - own + q) * S \in Int /\ (all - 1 - own + p) * S \in Int
            BY <4>1, <1>1, <1>3
          <6> QED BY <6>1, <5>3, <4>1, <4>2, <2>4, <1>1, <1>3
        <5> QED BY <5>1, <5>2, <5>3
      <4> QED BY <2>2, <4>3, <4>4, <4>5 DEF Scr!Waited, p, S, L, R
    <3>2. CASE q = all - 1
      <4>1. p = 0 /\ x + 1 >= all
        BY <2>1, <2>3, <3>2
      <4>2. own > 0 => next <= (all - 1 - own + p) * S + 0 + 1
        <5>1. CASE q = own
          <6>1. (all - 1 - own + p) * S = 0
            BY <5>1, <4>1, <3>2, <1>1
          <6> QED BY <6>1, <5>1, <2>4
        <5>2. CASE q > own
          <6>1. (q - own - 1) * S + S = (all - 1 - own + p) * S
            BY <5>2, <4>1, <3>2, <1>1
          <6>2. (q - own - 1) * S \in Nat /\ (all - 1 - own + p) * S \in Int
            BY <5>2, <4>1, <3>2, <1>1
          <6> QED BY <6>1, <6>2, <5>2, <2>4, <1>1
        <5> QED BY <5>1, <5>2, <3>2, <1>3
      <4> QED BY <2>2, <4>1, <4>2, <1>2 DEF Scr!Waited, p, S
    <3> QED BY <3>1, <3>2
  <2> QED BY <2>5, <1>4, <1>7 DEF S, x, r
<1> QED BY <1>6, <1>7

\* On the first sub-page of the page it has waited for the round at most.
LEMMA WaitBegins ==
  ASSUME Scr!ScreensAssumption, NEW own \in Nat, NEW all \in Nat \ {0}, own < all,
         NEW wait \in Nat, wait <= Scr!Lap + Scr!Round + 1, own = 0 => wait = 0
  PROVE  Scr!Waited(own, all, 0 \div SubPage, 0 % SubPage, wait)
<1>1. SubPage \in Nat \ {0} /\ Scr!Lap \in Nat /\ Scr!Round \in Nat
  BY LapFits, RoundIsLong DEF Scr!ScreensAssumption
<1>2. 0 = SubPage * 0 + 0 /\ 0 \in 0..(SubPage - 1)
  BY <1>1
<1>3. 0 \div SubPage = 0 /\ 0 % SubPage = 0
  BY <1>1, <1>2, DivIs
<1>4. 0 = all * 0 + 0 /\ 0 \in 0..(all - 1)
  OBVIOUS
<1>5. 0 % all = 0
  BY <1>4, DivIs
<1>6. 0 * SubPage = 0
  BY <1>1
<1> QED BY <1>1, <1>3, <1>5, <1>6 DEF Scr!Waited

\* Once a lap is over it has not waited for longer than the other sub-pages take.
LEMMA WaitEnds ==
  ASSUME Scr!ScreensAssumption, NEW own \in Nat, NEW all \in Nat \ {0}, own < all,
         all <= Scr!SubPages(Scr!Alarm), NEW age \in Nat, NEW wait \in Nat,
         Scr!Waited(own, all, age \div SubPage, age % SubPage, wait), age + 1 >= all * SubPage
  PROVE  wait <= Scr!Lap
<1> DEFINE S == SubPage
           x == age \div S
           r == age % S
           q == x % all
           most == Scr!SubPages(Scr!Alarm)
           L == Scr!Lap
           R == Scr!Round
<1>1. S \in Nat \ {0} /\ L \in Nat /\ most \in Nat \ {0} /\ L = (most - 1) * S
  BY LapFits DEF Scr!ScreensAssumption
<1>2. x \in Nat /\ r \in 0..(S - 1) /\ age = S * x + r
  BY <1>1, DivMod
<1>3. q \in 0..(all - 1)
  BY <1>2, DivMod
<1>5. /\ q = own => wait = 0
      /\ q > own => wait <= (q - own - 1) * S + r + 1
      /\ q < own /\ x < all => wait <= L + R + q * S + r + 1
      /\ q < own /\ x >= all => wait <= (all - 1 - own + q) * S + r + 1
  BY DEF Scr!Waited
<1>6. all <= most
  OBVIOUS
<1>7. age + 1 >= all * S
  OBVIOUS
<1> HIDE DEF S, x, r, q, most, L, R
<1>8. x + 1 >= all
  <2> SUFFICES ASSUME x + 1 < all PROVE FALSE
    BY <1>2
  <2>1. (x + 2) * S <= all * S /\ (x + 2) * S = S * x + S + S /\ S * x \in Nat /\ all * S \in Nat
    BY <1>1, <1>2
  <2> QED BY <2>1, <1>1, <1>2, <1>7
<1>9. (all - 1) * S <= L /\ (all - 1) * S \in Nat
  BY <1>1, <1>6
<1>10. CASE q > own
  <2>1. (q - own - 1) * S + S = (q - own) * S /\ (q - own) * S <= (all - 1) * S
        /\ (q - own) * S \in Nat /\ (q - own - 1) * S \in Nat
    BY <1>1, <1>3, <1>10
  <2> QED BY <2>1, <1>1, <1>2, <1>5, <1>9, <1>10 DEF L
<1>11. CASE q < own /\ x >= all
  <2> DEFINE m == all - 1 - own + q
  <2>1. m \in Nat /\ m + 1 <= all - 1
    BY <1>3, <1>11
  <2> HIDE DEF m
  <2>2. m * S + S = (m + 1) * S /\ (m + 1) * S <= (all - 1) * S /\ (m + 1) * S \in Nat /\ m * S \in Nat
    BY <1>1, <2>1
  <2>3. wait <= m * S + r + 1
    BY <1>5, <1>11 DEF m
  <2> QED BY <2>2, <2>3, <1>1, <1>2, <1>9 DEF L
<1>12. CASE q < own /\ x < all
  <2>1. x = all * 0 + x /\ x \in 0..(all - 1)
    BY <1>2, <1>12
  <2>2. q = x
    BY <2>1, <1>2, DivIs DEF q
  <2> QED BY <2>2, <1>2, <1>8, <1>12
<1>13. CASE q = own
  BY <1>1, <1>5, <1>13 DEF L
<1> QED BY <1>2, <1>3, <1>10, <1>11, <1>12, <1>13

\* On the alarms page none has waited for longer than the bound.
LEMMA WaitIsBound ==
  ASSUME Scr!ScreensAssumption, NEW own \in Nat, NEW all \in Nat \ {0}, own < all,
         all <= Scr!SubPages(Scr!Alarm), NEW age \in Nat, NEW wait \in Nat,
         Scr!Waited(own, all, age \div SubPage, age % SubPage, wait)
  PROVE  wait <= Scr!Bound
<1> DEFINE S == SubPage
           x == age \div S
           r == age % S
           q == x % all
           most == Scr!SubPages(Scr!Alarm)
           L == Scr!Lap
           R == Scr!Round
<1>1. /\ S \in Nat \ {0} /\ L \in Nat /\ R \in Nat /\ most \in Nat \ {0} /\ L = (most - 1) * S
  BY LapFits, RoundIsLong DEF Scr!ScreensAssumption
<1>2. x \in Nat /\ r \in 0..(S - 1)
  BY <1>1, DivMod
<1>3. q \in 0..(all - 1)
  BY <1>2, DivMod
<1>4. Scr!Bound = R + L + L
  BY <1>1 DEF Scr!Bound
<1>5. /\ q = own => wait = 0
      /\ q > own => wait <= (q - own - 1) * S + r + 1
      /\ q < own /\ x < all => wait <= L + R + q * S + r + 1
      /\ q < own /\ x >= all => wait <= (all - 1 - own + q) * S + r + 1
  BY DEF Scr!Waited
<1>6. all <= most
  OBVIOUS
<1> HIDE DEF S, x, r, q, most, L, R
<1>9. (all - 1) * S <= L /\ (all - 1) * S \in Nat
  BY <1>1, <1>6
<1>10. CASE q > own
  <2>1. (q - own - 1) * S + S = (q - own) * S /\ (q - own) * S <= (all - 1) * S
        /\ (q - own) * S \in Nat /\ (q - own - 1) * S \in Nat
    BY <1>1, <1>3, <1>10
  <2> QED BY <2>1, <1>1, <1>2, <1>4, <1>5, <1>9, <1>10
<1>11. CASE q < own /\ x >= all
  <2> DEFINE m == all - 1 - own + q
  <2>1. m \in Nat /\ m + 1 <= all - 1
    BY <1>3, <1>11
  <2> HIDE DEF m
  <2>2. m * S + S = (m + 1) * S /\ (m + 1) * S <= (all - 1) * S /\ (m + 1) * S \in Nat /\ m * S \in Nat
    BY <1>1, <2>1
  <2>3. wait <= m * S + r + 1
    BY <1>5, <1>11 DEF m
  <2> QED BY <2>2, <2>3, <1>1, <1>2, <1>4, <1>9
<1>12. CASE q < own /\ x < all
  <2>1. q + 1 <= all - 1
    BY <1>3, <1>12
  <2>2. q * S + S = (q + 1) * S /\ (q + 1) * S <= (all - 1) * S /\ q * S \in Nat /\ (q + 1) * S \in Nat
    BY <2>1, <1>1, <1>3
  <2> QED BY <2>2, <1>1, <1>2, <1>4, <1>5, <1>9, <1>12
<1> QED BY <1>1, <1>2, <1>3, <1>4, <1>5, <1>10, <1>11, <1>12

\* What update() reads of the scheduler, a step later.
Now == [Scr!Aged(v5) EXCEPT !.prev = v1]

\* Time passes; nothing else changes.
LEMMA NowFits ==
  ASSUME Scr!ScreensFit, Scr!ScreensAssumption
  PROVE  /\ Now \in Scr!Scheduler /\ Now.prev = v1
         /\ Now.page = v5.page /\ Now.onAlarms = v5.onAlarms /\ Now.dwell = v5.dwell
         /\ Now.override = v5.override
         /\ v5.hold < 0 => Now.hold = v5.hold
         /\ v5.hold >= 0 => Now.hold = v5.hold + 1
         /\ v5.pageAge < v5.dwell => Now.pageAge = v5.pageAge + 1
<1>1. v5 \in Scr!Scheduler /\ v1 \in SUBSET Scr!Alarm /\ (v5.hold >= 0 => v5.hold < Hold)
  BY DEF Scr!ScreensFit, Scr!SchedFits, Scr!HoldFits
<1>2. Scr!Longest \in Nat /\ Hold \in Nat
  BY RoundIsLong DEF Scr!ScreensAssumption
<1>3. /\ Scr!More(v5.pageAge, Scr!Longer(v5.dwell, Scr!Longest)) \in Int
      /\ v5.pageAge < v5.dwell
           => Scr!More(v5.pageAge, Scr!Longer(v5.dwell, Scr!Longest)) = v5.pageAge + 1
  BY <1>1, <1>2 DEF Scr!Scheduler, Scr!More, Scr!Longer
<1>4. Scr!More(v5.slotAge, Scr!Longest) \in Nat
  BY <1>1, <1>2 DEF Scr!Scheduler, Scr!More
<1>5. v5.hold >= 0 => Scr!More(v5.hold, Hold) = v5.hold + 1
  BY <1>1, <1>2 DEF Scr!Scheduler, Scr!More
<1>6. (IF v5.resetResult > 0 THEN v5.resetResult - 1 ELSE 0) \in Nat
  BY <1>1 DEF Scr!Scheduler
<1> DEFINE p == Scr!More(v5.pageAge, Scr!Longer(v5.dwell, Scr!Longest))
           a == Scr!More(v5.slotAge, Scr!Longest)
           h == IF v5.hold >= 0 THEN Scr!More(v5.hold, Hold) ELSE v5.hold
           r == IF v5.resetResult > 0 THEN v5.resetResult - 1 ELSE 0
<1>7. h \in Int /\ (v5.hold >= 0 => h = v5.hold + 1) /\ (v5.hold < 0 => h = v5.hold)
  BY <1>1, <1>5 DEF Scr!Scheduler
<1>8. Now = [v5 EXCEPT !.pageAge = p, !.slotAge = a, !.hold = h, !.resetResult = r, !.prev = v1]
  BY <1>1 DEF Now, Scr!Aged, Scr!Scheduler
<1> HIDE DEF p, a, h, r
<1>9. p \in Int /\ a \in Nat /\ r \in Nat
  BY <1>3, <1>4, <1>6 DEF p, a, r
<1>10. Now \in Scr!Scheduler
  BY <1>1, <1>7, <1>8, <1>9 DEF Scr!Scheduler
<1>11. /\ Now.prev = v1 /\ Now.page = v5.page /\ Now.onAlarms = v5.onAlarms
       /\ Now.dwell = v5.dwell /\ Now.override = v5.override /\ Now.hold = h /\ Now.pageAge = p
  BY <1>1, <1>8 DEF Scr!Scheduler
<1> QED BY <1>3, <1>7, <1>10, <1>11 DEF p

\* The scheduler after an override and the hold: it goes on with a hold, has started anew,
\* or goes on with its page.
Holding(t) == t.hold >= 0 /\ t.hold < Hold /\ v1 # {} /\ (v1 = v5.prev => v5.hold >= 0 /\ t.hold = v5.hold + 1)
Anew(t) ==
  /\ t.hold < 0 /\ t.page = 0 /\ ~t.onAlarms /\ t.pageAge = 0 /\ t.dwell = v4
  /\ v1 = v5.prev /\ v5.override = "None" => v1 = {} \/ (v5.hold >= 0 /\ v5.hold + 1 = Hold)
Going(t) == v5.override = "None" /\ v5.hold < 0 /\ v1 \subseteq v5.prev /\ t = Now

\* The rotation begins anew, with the first page.
LEMMA RestartFits ==
  ASSUME NEW s \in Scr!Scheduler, Scr!ScreensAssumption, v4 \in Period
  PROVE  /\ Scr!Restart(s) \in Scr!Scheduler
         /\ Scr!Restart(s).page = 0 /\ Scr!Restart(s).onAlarms = FALSE
         /\ Scr!Restart(s).pageAge = 0 /\ Scr!Restart(s).dwell = v4
         /\ Scr!Restart(s).prev = s.prev /\ Scr!Restart(s).override = s.override
         /\ Scr!Restart(s).hold = s.hold
<1>1. 0 \in 0..Pages /\ v4 \in Nat \ {0} /\ 0 \in Int
  <2>1. Pages \in Nat /\ Period \subseteq Nat \ {0}
    BY DEF Scr!ScreensAssumption
  <2> QED BY <2>1
<1>2. Scr!Restart(s) = [s EXCEPT !.page = 0, !.onAlarms = FALSE, !.pageAge = 0, !.dwell = v4]
  BY DEF Scr!Restart
<1>3. Scr!Restart(s) \in Scr!Scheduler
  BY <1>1, <1>2 DEF Scr!Scheduler
<1> QED BY <1>2, <1>3 DEF Scr!Scheduler

\* Those three are all there is.
LEMMA ReleasedFits ==
  ASSUME Scr!ScreensFit, Scr!ScreensAssumption, NEW t,
         t = Scr!Released(Scr!Held(Scr!Freed(Now), v1 \ v5.prev))
  PROVE  /\ t \in Scr!Scheduler /\ t.prev = v1 /\ t.override = "None"
         /\ t.onAlarms <=> t.page = Pages
         /\ Holding(t) \/ Anew(t) \/ Going(t)
<1> DEFINE rising == v1 \ v5.prev
           f == Scr!Freed(Now)
           h == Scr!Held(f, rising)
<1>1. /\ Now \in Scr!Scheduler /\ Now.prev = v1
      /\ Now.page = v5.page /\ Now.onAlarms = v5.onAlarms /\ Now.override = v5.override
      /\ v5.hold < 0 => Now.hold = v5.hold
      /\ v5.hold >= 0 => Now.hold = v5.hold + 1
  BY NowFits
<1>2. /\ v5 \in Scr!Scheduler /\ v4 \in Period /\ v4 \in Nat \ {0} /\ Pages \in Nat \ {0} /\ Hold \in Nat \ {0}
      /\ v5.onAlarms <=> v5.page = Pages
      /\ v5.override # "None" => v5.hold < 0
      /\ v5.hold >= 0 => v5.hold < Hold
  <2>1. Scr!SubPages(Scr!Alarm) * SubPage <= Hold /\ SubPage \in Nat \ {0} /\ Hold \in Nat
    BY DEF Scr!ScreensAssumption
  <2>2. Scr!SubPages(Scr!Alarm) * SubPage >= 1
    BY <2>1, LapFits
  <2>3. Scr!SubPages(Scr!Alarm) * SubPage \in Nat
    BY <2>1, LapFits
  <2>4. Hold > 0
    BY <2>1, <2>2, <2>3
  <2> QED BY <2>1, <2>4 DEF Scr!ScreensFit, Scr!SchedFits, Scr!HoldFits, Scr!ScreensAssumption
<1> HIDE DEF Now
<1>3. /\ f \in Scr!Scheduler /\ f.prev = v1 /\ f.override = "None" /\ f.hold = Now.hold
      /\ f.onAlarms <=> f.page = Pages
      /\ v5.override = "None" => f = Now
      /\ v5.override # "None" => f.page = 0 /\ ~f.onAlarms /\ f.pageAge = 0 /\ f.dwell = v4
  <2>1. CASE v5.override = "None"
    <3>1. f = Now
      BY <2>1, <1>1 DEF Scr!Freed
    <3> QED BY <3>1, <2>1, <1>1, <1>2
  <2>2. CASE v5.override # "None"
    <3>1. f = [Scr!Restart(Now) EXCEPT !.override = "None"]
      BY <1>1, <2>2 DEF Scr!Freed
    <3> DEFINE g == Scr!Restart(Now)
    <3>2. /\ g \in Scr!Scheduler /\ g.page = 0 /\ g.onAlarms = FALSE /\ g.pageAge = 0
          /\ g.dwell = v4 /\ g.prev = v1 /\ g.hold = Now.hold
      BY <1>1, <1>2, RestartFits
    <3> HIDE DEF g
    <3>3. /\ f \in Scr!Scheduler /\ f.prev = v1 /\ f.override = "None" /\ f.hold = Now.hold
          /\ f.page = 0 /\ f.onAlarms = FALSE /\ f.pageAge = 0 /\ f.dwell = v4
      BY <3>1, <3>2 DEF Scr!Scheduler, g
    <3> QED BY <3>3, <2>2, <1>2
  <2> QED BY <2>1, <2>2
<1> HIDE DEF f
<1>4. CASE rising # {}
  <2>1. h = [f EXCEPT !.hold = 0] /\ v1 # {} /\ v1 # v5.prev
    BY <1>4 DEF Scr!Held
  <2>2. h \in Scr!Scheduler /\ h.hold = 0 /\ h.prev = v1 /\ h.override = "None"
        /\ h.onAlarms = f.onAlarms /\ h.page = f.page
    BY <2>1, <1>3 DEF Scr!Scheduler
  <2>3. t = Scr!Released(h)
    BY DEF f
  <2>4. h.hold \in Int /\ ~(h.hold >= Hold)
    BY <2>2, <1>2
  <2>5. t = h
    BY <2>1, <2>3, <2>4 DEF Scr!Released
  <2> QED BY <2>1, <2>2, <2>5, <1>2, <1>3 DEF Holding
<1>5. CASE rising = {}
  <2>1. h = f /\ t = Scr!Released(f)
    BY <1>5 DEF Scr!Held, f
  <2>2. CASE f.hold >= 0 /\ (v1 = {} \/ f.hold >= Hold)
    <3>1. t = [Scr!Restart(f) EXCEPT !.hold = -1]
      BY <2>1, <2>2 DEF Scr!Released
    <3>2. v5.override = "None" /\ v5.hold >= 0 /\ (v1 = {} \/ v5.hold + 1 = Hold)
      BY <2>2, <1>1, <1>2, <1>3 DEF Scr!Scheduler
    <3> DEFINE g == Scr!Restart(f)
    <3>3. /\ g \in Scr!Scheduler /\ g.page = 0 /\ g.onAlarms = FALSE /\ g.pageAge = 0
          /\ g.dwell = v4 /\ g.prev = v1 /\ g.override = "None"
      BY <1>2, <1>3, RestartFits
    <3> HIDE DEF g
    <3>4. /\ t \in Scr!Scheduler /\ t.prev = v1 /\ t.override = "None" /\ t.page = 0
          /\ t.onAlarms = FALSE /\ t.pageAge = 0 /\ t.dwell = v4 /\ t.hold = -1
      BY <3>1, <3>3 DEF Scr!Scheduler, g
    <3> QED BY <3>2, <3>4, <1>2 DEF Anew
  <2>3. CASE f.hold >= 0 /\ ~(v1 = {} \/ f.hold >= Hold)
    <3>1. t = f
      BY <2>1, <2>3 DEF Scr!Released
    <3>2. f.hold = v5.hold + 1 /\ v5.hold >= 0
      BY <2>3, <1>1, <1>2, <1>3 DEF Scr!Scheduler
    <3>3. f.hold < Hold /\ v1 # {}
      BY <2>3, <1>2, <1>3 DEF Scr!Scheduler
    <3> QED BY <3>1, <3>2, <3>3, <2>3, <1>3 DEF Holding
  <2>4. CASE f.hold < 0
    <3>1. t = f
      BY <2>1, <2>4, <1>3 DEF Scr!Released, Scr!Scheduler
    <3>2. v5.hold < 0
      BY <2>4, <1>1, <1>2, <1>3 DEF Scr!Scheduler
    <3>3. CASE v5.override = "None"
      BY <3>1, <3>2, <3>3, <1>3, <1>5 DEF Going
    <3>4. CASE v5.override # "None"
      BY <3>1, <2>4, <3>4, <1>3 DEF Anew
    <3> QED BY <3>3, <3>4, <3>1, <1>3
  <2>5. f.hold \in Int
    BY <1>3 DEF Scr!Scheduler
  <2> QED BY <2>2, <2>3, <2>4, <2>5
<1> QED BY <1>4, <1>5

\* Fewer alarms have no more sub-pages.
LEMMA SubPagesGrow ==
  ASSUME Scr!ScreensAssumption, NEW set \in SUBSET Scr!Alarm, NEW some \in SUBSET set
  PROVE  Scr!SubPages(some) <= Scr!SubPages(set)
<1>1. PerSubPage \in Nat \ {0} /\ Alarms \in Nat
  BY DEF Scr!ScreensAssumption
<1>2. IsFiniteSet(set)
  <2>1. IsFiniteSet(Scr!Alarm)
    BY <1>1, FS_Interval DEF Scr!Alarm
  <2> QED BY <2>1, FS_Subset
<1>3. /\ Cardinality(some) \in Nat /\ Cardinality(set) \in Nat
      /\ Cardinality(some) <= Cardinality(set)
  BY <1>2, FS_Subset, FS_CardinalityType
<1>4. \A s : Scr!Cardinality(s) = Cardinality(s)
  BY DEF Scr!Cardinality, Cardinality
<1>5. /\ Cardinality(some) + PerSubPage - 1 \in Nat /\ Cardinality(set) + PerSubPage - 1 \in Nat
      /\ Cardinality(some) + PerSubPage - 1 <= Cardinality(set) + PerSubPage - 1
  BY <1>1, <1>3
<1> QED BY <1>1, <1>4, <1>5, DivGrows DEF Scr!SubPages

\* One that is shown has not waited, and one that has not waited fits anywhere.
LEMMA NoWaitFits ==
  ASSUME Scr!ScreensAssumption, NEW own \in Nat, NEW all \in Nat \ {0}, own < all, NEW age \in Nat
  PROVE  Scr!Waited(own, all, age \div SubPage, age % SubPage, 0)
<1> DEFINE S == SubPage
           x == age \div S
           r == age % S
           q == x % all
<1>1. S \in Nat \ {0} /\ Scr!Lap \in Nat /\ Scr!Round \in Nat
  BY LapFits, RoundIsLong DEF Scr!ScreensAssumption
<1>2. x \in Nat /\ r \in 0..(S - 1)
  BY <1>1, DivMod
<1>3. q \in 0..(all - 1)
  BY <1>2, DivMod
<1> HIDE DEF S, x, r, q
<1>4. q > own => (q - own - 1) * S \in Nat
  BY <1>1, <1>3
<1>5. q * S \in Nat
  BY <1>1, <1>3
<1>6. (all - 1 - own + q) * S \in Nat
  <2>1. all - 1 - own + q \in Nat
    BY <1>3
  <2> QED BY <2>1, <1>1
<1>7. Scr!Waited(own, all, x, r, 0)
  BY <1>1, <1>2, <1>3, <1>4, <1>5, <1>6 DEF Scr!Waited, q, S
<1> QED BY <1>7 DEF x, r, S

\* What an update does to the waiting.
WaitStep ==
  /\ v7' \in [Scr!Alarm -> Nat]
  /\ \A a \in Scr!Alarm :
       /\ v7'[a] <= v7[a] + 1
       /\ a \notin v1 \/ v1 # v5.prev \/ v3 \/ v6'.name \notin {"Page", "Alarms"}
            \/ a \in v6'.alarms => v7'[a] = 0

\* Every update is such a step.
LEMMA UpdateWaits ==
  ASSUME Scr!ScreensFit, Scr!ScreensAssumption, Scr!Update
  PROVE  WaitStep
<1>1. v7 \in [Scr!Alarm -> Nat] /\ Scr!Bound + 1 \in Nat
  <2>1. Scr!Bound + 1 \in Nat
    BY LapFits, RoundIsLong DEF Scr!Bound
  <2> QED BY <2>1 DEF Scr!ScreensFit, Scr!SchedFits
<1>2. v7' = [a \in Scr!Alarm |->
               IF a \in v1 /\ v1 = v5.prev /\ v6'.name \in {"Page", "Alarms"}
                  /\ a \notin v6'.alarms /\ ~v3
               THEN Scr!More(v7[a], Scr!Bound + 1) ELSE 0]
  BY DEF Scr!Update
<1>3. ASSUME NEW a \in Scr!Alarm
      PROVE  Scr!More(v7[a], Scr!Bound + 1) \in Nat /\ Scr!More(v7[a], Scr!Bound + 1) <= v7[a] + 1
             /\ v7[a] \in Nat
  <2>1. v7[a] \in Nat
    BY <1>1
  <2> QED BY <2>1, <1>1 DEF Scr!More
<1>4. v7' \in [Scr!Alarm -> Nat]
  BY <1>2, <1>3
<1>5. ASSUME NEW a \in Scr!Alarm
      PROVE  /\ v7'[a] <= v7[a] + 1
             /\ a \notin v1 \/ v1 # v5.prev \/ v3 \/ v6'.name \notin {"Page", "Alarms"}
                  \/ a \in v6'.alarms => v7'[a] = 0
  <2>1. v7'[a] = IF a \in v1 /\ v1 = v5.prev /\ v6'.name \in {"Page", "Alarms"}
                    /\ a \notin v6'.alarms /\ ~v3
                 THEN Scr!More(v7[a], Scr!Bound + 1) ELSE 0
    BY <1>2
  <2> QED BY <2>1, <1>3
<1> QED BY <1>4, <1>5 DEF WaitStep

\* With an override nothing waits.
LEMMA OverriddenFits ==
  ASSUME Scr!ScreensFit, Scr!ScreensAssumption, Scr!Update,
         Scr!ResetScreen(Now) \/ Scr!OtaScreen(Now) \/ Scr!SetupScreen(Now)
  PROVE  Scr!ScreensFit'
<1>1. WaitStep /\ UNCHANGED <<v1, v2, v3, v4>>
  BY UpdateWaits DEF Scr!Update
<1>2. /\ Now \in Scr!Scheduler /\ Now.prev = v1 /\ Now.page = v5.page
      /\ Now.onAlarms = v5.onAlarms
  BY NowFits
<1>3. /\ v1 \subseteq Scr!Alarm /\ v2 \in BOOLEAN /\ v3 \in BOOLEAN /\ v4 \in Period
      /\ v5.onAlarms <=> v5.page = Pages
  BY DEF Scr!ScreensFit, Scr!SchedFits
<1> HIDE DEF Now
<1>4. \A a \in Scr!Alarm : v7'[a] = 0
  <2>1. v3 \/ v6'.name \notin {"Page", "Alarms"}
    BY DEF Scr!ResetScreen, Scr!OtaScreen, Scr!SetupScreen, Scr!Screen
  <2> QED BY <2>1, <1>1 DEF WaitStep
<1>5. PICK t \in Scr!Scheduler :
        t.prev = v1 /\ t.page = Now.page /\ t.onAlarms = Now.onAlarms /\
        \E o \in {"Setup", "Ota", "ResetResult"} : v5' = [t EXCEPT !.hold = -1, !.override = o]
  <2>1. CASE Scr!ResetScreen(Now) \/ Scr!OtaScreen(Now)
    <3>1. \E o \in {"Setup", "Ota", "ResetResult"} : v5' = [Now EXCEPT !.hold = -1, !.override = o]
      BY <2>1 DEF Scr!ResetScreen, Scr!OtaScreen
    <3> QED BY <3>1, <1>2
  <2>2. CASE Scr!SetupScreen(Now)
    <3> DEFINE t == Scr!Slotted(Now)
    <3>1. v5' = [t EXCEPT !.hold = -1, !.override = "Setup"]
      BY <2>2 DEF Scr!SetupScreen
    <3>2. SlotWrap \in Nat \ {0} /\ Now.slot \in Nat
      BY <1>2 DEF Scr!ScreensAssumption, Scr!Scheduler
    <3>3. (Now.slot + 1) % SlotWrap \in Nat
      BY <3>2
    <3>4. \/ t = Now
          \/ t = [Now EXCEPT !.slot = 0, !.slotAge = 0]
          \/ t = [Now EXCEPT !.slot = (Now.slot + 1) % SlotWrap, !.slotAge = 0]
      BY DEF Scr!Slotted
    <3> HIDE DEF t
    <3>5. t \in Scr!Scheduler /\ t.prev = Now.prev /\ t.page = Now.page /\ t.onAlarms = Now.onAlarms
      <4> DEFINE k == (Now.slot + 1) % SlotWrap
      <4>1. k \in Nat
        BY <3>3
      <4>2. \/ t = Now
            \/ t = [Now EXCEPT !.slot = 0, !.slotAge = 0]
            \/ t = [Now EXCEPT !.slot = k, !.slotAge = 0]
        BY <3>4
      <4> HIDE DEF k
      <4>3. CASE t = [Now EXCEPT !.slot = 0, !.slotAge = 0]
        <5>1. t \in Scr!Scheduler
          BY <4>3, <1>2 DEF Scr!Scheduler
        <5> QED BY <5>1, <4>3, <1>2 DEF Scr!Scheduler
      <4>4. CASE t = [Now EXCEPT !.slot = k, !.slotAge = 0]
        <5>1. t \in Scr!Scheduler
          BY <4>1, <4>4, <1>2 DEF Scr!Scheduler
        <5> QED BY <5>1, <4>4, <1>2 DEF Scr!Scheduler
      <4> QED BY <4>2, <4>3, <4>4, <1>2
    <3> QED BY <3>1, <3>5, <1>2
  <2> QED BY <2>1, <2>2
<1>6. /\ v5' \in Scr!Scheduler /\ v5'.prev = v1 /\ v5'.page = v5.page /\ v5'.onAlarms = v5.onAlarms
      /\ v5'.hold = -1 /\ v5'.override # "None"
  <2>1. PICK o \in {"Setup", "Ota", "ResetResult"} : v5' = [t EXCEPT !.hold = -1, !.override = o]
    BY <1>5
  <2>2. -1 \in Int /\ o \in {"None", "Setup", "Ota", "ResetResult"} /\ t \in Scr!Scheduler
    BY <2>1
  <2>3. v5' = [t EXCEPT !.hold = -1, !.override = o]
    BY <2>1
  <2>4. v5' \in Scr!Scheduler
    BY <2>2, <2>3 DEF Scr!Scheduler
  <2> QED BY <2>1, <2>4, <1>5, <1>2 DEF Scr!Scheduler
<1>7. Scr!SchedFits'
  BY <1>1, <1>3, <1>6 DEF Scr!SchedFits, WaitStep
<1>8. Scr!WaitFits' /\ Scr!HoldFits' /\ Scr!AlarmsFit' /\ Scr!PageFits'
  BY <1>4, <1>6 DEF Scr!WaitFits, Scr!HoldFits, Scr!AlarmsFit, Scr!PageFits
<1> QED BY <1>7, <1>8 DEF Scr!ScreensFit

\* The alarms page shows an alarm on its own sub-page.
LEMMA OwnIsShown ==
  ASSUME Scr!ScreensAssumption, v1 \in SUBSET Scr!Alarm, UNCHANGED v1, WaitStep,
         NEW age \in Nat, v6' = Scr!AlarmsAt(age), NEW a \in v1
  PROVE  (age \div SubPage) % Scr!SubPages(v1) = Scr!SubPageOf(v1, a) => v7'[a] = 0
<1>1. Scr!SubPages(v1) \in Nat /\ Scr!SubPages(v1) > 0 /\ Scr!SubPageOf(v1, a) \in Nat
  <2>1. Scr!SubPages(v1) \in Nat /\ Scr!SubPages(v1) > 0
    BY SubPagesFit
  <2>2. Scr!SubPageOf(v1, a) \in 0..(Scr!SubPages(v1) - 1)
    BY SubPagesFit
  <2> QED BY <2>1, <2>2
<1>2. Scr!Longer(Scr!SubPages(v1), 1) = Scr!SubPages(v1)
  BY <1>1 DEF Scr!Longer
<1>3. v6'.alarms = Scr!Shown((age \div SubPage) % Scr!SubPages(v1))
  BY <1>2 DEF Scr!AlarmsAt, Scr!SubPageAt
<1>4. ASSUME (age \div SubPage) % Scr!SubPages(v1) = Scr!SubPageOf(v1, a) PROVE a \in v6'.alarms
  <2>1. a \in Scr!Shown(Scr!SubPageOf(v1, a))
    BY <1>1, ShownOnItsOwn
  <2> QED BY <2>1, <1>3, <1>4
<1> QED BY <1>4 DEF WaitStep

\* On the alarms page: the first step of it, or the one after a step of it.
LEMMA AlarmsGoOn ==
  ASSUME Scr!ScreensAssumption, Scr!ScreensFit, UNCHANGED v1, WaitStep,
         NEW age \in Nat, v6' = Scr!AlarmsAt(age),
         v5'.prev = v1, v1 = v5.prev => age > 0 /\ Scr!OnAlarms(age - 1)
  PROVE  Scr!OnAlarms(age)'
<1>1. v1 \in SUBSET Scr!Alarm /\ v7 \in [Scr!Alarm -> Nat] /\ v7' \in [Scr!Alarm -> Nat]
  BY DEF Scr!ScreensFit, Scr!SchedFits, WaitStep
<1>2. SUFFICES ASSUME NEW a \in v1
               PROVE  Scr!Waited(Scr!SubPageOf(v1, a), Scr!SubPages(v1), age \div SubPage,
                                 age % SubPage, v7'[a])
  BY DEF Scr!OnAlarms
<1>3. Scr!SubPages(v1) \in Nat \ {0}
  BY <1>1, SubPagesFit
<1>4. Scr!SubPageOf(v1, a) \in Nat /\ Scr!SubPageOf(v1, a) < Scr!SubPages(v1)
  <2>1. Scr!SubPageOf(v1, a) \in 0..(Scr!SubPages(v1) - 1)
    BY <1>1, SubPagesFit
  <2> QED BY <2>1, <1>3
<1>5. CASE v1 # v5.prev
  <2>1. v7'[a] = 0
    BY <1>1, <1>5 DEF WaitStep
  <2> QED BY <2>1, <1>3, <1>4, NoWaitFits
<1>6. CASE v1 = v5.prev
  <2> DEFINE was == age - 1
  <2>1. was \in Nat /\ was + 1 = age
    BY <1>6
  <2>2. Scr!Waited(Scr!SubPageOf(v1, a), Scr!SubPages(v1), was \div SubPage, was % SubPage, v7[a])
    BY <1>6 DEF Scr!OnAlarms
  <2> HIDE DEF was
  <2>3. ((was + 1) \div SubPage) % Scr!SubPages(v1) = Scr!SubPageOf(v1, a) => v7'[a] = 0
    BY <1>1, <2>1, OwnIsShown
  <2>4. v7[a] \in Nat /\ v7'[a] \in Nat /\ v7'[a] <= v7[a] + 1
    BY <1>1 DEF WaitStep
  <2>5. Scr!Waited(Scr!SubPageOf(v1, a), Scr!SubPages(v1), (was + 1) \div SubPage,
                   (was + 1) % SubPage, v7'[a])
    BY <1>3, <1>4, <2>1, <2>2, <2>3, <2>4, WaitGoesOn
  <2> QED BY <2>1, <2>5
<1> QED BY <1>5, <1>6

\* After a lap of the alarms page none has waited for longer than a lap.
LEMMA LapIsOver ==
  ASSUME Scr!ScreensAssumption, Scr!ScreensFit, v1 = v5.prev, NEW age \in Nat, Scr!OnAlarms(age),
         age + 1 >= Scr!SubPages(v1) * SubPage, NEW a \in v1
  PROVE  v7[a] <= Scr!Lap
<1>1. v1 \in SUBSET Scr!Alarm /\ v7 \in [Scr!Alarm -> Nat]
  BY DEF Scr!ScreensFit, Scr!SchedFits
<1>2. Scr!SubPages(v1) \in Nat \ {0} /\ Scr!SubPages(v1) <= Scr!SubPages(Scr!Alarm)
  BY <1>1, SubPagesFit
<1>3. Scr!SubPageOf(v1, a) \in Nat /\ Scr!SubPageOf(v1, a) < Scr!SubPages(v1)
  <2>1. Scr!SubPageOf(v1, a) \in 0..(Scr!SubPages(v1) - 1)
    BY <1>1, SubPagesFit
  <2> QED BY <2>1, <1>2
<1>4. Scr!Waited(Scr!SubPageOf(v1, a), Scr!SubPages(v1), age \div SubPage, age % SubPage, v7[a])
  BY DEF Scr!OnAlarms
<1>5. v7[a] \in Nat
  BY <1>1
<1> QED BY <1>2, <1>3, <1>4, <1>5, WaitEnds

\* The scheduler u that update() leaves, and what is then on the screen.
Left(u) ==
  /\ u \in Scr!Scheduler /\ u.prev = v1 /\ u.override = "None"
  /\ u.onAlarms <=> u.page = Pages
  /\ v5' = u

\* The first page, when it begins.
LEMMA FirstPageFits ==
  ASSUME Scr!ScreensAssumption, Scr!ScreensFit, UNCHANGED <<v1, v2, v3, v4>>, WaitStep,
         NEW u, Left(u), u.hold < 0, u.page = 0, ~u.onAlarms, u.pageAge = 0, u.dwell = v4,
         \A a \in v1 : v1 = v5.prev => v7[a] <= Scr!Lap
  PROVE  Scr!ScreensFit'
<1>1. /\ v1 \subseteq Scr!Alarm /\ v2 \in BOOLEAN /\ v3 \in BOOLEAN /\ v4 \in Period
      /\ v7 \in [Scr!Alarm -> Nat] /\ v7' \in [Scr!Alarm -> Nat]
  BY DEF Scr!ScreensFit, Scr!SchedFits, WaitStep
<1>2. Scr!SchedFits'
  BY <1>1 DEF Scr!SchedFits, Left
<1>3. Scr!WaitFits'
  BY DEF Scr!WaitFits, Left, WaitStep
<1>4. Scr!HoldFits' /\ Scr!AlarmsFit'
  <2>1. u.hold \in Int
    BY DEF Left, Scr!Scheduler
  <2> QED BY <2>1 DEF Scr!HoldFits, Scr!AlarmsFit, Left
<1>5. Scr!PageFits'
  <2>1. v4 \in Nat \ {0} /\ Scr!Lap \in Nat /\ Scr!Longest \in Nat
    BY <1>1, LapFits, RoundIsLong DEF Scr!ScreensAssumption
  <2>2. ASSUME NEW a \in v1 PROVE v7'[a] <= Scr!Lap + 0 * Scr!Longest + 0 + 1
    <3>1. v7'[a] <= v7[a] + 1 /\ (v1 # v5.prev => v7'[a] = 0) /\ v7[a] \in Nat /\ v7'[a] \in Nat
      BY <1>1 DEF WaitStep
    <3>2. 0 * Scr!Longest = 0
      BY <2>1
    <3> QED BY <3>1, <3>2, <2>1
  <2> QED BY <2>1, <2>2, <1>1 DEF Scr!PageFits, Left
<1> QED BY <1>2, <1>3, <1>4, <1>5 DEF Scr!ScreensFit

\* Another page.
LEMMA OtherPageFits ==
  ASSUME Scr!ScreensAssumption, Scr!ScreensFit, UNCHANGED <<v1, v2, v3, v4>>, WaitStep,
         NEW u, Left(u), u.hold < 0, ~u.onAlarms, u.dwell \in Period, u.pageAge < u.dwell,
         u.pageAge >= -1,
         \A a \in v1 : v1 = v5.prev => v7[a] <= Scr!Lap + u.page * Scr!Longest + u.pageAge
  PROVE  Scr!ScreensFit'
<1>1. /\ v1 \subseteq Scr!Alarm /\ v2 \in BOOLEAN /\ v3 \in BOOLEAN /\ v4 \in Period
      /\ v7 \in [Scr!Alarm -> Nat] /\ v7' \in [Scr!Alarm -> Nat]
  BY DEF Scr!ScreensFit, Scr!SchedFits, WaitStep
<1>2. Scr!SchedFits'
  BY <1>1 DEF Scr!SchedFits, Left
<1>3. Scr!WaitFits'
  BY DEF Scr!WaitFits, Left, WaitStep
<1>4. u.hold \in Int /\ u.page \in Nat /\ u.pageAge \in Int
  BY DEF Left, Scr!Scheduler, Scr!ScreensAssumption
<1>5. Scr!HoldFits' /\ Scr!AlarmsFit'
  BY <1>4 DEF Scr!HoldFits, Scr!AlarmsFit, Left
<1>6. Scr!PageFits'
  <2>1. Scr!Lap \in Nat /\ Scr!Longest \in Nat
    BY <1>1, LapFits, RoundIsLong
  <2>2. u.page * Scr!Longest \in Nat
    BY <1>4, <2>1
  <2>3. ASSUME NEW a \in v1 PROVE v7'[a] <= Scr!Lap + u.page * Scr!Longest + u.pageAge + 1
    <3>1. v7'[a] <= v7[a] + 1 /\ (v1 # v5.prev => v7'[a] = 0) /\ v7[a] \in Nat /\ v7'[a] \in Nat
      BY <1>1 DEF WaitStep
    <3> QED BY <3>1, <2>1, <2>2, <1>4
  <2> QED BY <2>3, <1>1 DEF Scr!PageFits, Left
<1> QED BY <1>2, <1>3, <1>5, <1>6 DEF Scr!ScreensFit

\* The alarms page among the others.
LEMMA AlarmsPageFits ==
  ASSUME Scr!ScreensAssumption, Scr!ScreensFit, UNCHANGED <<v1, v2, v3, v4>>, WaitStep,
         NEW u, Left(u), u.hold < 0, u.onAlarms, v1 # {}, u.pageAge >= 0, u.pageAge < u.dwell,
         u.dwell >= Scr!SubPages(v1) * SubPage, Scr!OnAlarms(u.pageAge)'
  PROVE  Scr!ScreensFit'
<1>1. /\ v1 \subseteq Scr!Alarm /\ v2 \in BOOLEAN /\ v3 \in BOOLEAN /\ v4 \in Period
      /\ v7' \in [Scr!Alarm -> Nat]
  BY DEF Scr!ScreensFit, Scr!SchedFits, WaitStep
<1>2. Scr!SchedFits'
  BY <1>1 DEF Scr!SchedFits, Left
<1>3. Scr!WaitFits'
  BY DEF Scr!WaitFits, Left, WaitStep
<1>4. u.hold \in Int
  BY DEF Left, Scr!Scheduler
<1>5. Scr!HoldFits' /\ Scr!AlarmsFit' /\ Scr!PageFits'
  BY <1>4 DEF Scr!HoldFits, Scr!AlarmsFit, Scr!PageFits, Left
<1> QED BY <1>2, <1>3, <1>5 DEF Scr!ScreensFit

\* A page goes on, or makes way for the next.
LEMMA TurnKeeps ==
  ASSUME Scr!ScreensAssumption, Scr!ScreensFit, UNCHANGED <<v1, v2, v3, v4>>, WaitStep,
         v5.override = "None", v5.hold < 0, v1 \subseteq v5.prev, ~(v5.onAlarms /\ v1 = {}),
         v5' = Scr!Turned(Now), v5'.onAlarms => v6' = Scr!AlarmsAt(v5'.pageAge)
  PROVE  Scr!ScreensFit'
<1>1. /\ v1 \in SUBSET Scr!Alarm /\ v4 \in Period /\ v4 \in Nat \ {0} /\ v5 \in Scr!Scheduler
      /\ v5.onAlarms <=> v5.page = Pages
      /\ v7 \in [Scr!Alarm -> Nat] /\ v7' \in [Scr!Alarm -> Nat]
  BY DEF Scr!ScreensFit, Scr!SchedFits, WaitStep, Scr!ScreensAssumption
<1>2. /\ Pages \in Nat \ {0} /\ SubPage \in Nat \ {0}
      /\ Scr!Longest \in Nat /\ Scr!Lap \in Nat /\ Scr!Round = Pages * Scr!Longest
      /\ \A p \in Period : p \in Nat /\ p <= Scr!Longest
  BY RoundIsLong, LapFits DEF Scr!ScreensAssumption, Scr!Round
<1>3. /\ v5.onAlarms => /\ v5.prev # {} /\ v5.pageAge >= 0 /\ v5.pageAge < v5.dwell
                        /\ v5.dwell >= Scr!SubPages(v5.prev) * SubPage
                        /\ Scr!OnAlarms(v5.pageAge)
      /\ ~v5.onAlarms => /\ v5.dwell \in Period /\ v5.pageAge < v5.dwell /\ v5.pageAge >= -1
                         /\ \A a \in v5.prev : v7[a] <= Scr!Lap + v5.page * Scr!Longest + v5.pageAge + 1
  BY DEF Scr!ScreensFit, Scr!AlarmsFit, Scr!PageFits
<1>4. /\ Now \in Scr!Scheduler /\ Now.prev = v1 /\ Now.page = v5.page
      /\ Now.onAlarms = v5.onAlarms /\ Now.dwell = v5.dwell /\ Now.override = "None"
      /\ Now.hold = v5.hold /\ Now.pageAge = v5.pageAge + 1
  BY <1>3, NowFits
<1>5. /\ v5.pageAge \in Int /\ v5.dwell \in Nat \ {0} /\ v5.page \in 0..Pages /\ v5.prev \in SUBSET Scr!Alarm
      /\ v5.hold \in Int
  BY <1>1 DEF Scr!Scheduler
<1>6. v1 # {} => Scr!SubPages(v1) \in Nat \ {0}
  BY <1>1, SubPagesFit
<1>7. /\ Scr!SubPages(v1) \in Nat /\ Scr!SubPages(v1) * SubPage \in Nat
      /\ v5.onAlarms => v5.dwell >= Scr!SubPages(v1) * SubPage
  <2>1. Scr!SubPages(v1) \in Nat /\ Scr!SubPages(v5.prev) \in Nat /\ Scr!SubPages(v1) <= Scr!SubPages(v5.prev)
    BY <1>1, <1>5, SubPagesFit, SubPagesGrow
  <2>2. /\ Scr!SubPages(v1) * SubPage \in Nat /\ Scr!SubPages(v5.prev) * SubPage \in Nat
        /\ Scr!SubPages(v1) * SubPage <= Scr!SubPages(v5.prev) * SubPage
    BY <2>1, <1>2
  <2> QED BY <2>1, <2>2, <1>3, <1>5
<1> HIDE DEF Now
<1>8. CASE v5.pageAge + 1 < v5.dwell
  <2>1. Scr!Turned(Now) = Now
    BY <1>4, <1>8 DEF Scr!Turned
  <2>2. PICK u : u = Now
    OBVIOUS
  <2>3. /\ v5' = u /\ Left(u) /\ u.page = v5.page /\ u.onAlarms = v5.onAlarms /\ u.dwell = v5.dwell
        /\ u.hold < 0 /\ u.pageAge = v5.pageAge + 1 /\ u.prev = v1
    BY <2>1, <2>2, <1>1, <1>4 DEF Left
  <2>4. CASE v5.onAlarms
    <3>1. PICK age : age = u.pageAge
      OBVIOUS
    <3>2. age \in Nat /\ age > 0 /\ age - 1 = v5.pageAge
      BY <2>3, <2>4, <3>1, <1>3, <1>5
    <3>3. v6' = Scr!AlarmsAt(age) /\ v5'.prev = v1
      BY <2>3, <2>4, <3>1
    <3>4. Scr!OnAlarms(age - 1)
      BY <3>2, <2>4, <1>3
    <3>5. Scr!OnAlarms(age)'
      BY <3>2, <3>3, <3>4, AlarmsGoOn
    <3>6. Scr!OnAlarms(u.pageAge)'
      BY <3>1, <3>5
    <3>7. /\ v1 # {} /\ u.pageAge >= 0 /\ u.pageAge < u.dwell
          /\ u.dwell >= Scr!SubPages(v1) * SubPage
      BY <2>3, <2>4, <1>3, <1>5, <1>7, <1>8
    <3> QED BY <3>6, <3>7, <2>3, <2>4, AlarmsPageFits
  <2>5. CASE ~v5.onAlarms
    <3>1. \A a \in v1 : v1 = v5.prev => v7[a] <= Scr!Lap + u.page * Scr!Longest + u.pageAge
      <4>1. v5.page * Scr!Longest \in Nat
        BY <1>2, <1>5
      <4>2. \A a \in v1 : v7[a] \in Nat
        BY <1>1
      <4> QED BY <4>1, <4>2, <2>3, <2>5, <1>2, <1>3, <1>5
    <3>2. u.dwell \in Period /\ u.pageAge < u.dwell /\ u.pageAge >= -1
      BY <2>3, <2>5, <1>3, <1>5, <1>8
    <3> QED BY <3>1, <3>2, <2>3, <2>5, OtherPageFits
  <2> QED BY <2>4, <2>5
<1>9. CASE v5.pageAge + 1 = v5.dwell
  <2> DEFINE next == (v5.page + 1) % Scr!InRotation(Now)
             d == IF next = Pages THEN Scr!AlarmsDwell ELSE v4
  <2>1. v5' = [Now EXCEPT !.page = next, !.onAlarms = next = Pages, !.pageAge = 0, !.dwell = d]
    BY <1>4, <1>5, <1>9 DEF Scr!Turned
  <2>2. /\ next \in 0..Pages
        /\ v5.page = Pages => next = 0
        /\ v5.page # Pages => next = v5.page + 1 \/ (next = 0 /\ v1 = {})
        /\ next = Pages => v1 # {} /\ v5.page = Pages - 1
    <3>1. CASE v1 # {}
      <4>1. next = (v5.page + 1) % (Pages + 1)
        BY <3>1 DEF Scr!InRotation
      <4>2. Pages + 1 \in Nat \ {0} /\ v5.page \in Nat /\ v5.page + 1 \in Nat
        BY <1>2, <1>5
      <4>3. v5.page = Pages => v5.page + 1 = (Pages + 1) * 1 + 0 /\ 0 \in 0..(Pages + 1 - 1)
        BY <1>2
      <4>4. v5.page # Pages => v5.page + 1 = (Pages + 1) * 0 + (v5.page + 1)
                               /\ v5.page + 1 \in 0..(Pages + 1 - 1)
        BY <1>2, <1>5
      <4>5. v5.page = Pages => next = 0
        BY <4>1, <4>2, <4>3, DivIs
      <4>6. v5.page # Pages => next = v5.page + 1
        <5> SUFFICES ASSUME v5.page # Pages PROVE next = v5.page + 1
          OBVIOUS
        <5> DEFINE k == v5.page + 1
                   n == Pages + 1
        <5>1. k \in 0..(n - 1) /\ k \in Nat /\ n \in Nat \ {0}
          BY <1>2, <1>5
        <5> HIDE DEF k, n
        <5>3. k = n * 0 + k
          BY <5>1
        <5>2. k % n = k
          BY <5>1, <5>3, DivIs
        <5> QED BY <5>2, <4>1 DEF k, n
      <4> QED BY <4>5, <4>6, <3>1, <1>2, <1>5
    <3>2. CASE v1 = {}
      <4>1. next = (v5.page + 1) % Pages
        BY <3>2 DEF Scr!InRotation
      <4>2. v5.page \in Nat /\ v5.page + 1 \in Nat /\ v5.page < Pages
        BY <1>1, <1>2, <1>5, <3>2
      <4>3. v5.page + 1 = Pages => v5.page + 1 = Pages * 1 + 0 /\ 0 \in 0..(Pages - 1)
        BY <1>2
      <4>4. v5.page + 1 < Pages => v5.page + 1 = Pages * 0 + (v5.page + 1)
                                   /\ v5.page + 1 \in 0..(Pages - 1)
        BY <1>2, <4>2
      <4>5. v5.page + 1 = Pages => next = 0
        BY <4>1, <4>2, <4>3, <1>2, DivIs
      <4>6. v5.page + 1 < Pages => next = v5.page + 1
        BY <4>1, <4>2, <4>4, <1>2, DivIs
      <4> QED BY <4>2, <4>5, <4>6, <3>2, <1>2
    <3> QED BY <3>1, <3>2
  <2>3. d \in Nat \ {0} /\ (next = Pages => d >= Scr!SubPages(v1) * SubPage)
    BY <1>1, <1>7 DEF Scr!AlarmsDwell, Scr!Longer
  <2>4. next # Pages => d = v4
    OBVIOUS
  <2> HIDE DEF next, d
  <2>5. v5' \in Scr!Scheduler
    <3>1. (next = Pages) \in BOOLEAN /\ 0 \in Int
      OBVIOUS
    <3> QED BY <3>1, <2>1, <2>2, <2>3, <1>4 DEF Scr!Scheduler
  <2>6. /\ v5'.prev = v1 /\ v5'.override = "None" /\ v5'.hold = v5.hold
        /\ v5'.page = next /\ (v5'.onAlarms <=> next = Pages) /\ v5'.pageAge = 0 /\ v5'.dwell = d
    BY <2>1, <1>4 DEF Scr!Scheduler
  <2>7. PICK u : u = v5'
    OBVIOUS
  <2>8. /\ Left(u) /\ u.hold < 0 /\ u.page = next /\ (u.onAlarms <=> next = Pages) /\ u.pageAge = 0
        /\ u.dwell = d
    BY <2>5, <2>6, <2>7 DEF Left
  <2>9. CASE v5.onAlarms
    <3>1. next = 0 /\ 0 # Pages
      BY <2>2, <2>9, <1>1, <1>2
    <3>2. \A a \in v1 : v1 = v5.prev => v7[a] <= Scr!Lap
      <4> DEFINE age == v5.pageAge
      <4>1. age \in Nat /\ age + 1 >= Scr!SubPages(v1) * SubPage /\ Scr!OnAlarms(age)
        BY <2>9, <1>3, <1>5, <1>7, <1>9
      <4> HIDE DEF age
      <4> QED BY <4>1, LapIsOver
    <3> QED BY <3>1, <3>2, <2>4, <2>8, FirstPageFits
  <2>10. CASE ~v5.onAlarms
    <3>1. v5.page \in Nat /\ v5.page < Pages /\ v5.dwell <= Scr!Longest
      BY <2>10, <1>1, <1>2, <1>3, <1>5
    <3>2. \A a \in v5.prev : v7[a] <= Scr!Lap + (v5.page + 1) * Scr!Longest
      <4>1. (v5.page + 1) * Scr!Longest = v5.page * Scr!Longest + Scr!Longest
            /\ v5.page * Scr!Longest \in Nat
        BY <3>1, <1>2
      <4>2. \A a \in v5.prev : v7[a] \in Nat
        BY <1>1, <1>5
      <4> QED BY <4>1, <4>2, <3>1, <2>10, <1>2, <1>3, <1>5, <1>9
    <3>3. CASE next = Pages
      <4>1. Scr!OnAlarms(0)'
        <5>1. SUFFICES ASSUME NEW a \in v1
                       PROVE  Scr!Waited(Scr!SubPageOf(v1, a), Scr!SubPages(v1), 0 \div SubPage,
                                         0 % SubPage, v7'[a])
          BY <2>6 DEF Scr!OnAlarms
        <5>2. Scr!SubPages(v1) \in Nat \ {0} /\ Scr!SubPageOf(v1, a) \in Nat
              /\ Scr!SubPageOf(v1, a) < Scr!SubPages(v1)
          <6>1. Scr!SubPageOf(v1, a) \in 0..(Scr!SubPages(v1) - 1)
            BY <1>1, SubPagesFit
          <6> QED BY <6>1, <1>6
        <5>3. v7'[a] \in Nat /\ v7[a] \in Nat /\ v7'[a] <= v7[a] + 1 /\ (v1 # v5.prev => v7'[a] = 0)
          BY <1>1 DEF WaitStep
        <5>4. v7'[a] <= Scr!Lap + Scr!Round + 1
          <6>1. v5.page + 1 = Pages
            BY <2>2, <3>3, <3>1, <1>2
          <6>2. a \in v5.prev /\ Pages * Scr!Longest \in Nat
            BY <1>2
          <6> QED BY <6>1, <6>2, <5>3, <3>2, <1>2
        <5>5. Scr!SubPageOf(v1, a) = 0 => v7'[a] = 0
          <6>1. v6' = Scr!AlarmsAt(0)
            BY <2>6, <3>3
          <6>2. (0 \div SubPage) % Scr!SubPages(v1) = 0
            <7>1. 0 = SubPage * 0 + 0 /\ 0 \in 0..(SubPage - 1)
              BY <1>2
            <7>2. 0 = Scr!SubPages(v1) * 0 + 0 /\ 0 \in 0..(Scr!SubPages(v1) - 1)
              BY <5>2
            <7>3. 0 \div SubPage = 0
              BY <7>1, <1>2, DivIs
            <7> QED BY <7>2, <7>3, <5>2, DivIs
          <6>3. (0 \div SubPage) % Scr!SubPages(v1) = Scr!SubPageOf(v1, a) => v7'[a] = 0
            BY <6>1, <1>1, OwnIsShown
          <6> QED BY <6>2, <6>3
        <5> QED BY <5>2, <5>3, <5>4, <5>5, WaitBegins
      <4>2. v1 # {} /\ u.pageAge >= 0 /\ u.pageAge < u.dwell /\ u.dwell >= Scr!SubPages(v1) * SubPage
        BY <2>2, <2>3, <2>8, <3>3
      <4>3. Scr!OnAlarms(u.pageAge)'
        BY <4>1, <2>8
      <4> QED BY <4>2, <4>3, <2>8, <3>3, AlarmsPageFits
    <3>4. CASE next # Pages
      <4>1. \A a \in v1 : v1 = v5.prev => v7[a] <= Scr!Lap + u.page * Scr!Longest + u.pageAge
        <5>1. v1 # {} => u.page = v5.page + 1
          BY <2>2, <2>8, <3>1
        <5>2. (v5.page + 1) * Scr!Longest \in Nat /\ \A a \in v1 : v7[a] \in Nat
          BY <3>1, <1>1, <1>2
        <5> QED BY <5>1, <5>2, <3>2, <2>8, <1>2
      <4>2. ~u.onAlarms /\ u.dwell \in Period /\ u.pageAge < u.dwell /\ u.pageAge >= -1
        BY <2>4, <2>8, <3>4, <1>1
      <4> QED BY <4>1, <4>2, <2>8, OtherPageFits
    <3> QED BY <3>3, <3>4
  <2> QED BY <2>9, <2>10
<1> QED BY <1>3, <1>5, <1>8, <1>9

\* The pages keep the invariant.
LEMMA PageKeeps ==
  ASSUME Scr!ScreensFit, Scr!ScreensAssumption, Scr!Update, Scr!PageScreen(Now, v1 \ v5.prev)
  PROVE  Scr!ScreensFit'
<1>1. WaitStep /\ UNCHANGED <<v1, v2, v3, v4>>
  BY UpdateWaits DEF Scr!Update
<1>0. PICK t : t = Scr!Released(Scr!Held(Scr!Freed(Now), v1 \ v5.prev))
  OBVIOUS
<1>2. /\ t \in Scr!Scheduler /\ t.prev = v1 /\ t.override = "None"
      /\ t.onAlarms <=> t.page = Pages
      /\ Holding(t) \/ Anew(t) \/ Going(t)
  BY <1>0, ReleasedFits
<1>3. IF t.hold >= 0 THEN v5' = t /\ v6' = Scr!AlarmsAt(t.hold)
      ELSE /\ v5' = Scr!Rotated(t)
           /\ v5'.onAlarms => v6' = Scr!AlarmsAt(v5'.pageAge)
  BY <1>0 DEF Scr!PageScreen
<1>4. /\ v1 \in SUBSET Scr!Alarm /\ v4 \in Period /\ v4 \in Nat \ {0} /\ v5 \in Scr!Scheduler
      /\ v2 \in BOOLEAN /\ v3 \in BOOLEAN
      /\ v7 \in [Scr!Alarm -> Nat] /\ v7' \in [Scr!Alarm -> Nat]
  BY <1>1 DEF Scr!ScreensFit, Scr!SchedFits, WaitStep, Scr!ScreensAssumption
<1>5. t.hold \in Int
  BY <1>2 DEF Scr!Scheduler
<1>6. CASE Holding(t)
  <2>1. v5' = t /\ v6' = Scr!AlarmsAt(t.hold) /\ t.hold \in Nat
    BY <1>3, <1>5, <1>6 DEF Holding
  <2>2. v1 = v5.prev => t.hold > 0 /\ Scr!OnAlarms(t.hold - 1)
    <3>1. ASSUME v1 = v5.prev PROVE v5.hold >= 0 /\ t.hold = v5.hold + 1 /\ v5.hold \in Int
      BY <3>1, <1>4, <1>6 DEF Holding, Scr!Scheduler
    <3>2. ASSUME v1 = v5.prev PROVE t.hold - 1 = v5.hold /\ t.hold > 0
      BY <3>1, <3>2
    <3> QED BY <3>1, <3>2 DEF Scr!ScreensFit, Scr!HoldFits
  <2>3. Scr!OnAlarms(t.hold)'
    <3>1. PICK age : age = t.hold
      OBVIOUS
    <3>2. /\ age \in Nat /\ v6' = Scr!AlarmsAt(age) /\ v5'.prev = v1
          /\ v1 = v5.prev => age > 0 /\ Scr!OnAlarms(age - 1)
      BY <3>1, <2>1, <2>2, <1>2
    <3>3. Scr!OnAlarms(age)'
      BY <3>2, <1>1, AlarmsGoOn
    <3> QED BY <3>1, <3>3
  <2>4. Scr!SchedFits'
    BY <2>1, <1>1, <1>2, <1>4 DEF Scr!SchedFits
  <2>5. Scr!WaitFits'
    BY <2>1, <1>1, <1>2 DEF Scr!WaitFits, WaitStep
  <2>6. Scr!HoldFits' /\ Scr!AlarmsFit' /\ Scr!PageFits'
    BY <2>1, <2>3, <1>2, <1>6 DEF Scr!HoldFits, Scr!AlarmsFit, Scr!PageFits, Holding
  <2> QED BY <2>4, <2>5, <2>6 DEF Scr!ScreensFit
<1>7. CASE Anew(t)
  <2>1. Scr!Rotated(t) = t
    BY <1>4, <1>7 DEF Anew, Scr!Rotated, Scr!Turned
  <2>2. v5' = t /\ Left(t)
    BY <2>1, <1>2, <1>3, <1>5, <1>7 DEF Anew, Left
  <2>3. ASSUME NEW a \in v1, v1 = v5.prev PROVE v7[a] <= Scr!Lap
    <3>1. CASE v5.override # "None"
      BY <3>1, <1>4, LapFits DEF Scr!ScreensFit, Scr!WaitFits
    <3>2. CASE v5.override = "None"
      <4> DEFINE age == v5.hold
      <4>1. age >= 0 /\ age + 1 = Hold /\ Scr!OnAlarms(age)
        BY <2>3, <3>2, <1>7 DEF Anew, Scr!ScreensFit, Scr!HoldFits
      <4>2. age \in Nat
        BY <4>1, <1>4 DEF Scr!Scheduler
      <4>3. Scr!SubPages(v1) * SubPage <= Hold
        <5>1. Scr!SubPages(v1) \in Nat /\ Scr!SubPages(v1) <= Scr!SubPages(Scr!Alarm)
              /\ SubPage \in Nat /\ Scr!SubPages(Scr!Alarm) \in Nat /\ Hold \in Nat
              /\ Scr!SubPages(Scr!Alarm) * SubPage <= Hold
          BY <1>4, SubPagesFit, LapFits DEF Scr!ScreensAssumption
        <5>2. /\ Scr!SubPages(v1) * SubPage <= Scr!SubPages(Scr!Alarm) * SubPage
              /\ Scr!SubPages(v1) * SubPage \in Nat /\ Scr!SubPages(Scr!Alarm) * SubPage \in Nat
          BY <5>1
        <5> QED BY <5>1, <5>2
      <4> HIDE DEF age
      <4> QED BY <4>1, <4>2, <4>3, <2>3, LapIsOver
    <3> QED BY <3>1, <3>2
  <2> QED BY <2>2, <2>3, <1>1, <1>7, FirstPageFits DEF Anew
<1>8. CASE Going(t)
  <2>1. t = Now /\ v5.hold < 0 /\ v5.override = "None" /\ v1 \subseteq v5.prev
    BY <1>8 DEF Going
  <2>2. Now.hold = v5.hold /\ Now.onAlarms = v5.onAlarms
    BY <2>1, NowFits
  <2>3. v5' = Scr!Rotated(Now) /\ (v5'.onAlarms => v6' = Scr!AlarmsAt(v5'.pageAge))
    BY <2>1, <2>2, <1>3, <1>5
  <2>4. CASE v5.onAlarms /\ v1 = {}
    <3> DEFINE u == Scr!Restart(Now)
    <3>1. /\ u \in Scr!Scheduler /\ u.page = 0 /\ u.onAlarms = FALSE /\ u.pageAge = 0 /\ u.dwell = v4
          /\ u.prev = v1 /\ u.override = "None" /\ u.hold = Now.hold
      BY <2>1, <1>2, <1>4, RestartFits
    <3>2. v5' = Scr!Turned(u)
      BY <2>2, <2>3, <2>4 DEF Scr!Rotated
    <3> HIDE DEF u
    <3>3. v5' = u
      BY <3>1, <3>2, <1>4 DEF Scr!Turned
    <3>4. Left(u) /\ u.hold < 0 /\ 0 # Pages
      BY <3>1, <3>3, <2>1, <2>2 DEF Left, Scr!ScreensAssumption
    <3> QED BY <3>1, <3>4, <2>4, <1>1, FirstPageFits
  <2>5. CASE ~(v5.onAlarms /\ v1 = {})
    <3>1. v5' = Scr!Turned(Now)
      BY <2>2, <2>3, <2>5 DEF Scr!Rotated
    <3> QED BY <3>1, <2>1, <2>3, <2>5, <1>1, TurnKeeps
  <2> QED BY <2>4, <2>5
<1> QED BY <1>2, <1>6, <1>7, <1>8

\* Each step of the screens keeps the invariant.
LEMMA ScreensKeep ==
  ASSUME Scr!ScreensFit, [Scr!Next]_vars, Scr!ScreensAssumption
  PROVE  Scr!ScreensFit'
<1>1. CASE Scr!Update
  <2>1. \/ Scr!ResetScreen(Now) \/ Scr!OtaScreen(Now) \/ Scr!SetupScreen(Now)
        \/ Scr!PageScreen(Now, v1 \ v5.prev)
    BY <1>1 DEF Scr!Update, Now
  <2> QED BY <2>1, <1>1, OverriddenFits, PageKeeps
<1>2. CASE Scr!AlarmChange
  <2>1. v1' \subseteq Scr!Alarm /\ UNCHANGED <<v2, v3, v4, v5, v7>>
    BY <1>2 DEF Scr!AlarmChange, Scr!ScreensFit, Scr!SchedFits
  <2> QED BY <2>1 DEF Scr!ScreensFit, Scr!SchedFits, Scr!WaitFits, Scr!HoldFits, Scr!AlarmsFit,
                      Scr!PageFits, Scr!OnAlarms
<1>3. CASE Scr!StateChange
  <2>1. v2' \in BOOLEAN /\ v3' \in BOOLEAN /\ v4' \in Period /\ UNCHANGED <<v1, v5, v7>>
    BY <1>3 DEF Scr!StateChange, Scr!ScreensFit, Scr!SchedFits
  <2> QED BY <2>1 DEF Scr!ScreensFit, Scr!SchedFits, Scr!WaitFits, Scr!HoldFits, Scr!AlarmsFit,
                      Scr!PageFits, Scr!OnAlarms
<1>4. CASE UNCHANGED vars
  BY <1>4 DEF vars, Scr!ScreensFit, Scr!SchedFits, Scr!WaitFits, Scr!HoldFits, Scr!AlarmsFit,
              Scr!PageFits, Scr!OnAlarms
<1> QED BY <1>1, <1>2, <1>3, <1>4 DEF Scr!Next

\* The scheduler begins with its first page.
LEMMA ScreensStart ==
  ASSUME Scr!Init, Scr!ScreensAssumption
  PROVE  Scr!ScreensFit
<1>1. PICK result \in {0, ResetResult + 1} :
        v5 = [page |-> 0, onAlarms |-> FALSE, pageAge |-> -1, dwell |-> v4, hold |-> -1,
              prev |-> {}, resetResult |-> result, slot |-> 0, slotAge |-> 0, override |-> "None"]
  BY DEF Scr!Init
<1>2. /\ v1 \subseteq Scr!Alarm /\ v2 \in BOOLEAN /\ v3 \in BOOLEAN /\ v4 \in Period /\ v4 \in Nat \ {0}
      /\ v7 = [a \in Scr!Alarm |-> 0] /\ result \in Nat /\ Pages \in Nat \ {0}
  <2>1. /\ v1 \subseteq Scr!Alarm /\ v2 \in BOOLEAN /\ v3 \in BOOLEAN /\ v4 \in Period
        /\ v7 = [a \in Scr!Alarm |-> 0]
    BY DEF Scr!Init
  <2>2. v4 \in Nat \ {0} /\ ResetResult \in Nat /\ Pages \in Nat \ {0}
    BY <2>1 DEF Scr!ScreensAssumption
  <2> QED BY <2>1, <2>2, <1>1
<1>3. v5 \in Scr!Scheduler
  BY <1>1, <1>2 DEF Scr!Scheduler
<1>4. Scr!SchedFits
  BY <1>1, <1>2, <1>3 DEF Scr!SchedFits
<1>5. Scr!WaitFits /\ Scr!HoldFits /\ Scr!AlarmsFit /\ Scr!PageFits
  BY <1>1, <1>2 DEF Scr!WaitFits, Scr!HoldFits, Scr!AlarmsFit, Scr!PageFits
<1> QED BY <1>4, <1>5 DEF Scr!ScreensFit

\* What the invariant says of the waiting.
LEMMA ScreensSafe ==
  ASSUME Scr!ScreensFit, Scr!ScreensAssumption
  PROVE  Scr!AlarmsComeRound
<1>1. SUFFICES ASSUME NEW a \in Scr!Alarm PROVE v7[a] <= Scr!Bound
  BY DEF Scr!AlarmsComeRound
<1>2. /\ v5 \in Scr!Scheduler /\ v7[a] \in Nat /\ Pages \in Nat
      /\ v5.onAlarms <=> v5.page = Pages
  BY DEF Scr!ScreensFit, Scr!SchedFits, Scr!ScreensAssumption
<1>3. /\ v5.hold \in Int /\ v5.pageAge \in Int /\ v5.page \in 0..Pages /\ v5.prev \in SUBSET Scr!Alarm
  BY <1>2 DEF Scr!Scheduler
<1>4. /\ Scr!Lap \in Nat /\ Scr!Longest \in Nat /\ Scr!Round \in Nat
      /\ Scr!Bound = Scr!Round + Scr!Lap + Scr!Lap /\ Scr!Round = Pages * Scr!Longest
      /\ \A p \in Period : p \in Nat /\ p <= Scr!Longest
  BY LapFits, RoundIsLong DEF Scr!Bound, Scr!Round, Scr!ScreensAssumption
<1>5. CASE a \notin v5.prev \/ v5.override # "None"
  BY <1>4, <1>5 DEF Scr!ScreensFit, Scr!WaitFits
<1>6. ASSUME NEW age \in Nat, Scr!OnAlarms(age), a \in v5.prev PROVE v7[a] <= Scr!Bound
  <2>1. Scr!SubPages(v5.prev) \in Nat \ {0} /\ Scr!SubPages(v5.prev) <= Scr!SubPages(Scr!Alarm)
    BY <1>3, <1>6, SubPagesFit
  <2>2. Scr!SubPageOf(v5.prev, a) \in 0..(Scr!SubPages(v5.prev) - 1)
    BY <1>3, <1>6, SubPagesFit
  <2>3. Scr!SubPageOf(v5.prev, a) \in Nat /\ Scr!SubPageOf(v5.prev, a) < Scr!SubPages(v5.prev)
    BY <2>1, <2>2
  <2>4. Scr!Waited(Scr!SubPageOf(v5.prev, a), Scr!SubPages(v5.prev), age \div SubPage,
                   age % SubPage, v7[a])
    BY <1>6 DEF Scr!OnAlarms
  <2> QED BY <2>1, <2>3, <2>4, <1>2, WaitIsBound
<1>7. CASE a \in v5.prev /\ v5.override = "None" /\ v5.hold >= 0
  <2>1. v5.hold \in Nat /\ Scr!OnAlarms(v5.hold)
    BY <1>3, <1>7 DEF Scr!ScreensFit, Scr!HoldFits
  <2> QED BY <2>1, <1>6, <1>7
<1>8. CASE a \in v5.prev /\ v5.override = "None" /\ v5.hold < 0 /\ v5.onAlarms
  <2>1. v5.pageAge \in Nat /\ Scr!OnAlarms(v5.pageAge)
    BY <1>3, <1>8 DEF Scr!ScreensFit, Scr!AlarmsFit
  <2> QED BY <2>1, <1>6, <1>8
<1>9. CASE a \in v5.prev /\ v5.override = "None" /\ v5.hold < 0 /\ ~v5.onAlarms
  <2>1. v5.dwell \in Period /\ v5.pageAge < v5.dwell
        /\ v7[a] <= Scr!Lap + v5.page * Scr!Longest + v5.pageAge + 1
    BY <1>9 DEF Scr!ScreensFit, Scr!PageFits
  <2>2. v5.page \in Nat /\ v5.page + 1 <= Pages
    BY <1>2, <1>3, <1>9
  <2>3. /\ (v5.page + 1) * Scr!Longest = v5.page * Scr!Longest + Scr!Longest
        /\ (v5.page + 1) * Scr!Longest <= Pages * Scr!Longest
        /\ v5.page * Scr!Longest \in Nat /\ Pages * Scr!Longest \in Nat
    <3> DEFINE k == v5.page
               longest == Scr!Longest
    <3>1. k \in Nat /\ k + 1 <= Pages /\ Pages \in Nat /\ longest \in Nat
      BY <2>2, <1>2, <1>4
    <3> HIDE DEF k, longest
    <3>2. /\ (k + 1) * longest = k * longest + longest /\ k * longest \in Nat /\ Pages * longest \in Nat
      BY <3>1
    <3>3. (k + 1) * longest <= Pages * longest
      BY <3>1
    <3> QED BY <3>2, <3>3 DEF k, longest
  <2> QED BY <2>1, <2>3, <1>2, <1>3, <1>4
<1> QED BY <1>3, <1>5, <1>7, <1>8, <1>9

-----------------------------------------------------------------------------
(* The parts.                                                              *)

\* A behaviour stays with the part it is about, and its steps are those of the part.
LEMMA PartsKeepApart ==
  ASSUME [Next]_vars
  PROVE  /\ part' = part
         /\ part = "wifi" => [Wifi!Next]_vars
         /\ part = "sensors" => [Sens!Next]_vars
         /\ part = "panel" => [Pan!Next]_vars
         /\ part = "time" => [Time!Next]_vars
         /\ part = "mqtt" => [Mq!Next]_vars
         /\ part = "screens" => [Scr!Next]_vars
<1>1. CASE Next
  BY <1>1 DEF Next, CalendarEnds, vars
<1>2. CASE UNCHANGED vars
  BY <1>2 DEF vars
<1> QED BY <1>1, <1>2

WifiFits == part = "wifi" => Wifi!MailFits /\ Wifi!PursuitFits

\* WifiCredsMailbox, WifiSupervisor: MailFits and PursuitFits are inductive.
LEMMA WifiIsFit == Spec => []WifiFits
<1>1. Init => WifiFits
  BY WifiStarts, ServicesAssumption DEF Init, WifiFits, ServicesAssumption
<1>2. WifiFits /\ [Next]_vars => WifiFits'
  <2> SUFFICES ASSUME WifiFits, [Next]_vars, part' = "wifi" PROVE Wifi!MailFits' /\ Wifi!PursuitFits'
    BY DEF WifiFits
  <2>1. part = "wifi" /\ [Wifi!Next]_vars
    BY PartsKeepApart
  <2> QED BY <2>1, MailKeeps, PursuitKeeps, ServicesAssumption DEF WifiFits, ServicesAssumption
<1> QED BY <1>1, <1>2, PTL DEF Spec

\* WifiCredsMailbox: no network is joined with the password of another, for any networks,
\* pauses and mishaps.
THEOREM PairsAreWhole == Spec => []PairIsWhole
<1>1. WifiFits => PairIsWhole
  BY WifiSafe, ServicesAssumption DEF WifiFits, PairIsWhole, ServicesAssumption
<1> QED BY <1>1, WifiIsFit, PTL

\* WifiSupervisor: a lost network is tried again before long, for any pauses and timeouts.
THEOREM LinksArePursued == Spec => []LinkIsPursued
<1>1. WifiFits => LinkIsPursued
  BY WifiSafe, ServicesAssumption DEF WifiFits, LinkIsPursued, ServicesAssumption
<1> QED BY <1>1, WifiIsFit, PTL

SensFits == part = "sensors" => Sens!SensorsFit

\* SensorService: SensorsFit is inductive.
LEMMA SensorsAreFit == Spec => []SensFits
<1>1. Init => SensFits
  BY SensorsStart, ServicesAssumption DEF Init, SensFits, ServicesAssumption
<1>2. SensFits /\ [Next]_vars => SensFits'
  <2> SUFFICES ASSUME SensFits, [Next]_vars, part' = "sensors" PROVE Sens!SensorsFit'
    BY DEF SensFits
  <2>1. part = "sensors" /\ [Sens!Next]_vars
    BY PartsKeepApart
  <2> QED BY <2>1, SensorsKeep, ServicesAssumption DEF SensFits, ServicesAssumption
<1> QED BY <1>1, <1>2, PTL DEF Spec

\* SensorService: a temperature is that of the sensor's own probe, for any sensors, probes,
\* settings and scans.
THEOREM ProbesAreTheirOwn == Spec => []TemperatureIsOfItsProbe
<1>1. SensFits => TemperatureIsOfItsProbe
  BY SensorsSafe, ServicesAssumption DEF SensFits, TemperatureIsOfItsProbe, ServicesAssumption
<1> QED BY <1>1, SensorsAreFit, PTL

\* SensorService: the missing-sensor alarm tells the truth, for any two thresholds.
THEOREM MissingIsKnown == Spec => []MissingIsTold
<1>1. SensFits => MissingIsTold
  BY SensorsSafe, ServicesAssumption DEF SensFits, MissingIsTold, ServicesAssumption
<1> QED BY <1>1, SensorsAreFit, PTL

PanFits == part = "panel" => Pan!PanelFits

\* DisplayServices: PanelFits is inductive.
LEMMA PanelIsFit == Spec => []PanFits
<1>1. Init => PanFits
  BY PanelStarts, ServicesAssumption DEF Init, PanFits, ServicesAssumption
<1>2. PanFits /\ [Next]_vars => PanFits'
  <2> SUFFICES ASSUME PanFits, [Next]_vars, part' = "panel" PROVE Pan!PanelFits'
    BY DEF PanFits
  <2>1. part = "panel" /\ [Pan!Next]_vars
    BY PartsKeepApart
  <2> QED BY <2>1, PanelKeeps, ServicesAssumption DEF PanFits, ServicesAssumption
<1> QED BY <1>1, <1>2, PTL DEF Spec

\* DisplayServices: the panel shows the frame but for the rows still to be sent, for any
\* rows, images and failing transfers.
THEOREM PanelIsTrue == Spec => []PanelShowsTheFrame
<1>1. PanFits => PanelShowsTheFrame
  BY PanelSafe DEF PanFits, PanelShowsTheFrame
<1> QED BY <1>1, PanelIsFit, PTL

ScrFits == part = "screens" => Scr!ScreensFit

\* DisplayScheduler: ScreensFit is inductive.
LEMMA ScreensAreFit == Spec => []ScrFits
<1>1. Init => ScrFits
  BY ScreensStart, ServicesAssumption DEF Init, ScrFits, ServicesAssumption
<1>2. ScrFits /\ [Next]_vars => ScrFits'
  <2> SUFFICES ASSUME ScrFits, [Next]_vars, part' = "screens" PROVE Scr!ScreensFit'
    BY DEF ScrFits
  <2>1. part = "screens" /\ [Scr!Next]_vars
    BY PartsKeepApart
  <2> QED BY <2>1, ScreensKeep, ServicesAssumption DEF ScrFits, ServicesAssumption
<1> QED BY <1>1, <1>2, PTL DEF Spec

\* DisplayScheduler: every alarm comes round, for any number of alarms, sub-pages and pages,
\* any periods of the rotation and any hold that lasts for a lap of the sub-pages.
THEOREM AlarmsDoComeRound == Spec => []AlarmsComeRound
<1>1. ScrFits => AlarmsComeRound
  BY ScreensSafe, ServicesAssumption DEF ScrFits, AlarmsComeRound, ServicesAssumption
<1> QED BY <1>1, ScreensAreFit, PTL

ClocksFit == part = "time" => Time!TimeFits

\* TimeService: TimeFits is inductive.
LEMMA ClocksAreFit == Spec => []ClocksFit
<1>1. Init => ClocksFit
  BY TimeStarts, ServicesAssumption DEF Init, ClocksFit, ServicesAssumption
<1>2. ClocksFit /\ [Next]_vars => ClocksFit'
  <2> SUFFICES ASSUME ClocksFit, [Next]_vars, part' = "time" PROVE Time!TimeFits'
    BY DEF ClocksFit
  <2>1. part = "time" /\ [Time!Next]_vars
    BY PartsKeepApart
  <2> QED BY <2>1, TimeKeeps, ServicesAssumption DEF ClocksFit, ServicesAssumption
<1> QED BY <1>1, <1>2, PTL DEF Spec

\* TimeService: the two clocks agree and the clock is tended, for any resync and retry times,
\* any drift and any length of a pass.
THEOREM ClocksAreKept == Spec => []TimeIsKept
<1>1. ClocksFit => TimeIsKept
  BY TimeSafe, ServicesAssumption DEF ClocksFit, TimeIsKept, ServicesAssumption
<1> QED BY <1>1, ClocksAreFit, PTL

MqttFits == part = "mqtt" => Mq!PublisherFits /\ Mq!SessionFits

\* MqttSession, MqttPublisher: PublisherFits and SessionFits are inductive.
LEMMA MqttIsFit == Spec => []MqttFits
<1>1. Init => MqttFits
  BY MqttStarts, ServicesAssumption DEF Init, MqttFits, ServicesAssumption
<1>2. MqttFits /\ [Next]_vars => MqttFits'
  <2> SUFFICES ASSUME MqttFits, [Next]_vars, part' = "mqtt"
               PROVE  Mq!PublisherFits' /\ Mq!SessionFits'
    BY DEF MqttFits
  <2>1. part = "mqtt" /\ [Mq!Next]_vars
    BY PartsKeepApart
  <2> QED BY <2>1, PublisherKeeps, SessionIsInTime, ServicesAssumption DEF MqttFits,
      ServicesAssumption
<1> QED BY <1>1, <1>2, PTL DEF Spec

\* MqttPublisher, MqttInbound: the broker was told what the publisher holds of every entity that
\* is not in line, for any entities, values, commands and failing publishes.
THEOREM BrokersAreTold == Spec => []BrokerIsTold
<1>1. MqttFits => BrokerIsTold
  BY MqttSafe, ServicesAssumption DEF MqttFits, BrokerIsTold, ServicesAssumption
<1> QED BY <1>1, MqttIsFit, PTL

\* MqttSession: an attempt without an answer is torn down in time, for any first pause whose
\* fourfold is longer than the timeout and no longer than the longest pause.
THEOREM NoAttemptHoldsOn == Spec => []NoAttemptHangs
<1>1. MqttFits => NoAttemptHangs
  BY MqttSafe, ServicesAssumption DEF MqttFits, NoAttemptHangs, ServicesAssumption
<1> QED BY <1>1, MqttIsFit, PTL
==============================================================================
