-------------------------- MODULE RelayBankProofs --------------------------
(***************************************************************************)
(* Theorems of RelayBank for every set of channels, every choice of        *)
(* lockable, logged and exercised ones, every lock and every age cap.      *)
(***************************************************************************)
EXTENDS RelayBank, TLAPS

-----------------------------------------------------------------------------
(* What the operations return. *)

\* An age one unit later is still an age.
LEMMA OlderInRange ==
  ASSUME NEW cap \in Nat, NEW age \in 0..cap, NEW d \in Nat
  PROVE  Older(age, d, cap) \in 0..cap
BY DEF Older

\* A bank just configured has its types.
LEMMA ConfiguredType ==
  ASSUME NEW lockMs \in LockValues
  PROVE  Configured(lockMs) \in Bank
BY RelayBankAssumption DEF Configured, Bank, Request, Reason

\* The channels an update switches are the ones whose output it changes, and
\* no held channel is among them.
LEMMA SwitchingAndHeld ==
  ASSUME NEW b
  PROVE  /\ Switching(b) \subseteq Channel
         /\ Held(b) \subseteq Channel
         /\ Held(b) \cap Switching(b) = {}
         /\ b.inhibited => Switching(b) = {} /\ Held(b) = {}
BY DEF Switching, Held, Mismatched

\* update() keeps the bank's types.
LEMMA UpdateType ==
  ASSUME NEW b \in Bank
  PROVE  Update(b) \in Bank
<1> DEFINE switching == Switching(b)
           on == (b.actual \ switching) \cup (switching \ b.actual)
           since == [c \in Channel |-> IF c \in switching THEN 0 ELSE b.since[c]]
           sinceOn == [c \in Channel |-> IF ~b.inhibited /\ c \in b.actual \cup on
                                            THEN 0 ELSE b.sinceOn[c]]
           hasBeenOn == b.hasBeenOn \cup (switching \cap on)
           reason == [c \in Channel |-> IF c \in switching THEN Source(b, c)
                                                           ELSE b.reason[c]]
           delayLogged == IF b.inhibited THEN {}
                          ELSE (b.delayLogged \ switching) \cup Held(b)
<1>1. switching \subseteq Channel /\ Held(b) \subseteq Channel
  BY SwitchingAndHeld
<1>2. on \in SUBSET Channel /\ hasBeenOn \in SUBSET Channel
  BY <1>1 DEF Bank
<1>3. delayLogged \in SUBSET Channel
  BY <1>1 DEF Bank
<1>4. since \in [Channel -> 0..AgeCap] /\ sinceOn \in [Channel -> 0..AgeCap]
  BY RelayBankAssumption DEF Bank
<1>5. reason \in [Channel -> Reason]
  BY DEF Source, Reason, Bank
<1>6. Update(b) = [b EXCEPT !.actual = on, !.since = since, !.sinceOn = sinceOn,
                            !.hasBeenOn = hasBeenOn, !.reason = reason,
                            !.delayed = Held(b), !.delayLogged = delayLogged]
  BY Zenon DEF Update
<1>7. Held(b) \in SUBSET Channel
  BY <1>1
<1> HIDE DEF switching, on, since, sinceOn, hasBeenOn, reason, delayLogged
<1> QED
  BY <1>2, <1>3, <1>4, <1>5, <1>6, <1>7 DEF Bank

\* setOutputsInhibited() keeps the bank's types.
LEMMA SetInhibitedType ==
  ASSUME NEW b \in Bank, NEW on \in BOOLEAN
  PROVE  SetInhibited(b, on) \in Bank
<1>1. CASE b.inhibited = on
  BY <1>1 DEF SetInhibited
<1>2. CASE b.inhibited # on /\ ~on
  BY <1>2 DEF SetInhibited, Bank
<1>3. CASE b.inhibited # on /\ on
  <2> DEFINE since == [c \in Channel |-> IF c \in b.actual THEN 0 ELSE b.since[c]]
             sinceOn == [c \in Channel |-> IF c \in b.actual THEN 0 ELSE b.sinceOn[c]]
             reason == [c \in Channel |-> IF c \in b.actual THEN "Inhibit"
                                                             ELSE b.reason[c]]
             delayed == b.delayed \ b.actual
             delayLogged == b.delayLogged \ b.actual
  <2>1. since \in [Channel -> 0..AgeCap] /\ sinceOn \in [Channel -> 0..AgeCap]
    BY RelayBankAssumption DEF Bank
  <2>2. reason \in [Channel -> Reason]
    BY DEF Reason, Bank
  <2>3. SetInhibited(b, on) =
          [b EXCEPT !.inhibited = TRUE, !.actual = {}, !.since = since,
                    !.sinceOn = sinceOn, !.reason = reason,
                    !.delayed = delayed, !.delayLogged = delayLogged]
    BY <1>3, Zenon DEF SetInhibited
  <2>4. delayed \in SUBSET Channel /\ delayLogged \in SUBSET Channel
    BY DEF Bank
  <2> HIDE DEF since, sinceOn, reason, delayed, delayLogged
  <2> QED
    BY <2>1, <2>2, <2>3, <2>4 DEF Bank
<1> QED
  BY <1>1, <1>2, <1>3

\* The passage of time keeps the bank's types.
LEMMA AgedType ==
  ASSUME NEW b \in Bank, NEW d \in Nat
  PROVE  Aged(b, d) \in Bank
BY RelayBankAssumption, OlderInRange DEF Aged, Bank

\* What update() and setOutputsInhibited() log are records of the event log.
LEMMA LogType ==
  ASSUME NEW b \in Bank, NEW on \in BOOLEAN
  PROVE  UpdateLog(b) \subseteq Event /\ InhibitLog(b, on) \subseteq Event
BY RelayBankAssumption
   DEF UpdateLog, InhibitLog, Switching, Held, Mismatched, Event, Bank
-----------------------------------------------------------------------------
(* The inductive invariant.  The mark the bank keeps of a delay episode,   *)
(* delayLogged, is exactly what the log shows of it: HeldIsNoticed and     *)
(* NoticeOnce both rest on that, and neither is inductive without it.      *)

MarksAreNotices == bank.delayLogged = noticed

IInv == TypeOK /\ InhibitedAllOff /\ HeldIsNoticed /\ MarksAreNotices

\* The bank as it boots satisfies the inductive invariant.
LEMMA InitIInv == Init => IInv
<1> SUFFICES ASSUME Init PROVE IInv
  OBVIOUS
<1>1. PICK lockMs \in LockValues : bank = Configured(lockMs)
  BY DEF Init
<1>2. TypeOK
  BY <1>1, ConfiguredType DEF Init, TypeOK
<1> QED
  BY <1>1, <1>2 DEF Init, IInv, InhibitedAllOff, HeldIsNoticed, MarksAreNotices,
                    Configured

\* The steps of a caller and of time touch no output and no mark of a delay.
LEMMA QuietStep ==
  ASSUME IInv, Quiet, bank' \in Bank,
         bank'.actual = bank.actual, bank'.inhibited = bank.inhibited,
         bank'.delayed = bank.delayed, bank'.delayLogged = bank.delayLogged
  PROVE  IInv'
BY DEF IInv, TypeOK, Quiet, InhibitedAllOff, HeldIsNoticed, MarksAreNotices

\* update() preserves the inductive invariant.
LEMMA UpdateStep ==
  ASSUME IInv, DoUpdate
  PROVE  IInv'
<1>1. bank \in Bank /\ bank' = Update(bank)
  BY DEF IInv, TypeOK, DoUpdate
<1>2. bank' \in Bank /\ log' \subseteq Event
  BY <1>1, UpdateType, LogType DEF DoUpdate
<1> DEFINE switching == Switching(bank)
           held == Held(bank)
<1>3. /\ bank'.actual = (bank.actual \ switching) \cup (switching \ bank.actual)
      /\ bank'.inhibited = bank.inhibited
      /\ bank'.delayed = held
      /\ bank'.delayLogged = IF bank.inhibited THEN {}
                             ELSE (bank.delayLogged \ switching) \cup held
  BY <1>1 DEF Update, Bank
<1>4. /\ switching \subseteq Channel /\ held \subseteq Channel
      /\ held \cap switching = {}
      /\ bank.inhibited => switching = {} /\ held = {}
  BY SwitchingAndHeld
<1>5. \A c \in Channel :
        /\ <<"RelayLockDelay", c>> \in log' <=> c \in held \ bank.delayLogged
        /\ (c \in bank.actual) # (c \in bank'.actual) <=> c \in switching
  <2>1. log' = UpdateLog(bank)
    BY DEF DoUpdate
  <2> QED
    BY <1>3, <2>1 DEF UpdateLog
<1> HIDE DEF switching, held
<1>6. noticed' \subseteq Channel /\ noticed' = bank'.delayLogged
  <2>1. noticed \subseteq Channel /\ noticed = bank.delayLogged
    BY DEF IInv, TypeOK, MarksAreNotices
  <2>2. CASE bank.inhibited
    BY <1>3, <2>2 DEF DoUpdate
  <2>3. CASE ~bank.inhibited
    <3>1. noticed' = (noticed \cup {c \in Channel : <<"RelayLockDelay", c>> \in log'})
                       \ {c \in Channel : (c \in bank.actual) # (c \in bank'.actual)}
      BY <2>3 DEF DoUpdate, Notice, Switched
    <3>2. bank'.delayLogged = (bank.delayLogged \ switching) \cup held
      BY <1>3, <2>3
    <3> QED
      BY <1>4, <1>5, <2>1, <3>1, <3>2
  <2> QED
    BY <2>2, <2>3
<1>7. bank'.inhibited => bank'.actual = {}
  BY <1>3, <1>4 DEF IInv, InhibitedAllOff
<1>8. bank'.delayed \subseteq bank'.delayLogged
  BY <1>3, <1>4
<1> QED
  BY <1>2, <1>6, <1>7, <1>8
     DEF IInv, TypeOK, InhibitedAllOff, HeldIsNoticed, MarksAreNotices

\* Entering and leaving the inhibit preserves the inductive invariant.
LEMMA InhibitStep ==
  ASSUME IInv, Inhibit
  PROVE  IInv'
<1>1. PICK on \in BOOLEAN : /\ bank' = SetInhibited(bank, on)
                            /\ log' = InhibitLog(bank, on)
                            /\ Notice
  BY DEF Inhibit
<1>2. bank \in Bank /\ noticed \subseteq Channel
  BY DEF IInv, TypeOK
<1>3. bank' \in Bank /\ log' \subseteq Event
  BY <1>1, <1>2, SetInhibitedType, LogType
<1>4. \A c \in Channel : <<"RelayLockDelay", c>> \notin log'
  BY <1>1 DEF InhibitLog
<1>5. noticed' = noticed \ {c \in Channel : (c \in bank.actual) # (c \in bank'.actual)}
  BY <1>1, <1>2, <1>4 DEF Notice, Switched
<1>6. CASE bank.inhibited = on
  <2>1. bank' = bank
    BY <1>1, <1>6 DEF SetInhibited
  <2> QED
    BY <1>2, <1>3, <1>5, <2>1
       DEF IInv, TypeOK, InhibitedAllOff, HeldIsNoticed, MarksAreNotices
<1>7. CASE bank.inhibited # on /\ ~on
  <2>1. bank' = [bank EXCEPT !.inhibited = FALSE]
    BY <1>1, <1>7 DEF SetInhibited
  <2>2. /\ bank'.inhibited = FALSE /\ bank'.actual = bank.actual
        /\ bank'.delayed = bank.delayed /\ bank'.delayLogged = bank.delayLogged
    BY <1>2, <2>1 DEF Bank
  <2>3. noticed' = noticed
    BY <1>5, <2>2
  <2> QED
    BY <1>2, <1>3, <2>2, <2>3
       DEF IInv, TypeOK, InhibitedAllOff, HeldIsNoticed, MarksAreNotices
<1>8. CASE bank.inhibited # on /\ on
  <2>1. /\ bank'.inhibited = TRUE /\ bank'.actual = {}
        /\ bank'.delayed = bank.delayed \ bank.actual
        /\ bank'.delayLogged = bank.delayLogged \ bank.actual
    BY <1>1, <1>2, <1>8 DEF SetInhibited, Bank
  <2> QED
    BY <1>2, <1>3, <1>5, <2>1
       DEF IInv, TypeOK, InhibitedAllOff, HeldIsNoticed, MarksAreNotices
<1> QED
  BY <1>6, <1>7, <1>8

\* Every step of the bank preserves the inductive invariant.
LEMMA NextIInv == IInv /\ [Next]_vars => IInv'
<1> SUFFICES ASSUME IInv, [Next]_vars PROVE IInv'
  OBVIOUS
<1>0. bank \in Bank
  BY DEF IInv, TypeOK
<1>1. CASE AskControl
  <2>1. PICK c \in Channel, on \in BOOLEAN : bank' = RequestControl(bank, c, on) /\ Quiet
    BY <1>1 DEF AskControl
  <2> QED
    BY <1>0, <2>1, QuietStep DEF RequestControl, Bank
<1>2. CASE AskSafety
  <2>1. PICK c \in Emergency, on \in {"off", "on"} :
           bank' = RequestSafety(bank, c, on) /\ Quiet
    BY <1>2 DEF AskSafety
  <2> QED
    BY <1>0, <2>1, QuietStep, RelayBankAssumption DEF RequestSafety, Bank, Request
<1>3. CASE ClearSafety
  <2>1. PICK c \in Emergency : bank' = RequestSafety(bank, c, "unset") /\ Quiet
    BY <1>3 DEF ClearSafety
  <2> QED
    BY <1>0, <2>1, QuietStep, RelayBankAssumption DEF RequestSafety, Bank, Request
<1>4. CASE AskExercise
  <2>1. PICK c \in Exercised, request \in Request :
           bank' = SetExercise(bank, c, request) /\ Quiet
    BY <1>4 DEF AskExercise
  <2> QED
    BY <1>0, <2>1, QuietStep, RelayBankAssumption DEF SetExercise, Bank
<1>5. CASE ChangeLock
  <2>1. PICK lockMs \in LockValues : bank' = SetLockMs(bank, lockMs) /\ Quiet
    BY <1>5 DEF ChangeLock
  <2> QED
    BY <1>0, <2>1, QuietStep DEF SetLockMs, Bank
<1>6. CASE Inhibit
  BY <1>6, InhibitStep
<1>7. CASE DoUpdate
  BY <1>7, UpdateStep
<1>8. CASE Elapse
  <2>1. PICK d \in 1..AgeCap : bank' = Aged(bank, d) /\ Quiet
    BY <1>8 DEF Elapse
  <2>2. bank' \in Bank
    BY <1>0, <2>1, AgedType, RelayBankAssumption
  <2> QED
    BY <1>0, <2>1, <2>2, QuietStep DEF Aged, Bank
<1>9. CASE Reboot
  <2>1. PICK lockMs \in LockValues : bank' = Configured(lockMs)
    BY <1>9 DEF Reboot
  <2>2. bank' \in Bank
    BY <2>1, ConfiguredType
  <2> QED
    BY <1>9, <2>1, <2>2 DEF Reboot, IInv, TypeOK, InhibitedAllOff, HeldIsNoticed,
                            MarksAreNotices, Configured
<1>10. CASE UNCHANGED vars
  BY <1>10 DEF vars, IInv, TypeOK, InhibitedAllOff, HeldIsNoticed, MarksAreNotices
<1> QED
  BY <1>1, <1>2, <1>3, <1>4, <1>5, <1>6, <1>7, <1>8, <1>9, <1>10 DEF Next

\* The inductive invariant of the bank.
THEOREM Invariance == Spec => []IInv
<1> QED
  BY InitIInv, NextIInv, PTL DEF Spec

\* RelayBank keeps its types, whatever is asked of it.
THEOREM TypeCorrect == Spec => []TypeOK
<1>1. IInv => TypeOK
  BY DEF IInv
<1> QED
  BY <1>1, Invariance, PTL

\* RelayBank.h, "OTA output inhibit": nothing is ON while the bank is inhibited.
THEOREM InhibitIsAbsolute == Spec => []InhibitedAllOff
<1>1. IInv => InhibitedAllOff
  BY DEF IInv
<1> QED
  BY <1>1, Invariance, PTL

\* A channel whose switching is delayed has its record in the event log.
THEOREM DelaysAreRecorded == Spec => []HeldIsNoticed
<1>1. IInv => HeldIsNoticed
  BY DEF IInv
<1> QED
  BY <1>1, Invariance, PTL

-----------------------------------------------------------------------------
(* What a step may never do. *)

\* README, "Relays: slots, lock and bypass": RelayLockDelay is recorded once per
\* delay episode, however the request is withdrawn and repeated in it.
THEOREM DelaysAreRecordedOnce == Spec => NoticeOnce
<1>1. ASSUME IInv, Next
      PROVE  \A c \in Channel : <<"RelayLockDelay", c>> \in log' => c \notin noticed
  <2> SUFFICES ASSUME NEW c \in Channel, <<"RelayLockDelay", c>> \in log'
               PROVE  c \notin noticed
    OBVIOUS
  <2>1. CASE DoUpdate
    <3>1. c \notin bank.delayLogged
      BY <2>1 DEF DoUpdate, UpdateLog
    <3> QED
      BY <1>1, <3>1 DEF IInv, MarksAreNotices
  <2>2. CASE Inhibit
    BY <2>2 DEF Inhibit, InhibitLog
  <2> QED
    BY <1>1, <2>1, <2>2 DEF Next, AskControl, AskSafety, ClearSafety, AskExercise,
                            ChangeLock, Elapse, Reboot, Quiet
<1> QED
  BY <1>1, Invariance, PTL DEF Spec, NoticeOnce

\* The requests, the settings and time leave every output where it is.
Still == bank'.actual = bank.actual

\* The steps of a caller and of time are not updates: they leave the outputs alone.
LEMMA StillSteps ==
  ASSUME bank \in Bank,
         AskControl \/ AskSafety \/ ClearSafety \/ AskExercise \/ ChangeLock \/ Elapse
  PROVE  Still /\ log' = {}
BY DEF Still, AskControl, AskSafety, ClearSafety, AskExercise, ChangeLock, Elapse,
       Quiet, RequestControl, RequestSafety, SetExercise, SetLockMs, Aged, Bank

\* An update changes exactly the outputs in Switching.
LEMMA UpdateSwitches ==
  ASSUME bank \in Bank, DoUpdate
  PROVE  /\ bank'.actual = (bank.actual \ Switching(bank))
                              \cup (Switching(bank) \ bank.actual)
         /\ \A c \in Channel :
              (c \in bank.actual) # (c \in bank'.actual) <=> c \in Switching(bank)
<1>1. bank'.actual = (bank.actual \ Switching(bank)) \cup (Switching(bank) \ bank.actual)
  BY DEF DoUpdate, Update, Bank
<1> QED
  BY <1>1

\* A switch-off opens every closed output and moves no other.
LEMMA InhibitSwitches ==
  ASSUME IInv, NEW on \in BOOLEAN, bank' = SetInhibited(bank, on)
  PROVE  \A c \in Channel :
            (c \in bank.actual) # (c \in bank'.actual)
               <=> on /\ ~bank.inhibited /\ c \in bank.actual
<1>1. bank \in Bank
  BY DEF IInv, TypeOK
<1>2. CASE bank.inhibited = on
  BY <1>1, <1>2 DEF SetInhibited
<1>3. CASE bank.inhibited # on /\ ~on
  BY <1>1, <1>3 DEF SetInhibited, Bank
<1>4. CASE bank.inhibited # on /\ on
  <2>1. bank'.actual = {} /\ ~bank.inhibited
    BY <1>1, <1>4 DEF SetInhibited, Bank
  <2>2. \A c \in Channel : (c \in bank.actual) # (c \in bank'.actual) <=> c \in bank.actual
    BY <2>1
  <2> QED
    BY <1>4, <2>1, <2>2, Zenon
<1> QED
  BY <1>2, <1>3, <1>4

\* Every switching of a logged channel is in the event log, by whichever way it
\* came about, and nothing else is.
THEOREM SwitchingsAreRecorded == Spec => SwitchingIsRecorded
<1>1. ASSUME IInv, Next, ~Reboot, NEW c \in Channel
      PROVE  (<<"RelayChanged", c>> \in log')
                <=> (c \in Logged /\ (c \in bank.actual) # (c \in bank'.actual))
  <2>0. bank \in Bank
    BY <1>1 DEF IInv, TypeOK
  <2>1. CASE DoUpdate
    <3>1. <<"RelayChanged", c>> \in log' <=> c \in Switching(bank) \cap Logged
      BY <2>1 DEF DoUpdate, UpdateLog
    <3> QED
      BY <2>0, <2>1, <3>1, UpdateSwitches
  <2>2. CASE Inhibit
    <3>1. PICK on \in BOOLEAN : bank' = SetInhibited(bank, on) /\ log' = InhibitLog(bank, on)
      BY <2>2 DEF Inhibit
    <3>2. <<"RelayChanged", c>> \in log'
             <=> on /\ ~bank.inhibited /\ c \in bank.actual /\ c \in Logged
      BY <3>1 DEF InhibitLog
    <3> QED
      BY <1>1, <3>1, <3>2, InhibitSwitches
  <2>3. CASE AskControl \/ AskSafety \/ ClearSafety \/ AskExercise \/ ChangeLock \/ Elapse
    BY <2>0, <2>3, StillSteps DEF Still
  <2> QED
    BY <1>1, <2>1, <2>2, <2>3 DEF Next
<1>2. IInv /\ Next =>
        (~Reboot => \A c \in Channel :
           (<<"RelayChanged", c>> \in log')
              <=> (c \in Logged /\ (c \in bank.actual) # (c \in bank'.actual)))
  BY <1>1
<1> QED
  BY <1>2, Invariance, PTL DEF Spec, SwitchingIsRecorded

\* A lockable channel that switches inside its lock names the cause.
THEOREM ShortDwellsAreExplained == Spec => ShortDwellIsExplained
<1>1. ASSUME IInv, Next, ~Reboot, NEW c \in Lockable,
             (c \in bank.actual) # (c \in bank'.actual), bank.since[c] < bank.lock
      PROVE  bank'.reason[c] \in {"Safety", "Inhibit"}
  <2>0. bank \in Bank /\ c \in Channel
    BY <1>1, RelayBankAssumption DEF IInv, TypeOK
  <2>1. CASE DoUpdate
    <3>1. c \in Switching(bank)
      BY <1>1, <2>0, <2>1, UpdateSwitches
    <3>2. Source(bank, c) = "Safety"
      <4>1. Bypass(bank, c)
        BY <3>1 DEF Switching
      <4>2. bank.since[c] \in 0..AgeCap /\ bank.lock \in 0..AgeCap
        BY <2>0, RelayBankAssumption DEF Bank
      <4> QED
        BY <1>1, <4>1, <4>2, RelayBankAssumption DEF Bypass
    <3>3. bank'.reason[c] = Source(bank, c)
      BY <2>0, <2>1, <3>1 DEF DoUpdate, Update, Bank
    <3> QED
      BY <3>2, <3>3
  <2>2. CASE Inhibit
    <3>1. PICK on \in BOOLEAN : bank' = SetInhibited(bank, on)
      BY <2>2 DEF Inhibit
    <3>2. on /\ ~bank.inhibited /\ c \in bank.actual
      BY <1>1, <2>0, <3>1, InhibitSwitches
    <3>3. bank'.reason = [x \in Channel |-> IF x \in bank.actual THEN "Inhibit"
                                                               ELSE bank.reason[x]]
      BY <2>0, <3>1, <3>2 DEF SetInhibited, Bank
    <3> QED
      BY <2>0, <3>2, <3>3
  <2>3. CASE AskControl \/ AskSafety \/ ClearSafety \/ AskExercise \/ ChangeLock \/ Elapse
    BY <1>1, <2>0, <2>3, StillSteps DEF Still
  <2> QED
    BY <1>1, <2>1, <2>2, <2>3 DEF Next
<1>2. IInv /\ Next =>
        (~Reboot => \A c \in Lockable :
           (c \in bank.actual) # (c \in bank'.actual) /\ bank.since[c] < bank.lock
             => bank'.reason[c] \in {"Safety", "Inhibit"})
  BY <1>1
<1> QED
  BY <1>2, Invariance, PTL DEF Spec, ShortDwellIsExplained

-----------------------------------------------------------------------------
(* The bank implements the dwell contract.                                 *)

\* The bank as it boots is an initial state of the abstract contacts.
LEMMA InitContract == Init => Contract!Init
<1> SUFFICES ASSUME Init PROVE Contract!Init
  OBVIOUS
<1>1. PICK lockMs \in LockValues : bank = Configured(lockMs)
  BY DEF Init
<1> QED
  BY <1>1 DEF Contract!Init, Configured

\* An update that is not inhibited moves the channels it switches, each of
\* them free to; an inhibited one is a stutter.
LEMMA UpdateMoves ==
  ASSUME bank \in Bank, DoUpdate
  PROVE  Contract!Move \/ UNCHANGED Contract!vars
<1> DEFINE switching == Switching(bank)
<1>1. bank' = Update(bank)
  BY DEF DoUpdate
<1>2. /\ bank'.actual = (bank.actual \ switching) \cup (switching \ bank.actual)
      /\ bank'.since = [c \in Channel |-> IF c \in switching THEN 0 ELSE bank.since[c]]
      /\ bank'.lock = bank.lock /\ bank'.safety = bank.safety
      /\ bank'.inhibited = bank.inhibited
  BY <1>1 DEF Update, Bank
<1>3. CASE bank.inhibited
  <2>1. switching = {}
    BY <1>3, SwitchingAndHeld
  <2>2. bank'.since = bank.since
    BY <1>2, <2>1 DEF Bank
  <2> QED
    BY <1>2, <2>1, <2>2 DEF Contract!vars
<1>4. CASE ~bank.inhibited
  <2>1. switching \in SUBSET Channel
    BY SwitchingAndHeld
  <2>2. \A c \in switching : Contract!Free(c)
    <3> SUFFICES ASSUME NEW c \in switching PROVE Contract!Free(c)
      OBVIOUS
    <3>1. Wants(bank, c) # (c \in bank.actual) /\ Bypass(bank, c)
      BY <1>4 DEF Switching, Mismatched
    <3>2. CASE Source(bank, c) = "Safety"
      <4>1. bank.safety[c] \in {"off", "on"}
        BY <2>1, <3>2 DEF Source, Bank, Request
      <4>2. Wants(bank, c) <=> bank.safety[c] = "on"
        BY <4>1 DEF Wants
      <4>3. Wants(bank, c) \in BOOLEAN
        BY DEF Wants
      <4>4. c \in bank.actual <=> ~Wants(bank, c)
        BY <3>1, <4>3
      <4> QED
        BY <4>1, <4>2, <4>4 DEF Contract!Free, Contract!Goes
    <3> QED
      BY <3>1, <3>2 DEF Bypass, Contract!Free
  <2>3. Contract!Move
    BY <1>2, <1>4, <2>1, <2>2 DEF Contract!Move, Contract!Restarted
  <2> QED
    BY <2>3
<1> QED
  BY <1>3, <1>4

\* Entering the inhibit is the abstract cut-off of every contact.
LEMMA InhibitCutsOff ==
  ASSUME bank \in Bank, Inhibit
  PROVE  Contract!CutOff \/ Contract!Restore \/ UNCHANGED Contract!vars
<1>1. PICK on \in BOOLEAN : bank' = SetInhibited(bank, on)
  BY DEF Inhibit
<1>2. CASE bank.inhibited = on
  BY <1>1, <1>2 DEF SetInhibited, Contract!vars
<1>3. CASE bank.inhibited # on /\ ~on
  BY <1>1, <1>3 DEF SetInhibited, Bank, Contract!Restore
<1>4. CASE bank.inhibited # on /\ on
  BY <1>1, <1>4 DEF SetInhibited, Bank, Contract!CutOff, Contract!Restarted
<1> QED
  BY <1>2, <1>3, <1>4

\* Every step of the bank is a step of the abstract contacts, or a stutter.
LEMMA NextContract == IInv /\ [Next]_vars => [Contract!Next]_(Contract!vars)
<1> SUFFICES ASSUME IInv, [Next]_vars PROVE [Contract!Next]_(Contract!vars)
  OBVIOUS
<1>0. bank \in Bank
  BY DEF IInv, TypeOK
<1>1. CASE AskControl \/ AskExercise
  BY <1>0, <1>1 DEF AskControl, AskExercise, RequestControl, SetExercise, Bank,
                    Contract!vars
<1>2. CASE AskSafety \/ ClearSafety
  <2>1. PICK c \in Emergency, request \in Request : bank' = RequestSafety(bank, c, request)
    BY <1>2 DEF AskSafety, ClearSafety, Request
  <2>2. bank'.safety \in [Channel -> Request]
    BY <1>0, <2>1, RelayBankAssumption DEF RequestSafety, Bank
  <2>3. Contract!Decide
    BY <1>0, <2>1, <2>2 DEF RequestSafety, Bank, Request, Contract!Decide, Contract!Demand
  <2> QED
    BY <2>3 DEF Contract!Next
<1>3. CASE ChangeLock
  <2>1. Contract!Decide
    BY <1>0, <1>3 DEF ChangeLock, SetLockMs, Bank, Request, Contract!Decide,
                      Contract!Demand
  <2> QED
    BY <2>1 DEF Contract!Next
<1>4. CASE Inhibit
  BY <1>0, <1>4, InhibitCutsOff DEF Contract!Next
<1>5. CASE DoUpdate
  BY <1>0, <1>5, UpdateMoves DEF Contract!Next
<1>6. CASE Elapse
  <2>1. PICK d \in 1..AgeCap : bank' = Aged(bank, d)
    BY <1>6 DEF Elapse
  <2>2. Contract!Wait
    BY <1>0, <2>1 DEF Aged, Bank, Contract!Wait, Older, Contract!Older
  <2> QED
    BY <2>2 DEF Contract!Next
<1>7. CASE Reboot
  <2>1. Contract!Restart
    BY <1>7 DEF Reboot, Configured, Contract!Restart
  <2> QED
    BY <2>1 DEF Contract!Next
<1>8. CASE UNCHANGED vars
  BY <1>8 DEF vars, Contract!vars
<1> QED
  BY <1>1, <1>2, <1>3, <1>4, <1>5, <1>6, <1>7, <1>8 DEF Next

\* README, "Relays: slots, lock and bypass": the minimum ON/OFF time holds of
\* every lockable channel, with the exceptions of DwellContacts and no others.
THEOREM BankKeepsDwells == Spec => DwellContract
<1> QED
  BY InitContract, NextContract, Invariance, PTL
     DEF Spec, DwellContract, Contract!Spec
=============================================================================
