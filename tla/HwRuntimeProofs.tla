--------------------------- MODULE HwRuntimeProofs ---------------------------
(***************************************************************************)
(* What the loop and the output byte promise, for any hardware table and   *)
(* any times.                                                              *)
(*                                                                         *)
(* OutputsAreRight is not inductive: that K1 stays let go of while held    *)
(* off depends on the bank knowing of the inhibit (InhibitIsKnown), on the *)
(* driver keeping to its own rules (Sound, the invariant that              *)
(* K1DriverProofs proves), and on slots without a user never being set     *)
(* (UsersOnly); that the latch is current depends on what the last write   *)
(* sent (WriteIsKept), and that a loss is repaired on how long the         *)
(* re-assert has been waited for (LossIsTimed).                            *)
(*                                                                         *)
(* Strokes and exercises need more (OInv): that every slot and every       *)
(* stroke has its run, and that the ages of the byte's contacts are at     *)
(* least the driver's (Wired), between the driver's step and the byte's.   *)
(*                                                                         *)
(* The tick of the scheduler folds its operators over the outputs by a     *)
(* recursive function.  That such a function exists follows from           *)
(* WalkExists, and what it keeps from Induct.                              *)
(***************************************************************************)
EXTENDS HwRuntime, SequenceTheorems, WellFoundedInduction, TLAPS

\* The theorems of the two objects, for the objects here.
BankP == INSTANCE RelayBankProofs WITH log <- {}, noticed <- {}
K1P == INSTANCE K1DriverProofs WITH sinceTick <- 0, travelled <- <<>>

\* What is assumed here is what the modules of the objects assume.
LEMMA Assumptions ==
  /\ BankP!RelayBankAssumption /\ K1P!K1DriverAssumption
  /\ Bank!RelayBankAssumption /\ K1!K1DriverAssumption /\ Seizer!AntiSeizeAssumption
BY HwRuntimeAssumption DEF HwRuntimeAssumption, BankP!RelayBankAssumption,
   Bank!RelayBankAssumption, K1P!K1DriverAssumption, K1!K1DriverAssumption

-----------------------------------------------------------------------------
(* The inductive invariant.                                                *)

\* The slots of the bank that have no user are never set.
UsersOnly(b) == /\ \A c \in Channel \ Emergency : b.safety[c] = "unset"
                /\ \A c \in Channel \ Exercised : b.exercise[c] = "unset"

\* A configured bank is inhibited when the outputs are.
InhibitIsKnown == ready => bank.inhibited = inhibited

\* What the last write that did not fail has sent is in the latch, unless it was lost since.
WriteIsKept == port.hasWritten /\ ~port.ioError /\ ~lost => port.latch = port.written

\* The latch is not astray for longer than the re-assert has been waited for.
LossIsTimed == port.sinceWrite < Reassert => astray <= port.sinceWrite

\* A K1 that is not there is never driven.
NoneToDrive == K1Present \/ ~K1!Busy(k1)

IInv == /\ OutputsAreRight /\ LossIsRepaired
        /\ K1P!Sound(k1) /\ UsersOnly(bank)
        /\ NoneToDrive /\ InhibitIsKnown /\ WriteIsKept /\ LossIsTimed
-----------------------------------------------------------------------------
(* The relay bank.                                                         *)

\* It is one bank, whichever module speaks of it.
LEMMA OneBank ==
  ASSUME NEW b
  PROVE  /\ BankP!Bank = Bank!Bank /\ Seizer!Bank!Bank = Bank!Bank
         /\ BankP!Update(b) = Bank!Update(b)
         /\ \A on : BankP!SetInhibited(b, on) = Bank!SetInhibited(b, on)
         /\ \A d : BankP!Aged(b, d) = Bank!Aged(b, d)
         /\ BankP!Configured(b) = Bank!Configured(b)
         /\ \A c, r : Seizer!Bank!SetExercise(b, c, r) = Bank!SetExercise(b, c, r)
<1>1. BankP!Bank = Bank!Bank /\ Seizer!Bank!Bank = Bank!Bank
  BY DEF BankP!Bank, Bank!Bank, Seizer!Bank!Bank, BankP!Request, Bank!Request, Seizer!Bank!Request,
     BankP!Reason, Bank!Reason, Seizer!Bank!Reason
<1>2. BankP!Update(b) = Bank!Update(b)
  BY DEF BankP!Update, Bank!Update, BankP!Switching, Bank!Switching, BankP!Held, Bank!Held,
     BankP!Mismatched, Bank!Mismatched, BankP!Wants, Bank!Wants, BankP!Bypass, Bank!Bypass,
     BankP!Source, Bank!Source
<1>3. \A on : BankP!SetInhibited(b, on) = Bank!SetInhibited(b, on)
  BY DEF BankP!SetInhibited, Bank!SetInhibited
<1>4. \A d : BankP!Aged(b, d) = Bank!Aged(b, d)
  BY DEF BankP!Aged, Bank!Aged, BankP!Older, Bank!Older
<1>5. BankP!Configured(b) = Bank!Configured(b)
  BY DEF BankP!Configured, Bank!Configured
<1>6. \A c, r : Seizer!Bank!SetExercise(b, c, r) = Bank!SetExercise(b, c, r)
  BY DEF Seizer!Bank!SetExercise, Bank!SetExercise
<1> QED BY <1>1, <1>2, <1>3, <1>4, <1>5, <1>6

\* Each operation returns a bank, and touches what the properties speak of as it says.
LEMMA ConfiguredBank ==
  ASSUME NEW lock \in LockValues
  PROVE  LET b == Bank!Configured(lock)
         IN b \in Bank!Bank /\ b.actual = {} /\ b.inhibited = FALSE /\ UsersOnly(b)
<1>1. Bank!Configured(lock) \in Bank!Bank
  BY BankP!ConfiguredType, OneBank, Assumptions
<1> QED BY <1>1 DEF Bank!Configured, UsersOnly

\* An update of the bank keeps it well-formed, and an unshared channel follows its control slot.
LEMMA UpdatedBank ==
  ASSUME NEW b \in Bank!Bank, UsersOnly(b)
  PROVE  LET u == Bank!Update(b)
         IN /\ u \in Bank!Bank /\ u.inhibited = b.inhibited /\ UsersOnly(u)
            /\ b.inhibited => u.actual = b.actual
            /\ \A c \in Channel \ (Lockable \cup Emergency \cup Exercised) :
                 ~b.inhibited => (c \in u.actual <=> c \in b.control)
<1> DEFINE u == Bank!Update(b)
           switching == Bank!Switching(b)
<1>1. u \in Bank!Bank
  BY BankP!UpdateType, OneBank, Assumptions
<1>2. /\ u.inhibited = b.inhibited /\ u.safety = b.safety /\ u.exercise = b.exercise
      /\ u.actual = (b.actual \ switching) \cup (switching \ b.actual)
  BY DEF Bank!Update, Bank!Bank
<1> HIDE DEF u
<1>3. b.inhibited => switching = {}
  BY DEF Bank!Switching
<1>4. ASSUME ~b.inhibited, NEW c \in Channel \ (Lockable \cup Emergency \cup Exercised)
      PROVE  c \in switching <=> (c \in b.control) # (c \in b.actual)
  <2>1. Bank!Wants(b, c) <=> c \in b.control
    BY <1>4 DEF Bank!Wants, UsersOnly
  <2>2. Bank!Bypass(b, c)
    BY <1>4 DEF Bank!Bypass
  <2>3. Bank!Wants(b, c) \in BOOLEAN
    BY DEF Bank!Wants
  <2>4. c \in switching <=> Bank!Wants(b, c) # (c \in b.actual)
    BY <1>4, <2>2 DEF Bank!Switching, Bank!Mismatched
  <2> QED BY <2>1, <2>3, <2>4
<1> HIDE DEF switching
<1>5. UsersOnly(u)
  BY <1>2 DEF UsersOnly
<1>6. b.inhibited => u.actual = b.actual
  BY <1>2, <1>3
<1>7. ASSUME ~b.inhibited, NEW c \in Channel \ (Lockable \cup Emergency \cup Exercised)
      PROVE  c \in u.actual <=> c \in b.control
  BY <1>2, <1>4, <1>7
<1> QED BY <1>1, <1>2, <1>5, <1>6, <1>7 DEF u

\* So does the inhibit, which takes everything OFF.
LEMMA InhibitedBank ==
  ASSUME NEW b \in Bank!Bank, UsersOnly(b), NEW on \in BOOLEAN, b.inhibited => b.actual = {}
  PROVE  LET s == Bank!SetInhibited(b, on)
         IN /\ s \in Bank!Bank /\ s.inhibited = on /\ UsersOnly(s)
            /\ IF on THEN s.actual = {} ELSE s.actual = b.actual
<1>1. Bank!SetInhibited(b, on) \in Bank!Bank
  BY BankP!SetInhibitedType, OneBank, Assumptions
<1>2. CASE b.inhibited = on
  BY <1>1, <1>2 DEF Bank!SetInhibited
<1>3. CASE b.inhibited # on /\ ~on
  BY <1>1, <1>3 DEF Bank!SetInhibited, Bank!Bank, UsersOnly
<1>4. CASE b.inhibited # on /\ on
  BY <1>1, <1>4 DEF Bank!SetInhibited, Bank!Bank, UsersOnly
<1> QED BY <1>2, <1>3, <1>4

\* Time changes nothing that the bank drives.
LEMMA AgedBank ==
  ASSUME NEW b \in Bank!Bank, UsersOnly(b), NEW d \in Nat
  PROVE  LET a == Bank!Aged(b, d)
         IN a \in Bank!Bank /\ a.inhibited = b.inhibited /\ UsersOnly(a) /\ a.actual = b.actual
<1>1. Bank!Aged(b, d) \in Bank!Bank
  BY BankP!AgedType, OneBank, Assumptions
<1> QED BY <1>1 DEF Bank!Aged, Bank!Bank, UsersOnly

\* An exercise slot is set without anything being driven yet.
LEMMA ExercisedBank ==
  ASSUME NEW b \in Bank!Bank, UsersOnly(b), NEW c \in Exercised, NEW r \in {"unset", "off", "on"}
  PROVE  LET e == Seizer!Bank!SetExercise(b, c, r)
         IN e \in Bank!Bank /\ e.inhibited = b.inhibited /\ UsersOnly(e) /\ e.actual = b.actual
<1> DEFINE e == Bank!SetExercise(b, c, r)
<1>1. c \in Channel
  BY Assumptions DEF Bank!RelayBankAssumption
<1>2. /\ e \in Bank!Bank /\ e.inhibited = b.inhibited /\ e.safety = b.safety /\ e.actual = b.actual
      /\ e.exercise = [b.exercise EXCEPT ![c] = r]
  BY <1>1 DEF Bank!SetExercise, Bank!Bank, Bank!Request
<1> HIDE DEF e
<1>3. UsersOnly(e)
  BY <1>1, <1>2 DEF UsersOnly, Bank!Bank
<1> QED BY <1>2, <1>3, OneBank DEF e

\* fastTick() writes the contacts of the driver into the control slots of their channels.
LEMMA DrivenBank ==
  ASSUME NEW b \in Bank!Bank, UsersOnly(b), NEW k, {PowerCh, DirCh} \subseteq Channel,
         k.power \in BOOLEAN, k.dirOpen \in BOOLEAN
  PROVE  LET r == Driven(b, k)
         IN /\ r \in Bank!Bank /\ r.inhibited = b.inhibited /\ UsersOnly(r) /\ r.actual = b.actual
            /\ (PowerCh \in r.control) = k.power /\ (DirCh \in r.control) = k.dirOpen
<1> DEFINE p == IF k.power THEN b.control \cup {PowerCh} ELSE b.control \ {PowerCh}
           q == IF k.dirOpen THEN p \cup {DirCh} ELSE p \ {DirCh}
<1>1. Driven(b, k) = [b EXCEPT !.control = q]
  BY DEF Driven, Bank!RequestControl, Bank!Bank
<1>2. q \subseteq Channel /\ (PowerCh \in q) = k.power /\ (DirCh \in q) = k.dirOpen
  BY HwRuntimeAssumption DEF HwRuntimeAssumption, Bank!Bank
<1> HIDE DEF q
<1> QED BY <1>1, <1>2 DEF Bank!Bank, UsersOnly

-----------------------------------------------------------------------------
(* The K1 driver.                                                          *)

\* It is one driver, whichever module speaks of it.
LEMMA OneDriver ==
  ASSUME NEW k
  PROVE  /\ K1P!Driver = K1!Driver /\ Seizer!K1!Busy(k) = K1!Busy(k)
         /\ K1P!Tick(k) = K1!Tick(k) /\ K1P!TakeMotion(k) = K1!TakeMotion(k)
         /\ K1P!Cancel(k) = K1!Cancel(k) /\ Seizer!K1!Cancel(k) = K1!Cancel(k)
         /\ K1P!AtRest(k) = K1!AtRest(k)
         /\ \A d : K1P!Aged(k, d) = K1!Aged(k, d)
         /\ \A dir, dur, own : /\ K1P!RequestPulse(k, dir, dur, own) = K1!RequestPulse(k, dir, dur, own)
                               /\ Seizer!K1!RequestPulse(k, dir, dur, own) = K1!RequestPulse(k, dir, dur, own)
<1>1. K1P!StopRun(k) = K1!StopRun(k) /\ Seizer!K1!StopRun(k) = K1!StopRun(k)
  BY DEF K1P!StopRun, K1!StopRun, Seizer!K1!StopRun
<1>2. \A m : K1P!Drop(m) = K1!Drop(m) /\ Seizer!K1!Drop(m) = K1!Drop(m)
  BY DEF K1P!Drop, K1!Drop, Seizer!K1!Drop
<1>3. K1P!Cancel(k) = K1!Cancel(k) /\ Seizer!K1!Cancel(k) = K1!Cancel(k)
  BY <1>1, <1>2 DEF K1P!Cancel, K1!Cancel, Seizer!K1!Cancel
<1>4. ASSUME NEW dir, NEW dur, NEW own
      PROVE  /\ K1P!RequestPulse(k, dir, dur, own) = K1!RequestPulse(k, dir, dur, own)
             /\ Seizer!K1!RequestPulse(k, dir, dur, own) = K1!RequestPulse(k, dir, dur, own)
  BY <1>1 DEF K1P!RequestPulse, K1!RequestPulse, Seizer!K1!RequestPulse, K1P!Accepted, K1!Accepted,
     Seizer!K1!Accepted, K1P!Extend, K1!Extend, Seizer!K1!Extend, K1P!Pend, K1!Pend, Seizer!K1!Pend
<1>5. K1P!Tick(k) = K1!Tick(k)
  <2>1. K1P!EndRun(k) = K1!EndRun(k)
    BY <1>1 DEF K1P!EndRun, K1!EndRun
  <2>2. ASSUME NEW m PROVE K1P!Advance(m) = K1!Advance(m)
    <3>1. K1P!Drop(m) = K1!Drop(m)
      BY <1>2
    <3>2. K1P!Start(m) = K1!Start(m)
      BY <3>1 DEF K1P!Start, K1!Start
    <3>3. K1P!Turn(m) = K1!Turn(m)
      BY DEF K1P!Turn, K1!Turn
    <3> QED BY <3>2, <3>3, Zenon DEF K1P!Advance, K1!Advance
  <2> QED BY <2>1, <2>2 DEF K1P!Tick, K1!Tick
<1>6. \A d : K1P!Aged(k, d) = K1!Aged(k, d)
  BY DEF K1P!Aged, K1!Aged, K1P!Older, K1!Older
<1>7. K1P!AtRest(k) = K1!AtRest(k) /\ K1P!TakeMotion(k) = K1!TakeMotion(k)
  BY DEF K1P!AtRest, K1!AtRest, K1P!NoMotion, K1!NoMotion, K1P!Dir, K1!Dir,
      K1P!TakeMotion, K1!TakeMotion
<1>8. K1P!Driver = K1!Driver
  BY DEF K1P!Driver, K1!Driver, K1P!Dir, K1!Dir, K1P!Owner, K1!Owner
<1>9. Seizer!K1!Busy(k) = K1!Busy(k)
  BY DEF Seizer!K1!Busy, K1!Busy
<1> QED BY <1>3, <1>4, <1>5, <1>6, <1>7, <1>8, <1>9

\* Each operation leaves a sound driver; a cancel leaves one that is not busy.
LEMMA AtRestDriver ==
  ASSUME NEW up \in {0, DeadTime}
  PROVE  K1P!Sound(K1!AtRest(up)) /\ ~K1!Busy(K1!AtRest(up))
<1>1. up \in 0..DeadTime
  BY Assumptions DEF K1!K1DriverAssumption
<1>2. ~K1!Busy(K1!AtRest(up))
  BY DEF K1!AtRest, K1!Busy
<1> QED BY <1>1, <1>2, K1P!AtRestSound, OneDriver, Assumptions

\* A cancel leaves the driver nothing to do.
LEMMA CancelledDriver ==
  ASSUME NEW k, K1P!Sound(k)
  PROVE  K1P!Sound(K1!Cancel(k)) /\ ~K1!Busy(K1!Cancel(k))
<1>1. K1P!Sound(K1!Cancel(k))
  BY K1P!CancelSound, OneDriver, Assumptions
<1>2. /\ K1P!Sound(K1P!StopRun(k)) \/ ~k.running
      /\ k.running => ~K1P!StopRun(k).running
  BY K1P!StopRunSound, Assumptions
<1>3. ASSUME NEW m, K1P!Sound(m), ~m.running
      PROVE  ~K1P!Drop(m).running /\ ~K1P!Drop(m).pending
  BY <1>3, K1P!DropSound, Assumptions
<1>4. ~K1P!Cancel(k).running /\ ~K1P!Cancel(k).pending
  BY <1>2, <1>3 DEF K1P!Cancel
<1> QED BY <1>1, <1>4, OneDriver DEF K1!Busy

\* A tick of the driver keeps it sound.
LEMMA TickedDriver ==
  ASSUME NEW k, K1P!Sound(k)
  PROVE  K1P!Sound(K1!Tick(k))
BY K1P!TickSound, OneDriver, Assumptions

\* So does a request, whoever asks.
LEMMA AskedDriver ==
  ASSUME NEW k, K1P!Sound(k), NEW dir \in {"close", "open"}, NEW dur \in Nat,
         NEW own \in {"Control", "AntiSeize"}
  PROVE  /\ K1P!Sound(K1!RequestPulse(k, dir, dur, own))
         /\ K1P!Sound(Seizer!K1!RequestPulse(k, dir, dur, own))
<1>1. dir \in K1P!Dir /\ own \in K1P!Owner
  BY DEF K1P!Dir, K1P!Owner
<1>2. K1P!Sound(K1P!RequestPulse(k, dir, dur, own))
  BY <1>1, K1P!RequestPulseSound, Assumptions
<1>3. /\ K1P!RequestPulse(k, dir, dur, own) = K1!RequestPulse(k, dir, dur, own)
      /\ Seizer!K1!RequestPulse(k, dir, dur, own) = K1!RequestPulse(k, dir, dur, own)
  BY OneDriver, Zenon
<1> QED BY <1>2, <1>3

\* So does taking its motion.
LEMMA TakenDriver ==
  ASSUME NEW k, K1P!Sound(k)
  PROVE  K1P!Sound(K1!TakeMotion(k)) /\ K1!Busy(K1!TakeMotion(k)) = K1!Busy(k)
<1>1. K1P!Sound(K1!TakeMotion(k))
  BY K1P!TakeMotionSound, OneDriver, Assumptions
<1>2. K1!Busy(K1!TakeMotion(k)) = K1!Busy(k)
  BY DEF K1!Busy, K1!TakeMotion, K1P!Sound, K1P!Driver
<1> QED BY <1>1, <1>2

\* So does time.
LEMMA AgedDriver ==
  ASSUME NEW k, K1P!Sound(k), NEW d \in Nat
  PROVE  /\ K1P!Sound(K1!Aged(k, d)) /\ K1!Busy(K1!Aged(k, d)) = K1!Busy(k)
         /\ K1!Aged(k, d).power = k.power /\ K1!Aged(k, d).dirOpen = k.dirOpen
<1>1. /\ K1P!Sound(K1!Aged(k, d))
      /\ K1!Aged(k, d).power = k.power /\ K1!Aged(k, d).dirOpen = k.dirOpen
  <2>1. K1P!Aged(k, d) = K1!Aged(k, d)
    BY OneDriver, Zenon
  <2> QED BY <2>1, K1P!AgedSound, Assumptions
<1>2. K1!Busy(K1!Aged(k, d)) = K1!Busy(k)
  BY DEF K1!Busy, K1!Aged, K1P!Sound, K1P!Driver
<1> QED BY <1>1, <1>2

\* A sound driver has the driver's type.
LEMMA SoundDriver ==
  ASSUME NEW k, K1P!Sound(k)
  PROVE  k \in K1!Driver /\ k.power \in BOOLEAN /\ k.dirOpen \in BOOLEAN
BY OneDriver DEF K1P!Sound, K1P!Driver

-----------------------------------------------------------------------------
(* The anti-seize scheduler.                                               *)

\* The three objects are fit to be ticked.
Fit(w) == /\ w \in [bank : Bank!Bank, k1 : K1!Driver, seize : Seizer!Seize]
          /\ K1P!Sound(w.k1) /\ UsersOnly(w.bank) /\ ~w.bank.inhibited
          /\ K1Present \/ ~K1!Busy(w.k1)

\* Which bounds its numbers have.
LEMMA SeizeBounds ==
  /\ 0 \in 0..AgeCap /\ 0 \in 0..Timeout /\ 0 \in 0..Duration /\ AgeCap \in Nat /\ Interval \in Nat
  /\ Seizer!IdleCap \in Nat
BY Assumptions DEF Seizer!AntiSeizeAssumption, Bank!RelayBankAssumption, Seizer!IdleCap

\* Each step of the tick, on the scheduler alone.
LEMMA ClearedSeize ==
  ASSUME NEW s \in Seizer!Seize
  PROVE  Seizer!ClearPending(s) \in Seizer!Seize
BY DEF Seizer!ClearPending, Seizer!Seize

\* A trigger makes every enabled output pending.
LEMMA TriggeredSeize ==
  ASSUME NEW s \in Seizer!Seize, NEW local
  PROVE  Seizer!Trigger(s, local) \in Seizer!Seize
<1> DEFINE triggered == {i \in s.enabled \ (s.running \cup s.pending) : Seizer!Due(s, i, local)}
           waits == [i \in Seizer!Out |-> IF i \in triggered THEN 0 ELSE s.pendingFor[i]]
           checked == s.checked \/ Seizer!Checkpoint(s, local)
<1>1. s.pending \cup triggered \in SUBSET Seizer!Out
  BY DEF Seizer!Seize
<1>2. waits \in [Seizer!Out -> 0..AgeCap]
  BY SeizeBounds DEF Seizer!Seize
<1>3. checked \in BOOLEAN
  BY DEF Seizer!Seize
<1>4. Seizer!Trigger(s, local) =
        [s EXCEPT !.pending = s.pending \cup triggered, !.pendingFor = waits, !.checked = checked]
  BY Zenon DEF Seizer!Trigger
<1> HIDE DEF triggered, waits, checked
<1> QED BY <1>1, <1>2, <1>3, <1>4 DEF Seizer!Seize

\* A run stops.
LEMMA StoppedSeize ==
  ASSUME NEW s \in Seizer!Seize, NEW i \in Seizer!Out
  PROVE  Seizer!Stopped(s, i) \in Seizer!Seize
<1>1. "None" \in Seizer!Phase
  BY DEF Seizer!Phase
<1>2. /\ [s.phase EXCEPT ![i] = "None"] \in [Seizer!Out -> Seizer!Phase]
      /\ [s.ranFor EXCEPT ![i] = 0] \in [Seizer!Out -> 0..Timeout]
      /\ [s.heldFor EXCEPT ![i] = 0] \in [Seizer!Out -> 0..Duration]
      /\ [s.target EXCEPT ![i] = FALSE] \in [Seizer!Out -> BOOLEAN]
      /\ s.running \ {i} \in SUBSET Seizer!Out
  BY <1>1, SeizeBounds DEF Seizer!Seize
<1> QED BY <1>2 DEF Seizer!Stopped, Seizer!Seize

\* Time passes for the runs and the outputs at rest.
LEMMA AgedSeize ==
  ASSUME NEW s \in Seizer!Seize, NEW d \in Nat
  PROVE  Seizer!Aged(s, d) \in Seizer!Seize
<1> DEFINE idle == [i \in Seizer!Out |-> Older(s.idle[i], d, Seizer!IdleCap)]
           pendingFor == [i \in Seizer!Out |-> IF i \in s.pending
                                               THEN Older(s.pendingFor[i], d, AgeCap) ELSE 0]
           ranFor == [i \in Seizer!Out |-> IF s.phase[i] \in {"WaitOn", "Hold"}
                                           THEN Older(s.ranFor[i], d, Timeout) ELSE 0]
           heldFor == [i \in Seizer!Out |-> IF s.phase[i] = "Hold"
                                            THEN Older(s.heldFor[i], d, Duration) ELSE 0]
<1>1. Timeout \in Nat /\ Duration \in Nat
  BY Assumptions DEF Seizer!AntiSeizeAssumption
<1>2. ASSUME NEW cap \in Nat, NEW age \in 0..cap PROVE Older(age, d, cap) \in 0..cap
  BY DEF Older
<1>3. \A i \in Seizer!Out : /\ s.idle[i] \in 0..Seizer!IdleCap /\ s.pendingFor[i] \in 0..AgeCap
                            /\ s.ranFor[i] \in 0..Timeout /\ s.heldFor[i] \in 0..Duration
  BY DEF Seizer!Seize
<1>4. idle \in [Seizer!Out -> 0..Seizer!IdleCap]
  BY <1>2, <1>3, SeizeBounds
<1>5. pendingFor \in [Seizer!Out -> 0..AgeCap]
  BY <1>2, <1>3, SeizeBounds
<1>6. ranFor \in [Seizer!Out -> 0..Timeout]
  BY <1>1, <1>2, <1>3, SeizeBounds
<1>7. heldFor \in [Seizer!Out -> 0..Duration]
  BY <1>1, <1>2, <1>3, SeizeBounds
<1>8. Seizer!Aged(s, d) = [s EXCEPT !.idle = idle, !.pendingFor = pendingFor,
                                    !.ranFor = ranFor, !.heldFor = heldFor]
  BY Zenon DEF Seizer!Aged, Seizer!Older, Older
<1> HIDE DEF idle, pendingFor, ranFor, heldFor
<1> QED BY <1>4, <1>5, <1>6, <1>7, <1>8 DEF Seizer!Seize

\* Every output is of a channel.
LEMMA ChannelKnown ==
  ASSUME NEW i \in Seizer!Out
  PROVE  Seizer!Ch(i) \in Channel
<1>1. Outputs \in Seq([kind : {"Pump", "Toggle", "ValveStroke"}, channel : Channel,
                      blockers : SUBSET Channel])
  BY Assumptions DEF Seizer!AntiSeizeAssumption
<1>2. i \in 1..Len(Outputs)
  BY DEF Seizer!Out
<1>3. Outputs[i] \in [kind : {"Pump", "Toggle", "ValveStroke"}, channel : Channel,
                      blockers : SUBSET Channel]
  BY <1>1, <1>2, ElementOfSeq
<1> QED BY <1>3 DEF Seizer!Ch

\* What is due for its first tick is fit for the next step.
LEMMA TriggeredFits ==
  ASSUME NEW w, Fit(w), NEW local
  PROVE  Fit(Seizer!Triggered(w, local))
<1> DEFINE idle == [i \in Seizer!Out |->
                     IF Seizer!Activity(i, w) < AgeCap /\ Seizer!Activity(i, w) < w.seize.idle[i]
                     THEN Seizer!Activity(i, w) ELSE w.seize.idle[i]]
           r == [w.seize EXCEPT !.idle = idle]
           s == Seizer!Trigger(Seizer!ClearPending(r), local)
<1>1. \A i \in Seizer!Out : Seizer!Activity(i, w) \in 0..AgeCap
  <2> TAKE i \in Seizer!Out
  <2>1. Seizer!Ch(i) \in Channel
    BY ChannelKnown
  <2>2. w.bank.sinceOn[Seizer!Ch(i)] \in 0..AgeCap /\ w.bank.since[Seizer!Ch(i)] \in 0..AgeCap
    BY <2>1 DEF Fit, Bank!Bank
  <2>3. w.k1.sinceMove \in 0..AgeCap /\ AgeCap \in 0..AgeCap
    BY SeizeBounds DEF Fit, K1!Driver
  <2> QED BY <2>2, <2>3 DEF Seizer!Activity
<1>2. idle \in [Seizer!Out -> 0..Seizer!IdleCap]
  <2> SUFFICES ASSUME NEW i \in Seizer!Out PROVE idle[i] \in 0..Seizer!IdleCap
    OBVIOUS
  <2>1. w.seize.idle[i] \in 0..Seizer!IdleCap /\ Seizer!IdleCap \in Nat
    BY SeizeBounds DEF Fit, Seizer!Seize
  <2>2. Seizer!Activity(i, w) \in Nat
    BY <1>1, SeizeBounds
  <2> QED BY <2>1, <2>2
<1>3. Seizer!Refresh(w) = [w EXCEPT !.seize = r]
  BY Zenon DEF Seizer!Refresh, Fit
<1> HIDE DEF idle
<1>4. r \in Seizer!Seize
  BY <1>2 DEF Fit, Seizer!Seize
<1> HIDE DEF r
<1>5. s \in Seizer!Seize
  BY <1>4, ClearedSeize, TriggeredSeize
<1>6. Seizer!Refresh(w).seize = r
  BY <1>3 DEF Fit
<1>7. Seizer!Triggered(w, local) = [Seizer!Refresh(w) EXCEPT !.seize = s]
  BY <1>6 DEF Seizer!Triggered
<1> HIDE DEF s
<1> QED BY <1>3, <1>5, <1>7 DEF Fit

\* Objects that are fit stay so when one of them is replaced by a fit one.
LEMMA BankFits ==
  ASSUME NEW w, Fit(w), NEW b \in Bank!Bank, UsersOnly(b), ~b.inhibited, NEW s \in Seizer!Seize
  PROVE  Fit([w EXCEPT !.bank = b, !.seize = s])
BY DEF Fit

\* A driver that was asked for something fits.
LEMMA DriverFits ==
  ASSUME K1Present, NEW w, Fit(w), NEW k, K1P!Sound(k), NEW s \in Seizer!Seize
  PROVE  Fit([w EXCEPT !.k1 = k, !.seize = s])
BY SoundDriver DEF Fit

\* A scheduler that has changed fits.
LEMMA SeizeFits ==
  ASSUME NEW w, Fit(w), NEW s \in Seizer!Seize
  PROVE  Fit([w EXCEPT !.seize = s])
BY DEF Fit

\* Its runs go on, one output after another.
LEMMA RelayAdvances ==
  ASSUME NEW w, Fit(w), NEW i \in Seizer!Out, Seizer!Kind(i) # "ValveStroke"
  PROVE  Fit(Seizer!AdvanceRelay(w, i))
<1> DEFINE s == w.seize
           b == Seizer!Bank!SetExercise(w.bank, Seizer!Ch(i), "unset")
<1>1. s \in Seizer!Seize /\ w.bank \in Bank!Bank /\ UsersOnly(w.bank) /\ ~w.bank.inhibited
      /\ K1P!Sound(w.k1)
  BY DEF Fit
<1>2. CASE Seizer!Over(w, i)
  <2>1. Seizer!Ch(i) \in Exercised
    BY Assumptions DEF Seizer!AntiSeizeAssumption, Seizer!Kind, Seizer!Ch
  <2>2. b \in Bank!Bank /\ UsersOnly(b) /\ ~b.inhibited
    BY <1>1, <2>1, ExercisedBank
  <2>3. Seizer!AdvanceRelay(w, i) = [w EXCEPT !.bank = b, !.seize = Seizer!Stopped(s, i)]
    BY <1>2, Zenon DEF Seizer!AdvanceRelay, Seizer!Release
  <2> HIDE DEF b
  <2>4. Seizer!Stopped(s, i) \in Seizer!Seize
    BY <1>1, StoppedSeize
  <2>5. Fit([w EXCEPT !.bank = b, !.seize = Seizer!Stopped(s, i)])
    BY <2>2, <2>4, BankFits, Zenon
  <2> QED BY <2>3, <2>5
<1>3. CASE ~Seizer!Over(w, i) /\ s.phase[i] = "WaitOn" /\ Seizer!Reached(w, i)
  <2> DEFINE t == [s EXCEPT !.phase[i] = "Hold", !.heldFor[i] = 0]
  <2>1. Seizer!AdvanceRelay(w, i) = [w EXCEPT !.seize.phase[i] = "Hold", !.seize.heldFor[i] = 0]
    BY <1>3, Zenon DEF Seizer!AdvanceRelay
  <2>2. [w EXCEPT !.seize.phase[i] = "Hold", !.seize.heldFor[i] = 0] = [w EXCEPT !.seize = t]
    BY DEF Fit, Seizer!Seize
  <2>3. "Hold" \in Seizer!Phase
    BY DEF Seizer!Phase
  <2>4. t \in Seizer!Seize
    BY <1>1, <2>3, SeizeBounds DEF Seizer!Seize
  <2> HIDE DEF t
  <2>5. Fit([w EXCEPT !.seize = t])
    BY <2>4, SeizeFits, Zenon
  <2> QED BY <2>1, <2>2, <2>5
<1>4. CASE ~Seizer!Over(w, i) /\ ~(s.phase[i] = "WaitOn" /\ Seizer!Reached(w, i))
  BY <1>4 DEF Seizer!AdvanceRelay
<1> QED BY <1>2, <1>3, <1>4

\* Its valve run goes on.
LEMMA StrokeAdvances ==
  ASSUME NEW w, Fit(w), NEW i \in Seizer!Out, Seizer!Kind(i) = "ValveStroke"
  PROVE  Fit(Seizer!AdvanceStroke(w, i))
<1> DEFINE s == w.seize
           t == Seizer!Stopped(s, i)
           letGo == [w EXCEPT !.seize = t]
           k == Seizer!K1!Cancel(w.k1)
           p == Seizer!K1!RequestPulse(w.k1, "close", s.stroke, "AntiSeize")
           u == [s EXCEPT !.phase[i] = "K1Close"]
<1>1. s \in Seizer!Seize /\ w.bank \in Bank!Bank /\ UsersOnly(w.bank) /\ ~w.bank.inhibited
      /\ K1P!Sound(w.k1)
  BY DEF Fit
<1>2. t \in Seizer!Seize
  BY <1>1, StoppedSeize
<1>3. K1P!Sound(k)
  BY <1>1, OneDriver, CancelledDriver
<1>4. K1P!Sound(p)
  <2>1. s.stroke \in Nat
    BY Assumptions DEF Fit, Seizer!Seize, Seizer!AntiSeizeAssumption
  <2> QED BY <1>1, <2>1, AskedDriver
<1>5. u \in Seizer!Seize
  <2>1. "K1Close" \in Seizer!Phase
    BY DEF Seizer!Phase
  <2> QED BY <1>1, <2>1 DEF Seizer!Seize
<1>6. \/ Seizer!AdvanceStroke(w, i) = letGo
      \/ Seizer!AdvanceStroke(w, i) = [letGo EXCEPT !.k1 = Seizer!K1!Cancel(@)]
      \/ Seizer!AdvanceStroke(w, i) = w
      \/ Seizer!AdvanceStroke(w, i) = [w EXCEPT !.k1 = p, !.seize.phase[i] = "K1Close"]
  BY DEF Seizer!AdvanceStroke
<1>7. [w EXCEPT !.k1 = p, !.seize.phase[i] = "K1Close"] = [w EXCEPT !.k1 = p, !.seize = u]
  BY DEF Fit, Seizer!Seize
<1>8. [letGo EXCEPT !.k1 = Seizer!K1!Cancel(@)] = [w EXCEPT !.k1 = k, !.seize = t]
  BY DEF Fit
<1> HIDE DEF k, p, t, u
<1>9. K1Present
  BY HwRuntimeAssumption DEF HwRuntimeAssumption, Seizer!Kind
<1>10. Fit(letGo) /\ Fit([w EXCEPT !.k1 = p, !.seize = u]) /\ Fit([w EXCEPT !.k1 = k, !.seize = t])
  <2>1. Fit(letGo)
    BY <1>2, SeizeFits, Zenon
  <2>2. Fit([w EXCEPT !.k1 = p, !.seize = u])
    BY <1>9, <1>4, <1>5, DriverFits, Zenon
  <2>3. Fit([w EXCEPT !.k1 = k, !.seize = t])
    BY <1>9, <1>2, <1>3, DriverFits, Zenon
  <2> QED BY <2>1, <2>2, <2>3
<1> QED BY <1>6, <1>7, <1>8, <1>10, Zenon

\* Its run goes on, whichever it is.
LEMMA RunAdvances ==
  ASSUME NEW w, Fit(w), NEW i \in Seizer!Out
  PROVE  Fit(Seizer!AdvanceRun(w, i))
BY RelayAdvances, StrokeAdvances DEF Seizer!AdvanceRun

\* An output starts that is pending.
LEMMA PendingStarts ==
  ASSUME NEW w, Fit(w), NEW i \in Seizer!Out
  PROVE  Fit(Seizer!StartPending(w, i))
<1> DEFINE s == w.seize
<1>1. s \in Seizer!Seize /\ w.bank \in Bank!Bank /\ UsersOnly(w.bank) /\ ~w.bank.inhibited
      /\ K1P!Sound(w.k1)
  BY DEF Fit
<1>2. ASSUME NEW phase \in Seizer!Phase
      PROVE  /\ [s EXCEPT !.running = s.running \cup {i}, !.pending = s.pending \ {i},
                          !.phase[i] = phase, !.ranFor[i] = 0] \in Seizer!Seize
             /\ Seizer!Run(w, i, phase) =
                  [w EXCEPT !.seize = [s EXCEPT !.running = s.running \cup {i},
                     !.pending = s.pending \ {i}, !.phase[i] = phase, !.ranFor[i] = 0]]
  BY <1>1, <1>2, SeizeBounds DEF Seizer!Run, Seizer!Seize, Fit
<1>3. CASE Seizer!Kind(i) # "ValveStroke"
  <2> DEFINE on == Seizer!Kind(i) = "Pump" \/ ~Seizer!IsOn(w, i)
             b == Seizer!Bank!SetExercise(w.bank, Seizer!Ch(i), IF on THEN "on" ELSE "off")
             r == [s EXCEPT !.running = s.running \cup {i}, !.pending = s.pending \ {i},
                            !.phase[i] = "WaitOn", !.ranFor[i] = 0]
             t == [r EXCEPT !.target[i] = on]
  <2>1. Seizer!Ch(i) \in Exercised
    BY <1>3, Assumptions DEF Seizer!AntiSeizeAssumption, Seizer!Kind, Seizer!Ch
  <2>2. b \in Bank!Bank /\ UsersOnly(b) /\ ~b.inhibited
    BY <1>1, <2>1, ExercisedBank
  <2>3. r \in Seizer!Seize /\ Seizer!Run(w, i, "WaitOn") = [w EXCEPT !.seize = r]
    BY <1>2 DEF Seizer!Phase
  <2>4. on \in BOOLEAN
    BY DEF Seizer!IsOn
  <2>5. Seizer!StartRelay(w, i) = [Seizer!Run(w, i, "WaitOn") EXCEPT
           !.bank = Seizer!Bank!SetExercise(@, Seizer!Ch(i), IF on THEN "on" ELSE "off"),
           !.seize.target[i] = on]
    BY Zenon DEF Seizer!StartRelay
  <2> HIDE DEF on, r
  <2>6. t \in Seizer!Seize
    BY <2>3, <2>4 DEF Seizer!Seize
  <2>7. Seizer!StartRelay(w, i) = [w EXCEPT !.bank = b, !.seize = t]
    BY <2>3, <2>5 DEF Fit
  <2> HIDE DEF b, t
  <2>8. Fit(Seizer!StartRelay(w, i))
    <3>1. Fit([w EXCEPT !.bank = b, !.seize = t])
      BY <2>2, <2>6, BankFits, Zenon
    <3> QED BY <2>7, <3>1
  <2> QED BY <1>3, <2>8 DEF Seizer!StartPending
<1>4. CASE Seizer!Kind(i) = "ValveStroke"
  <2> DEFINE p == Seizer!K1!RequestPulse(w.k1, "open", s.stroke, "AntiSeize")
             r == [s EXCEPT !.running = s.running \cup {i}, !.pending = s.pending \ {i},
                            !.phase[i] = "K1Open", !.ranFor[i] = 0]
  <2>1. s.stroke \in Nat
    BY Assumptions DEF Fit, Seizer!Seize, Seizer!AntiSeizeAssumption
  <2>2. K1P!Sound(p)
    BY <1>1, <2>1, AskedDriver
  <2>3. r \in Seizer!Seize /\ Seizer!Run(w, i, "K1Open") = [w EXCEPT !.seize = r]
    BY <1>2 DEF Seizer!Phase
  <2>4. [s EXCEPT !.pending = s.pending \ {i}] \in Seizer!Seize
    BY <1>1 DEF Seizer!Seize
  <2>5. \/ Seizer!StartStroke(w, i) = [w EXCEPT !.seize.pending = @ \ {i}]
        \/ Seizer!StartStroke(w, i) = [Seizer!Run(w, i, "K1Open") EXCEPT
              !.k1 = Seizer!K1!RequestPulse(@, "open", w.seize.stroke, "AntiSeize")]
    BY Zenon DEF Seizer!StartStroke
  <2> HIDE DEF r
  <2>6. [w EXCEPT !.seize.pending = @ \ {i}]
          = [w EXCEPT !.seize = [s EXCEPT !.pending = s.pending \ {i}]]
    BY DEF Fit
  <2>7. [Seizer!Run(w, i, "K1Open") EXCEPT
           !.k1 = Seizer!K1!RequestPulse(@, "open", w.seize.stroke, "AntiSeize")]
          = [w EXCEPT !.k1 = p, !.seize = r]
    BY <2>3 DEF Fit
  <2> HIDE DEF p
  <2>8. K1Present
    BY <1>4, HwRuntimeAssumption DEF HwRuntimeAssumption, Seizer!Kind
  <2>9. Fit(Seizer!StartStroke(w, i))
    <3>1. Fit([w EXCEPT !.seize = [s EXCEPT !.pending = s.pending \ {i}]])
      BY <2>4, SeizeFits, Zenon
    <3>2. Fit([w EXCEPT !.k1 = p, !.seize = r])
      BY <2>2, <2>3, <2>8, DriverFits, Zenon
    <3> QED BY <2>5, <2>6, <2>7, <3>1, <3>2
  <2> QED BY <1>4, <2>9 DEF Seizer!StartPending
<1> QED BY <1>3, <1>4

\* A set of numbers that is not empty has a least one.
LEMMA LeastNat ==
  ASSUME NEW T, T \subseteq Nat, T # {}
  PROVE  \E m \in T : \A k \in T : m <= k
<1> DEFINE R == OpToRel(<, Nat)
<1>1. IsWellFoundedOn(R, Nat)
  BY NatLessThanWellFounded
<1>2. \A a, b \in Nat : a < b => <<a, b>> \in R
  BY DEF OpToRel
<1> HIDE DEF R
<1>3. PICK m \in T : \A k \in T : ~(<<k, m>> \in R)
  BY <1>1, WFMin
<1>4. ASSUME NEW k \in T PROVE m <= k
  <2>1. k \in Nat /\ m \in Nat
    OBVIOUS
  <2>2. ~(<<k, m>> \in R)
    BY <1>3
  <2>3. ~(k < m)
    BY <1>2, <2>1, <2>2, Zenon
  <2> QED BY <2>1, <2>3
<1> QED BY <1>4

\* Induction over the natural numbers, for a set of them.
LEMMA Induct ==
  ASSUME NEW S, 0 \in S, \A n \in Nat : n \in S => n + 1 \in S
  PROVE  Nat \subseteq S
<1> DEFINE T == Nat \ S
<1> SUFFICES ASSUME T # {} PROVE FALSE
  OBVIOUS
<1>1. PICK m \in T : \A k \in T : m <= k
  BY LeastNat
<1>2. m # 0 /\ m - 1 \in Nat
  BY <1>1
<1>3. m - 1 \in S
  BY <1>1, <1>2
<1> QED BY <1>1, <1>2, <1>3

\* A walk takes one step after another.
Walk(g, start, N, step) == \A i \in 0..N : g[i] = IF i = 0 THEN start ELSE step[<<g[i - 1], i>>]

\* There is a walk that takes one step after another, whatever the steps are.
LEMMA WalkExists ==
  ASSUME NEW W, NEW start \in W, NEW N \in Nat, NEW step \in [W \X (1..N) -> W]
  PROVE  \E g \in [0..N -> W] : Walk(g, start, N, step)
<1> DEFINE Walks(n, run) == /\ run \in [0..n -> W]
                            /\ \A i \in 0..n :
                                  run[i] = IF i = 0 THEN start ELSE step[<<run[i - 1], i>>]
           S == {n \in Nat : n <= N => \E run : Walks(n, run)}
<1>1. 0 \in S
  <2>1. Walks(0, [i \in 0..0 |-> start])
    OBVIOUS
  <2> QED BY <2>1
<1>2. ASSUME NEW n \in Nat, n \in S PROVE n + 1 \in S
  <2> SUFFICES ASSUME n + 1 <= N PROVE \E run : Walks(n + 1, run)
    OBVIOUS
  <2>1. PICK g : Walks(n, g)
    BY <1>2
  <2> DEFINE h == [i \in 0..(n + 1) |-> IF i = n + 1 THEN step[<<g[n], n + 1>>] ELSE g[i]]
  <2>2. g \in [0..n -> W] /\ n \in 0..n /\ n + 1 \in 1..N
    BY <2>1
  <2>3. step[<<g[n], n + 1>>] \in W
    BY <2>2
  <2>4. h \in [0..(n + 1) -> W]
    <3>1. \A i \in 0..(n + 1) : i # n + 1 => i \in 0..n
      OBVIOUS
    <3> QED BY <2>2, <2>3, <3>1
  <2>5. ASSUME NEW i \in 0..(n + 1)
        PROVE  h[i] = IF i = 0 THEN start ELSE step[<<h[i - 1], i>>]
    <3>1. CASE i = n + 1
      <4>1. i # 0 /\ i - 1 = n /\ n \in 0..(n + 1) /\ n # n + 1
        BY <3>1
      <4>2. h[i - 1] = g[n]
        BY <4>1
      <4> QED BY <3>1, <4>1, <4>2
    <3>2. CASE i # n + 1
      <4>1. i \in 0..n /\ h[i] = g[i]
        BY <3>2
      <4>2. i # 0 => i - 1 \in 0..(n + 1) /\ i - 1 # n + 1
        BY <3>2
      <4>3. i # 0 => h[i - 1] = g[i - 1]
        BY <4>2
      <4>4. g[i] = IF i = 0 THEN start ELSE step[<<g[i - 1], i>>]
        BY <2>1, <4>1
      <4> HIDE DEF h
      <4> QED BY <4>1, <4>3, <4>4
    <3> QED BY <3>1, <3>2
  <2> HIDE DEF h
  <2> QED BY <2>4, <2>5
<1> HIDE DEF S
<1>3. N \in S
  BY <1>1, <1>2, Induct
<1> QED BY <1>3 DEF S, Walk

\* The first walk of the tick, and the second: each leaves the objects fit, step by step.
LEMMA AdvancedWalks ==
  ASSUME NEW w, Fit(w)
  PROVE  \E run : /\ Seizer!Advanced(w) = run[Len(Outputs)] /\ run[0] = w
                  /\ \A i \in 0..Len(Outputs) : Fit(run[i])
                  /\ \A i \in Seizer!Out : run[i] = Seizer!AdvanceRun(run[i - 1], i)
<1> DEFINE count == Len(Outputs)
           run == CHOOSE f : f = [i \in 0..count |-> IF i = 0 THEN w ELSE Seizer!AdvanceRun(f[i - 1], i)]
           Fits == {x \in [bank : Bank!Bank, k1 : K1!Driver, seize : Seizer!Seize] : Fit(x)}
           stepped == [p \in Fits \X (1..count) |-> Seizer!AdvanceRun(p[1], p[2])]
<1>1. Seizer!Advanced(w) = run[count]
  BY DEF Seizer!Advanced
<1>2. count \in Nat
  BY Assumptions DEF Seizer!AntiSeizeAssumption
<1>3. \A x : x \in Fits <=> Fit(x)
  BY DEF Fit
<1>4. \A x \in Fits, i \in 1..count : Seizer!AdvanceRun(x, i) \in Fits
  BY <1>3, RunAdvances DEF Seizer!Out
<1> HIDE DEF Fits, count
<1>5. stepped \in [Fits \X (1..count) -> Fits]
  BY <1>4
<1>6. \A x \in Fits, i \in 1..count : stepped[<<x, i>>] = Seizer!AdvanceRun(x, i)
  OBVIOUS
<1> HIDE DEF stepped
<1>7. PICK g \in [0..count -> Fits] : Walk(g, w, count, stepped)
  <2>1. w \in Fits
    BY <1>3
  <2> HIDE DEF run
  <2> QED BY <1>2, <1>5, <2>1, WalkExists
<1>8. \A i \in 0..count : g[i] = IF i = 0 THEN w ELSE Seizer!AdvanceRun(g[i - 1], i)
  <2> TAKE i \in 0..count
  <2>1. i # 0 => i - 1 \in 0..count /\ i \in 1..count
    BY <1>2
  <2>2. i # 0 => stepped[<<g[i - 1], i>>] = Seizer!AdvanceRun(g[i - 1], i)
    BY <1>6, <2>1
  <2> QED BY <1>7, <2>2 DEF Walk
<1>9. g = [i \in 0..count |-> IF i = 0 THEN w ELSE Seizer!AdvanceRun(g[i - 1], i)]
  BY <1>8
<1>10. run = [i \in 0..count |-> IF i = 0 THEN w ELSE Seizer!AdvanceRun(run[i - 1], i)]
  BY <1>9
<1> HIDE DEF run
<1> DEFINE S == {n \in Nat : n <= count => Fit(run[n])}
<1>11. 0 \in S
  BY <1>2, <1>10
<1>12. ASSUME NEW n \in Nat, n \in S PROVE n + 1 \in S
  <2> SUFFICES ASSUME n + 1 <= count PROVE Fit(run[n + 1])
    OBVIOUS
  <2>1. Fit(run[n]) /\ n + 1 \in 1..count /\ n + 1 \in 0..count /\ n + 1 # 0 /\ (n + 1) - 1 = n
    BY <1>2, <1>12
  <2>2. run[n + 1] = Seizer!AdvanceRun(run[n], n + 1)
    BY <1>10, <2>1
  <2> QED BY <2>1, <2>2, RunAdvances DEF Seizer!Out, count
<1> HIDE DEF S
<1>13. \A n \in 0..count : Fit(run[n])
  <2>1. Nat \subseteq S
    BY <1>11, <1>12, Induct
  <2> QED BY <1>2, <2>1 DEF S
<1>14. \A i \in 1..count : run[i] = Seizer!AdvanceRun(run[i - 1], i)
  BY <1>2, <1>10
<1>15. run[0] = w
  BY <1>2, <1>10
<1> QED BY <1>1, <1>13, <1>14, <1>15 DEF count, Seizer!Out

\* The second walk of the tick, over the outputs that are pending.
LEMMA StartedWalks ==
  ASSUME NEW w, Fit(w)
  PROVE  \E run : /\ Seizer!Started(w) = run[Len(Outputs)] /\ run[0] = w
                  /\ \A i \in 0..Len(Outputs) : Fit(run[i])
                  /\ \A i \in Seizer!Out : run[i] = Seizer!StartPending(run[i - 1], i)
<1> DEFINE count == Len(Outputs)
           run == CHOOSE f : f = [i \in 0..count |-> IF i = 0 THEN w ELSE Seizer!StartPending(f[i - 1], i)]
           Fits == {x \in [bank : Bank!Bank, k1 : K1!Driver, seize : Seizer!Seize] : Fit(x)}
           stepped == [p \in Fits \X (1..count) |-> Seizer!StartPending(p[1], p[2])]
<1>1. Seizer!Started(w) = run[count]
  BY DEF Seizer!Started
<1>2. count \in Nat
  BY Assumptions DEF Seizer!AntiSeizeAssumption
<1>3. \A x : x \in Fits <=> Fit(x)
  BY DEF Fit
<1>4. \A x \in Fits, i \in 1..count : Seizer!StartPending(x, i) \in Fits
  BY <1>3, PendingStarts DEF Seizer!Out
<1> HIDE DEF Fits, count
<1>5. stepped \in [Fits \X (1..count) -> Fits]
  BY <1>4
<1>6. \A x \in Fits, i \in 1..count : stepped[<<x, i>>] = Seizer!StartPending(x, i)
  OBVIOUS
<1> HIDE DEF stepped
<1>7. PICK g \in [0..count -> Fits] : Walk(g, w, count, stepped)
  <2>1. w \in Fits
    BY <1>3
  <2> HIDE DEF run
  <2> QED BY <1>2, <1>5, <2>1, WalkExists
<1>8. \A i \in 0..count : g[i] = IF i = 0 THEN w ELSE Seizer!StartPending(g[i - 1], i)
  <2> TAKE i \in 0..count
  <2>1. i # 0 => i - 1 \in 0..count /\ i \in 1..count
    BY <1>2
  <2>2. i # 0 => stepped[<<g[i - 1], i>>] = Seizer!StartPending(g[i - 1], i)
    BY <1>6, <2>1
  <2> QED BY <1>7, <2>2 DEF Walk
<1>9. g = [i \in 0..count |-> IF i = 0 THEN w ELSE Seizer!StartPending(g[i - 1], i)]
  BY <1>8
<1>10. run = [i \in 0..count |-> IF i = 0 THEN w ELSE Seizer!StartPending(run[i - 1], i)]
  BY <1>9
<1> HIDE DEF run
<1> DEFINE S == {n \in Nat : n <= count => Fit(run[n])}
<1>11. 0 \in S
  BY <1>2, <1>10
<1>12. ASSUME NEW n \in Nat, n \in S PROVE n + 1 \in S
  <2> SUFFICES ASSUME n + 1 <= count PROVE Fit(run[n + 1])
    OBVIOUS
  <2>1. Fit(run[n]) /\ n + 1 \in 1..count /\ n + 1 \in 0..count /\ n + 1 # 0 /\ (n + 1) - 1 = n
    BY <1>2, <1>12
  <2>2. run[n + 1] = Seizer!StartPending(run[n], n + 1)
    BY <1>10, <2>1
  <2> QED BY <2>1, <2>2, PendingStarts DEF Seizer!Out, count
<1> HIDE DEF S
<1>13. \A n \in 0..count : Fit(run[n])
  <2>1. Nat \subseteq S
    BY <1>11, <1>12, Induct
  <2> QED BY <1>2, <2>1 DEF S
<1>14. \A i \in 1..count : run[i] = Seizer!StartPending(run[i - 1], i)
  BY <1>2, <1>10
<1>15. run[0] = w
  BY <1>2, <1>10
<1> QED BY <1>1, <1>13, <1>14, <1>15 DEF count, Seizer!Out

\* The first walk leaves the objects fit.
LEMMA AdvancedFits ==
  ASSUME NEW w, Fit(w)
  PROVE  Fit(Seizer!Advanced(w))
<1>1. Len(Outputs) \in 0..Len(Outputs)
  BY Assumptions DEF Seizer!AntiSeizeAssumption
<1> QED BY <1>1, AdvancedWalks

\* So does the second.
LEMMA StartedFits ==
  ASSUME NEW w, Fit(w)
  PROVE  Fit(Seizer!Started(w))
<1>1. Len(Outputs) \in 0..Len(Outputs)
  BY Assumptions DEF Seizer!AntiSeizeAssumption
<1> QED BY <1>1, StartedWalks

\* So does the whole tick.
LEMMA TickFits ==
  ASSUME NEW w, Fit(w), NEW local
  PROVE  Fit(Seizer!Tick(w, local))
BY TriggeredFits, AdvancedFits, StartedFits DEF Seizer!Tick

-----------------------------------------------------------------------------
(* A fast tick.                                                            *)

\* The bounds of the types, from what is assumed of the constants.
LEMMA TypeBounds ==
  /\ 0 \in 0..AgeCap /\ AgeCap \in Nat /\ DeadTime \in 0..AgeCap
  /\ Reassert \in Nat \ {0} /\ MaxAstray \in Nat /\ MaxGap \in Nat /\ SlowPeriod \in Nat \ {0}
  /\ Lockable \subseteq Channel /\ Emergency \subseteq Channel
BY Assumptions, HwRuntimeAssumption DEF HwRuntimeAssumption, MaxAstray,
   Bank!RelayBankAssumption, K1!K1DriverAssumption

\* The driver is ticked, or let go of while the outputs are held off.
LEMMA FastTicksDriver ==
  ASSUME NEW k, K1P!Sound(k), K1Present \/ ~K1!Busy(k), ready /\ inhibited => ~K1!Busy(k)
  PROVE  LET t == TickK1(k)
         IN /\ K1P!Sound(t) /\ (K1Present \/ ~K1!Busy(t))
            /\ ready /\ inhibited => ~K1!Busy(t)
<1>1. CASE ~ready \/ ~K1Present
  BY <1>1 DEF TickK1
<1>2. CASE ready /\ K1Present /\ ~inhibited
  <2>1. TickK1(k) = K1!Tick(k)
    BY <1>2 DEF TickK1
  <2>2. K1P!Sound(K1!Tick(k))
    BY TickedDriver
  <2> QED BY <1>2, <2>1, <2>2
<1>3. CASE ready /\ K1Present /\ inhibited
  <2>1. TickK1(k) = k \/ TickK1(k) = K1!Cancel(k)
    BY <1>3 DEF TickK1
  <2>2. K1P!Sound(K1!Cancel(k)) /\ ~K1!Busy(K1!Cancel(k))
    BY CancelledDriver
  <2> QED BY <1>3, <2>1, <2>2
<1> QED BY <1>1, <1>2, <1>3

\* The bank is given what the driver says, and is updated.
LEMMA FastTicksBank ==
  ASSUME NEW b \in Bank!Bank, UsersOnly(b), NEW k, k.power \in BOOLEAN, k.dirOpen \in BOOLEAN,
         ready => b.inhibited = inhibited, ready /\ inhibited => b.actual = {}
  PROVE  LET t == TickBank(b, k)
         IN /\ t \in Bank!Bank /\ UsersOnly(t) /\ t.inhibited = b.inhibited
            /\ ready /\ inhibited => t.actual = {}
            /\ ready /\ K1Present /\ ~inhibited =>
                 /\ (PowerCh \in t.actual) = k.power
                 /\ (DirCh \in t.actual) = k.dirOpen
<1>1. CASE ~ready
  BY <1>1 DEF TickBank
<1>2. CASE ready /\ ~(K1Present /\ ~inhibited)
  <2>1. TickBank(b, k) = Bank!Update(b)
    BY <1>2 DEF TickBank
  <2> QED BY <1>2, <2>1, UpdatedBank
<1>3. CASE ready /\ K1Present /\ ~inhibited
  <2> DEFINE r == Driven(b, k)
  <2>1. TickBank(b, k) = Bank!Update(r)
    BY <1>3 DEF TickBank
  <2>2. {PowerCh, DirCh} \subseteq Channel \ (Lockable \cup Emergency \cup Exercised)
    BY <1>3, HwRuntimeAssumption DEF HwRuntimeAssumption
  <2>3. /\ r \in Bank!Bank /\ r.inhibited = b.inhibited /\ UsersOnly(r)
        /\ (PowerCh \in r.control) = k.power /\ (DirCh \in r.control) = k.dirOpen
    BY <2>2, DrivenBank
  <2> HIDE DEF r
  <2>4. /\ Bank!Update(r) \in Bank!Bank /\ Bank!Update(r).inhibited = r.inhibited
        /\ UsersOnly(Bank!Update(r))
        /\ \A c \in Channel \ (Lockable \cup Emergency \cup Exercised) :
             ~r.inhibited => (c \in Bank!Update(r).actual <=> c \in r.control)
    BY <2>3, UpdatedBank
  <2>5. ~r.inhibited
    BY <1>3, <2>3
  <2>6. /\ (PowerCh \in Bank!Update(r).actual) = (PowerCh \in r.control)
        /\ (DirCh \in Bank!Update(r).actual) = (DirCh \in r.control)
    BY <2>2, <2>4, <2>5
  <2> QED BY <1>3, <2>1, <2>3, <2>4, <2>6
<1> QED BY <1>1, <1>2, <1>3

\* The byte is written, or its write fails, or it is in the latch already.
LEMMA WritesByte ==
  ASSUME NEW byte \in SUBSET Channel, Write(byte), port \in Port, astray \in 0..MaxAstray,
         lost \in BOOLEAN, WriteIsKept, LossIsTimed
  PROVE  /\ port' \in Port /\ failed' \in BOOLEAN /\ lost' \in BOOLEAN /\ astray' \in 0..MaxAstray
         /\ WriteIsKept' /\ LossIsTimed'
         /\ ~failed' /\ ~lost' => port'.latch = byte
         /\ ~failed' => astray' < Reassert
<1>1. CASE port' = [latch |-> byte, written |-> byte, hasWritten |-> TRUE,
                    sinceWrite |-> 0, ioError |-> FALSE]
           /\ failed' = FALSE /\ lost' = FALSE /\ astray' = 0
  <2>1. 0 \in 0..Reassert /\ 0 \in 0..MaxAstray
    BY TypeBounds
  <2>2. port' \in Port
    BY <1>1, <2>1 DEF Port
  <2>3. port'.latch = byte /\ port'.written = byte /\ port'.sinceWrite = 0
    BY <1>1
  <2>4. WriteIsKept' /\ LossIsTimed'
    BY <1>1, <2>3 DEF WriteIsKept, LossIsTimed
  <2>5. astray' < Reassert
    BY <1>1, TypeBounds
  <2> QED BY <1>1, <2>1, <2>2, <2>3, <2>4, <2>5
<1>2. CASE /\ \E latch \in {port.latch, byte} :
                port' = [port EXCEPT !.latch = latch, !.ioError = TRUE]
           /\ failed' = TRUE
           /\ UNCHANGED <<astray, lost>>
  <2>1. PICK latch \in {port.latch, byte} : port' = [port EXCEPT !.latch = latch, !.ioError = TRUE]
    BY <1>2
  <2>2. port' \in Port /\ port'.ioError = TRUE /\ port'.sinceWrite = port.sinceWrite
    BY <2>1 DEF Port
  <2>3. WriteIsKept'
    BY <2>2 DEF WriteIsKept
  <2>4. LossIsTimed'
    BY <1>2, <2>2 DEF LossIsTimed
  <2> QED BY <1>2, <2>2, <2>3, <2>4
<1>3. CASE /\ ~WriteDue(byte)
           /\ failed' = FALSE
           /\ UNCHANGED <<port, astray, lost>>
  <2>1. port.hasWritten /\ byte = port.written /\ port.sinceWrite < Reassert /\ ~port.ioError
    BY <1>3, TypeBounds DEF WriteDue, Port
  <2>2. port.sinceWrite \in Nat /\ astray \in Nat
    BY TypeBounds DEF Port
  <2>3. ~lost => port.latch = byte
    BY <2>1 DEF WriteIsKept
  <2>4. astray < Reassert
    BY <2>1, <2>2, TypeBounds DEF LossIsTimed
  <2>5. WriteIsKept' /\ LossIsTimed'
    BY <1>3 DEF WriteIsKept, LossIsTimed
  <2> QED BY <1>3, <2>3, <2>4, <2>5
<1> QED BY <1>1, <1>2, <1>3 DEF Write

\* What a fast tick leaves, from a bank and a driver that are right.
Fast == /\ bank' \in Bank!Bank /\ UsersOnly(bank') /\ K1P!Sound(k1')
        /\ NoneToDrive' /\ InhibitIsKnown' /\ HeldOff'
        /\ ready' \in BOOLEAN /\ inhibited' \in BOOLEAN /\ port' \in Port
        /\ wire' \in [offFor : 0..AgeCap, stillFor : 0..AgeCap, cut : BOOLEAN]
        /\ failed' \in BOOLEAN /\ lost' \in BOOLEAN /\ astray' \in 0..MaxAstray
        /\ WriteIsKept' /\ LossIsTimed'
        /\ ready' /\ K1Present /\ ~inhibited' =>
             /\ (PowerCh \in bank'.actual) = k1'.power
             /\ (DirCh \in bank'.actual) = k1'.dirOpen
        /\ ~failed' /\ ~lost' => port'.latch = Byte(bank)'
        /\ ~failed' => astray' < Reassert

\* A fast tick, from objects that are fit, leaves all that the invariant asks.
LEMMA FastTicks ==
  ASSUME NEW b \in Bank!Bank, UsersOnly(b), NEW k, K1P!Sound(k), K1Present \/ ~K1!Busy(k),
         ready => b.inhibited = inhibited,
         ready /\ inhibited => b.actual = {} /\ ~K1!Busy(k),
         IInv, FastTick(b, k)
  PROVE  Fast
<1> DEFINE t == TickK1(k)
           u == TickBank(b, t)
<1>1. K1P!Sound(t) /\ (K1Present \/ ~K1!Busy(t)) /\ (ready /\ inhibited => ~K1!Busy(t))
  BY FastTicksDriver
<1>2. k1' = t /\ bank' = u /\ Write(Byte(u)) /\ Watch(u, wire.cut) /\ UNCHANGED <<ready, inhibited>>
  BY DEF FastTick
<1> HIDE DEF t
<1>3. t.power \in BOOLEAN /\ t.dirOpen \in BOOLEAN
  BY <1>1, SoundDriver
<1>4. /\ u \in Bank!Bank /\ UsersOnly(u) /\ u.inhibited = b.inhibited
      /\ ready /\ inhibited => u.actual = {}
      /\ ready /\ K1Present /\ ~inhibited =>
           (PowerCh \in u.actual) = t.power /\ (DirCh \in u.actual) = t.dirOpen
  BY <1>3, FastTicksBank
<1> HIDE DEF u
<1>5. Byte(u) \in SUBSET Channel /\ Byte(bank)' = Byte(u)
  BY <1>2, <1>4 DEF Byte, Bank!Bank
<1>6. /\ port \in Port /\ astray \in 0..MaxAstray /\ lost \in BOOLEAN /\ WriteIsKept /\ LossIsTimed
      /\ ready \in BOOLEAN /\ inhibited \in BOOLEAN
      /\ wire \in [offFor : 0..AgeCap, stillFor : 0..AgeCap, cut : BOOLEAN]
  BY DEF IInv, OutputsAreRight, TypeOK
<1>7. /\ port' \in Port /\ failed' \in BOOLEAN /\ lost' \in BOOLEAN /\ astray' \in 0..MaxAstray
      /\ WriteIsKept' /\ LossIsTimed'
      /\ ~failed' /\ ~lost' => port'.latch = Byte(u)
      /\ ~failed' => astray' < Reassert
  BY <1>2, <1>5, <1>6, WritesByte
<1>8. wire' \in [offFor : 0..AgeCap, stillFor : 0..AgeCap, cut : BOOLEAN]
  BY <1>2, <1>6, TypeBounds DEF Watch
<1>9. NoneToDrive' /\ InhibitIsKnown' /\ HeldOff'
  BY <1>1, <1>2, <1>4 DEF NoneToDrive, InhibitIsKnown, HeldOff
<1> QED BY <1>1, <1>2, <1>4, <1>5, <1>6, <1>7, <1>8, <1>9 DEF Fast

-----------------------------------------------------------------------------
(* The steps of the loop, one after another.                               *)

\* What the invariant says of the variables, for the steps.
LEMMA InvBasics ==
  ASSUME IInv
  PROVE  /\ bank \in Bank!Bank /\ k1 \in K1!Driver /\ seize \in Seizer!Seize
         /\ settings \in Settings /\ ready \in BOOLEAN /\ inhibited \in BOOLEAN /\ port \in Port
         /\ at \in Place /\ sinceSlow \in 0..SlowPeriod
         /\ wire \in [offFor : 0..AgeCap, stillFor : 0..AgeCap, cut : BOOLEAN]
         /\ failed \in BOOLEAN /\ lost \in BOOLEAN /\ astray \in 0..MaxAstray
         /\ UsersOnly(bank) /\ K1P!Sound(k1) /\ (K1Present \/ ~K1!Busy(k1))
         /\ ready => bank.inhibited = inhibited
         /\ ready /\ inhibited => bank.actual = {} /\ ~K1!Busy(k1)
BY DEF IInv, OutputsAreRight, TypeOK, HeldOff, NoneToDrive, InhibitIsKnown

\* What a restart leaves.
LEMMA BootRight ==
  ASSUME NEW boot \in Boots
  PROVE  /\ boot.bank \in Bank!Bank /\ boot.bank.actual = {} /\ boot.bank.inhibited = FALSE
         /\ UsersOnly(boot.bank)
         /\ K1P!Sound(boot.k1) /\ ~K1!Busy(boot.k1) /\ boot.k1 \in K1!Driver
         /\ boot.seize \in Seizer!Seize /\ boot.settings \in Settings /\ boot.ready \in BOOLEAN
         /\ boot.wire \in [offFor : 0..AgeCap, stillFor : 0..AgeCap, cut : BOOLEAN]
<1>1. PICK s \in Settings, isReady \in BOOLEAN, stroke \in Strokes, up \in {0, DeadTime} :
         boot = Booted(s, isReady, stroke, up)
  BY DEF Boots
<1>2. /\ boot.bank = Bank!Configured(s.lock) /\ boot.k1 = K1!AtRest(up)
      /\ boot.seize = [Seizer!Configured(stroke) EXCEPT !.enabled = s.enabled]
      /\ boot.settings = s /\ boot.ready = isReady /\ boot.wire = [offFor |-> 0, stillFor |-> up, cut |-> FALSE]
  BY <1>1 DEF Booted
<1>3. s.lock \in LockValues /\ s.enabled \in SUBSET Seizer!Out
  BY DEF Settings
<1>4. /\ boot.bank \in Bank!Bank /\ boot.bank.actual = {} /\ boot.bank.inhibited = FALSE
      /\ UsersOnly(boot.bank)
  BY <1>2, <1>3, ConfiguredBank
<1>5. K1P!Sound(boot.k1) /\ ~K1!Busy(boot.k1) /\ boot.k1 \in K1!Driver
  BY <1>2, AtRestDriver, SoundDriver
<1>6. boot.seize \in Seizer!Seize
  <2> DEFINE c == Seizer!Configured(stroke)
  <2>1. "None" \in Seizer!Phase
    BY DEF Seizer!Phase
  <2>2. 0 \in 0..Seizer!IdleCap
    BY SeizeBounds
  <2>3. /\ [i \in Seizer!Out |-> "None"] \in [Seizer!Out -> Seizer!Phase]
        /\ [i \in Seizer!Out |-> 0] \in [Seizer!Out -> 0..Seizer!IdleCap]
        /\ [i \in Seizer!Out |-> 0] \in [Seizer!Out -> 0..AgeCap]
        /\ [i \in Seizer!Out |-> 0] \in [Seizer!Out -> 0..Timeout]
        /\ [i \in Seizer!Out |-> 0] \in [Seizer!Out -> 0..Duration]
        /\ [i \in Seizer!Out |-> FALSE] \in [Seizer!Out -> BOOLEAN]
    BY <2>1, <2>2, SeizeBounds
  <2>4. c \in Seizer!Seize
    BY <2>3 DEF Seizer!Configured, Seizer!Seize
  <2> HIDE DEF c
  <2>5. [c EXCEPT !.enabled = s.enabled] \in Seizer!Seize
    BY <1>3, <2>4 DEF Seizer!Seize
  <2> QED BY <1>2, <2>5 DEF c
<1>7. boot.wire \in [offFor : 0..AgeCap, stillFor : 0..AgeCap, cut : BOOLEAN]
  BY <1>2, TypeBounds
<1> QED BY <1>2, <1>4, <1>5, <1>6, <1>7

\* A restart has written nothing.
LEMMA Unwrites ==
  ASSUME NEW latch \in SUBSET Channel
  PROVE  /\ Unwritten(latch) \in Port /\ Unwritten(latch).hasWritten = FALSE
         /\ Unwritten(latch).sinceWrite = 0
<1>1. 0 \in 0..Reassert
  BY TypeBounds
<1> QED BY <1>1 DEF Unwritten, Port

\* It is right, at the first start as at every other one.
LEMMA InitRight == Init => IInv
<1> SUFFICES ASSUME Init PROVE IInv
  OBVIOUS
<1>1. PICK boot \in Boots : /\ bank = boot.bank /\ k1 = boot.k1 /\ seize = boot.seize
                            /\ settings = boot.settings /\ ready = boot.ready /\ wire = boot.wire
  BY DEF Init
<1>2. /\ bank \in Bank!Bank /\ bank.actual = {} /\ bank.inhibited = FALSE /\ UsersOnly(bank)
      /\ K1P!Sound(k1) /\ ~K1!Busy(k1) /\ k1 \in K1!Driver
      /\ seize \in Seizer!Seize /\ settings \in Settings /\ ready \in BOOLEAN
      /\ wire \in [offFor : 0..AgeCap, stillFor : 0..AgeCap, cut : BOOLEAN]
  BY <1>1, BootRight
<1>3. port \in Port /\ port.hasWritten = FALSE /\ port.sinceWrite = 0
  BY Unwrites DEF Init
<1>4. /\ inhibited = FALSE /\ at = "core" /\ sinceSlow = 0
      /\ failed = FALSE /\ astray = 0 /\ lost = FALSE
  BY DEF Init
<1>5. at \in Place /\ sinceSlow \in 0..SlowPeriod /\ astray \in 0..MaxAstray
  BY <1>4, TypeBounds DEF Place
<1>6. TypeOK
  BY <1>2, <1>3, <1>4, <1>5 DEF TypeOK
<1>7. HeldOff /\ ByteFollowsDriver /\ LatchIsCurrent /\ LossIsRepaired
  BY <1>4 DEF HeldOff, ByteFollowsDriver, LatchIsCurrent, LossIsRepaired
<1>8. NoneToDrive /\ InhibitIsKnown /\ WriteIsKept
  BY <1>2, <1>3, <1>4 DEF NoneToDrive, InhibitIsKnown, WriteIsKept
<1>9. LossIsTimed
  BY <1>3, <1>4 DEF LossIsTimed
<1> QED BY <1>2, <1>6, <1>7, <1>8, <1>9 DEF IInv, OutputsAreRight

\* A restart keeps the invariant.
LEMMA RebootRight == IInv /\ Reboot => IInv'
<1> SUFFICES ASSUME IInv, Reboot PROVE IInv'
  OBVIOUS
<1>1. PICK boot \in Boots : /\ bank' = boot.bank /\ k1' = boot.k1 /\ seize' = boot.seize
                            /\ settings' = boot.settings /\ ready' = boot.ready /\ wire' = boot.wire
  BY DEF Reboot
<1>2. /\ bank' \in Bank!Bank /\ bank'.actual = {} /\ bank'.inhibited = FALSE /\ UsersOnly(bank')
      /\ K1P!Sound(k1') /\ ~K1!Busy(k1') /\ k1' \in K1!Driver
      /\ seize' \in Seizer!Seize /\ settings' \in Settings /\ ready' \in BOOLEAN
      /\ wire' \in [offFor : 0..AgeCap, stillFor : 0..AgeCap, cut : BOOLEAN]
  BY <1>1, BootRight
<1>3. PICK latch \in SUBSET Channel : port' = Unwritten(latch)
  BY InvBasics DEF Reboot, Port
<1>4. port' \in Port /\ port'.hasWritten = FALSE /\ port'.sinceWrite = 0
  BY <1>3, Unwrites
<1>5. /\ inhibited' = FALSE /\ at' = "core" /\ sinceSlow' = 0
      /\ failed' = FALSE /\ astray' = 0 /\ lost' = FALSE
  BY DEF Reboot
<1>6. at' \in Place /\ sinceSlow' \in 0..SlowPeriod /\ astray' \in 0..MaxAstray
  BY <1>5, TypeBounds DEF Place
<1>7. TypeOK'
  BY <1>2, <1>4, <1>5, <1>6 DEF TypeOK
<1>8. HeldOff' /\ ByteFollowsDriver' /\ LatchIsCurrent' /\ LossIsRepaired'
  BY <1>5 DEF HeldOff, ByteFollowsDriver, LatchIsCurrent, LossIsRepaired
<1>9. NoneToDrive' /\ InhibitIsKnown' /\ WriteIsKept'
  BY <1>2, <1>4, <1>5 DEF NoneToDrive, InhibitIsKnown, WriteIsKept
<1>10. LossIsTimed'
  BY <1>4, <1>5 DEF LossIsTimed
<1> QED BY <1>2, <1>7, <1>8, <1>9, <1>10 DEF IInv, OutputsAreRight

\* The steps that leave the objects alone, or only their surroundings.
LEMMA CoreTickRight == IInv /\ CoreTick => IInv'
<1> SUFFICES ASSUME IInv, CoreTick PROVE IInv'
  OBVIOUS
<1>1. /\ settings' \in Settings /\ at' = "hw"
      /\ UNCHANGED <<bank, k1, seize, ready, inhibited, port, sinceSlow, wire, failed, astray, lost>>
  BY DEF CoreTick
<1>2. TypeOK'
  BY <1>1 DEF IInv, OutputsAreRight, TypeOK, Place
<1>3. HeldOff' /\ ByteFollowsDriver' /\ LatchIsCurrent' /\ LossIsRepaired'
  BY <1>1 DEF IInv, OutputsAreRight, HeldOff, ByteFollowsDriver, LatchIsCurrent, LossIsRepaired
<1>4. /\ K1P!Sound(k1') /\ UsersOnly(bank')
      /\ NoneToDrive' /\ InhibitIsKnown' /\ WriteIsKept' /\ LossIsTimed'
  BY <1>1 DEF IInv, NoneToDrive, InhibitIsKnown, WriteIsKept, LossIsTimed
<1> QED BY <1>2, <1>3, <1>4 DEF IInv, OutputsAreRight

\* A brown-out loses the latch, and says so to the history.
LEMMA BrownOutRight == IInv /\ BrownOut => IInv'
<1> SUFFICES ASSUME IInv, BrownOut PROVE IInv'
  OBVIOUS
<1>1. /\ port' = [port EXCEPT !.latch = {}] /\ lost' = TRUE
      /\ UNCHANGED <<bank, k1, seize, settings, ready, inhibited, at, sinceSlow, wire, failed, astray>>
  BY DEF BrownOut
<1>2. port' \in Port /\ port'.sinceWrite = port.sinceWrite
  BY <1>1, InvBasics DEF Port
<1>3. TypeOK'
  BY <1>1, <1>2 DEF IInv, OutputsAreRight, TypeOK
<1>4. HeldOff' /\ ByteFollowsDriver' /\ LatchIsCurrent' /\ LossIsRepaired'
  BY <1>1 DEF IInv, OutputsAreRight, HeldOff, ByteFollowsDriver, LatchIsCurrent, LossIsRepaired
<1>5. /\ K1P!Sound(k1') /\ UsersOnly(bank')
      /\ NoneToDrive' /\ InhibitIsKnown' /\ WriteIsKept' /\ LossIsTimed'
  BY <1>1, <1>2 DEF IInv, NoneToDrive, InhibitIsKnown, WriteIsKept, LossIsTimed
<1> QED BY <1>3, <1>4, <1>5 DEF IInv, OutputsAreRight

\* A new day concerns the scheduler only.
LEMMA NewDayRight == IInv /\ NewDay => IInv'
<1> SUFFICES ASSUME IInv, NewDay PROVE IInv'
  OBVIOUS
<1>1. /\ seize' = [seize EXCEPT !.checked = FALSE]
      /\ UNCHANGED <<bank, k1, settings, ready, inhibited, port, at, sinceSlow, wire,
                     failed, astray, lost>>
  BY DEF NewDay
<1>2. seize' \in Seizer!Seize
  BY <1>1, InvBasics DEF Seizer!Seize
<1>3. TypeOK'
  BY <1>1, <1>2 DEF IInv, OutputsAreRight, TypeOK
<1>4. HeldOff' /\ ByteFollowsDriver' /\ LatchIsCurrent' /\ LossIsRepaired'
  BY <1>1 DEF IInv, OutputsAreRight, HeldOff, ByteFollowsDriver, LatchIsCurrent,
     LossIsRepaired, Byte
<1>5. /\ K1P!Sound(k1') /\ UsersOnly(bank')
      /\ NoneToDrive' /\ InhibitIsKnown' /\ WriteIsKept' /\ LossIsTimed'
  BY <1>1 DEF IInv, NoneToDrive, InhibitIsKnown, WriteIsKept, LossIsTimed
<1> QED BY <1>3, <1>4, <1>5 DEF IInv, OutputsAreRight

\* A pass ends with a fast tick.
LEMMA HwFastTickRight == IInv /\ HwFastTick => IInv'
<1> SUFFICES ASSUME IInv, HwFastTick PROVE IInv'
  OBVIOUS
<1>1. at' = "pause" /\ FastTick(bank, k1) /\ UNCHANGED <<seize, settings, sinceSlow>>
  BY DEF HwFastTick
<1>2. Fast
  BY <1>1, InvBasics, FastTicks
<1>3. TypeOK'
  BY <1>1, <1>2, InvBasics, SoundDriver DEF TypeOK, Fast, Place
<1>4. HeldOff' /\ ByteFollowsDriver' /\ LatchIsCurrent' /\ LossIsRepaired'
  BY <1>2 DEF Fast, HeldOff, ByteFollowsDriver, LatchIsCurrent, LossIsRepaired
<1> QED BY <1>2, <1>3, <1>4 DEF IInv, OutputsAreRight, Fast

\* So does a slow one of the hardware, after the anti-seize runs.
LEMMA HwTickRight == IInv /\ HwTick => IInv'
<1> SUFFICES ASSUME IInv, HwTick PROVE IInv'
  OBVIOUS
<1>1. at' = "ctl" /\ UNCHANGED <<settings, sinceSlow>>
  BY DEF HwTick
<1>2. CASE ~ready
  <2>1. UNCHANGED <<bank, k1, seize, ready, inhibited, port, wire, failed, astray, lost>>
    BY <1>2 DEF HwTick
  <2>2. TypeOK'
    BY <1>1, <2>1 DEF IInv, OutputsAreRight, TypeOK, Place
  <2>3. HeldOff' /\ ByteFollowsDriver' /\ LatchIsCurrent' /\ LossIsRepaired'
    BY <1>1, <1>2, <2>1 DEF HeldOff, ByteFollowsDriver, LatchIsCurrent, LossIsRepaired
  <2>4. /\ K1P!Sound(k1') /\ UsersOnly(bank')
        /\ NoneToDrive' /\ InhibitIsKnown' /\ WriteIsKept' /\ LossIsTimed'
    BY <2>1 DEF IInv, NoneToDrive, InhibitIsKnown, WriteIsKept, LossIsTimed
  <2> QED BY <2>2, <2>3, <2>4 DEF IInv, OutputsAreRight
<1>3. CASE ready
  <2> DEFINE pushed == [bank |-> Bank!SetLockMs(bank, settings.lock), k1 |-> k1,
                        seize |-> [seize EXCEPT !.enabled = settings.enabled]]
             Ticked(local) == IF inhibited THEN pushed ELSE Seizer!Tick(pushed, local)
  <2>1. PICK local \in Clock : /\ seize' = Ticked(local).seize
                               /\ FastTick(Ticked(local).bank, Ticked(local).k1)
    BY <1>3 DEF HwTick
  <2>2. /\ pushed.bank \in Bank!Bank /\ UsersOnly(pushed.bank)
        /\ pushed.bank.inhibited = bank.inhibited /\ pushed.bank.actual = bank.actual
    <3>1. settings.lock \in LockValues
      BY InvBasics DEF Settings
    <3> QED BY <3>1, InvBasics DEF Bank!SetLockMs, Bank!Bank, UsersOnly
  <2>3. pushed.seize \in Seizer!Seize /\ pushed.k1 = k1
    <3>1. settings.enabled \in SUBSET Seizer!Out
      BY InvBasics DEF Settings
    <3> QED BY <3>1, InvBasics DEF Seizer!Seize
  <2> DEFINE w == Ticked(local)
  <2>4. /\ w.bank \in Bank!Bank /\ UsersOnly(w.bank) /\ w.bank.inhibited = inhibited
        /\ inhibited => w.bank.actual = {} /\ ~K1!Busy(w.k1)
        /\ K1P!Sound(w.k1) /\ (K1Present \/ ~K1!Busy(w.k1)) /\ w.seize \in Seizer!Seize
    <3>1. CASE inhibited
      <4>1. w = pushed
        BY <3>1
      <4> HIDE DEF w, pushed
      <4> QED BY <1>3, <2>2, <2>3, <3>1, <4>1, InvBasics
    <3>2. CASE ~inhibited
      <4>1. w = Seizer!Tick(pushed, local)
        BY <3>2
      <4>2. pushed \in [bank : Bank!Bank, k1 : K1!Driver, seize : Seizer!Seize]
        BY <2>2, <2>3, InvBasics
      <4> HIDE DEF w, pushed
      <4>3. Fit(pushed)
        BY <1>3, <2>2, <2>3, <3>2, <4>2, InvBasics DEF Fit
      <4>4. Fit(w)
        BY <4>1, <4>3, TickFits
      <4>5. /\ w.bank \in Bank!Bank /\ UsersOnly(w.bank) /\ ~w.bank.inhibited /\ K1P!Sound(w.k1)
            /\ (K1Present \/ ~K1!Busy(w.k1)) /\ w.seize \in Seizer!Seize
        BY <4>4 DEF Fit
      <4>6. w.bank.inhibited \in BOOLEAN /\ inhibited \in BOOLEAN
        BY <4>5, InvBasics DEF Bank!Bank
      <4> QED BY <3>2, <4>5, <4>6
    <3> QED BY <3>1, <3>2
  <2> HIDE DEF pushed, Ticked
  <2>5. Fast
    BY <1>3, <2>1, <2>4, FastTicks
  <2>6. TypeOK'
    BY <1>1, <2>1, <2>4, <2>5, InvBasics, SoundDriver DEF TypeOK, Fast, Place
  <2>7. HeldOff' /\ ByteFollowsDriver' /\ LatchIsCurrent' /\ LossIsRepaired'
    BY <1>1, <2>5 DEF Fast, ByteFollowsDriver, LatchIsCurrent, LossIsRepaired
  <2> QED BY <2>5, <2>6, <2>7 DEF IInv, OutputsAreRight, Fast
<1> QED BY <1>2, <1>3

\* The controller asks for nothing while the outputs are held off.
LEMMA CtlTickRight == IInv /\ CtlTick => IInv'
<1> SUFFICES ASSUME IInv, CtlTick PROVE IInv'
  OBVIOUS
<1>1. /\ at' = "net"
      /\ UNCHANGED <<settings, ready, inhibited, port, sinceSlow, wire, failed, astray, lost>>
  BY DEF CtlTick
<1>2. /\ bank' \in Bank!Bank /\ UsersOnly(bank')
      /\ bank'.inhibited = bank.inhibited /\ bank'.actual = bank.actual
  <2>1. CASE ~ready
    BY <2>1, InvBasics DEF CtlTick
  <2>2. CASE ready
    <3>1. PICK control \in SUBSET Lockable, demand \in [Emergency -> {"unset", "on"}] :
            bank' = [bank EXCEPT
                       !.control = control \cup (@ \ Lockable),
                       !.safety = [c \in Channel |-> IF c \in Emergency
                                                       THEN demand[c] ELSE @[c]]]
      BY <2>2 DEF CtlTick
    <3> DEFINE safety == [c \in Channel |-> IF c \in Emergency THEN demand[c] ELSE bank.safety[c]]
    <3>2. safety \in [Channel -> Bank!Request]
      BY InvBasics DEF Bank!Bank, Bank!Request
    <3>3. control \cup (bank.control \ Lockable) \in SUBSET Channel
      BY InvBasics, TypeBounds DEF Bank!Bank
    <3>4. bank' = [bank EXCEPT !.control = control \cup (bank.control \ Lockable),
                               !.safety = safety]
      BY <3>1, InvBasics DEF Bank!Bank
    <3>5. \A c \in Channel \ Emergency : safety[c] = "unset"
      BY InvBasics DEF UsersOnly
    <3> HIDE DEF safety
    <3> QED BY <3>2, <3>3, <3>4, <3>5, InvBasics DEF Bank!Bank, UsersOnly
  <2> QED BY <2>1, <2>2
<1>3. /\ K1P!Sound(k1') /\ (K1Present \/ ~K1!Busy(k1'))
      /\ ready /\ inhibited => ~K1!Busy(k1')
  <2> DEFINE k == K1!TakeMotion(k1)
  <2>1. K1P!Sound(k) /\ K1!Busy(k) = K1!Busy(k1)
    BY InvBasics, TakenDriver
  <2> HIDE DEF k
  <2>2. CASE k1' = k
    BY <2>1, <2>2, InvBasics
  <2>3. ASSUME NEW p \in Pulses, k1' = K1!RequestPulse(k, p[1], p[2], "Control")
        PROVE  MayDrive /\ K1P!Sound(k1')
    <3>1. MayDrive
      BY DEF Pulses
    <3>2. p \in K1Requests \cup {<<"close", Recal>>}
      BY DEF Pulses
    <3>3. p[1] \in {"close", "open"} /\ p[2] \in Nat
      <4>1. Durations \subseteq Nat
        BY Assumptions DEF K1!K1DriverAssumption
      <4>2. K1Requests \subseteq {"close", "open"} \X Durations /\ Recal \in Durations
        BY HwRuntimeAssumption DEF HwRuntimeAssumption, K1!Dir
      <4>3. p \in {"close", "open"} \X Nat
        <5>1. CASE p \in K1Requests
          <6>1. p \in {"close", "open"} \X Durations
            BY <4>2, <5>1
          <6> QED BY <4>1, <6>1
        <5>2. CASE p = <<"close", Recal>>
          <6>1. Recal \in Nat
            BY <4>1, <4>2
          <6> QED BY <5>2, <6>1
        <5> QED BY <3>2, <5>1, <5>2
      <4> QED BY <4>3
    <3> QED BY <2>1, <2>3, <3>1, <3>3, AskedDriver
  <2>4. k1' = k \/ \E p \in Pulses : k1' = K1!RequestPulse(k, p[1], p[2], "Control")
    BY DEF CtlTick, Asked, k
  <2> QED BY <2>2, <2>3, <2>4, InvBasics DEF MayDrive
<1>4. seize' \in Seizer!Seize
  <2>1. PICK stroke \in Strokes : seize' = [seize EXCEPT !.stroke = stroke]
    BY DEF CtlTick
  <2> QED BY <2>1, InvBasics DEF Seizer!Seize
<1>5. TypeOK'
  BY <1>1, <1>2, <1>3, <1>4, SoundDriver DEF IInv, OutputsAreRight, TypeOK, Place
<1>6. HeldOff' /\ ByteFollowsDriver' /\ LatchIsCurrent' /\ LossIsRepaired'
  BY <1>1, <1>2, <1>3, InvBasics DEF HeldOff, ByteFollowsDriver, LatchIsCurrent, LossIsRepaired
<1>7. NoneToDrive' /\ InhibitIsKnown' /\ WriteIsKept' /\ LossIsTimed'
  BY <1>1, <1>2, <1>3 DEF IInv, NoneToDrive, InhibitIsKnown, WriteIsKept, LossIsTimed
<1> QED BY <1>2, <1>3, <1>5, <1>6, <1>7 DEF IInv, OutputsAreRight

\* An update begins or ends.
LEMMA NetFastTickRight == IInv /\ NetFastTick => IInv'
<1> SUFFICES ASSUME IInv, NetFastTick PROVE IInv'
  OBVIOUS
<1>1. /\ at' = "fast"
      /\ UNCHANGED <<seize, settings, ready, port, sinceSlow, failed, astray, lost>>
  BY DEF NetFastTick
<1>2. PICK on \in BOOLEAN : SetOutputsInhibited(on)
  BY DEF NetFastTick
<1>3. inhibited' = on
  BY <1>2 DEF SetOutputsInhibited
<1>4. /\ bank' \in Bank!Bank /\ UsersOnly(bank') /\ K1P!Sound(k1') /\ NoneToDrive'
      /\ InhibitIsKnown' /\ HeldOff'
      /\ wire' \in [offFor : 0..AgeCap, stillFor : 0..AgeCap, cut : BOOLEAN]
  <2>1. CASE ~(ready /\ inhibited # on)
    <3>1. UNCHANGED <<k1, bank, wire>>
      BY <1>2, <2>1 DEF SetOutputsInhibited
    <3>2. NoneToDrive' /\ InhibitIsKnown' /\ HeldOff'
      BY <1>1, <1>3, <2>1, <3>1, InvBasics DEF NoneToDrive, InhibitIsKnown, HeldOff
    <3> QED BY <3>1, <3>2, InvBasics
  <2>2. CASE ready /\ inhibited # on
    <3> DEFINE b == Bank!SetInhibited(bank, on)
    <3>1. k1' = (IF on /\ K1Present THEN K1!Cancel(k1) ELSE k1) /\ bank' = b /\ Watch(bank', TRUE)
      BY <1>2, <2>2 DEF SetOutputsInhibited
    <3>2. b \in Bank!Bank /\ b.inhibited = on /\ UsersOnly(b) /\ (on => b.actual = {})
      BY <2>2, InvBasics, InhibitedBank
    <3>3. K1P!Sound(k1') /\ (K1Present \/ ~K1!Busy(k1')) /\ (on => ~K1!Busy(k1'))
      <4>1. K1P!Sound(K1!Cancel(k1)) /\ ~K1!Busy(K1!Cancel(k1))
        BY InvBasics, CancelledDriver
      <4> QED BY <3>1, <4>1, InvBasics
    <3> HIDE DEF b
    <3>4. NoneToDrive' /\ InhibitIsKnown' /\ HeldOff'
      BY <1>1, <1>3, <3>1, <3>2, <3>3 DEF NoneToDrive, InhibitIsKnown, HeldOff
    <3>5. wire' \in [offFor : 0..AgeCap, stillFor : 0..AgeCap, cut : BOOLEAN]
      BY <3>1, InvBasics, TypeBounds DEF Watch
    <3> QED BY <3>1, <3>2, <3>3, <3>4, <3>5
  <2> QED BY <2>1, <2>2
<1>5. TypeOK'
  BY <1>1, <1>3, <1>4, InvBasics, SoundDriver DEF TypeOK, Place
<1>6. ByteFollowsDriver' /\ LatchIsCurrent' /\ LossIsRepaired' /\ WriteIsKept' /\ LossIsTimed'
  BY <1>1 DEF IInv, ByteFollowsDriver, LatchIsCurrent, LossIsRepaired, WriteIsKept, LossIsTimed
<1> QED BY <1>4, <1>5, <1>6 DEF IInv, OutputsAreRight

\* Time passes between two passes of the loop.
LEMMA ElapseRight == IInv /\ Elapse => IInv'
<1> SUFFICES ASSUME IInv, Elapse PROVE IInv'
  OBVIOUS
<1>1. PICK d \in Steps :
        LET slow == sinceSlow + d >= SlowPeriod IN
        /\ at' = IF slow THEN "core" ELSE "net"
        /\ sinceSlow' = IF slow THEN 0 ELSE sinceSlow + d
        /\ bank' = Bank!Aged(bank, d)
        /\ k1' = K1!Aged(k1, d)
        /\ seize' = Seizer!Aged(seize, d)
        /\ port' = [port EXCEPT !.sinceWrite = Older(@, d, Reassert)]
        /\ wire' = [offFor |-> Older(wire.offFor, d, AgeCap),
                    stillFor |-> Older(wire.stillFor, d, AgeCap),
                    cut |-> wire.cut /\ (inhibited \/ ~Settled(d))]
        /\ astray' = IF port.latch # Byte(bank) /\ ~failed
                       THEN Older(astray, d, MaxAstray) ELSE 0
  BY DEF Elapse
<1>2. UNCHANGED <<settings, ready, inhibited, failed, lost>>
  BY DEF Elapse
<1>3. d \in Nat /\ d <= MaxGap
  BY HwRuntimeAssumption, TypeBounds DEF HwRuntimeAssumption
<1>4. at' \in {"core", "net"} /\ sinceSlow' \in 0..SlowPeriod
  BY <1>1, <1>3, InvBasics, TypeBounds
<1>5. /\ bank' \in Bank!Bank /\ bank'.inhibited = bank.inhibited
      /\ UsersOnly(bank') /\ bank'.actual = bank.actual
  BY <1>1, <1>3, InvBasics, AgedBank
<1>6. K1P!Sound(k1') /\ K1!Busy(k1') = K1!Busy(k1)
  BY <1>1, <1>3, InvBasics, AgedDriver
<1>7. seize' \in Seizer!Seize
  BY <1>1, <1>3, InvBasics, AgedSeize
<1>8. port' \in Port /\ port' = [port EXCEPT !.sinceWrite = Older(port.sinceWrite, d, Reassert)]
  BY <1>1, <1>3, InvBasics, TypeBounds DEF Port, Older
<1>9. wire' \in [offFor : 0..AgeCap, stillFor : 0..AgeCap, cut : BOOLEAN]
  <2>1. wire.offFor \in 0..AgeCap /\ wire.stillFor \in 0..AgeCap
    BY InvBasics
  <2>2. Older(wire.offFor, d, AgeCap) \in 0..AgeCap /\ Older(wire.stillFor, d, AgeCap) \in 0..AgeCap
    BY <1>3, <2>1, TypeBounds DEF Older
  <2>3. (wire.cut /\ (inhibited \/ ~Settled(d))) \in BOOLEAN
    OBVIOUS
  <2> QED BY <1>1, <2>2, <2>3
<1>10. astray' \in 0..MaxAstray /\ astray' <= astray + d
  BY <1>1, <1>3, InvBasics, TypeBounds DEF Older
<1>11. TypeOK'
  BY <1>2, <1>4, <1>5, <1>6, <1>7, <1>8, <1>9, <1>10, InvBasics, SoundDriver DEF TypeOK, Place
<1>12. HeldOff' /\ ByteFollowsDriver' /\ LatchIsCurrent' /\ LossIsRepaired'
  BY <1>2, <1>4, <1>5, <1>6, InvBasics
     DEF HeldOff, ByteFollowsDriver, LatchIsCurrent, LossIsRepaired
<1>13. NoneToDrive' /\ InhibitIsKnown' /\ WriteIsKept'
  BY <1>2, <1>5, <1>6, <1>8, InvBasics DEF IInv, NoneToDrive, InhibitIsKnown, WriteIsKept, Port
<1>14. LossIsTimed'
  <2> SUFFICES ASSUME port'.sinceWrite < Reassert PROVE astray' <= port'.sinceWrite
    BY DEF LossIsTimed
  <2>1. /\ port.sinceWrite \in Nat /\ astray \in Nat
        /\ port'.sinceWrite = Older(port.sinceWrite, d, Reassert)
    BY <1>8, InvBasics, TypeBounds DEF Port
  <2>2. port'.sinceWrite = port.sinceWrite + d /\ port.sinceWrite < Reassert
    BY <1>3, <2>1, TypeBounds DEF Older
  <2>3. astray <= port.sinceWrite
    BY <2>2 DEF IInv, LossIsTimed
  <2> QED BY <1>3, <1>10, <2>1, <2>2, <2>3, TypeBounds
<1> QED BY <1>5, <1>6, <1>11, <1>12, <1>13, <1>14 DEF IInv, OutputsAreRight

-----------------------------------------------------------------------------
(* The theorems.                                                           *)

\* Every step keeps the invariant.
LEMMA StepRight == IInv /\ [Next]_vars => IInv'
<1> SUFFICES ASSUME IInv, [Next]_vars PROVE IInv'
  OBVIOUS
<1>1. CASE Loop
  BY <1>1, CoreTickRight, HwTickRight, CtlTickRight, NetFastTickRight, HwFastTickRight,
     ElapseRight DEF Loop
<1>2. CASE Reboot
  BY <1>2, RebootRight
<1>3. CASE BrownOut
  BY <1>3, BrownOutRight
<1>4. CASE NewDay
  BY <1>4, NewDayRight
<1>5. CASE UNCHANGED vars
  <2>1. /\ bank' = bank /\ k1' = k1 /\ seize' = seize /\ settings' = settings /\ ready' = ready
        /\ inhibited' = inhibited /\ port' = port /\ at' = at /\ sinceSlow' = sinceSlow
        /\ wire' = wire /\ failed' = failed /\ astray' = astray /\ lost' = lost
    BY <1>5 DEF vars
  <2>2. OutputsAreRight' /\ LossIsRepaired'
    BY <2>1 DEF IInv, OutputsAreRight, TypeOK, HeldOff, ByteFollowsDriver, LatchIsCurrent,
       LossIsRepaired, Byte
  <2>3. /\ K1P!Sound(k1') /\ UsersOnly(bank')
        /\ NoneToDrive' /\ InhibitIsKnown' /\ WriteIsKept' /\ LossIsTimed'
    BY <2>1 DEF IInv, NoneToDrive, InhibitIsKnown, WriteIsKept, LossIsTimed
  <2> QED BY <2>2, <2>3 DEF IInv
<1> QED BY <1>1, <1>2, <1>3, <1>4, <1>5 DEF Next

\* It holds throughout.
LEMMA AlwaysRight == Spec => []IInv
<1>1. Init => IInv
  BY InitRight
<1>2. IInv /\ [Next]_vars => IInv'
  BY StepRight
<1> QED BY <1>1, <1>2, PTL DEF Spec

\* HwRuntime.h: between two passes the outputs are what the parts want: all OFF with nothing
\* that could resume while an update holds them off, else driven as K1Driver says; and what
\* was last written is in the latch of the expander.
THEOREM OutputsStayRight == Spec => []OutputsAreRight
<1>1. IInv => OutputsAreRight
  BY DEF IInv
<1> QED BY <1>1, AlwaysRight, PTL

\* RELAY_REASSERT_MS: what the expander has lost unnoticed is put right within a period.
THEOREM LossesAreRepaired == Spec => []LossIsRepaired
<1>1. IInv => LossIsRepaired
  BY DEF IInv
<1> QED BY <1>1, AlwaysRight, PTL

-----------------------------------------------------------------------------
(* Strokes and exercises.                                                  *)

\* The driver and the byte go together, unless a hold-off has cut in: power that the driver
\* has taken off is still in the byte only within the pass, and the byte has kept every
\* pause that the driver has, or a dead time.
WiredTo(k, byte, offFor, stillFor) ==
  /\ PowerCh \in byte /\ ~k.power => k.sinceOff = 0
  /\ k.power => PowerCh \in byte
  /\ PowerCh \notin byte => k.sinceOff <= offFor \/ DeadTime <= offFor
  /\ (DirCh \in byte) = k.dirOpen
  /\ k.sinceDir <= stillFor \/ DeadTime <= stillFor

Wired(k) == wire.cut \/ WiredTo(k, bank.actual, wire.offFor, wire.stillFor)

\* What a request or a cancel does to the contacts.
Eased(k, l) == K1P!SameWiring(k, l) \/ K1P!SwitchedOff(k, l)

\* A stroke belongs to a run, and so does every exercise slot.
SeizedBy(s) == {i \in s.running : Seizer!Kind(i) # "ValveStroke"}
Owned(w) == /\ Stroking(w.k1) => \E i \in w.seize.running : Seizer!Kind(i) = "ValveStroke"
            /\ {c \in Channel : w.bank.exercise[c] # "unset"}
                 = {Seizer!Ch(i) : i \in SeizedBy(w.seize)}
            /\ w.bank.actual = bank.actual
            /\ Wired(w.k1)

\* A stroke that goes on is of a valve whose pump is off.
Yields(w, i) == i \in w.seize.running /\ Seizer!Kind(i) = "ValveStroke" => ~Seizer!BlockerOn(i, w)

\* Each channel is exercised by one output.
OneOutputEach == \A i, j \in Seizer!Out :
  /\ Seizer!Kind(i) # "ValveStroke" /\ Seizer!Kind(j) # "ValveStroke"
  /\ Seizer!Ch(i) = Seizer!Ch(j)
  => i = j

\* A request or a cancel leaves driver and byte together.
LEMMA EasedWired ==
  ASSUME NEW k, K1P!Sound(k), NEW l, Eased(k, l), Wired(k)
  PROVE  Wired(l)
BY DEF Eased, K1P!SameWiring, K1P!SwitchedOff, Wired, WiredTo

\* It is one driver, for its owner too.
LEMMA OneOwner ==
  ASSUME NEW k
  PROVE  /\ Seizer!K1!OwnerOf(k) = K1!OwnerOf(k) /\ Seizer!K1!Busy(k) = K1!Busy(k)
         /\ \A d : Seizer!K1!Accepted(d) = K1!Accepted(d)
BY DEF Seizer!K1!OwnerOf, K1!OwnerOf, Seizer!K1!Busy, K1!Busy, Seizer!K1!Accepted, K1!Accepted

\* A driver at rest makes no stroke.
LEMMA IdleOwner ==
  ASSUME NEW k, ~K1!Busy(k)
  PROVE  ~Stroking(k)
BY DEF K1!Busy, Stroking, K1!OwnerOf

\* A cancel ends the stroke.
LEMMA CancelledOwner ==
  ASSUME NEW k, K1P!Sound(k)
  PROVE  Eased(k, K1!Cancel(k)) /\ ~Stroking(K1!Cancel(k))
<1>1. K1P!SameWiring(k, K1P!Cancel(k)) \/ K1P!SwitchedOff(k, K1P!Cancel(k))
  BY K1P!CancelSound, Assumptions
<1>2. K1P!Cancel(k) = K1!Cancel(k)
  BY OneDriver, Zenon
<1>3. ~Stroking(K1!Cancel(k))
  BY CancelledDriver, IdleOwner
<1> QED BY <1>1, <1>2, <1>3 DEF Eased

\* A request of the controller begins no stroke.
LEMMA AskedOwner ==
  ASSUME NEW k, K1P!Sound(k), NEW dir \in {"close", "open"}, NEW dur \in Nat,
         NEW own \in {"Control", "AntiSeize"}
  PROVE  LET l == K1!RequestPulse(k, dir, dur, own)
         IN /\ Eased(k, l)
            /\ own = "Control" /\ Stroking(l) => Stroking(k)
<1> DEFINE l == K1!RequestPulse(k, dir, dur, own)
<1>1. dir \in K1P!Dir /\ own \in K1P!Owner
  BY DEF K1P!Dir, K1P!Owner
<1>2. Eased(k, K1P!RequestPulse(k, dir, dur, own))
  BY <1>1, K1P!RequestPulseSound, Assumptions DEF Eased
<1>3. K1P!RequestPulse(k, dir, dur, own) = l
  BY OneDriver, Zenon
<1>4. ASSUME own = "Control", l # k
      PROVE  K1!OwnerOf(l) = "Control"
  <2>1. CASE k.running /\ k.runDir = dir
    <3>1. l = [k EXCEPT !.left = dur, !.owner = own]
      BY <1>4, <2>1 DEF K1!RequestPulse, K1!Extend
    <3> QED BY <1>4, <2>1, <3>1 DEF K1!OwnerOf, K1P!Sound, K1P!Driver
  <2>2. CASE ~(k.running /\ k.runDir = dir)
    <3> DEFINE m == IF k.running THEN K1!StopRun(k) ELSE k
    <3>1. l = [m EXCEPT !.pending = TRUE, !.pendDir = dir, !.pendDur = dur, !.pendOwner = own]
      BY <1>4, <2>2, Zenon DEF K1!RequestPulse, K1!Pend
    <3>2. m \in K1!Driver /\ ~m.running
      <4>1. CASE k.running
        <5>1. K1P!Sound(K1P!StopRun(k)) /\ ~K1P!StopRun(k).running
          BY <4>1, K1P!StopRunSound, Assumptions
        <5>2. K1P!StopRun(k) = K1!StopRun(k)
          BY DEF K1P!StopRun, K1!StopRun
        <5> QED BY <4>1, <5>1, <5>2, SoundDriver
      <4>2. CASE ~k.running
        BY <4>2, SoundDriver
      <4> QED BY <4>1, <4>2
    <3> HIDE DEF m
    <3>3. l.running = m.running /\ l.pending = TRUE /\ l.pendOwner = own
      BY <3>1, <3>2 DEF K1!Driver
    <3> QED BY <1>4, <3>2, <3>3 DEF K1!OwnerOf
  <2> QED BY <2>1, <2>2
<1> QED BY <1>2, <1>3, <1>4 DEF Stroking

\* Taking the motion changes nothing of it.
LEMMA TakenOwner ==
  ASSUME NEW k, K1P!Sound(k)
  PROVE  Eased(k, K1!TakeMotion(k)) /\ Stroking(K1!TakeMotion(k)) = Stroking(k)
<1>1. K1P!SameWiring(k, K1P!TakeMotion(k))
  BY K1P!TakeMotionSound, Assumptions
<1>2. K1P!TakeMotion(k) = K1!TakeMotion(k)
  BY OneDriver, Zenon
<1>3. Stroking(K1!TakeMotion(k)) = Stroking(k)
  BY DEF Stroking, K1!OwnerOf, K1!TakeMotion, K1P!Sound, K1P!Driver
<1> QED BY <1>1, <1>2, <1>3 DEF Eased

\* A tick of the driver is a step of the interlock, and begins no stroke.
LEMMA TickedOwner ==
  ASSUME NEW k, K1P!Sound(k)
  PROVE  K1P!Step(k, K1!Tick(k)) /\ (Stroking(K1!Tick(k)) => Stroking(k))
<1>1. K1P!Step(k, K1P!Tick(k)) /\ K1P!Tick(k) = K1!Tick(k)
  BY K1P!TickSound, OneDriver, Assumptions
<1> DEFINE m == K1!EndRun(k)
<1>2. m \in K1!Driver /\ (Stroking(m) => Stroking(k))
  <2>1. K1P!EndRun(k) = K1!EndRun(k)
    BY DEF K1P!EndRun, K1!EndRun, K1P!StopRun, K1!StopRun
  <2>2. m \in K1!Driver
    BY <2>1, K1P!EndRunSound, SoundDriver, Assumptions
  <2>3. CASE k.running /\ k.left <= 0
    <3>1. m.running = FALSE /\ m.pending = k.pending
      BY <2>3 DEF K1!EndRun, K1!StopRun, K1P!Sound, K1P!Driver
    <3> QED BY <2>2, <2>3, <3>1 DEF Stroking, K1!OwnerOf, K1P!Sound
  <2>4. CASE ~(k.running /\ k.left <= 0)
    <3>1. m = k \/ m = [k EXCEPT !.sinceMove = 0]
      BY <2>4 DEF K1!EndRun
    <3> QED BY <2>2, <3>1 DEF Stroking, K1!OwnerOf, K1P!Sound, K1P!Driver
  <2> QED BY <2>2, <2>3, <2>4
<1>3. K1!Tick(k) = K1!Advance(m)
  BY DEF K1!Tick
<1> HIDE DEF m
<1>4. Stroking(K1!Advance(m)) => Stroking(m)
  <2>1. \/ K1!Advance(m) = m \/ K1!Advance(m) = K1!Turn(m)
        \/ ~m.running /\ m.pending /\ K1!Advance(m) = K1!Start(m)
    BY DEF K1!Advance
  <2>2. Stroking(K1!Turn(m)) = Stroking(m)
    BY <1>2 DEF Stroking, K1!OwnerOf, K1!Turn, K1!Driver
  <2>3. K1!Start(m).running = TRUE /\ K1!Start(m).owner = m.pendOwner
    BY <1>2 DEF K1!Start, K1!Drop, K1!Driver
  <2>4. ~m.running /\ m.pending => K1!OwnerOf(m) = m.pendOwner
    BY DEF K1!OwnerOf
  <2>5. K1!OwnerOf(K1!Start(m)) = m.pendOwner
    BY <2>3 DEF K1!OwnerOf
  <2> QED BY <2>1, <2>2, <2>4, <2>5 DEF Stroking
<1> QED BY <1>1, <1>2, <1>3, <1>4

\* Each step of a run keeps its slot and its stroke.
LEMMA ReleaseSlots ==
  ASSUME OneOutputEach, NEW b \in Bank!Bank, NEW s \in Seizer!Seize, NEW i \in SeizedBy(s),
         {c \in Channel : b.exercise[c] # "unset"} = {Seizer!Ch(j) : j \in SeizedBy(s)}
  PROVE  LET e == Seizer!Bank!SetExercise(b, Seizer!Ch(i), "unset")
         IN {c \in Channel : e.exercise[c] # "unset"}
              = {Seizer!Ch(j) : j \in SeizedBy(Seizer!Stopped(s, i))}
<1> DEFINE e == Seizer!Bank!SetExercise(b, Seizer!Ch(i), "unset")
<1>1. i \in Seizer!Out /\ SeizedBy(s) \subseteq Seizer!Out
  BY DEF SeizedBy, Seizer!Seize
<1>2. Seizer!Stopped(s, i).running = s.running \ {i}
  BY DEF Seizer!Stopped, Seizer!Seize
<1>3. SeizedBy(Seizer!Stopped(s, i)) = SeizedBy(s) \ {i}
  BY <1>2 DEF SeizedBy
<1>4. \A j \in SeizedBy(s) \ {i} : Seizer!Ch(j) # Seizer!Ch(i)
  BY <1>1 DEF OneOutputEach, SeizedBy
<1>5. Seizer!Ch(i) \in Channel
  BY <1>1, ChannelKnown
<1>6. e.exercise = [b.exercise EXCEPT ![Seizer!Ch(i)] = "unset"]
  BY DEF Seizer!Bank!SetExercise, Bank!Bank
<1>7. b.exercise \in [Channel -> Bank!Request]
  BY DEF Bank!Bank
<1> HIDE DEF e
<1>8. {c \in Channel : e.exercise[c] # "unset"}
        = {c \in Channel : b.exercise[c] # "unset"} \ {Seizer!Ch(i)}
  BY <1>5, <1>6, <1>7
<1>9. {Seizer!Ch(j) : j \in SeizedBy(s)} \ {Seizer!Ch(i)} = {Seizer!Ch(j) : j \in SeizedBy(s) \ {i}}
  BY <1>4
<1> QED BY <1>3, <1>8, <1>9 DEF e

\* A run that begins takes its slot.
LEMMA StartSlots ==
  ASSUME NEW b \in Bank!Bank, NEW i \in Seizer!Out, Seizer!Kind(i) # "ValveStroke",
         NEW r \in {"off", "on"}, NEW t, NEW s, t.running = s.running \cup {i},
         {c \in Channel : b.exercise[c] # "unset"} = {Seizer!Ch(j) : j \in SeizedBy(s)}
  PROVE  LET e == Seizer!Bank!SetExercise(b, Seizer!Ch(i), r)
         IN {c \in Channel : e.exercise[c] # "unset"} = {Seizer!Ch(j) : j \in SeizedBy(t)}
<1> DEFINE e == Seizer!Bank!SetExercise(b, Seizer!Ch(i), r)
<1>1. SeizedBy(t) = SeizedBy(s) \cup {i}
  BY DEF SeizedBy
<1>2. Seizer!Ch(i) \in Channel
  BY ChannelKnown
<1>3. e.exercise = [b.exercise EXCEPT ![Seizer!Ch(i)] = r]
  BY DEF Seizer!Bank!SetExercise, Bank!Bank
<1>4. b.exercise \in [Channel -> Bank!Request]
  BY DEF Bank!Bank
<1> HIDE DEF e
<1>5. {c \in Channel : e.exercise[c] # "unset"}
        = {c \in Channel : b.exercise[c] # "unset"} \cup {Seizer!Ch(i)}
  BY <1>2, <1>3, <1>4
<1> QED BY <1>1, <1>5 DEF e

\* A relay run that goes on, or ends, leaves every slot with its run.
LEMMA RelayKeeps ==
  ASSUME OneOutputEach, NEW w, Fit(w), Owned(w), NEW i \in w.seize.running,
         Seizer!Kind(i) # "ValveStroke"
  PROVE  LET v == Seizer!AdvanceRelay(w, i)
         IN Owned(v) /\ v.seize.running \subseteq w.seize.running
<1> DEFINE s == w.seize
           b == Seizer!Bank!SetExercise(w.bank, Seizer!Ch(i), "unset")
           v == Seizer!AdvanceRelay(w, i)
<1>1. s \in Seizer!Seize /\ w.bank \in Bank!Bank /\ i \in SeizedBy(s) /\ i \in Seizer!Out
  BY DEF Fit, SeizedBy, Seizer!Seize
<1>2. CASE Seizer!Over(w, i)
  <2>1. v = [w EXCEPT !.bank = b, !.seize = Seizer!Stopped(s, i)]
    BY <1>2, Zenon DEF Seizer!AdvanceRelay, Seizer!Release
  <2>2. b.actual = w.bank.actual
    BY <1>1 DEF Seizer!Bank!SetExercise, Bank!Bank
  <2>3. {c \in Channel : b.exercise[c] # "unset"}
          = {Seizer!Ch(j) : j \in SeizedBy(Seizer!Stopped(s, i))}
    BY <1>1, ReleaseSlots DEF Owned
  <2>4. Seizer!Stopped(s, i).running = s.running \ {i}
    BY <1>1 DEF Seizer!Stopped, Seizer!Seize
  <2> HIDE DEF b, v
  <2>5. v.bank = b /\ v.seize = Seizer!Stopped(s, i) /\ v.k1 = w.k1
    BY <2>1 DEF Fit
  <2>6. Stroking(v.k1) => \E j \in v.seize.running : Seizer!Kind(j) = "ValveStroke"
    BY <2>4, <2>5 DEF Owned
  <2>7. {c \in Channel : v.bank.exercise[c] # "unset"} = {Seizer!Ch(j) : j \in SeizedBy(v.seize)}
    BY <2>3, <2>5
  <2> QED BY <2>2, <2>4, <2>5, <2>6, <2>7 DEF Owned, v
<1>3. CASE ~Seizer!Over(w, i) /\ s.phase[i] = "WaitOn" /\ Seizer!Reached(w, i)
  <2>1. v = [w EXCEPT !.seize.phase[i] = "Hold", !.seize.heldFor[i] = 0]
    BY <1>3, Zenon DEF Seizer!AdvanceRelay
  <2> HIDE DEF v
  <2>2. v.bank = w.bank /\ v.k1 = w.k1 /\ v.seize.running = w.seize.running
    BY <2>1 DEF Fit, Seizer!Seize
  <2> QED BY <2>2 DEF Owned, SeizedBy, v
<1>4. CASE ~Seizer!Over(w, i) /\ ~(s.phase[i] = "WaitOn" /\ Seizer!Reached(w, i))
  BY <1>4 DEF Seizer!AdvanceRelay
<1> QED BY <1>2, <1>3, <1>4

\* A valve run that goes on, or ends, leaves no stroke behind, and yields to its pump.
LEMMA StrokeKeeps ==
  ASSUME NEW w, Fit(w), Owned(w), NEW i \in w.seize.running, Seizer!Kind(i) = "ValveStroke"
  PROVE  LET v == Seizer!AdvanceStroke(w, i)
         IN Owned(v) /\ v.seize.running \subseteq w.seize.running /\ Yields(v, i)
<1> DEFINE s == w.seize
           v == Seizer!AdvanceStroke(w, i)
           letGo == [w EXCEPT !.seize = Seizer!Stopped(s, i)]
           busy == Seizer!K1!Busy(w.k1)
           ours == Seizer!K1!OwnerOf(w.k1) = "AntiSeize"
           blocked == i \notin s.enabled \/ Seizer!BlockerOn(i, w) \/ Seizer!SafetyActive(i, w)
<1>1. s \in Seizer!Seize /\ i \in Seizer!Out /\ K1P!Sound(w.k1)
  BY DEF Fit, Seizer!Seize
<1>2. Seizer!Stopped(s, i).running = s.running \ {i}
  BY <1>1 DEF Seizer!Stopped, Seizer!Seize
<1>3. SeizedBy(Seizer!Stopped(s, i)) = SeizedBy(s)
  BY <1>2 DEF SeizedBy
<1>4. \/ v = letGo /\ ~Stroking(w.k1)
      \/ v = [letGo EXCEPT !.k1 = Seizer!K1!Cancel(@)]
      \/ v = w /\ ~blocked
      \/ ~blocked /\ v = [w EXCEPT !.k1 = Seizer!K1!RequestPulse(@, "close", s.stroke, "AntiSeize"),
                                   !.seize.phase[i] = "K1Close"]
  <2>1. Stroking(w.k1) = ours
    BY OneOwner DEF Stroking
  <2>2. ~busy => ~Stroking(w.k1)
    BY OneOwner, IdleOwner
  <2> QED BY <2>1, <2>2 DEF Seizer!AdvanceStroke
<1>5. CASE v = letGo /\ ~Stroking(w.k1)
  <2> HIDE DEF v
  <2>1. v.bank = w.bank /\ v.k1 = w.k1 /\ v.seize = Seizer!Stopped(s, i)
    BY <1>5 DEF Fit
  <2> QED BY <1>2, <1>3, <1>5, <2>1 DEF Owned, Yields, v
<1>6. CASE v = [letGo EXCEPT !.k1 = Seizer!K1!Cancel(@)]
  <2> HIDE DEF v
  <2>1. v.bank = w.bank /\ v.k1 = Seizer!K1!Cancel(w.k1) /\ v.seize = Seizer!Stopped(s, i)
    BY <1>6 DEF Fit
  <2>2. v.k1 = K1!Cancel(w.k1)
    BY <2>1, OneDriver
  <2>3. ~Stroking(v.k1) /\ Wired(v.k1)
    BY <1>1, <2>2, CancelledOwner, EasedWired DEF Owned
  <2> QED BY <1>2, <1>3, <2>1, <2>3 DEF Owned, Yields, v
<1>7. CASE v = w /\ ~blocked
  <2> HIDE DEF v
  <2> QED BY <1>7 DEF Yields, v
<1>8. CASE ~blocked /\ v = [w EXCEPT !.k1 = Seizer!K1!RequestPulse(@, "close", s.stroke, "AntiSeize"),
                                   !.seize.phase[i] = "K1Close"]
  <2> HIDE DEF v
  <2>1. /\ v.bank = w.bank /\ v.k1 = Seizer!K1!RequestPulse(w.k1, "close", s.stroke, "AntiSeize")
        /\ v.seize.running = s.running
    BY <1>8 DEF Fit, Seizer!Seize
  <2>2. v.k1 = K1!RequestPulse(w.k1, "close", s.stroke, "AntiSeize")
    <3>1. \A k, dir, dur, own :
            Seizer!K1!RequestPulse(k, dir, dur, own) = K1!RequestPulse(k, dir, dur, own)
      BY OneDriver, Zenon
    <3> QED BY <2>1, <3>1
  <2>3. s.stroke \in Nat
    BY <1>1, Assumptions DEF Seizer!Seize, Seizer!AntiSeizeAssumption
  <2>4. Wired(v.k1)
    BY <1>1, <2>2, <2>3, AskedOwner, EasedWired DEF Owned
  <2>5. SeizedBy(v.seize) = SeizedBy(s)
    BY <2>1 DEF SeizedBy
  <2>6. ~Seizer!BlockerOn(i, v)
    BY <1>8, <2>1 DEF Seizer!BlockerOn
  <2> QED BY <2>1, <2>4, <2>5, <2>6 DEF Owned, Yields, v
<1> QED BY <1>4, <1>5, <1>6, <1>7, <1>8

\* So does each start, which is of a valve whose pump is off.
LEMMA RelayStartKeeps ==
  ASSUME NEW w, Fit(w), Owned(w), NEW i \in Seizer!Out, Seizer!Kind(i) # "ValveStroke"
  PROVE  LET v == Seizer!StartRelay(w, i)
         IN Owned(v) /\ v.seize.running = w.seize.running \cup {i}
<1> DEFINE s == w.seize
           on == Seizer!Kind(i) = "Pump" \/ ~Seizer!IsOn(w, i)
           b == Seizer!Bank!SetExercise(w.bank, Seizer!Ch(i), IF on THEN "on" ELSE "off")
           v == Seizer!StartRelay(w, i)
<1>1. s \in Seizer!Seize /\ w.bank \in Bank!Bank
  BY DEF Fit
<1>2. v = [Seizer!Run(w, i, "WaitOn") EXCEPT
             !.bank = Seizer!Bank!SetExercise(@, Seizer!Ch(i), IF on THEN "on" ELSE "off"),
             !.seize.target[i] = on]
  BY Zenon DEF Seizer!StartRelay
<1> HIDE DEF on, v
<1>3. v.bank = b /\ v.k1 = w.k1 /\ v.seize.running = s.running \cup {i}
  BY <1>2 DEF Seizer!Run, Fit, Seizer!Seize
<1>4. b.actual = w.bank.actual
  BY <1>1 DEF Seizer!Bank!SetExercise, Bank!Bank
<1> DEFINE r == IF on THEN "on" ELSE "off"
<1>5. r \in {"off", "on"}
  OBVIOUS
<1>6. {c \in Channel : b.exercise[c] # "unset"} = {Seizer!Ch(j) : j \in SeizedBy(v.seize)}
  <2>1. {c \in Channel : w.bank.exercise[c] # "unset"} = {Seizer!Ch(j) : j \in SeizedBy(s)}
    BY DEF Owned
  <2> DEFINE t == v.seize
  <2>2. t.running = s.running \cup {i}
    BY <1>3
  <2> HIDE DEF s, r, t
  <2>3. LET e == Seizer!Bank!SetExercise(w.bank, Seizer!Ch(i), r)
        IN {c \in Channel : e.exercise[c] # "unset"} = {Seizer!Ch(j) : j \in SeizedBy(t)}
    BY <1>1, <1>5, <2>1, <2>2, StartSlots
  <2> QED BY <2>3 DEF r, t
<1> HIDE DEF b
<1>7. Owned(v)
  BY <1>3, <1>4, <1>6 DEF Owned
<1> QED BY <1>3, <1>7 DEF v

\* A stroke that begins has its run.
LEMMA StrokeStartKeeps ==
  ASSUME NEW w, Fit(w), Owned(w), NEW i \in Seizer!Out, Seizer!Kind(i) = "ValveStroke"
  PROVE  LET v == Seizer!StartStroke(w, i)
         IN /\ Owned(v) /\ v.bank = w.bank
            /\ v.seize.running = w.seize.running \/ v.seize.running = w.seize.running \cup {i}
<1> DEFINE s == w.seize
           v == Seizer!StartStroke(w, i)
<1>1. s \in Seizer!Seize /\ K1P!Sound(w.k1)
  BY DEF Fit
<1>2. CASE Seizer!K1!Accepted(s.stroke)
  <2>1. v = [Seizer!Run(w, i, "K1Open") EXCEPT
               !.k1 = Seizer!K1!RequestPulse(@, "open", s.stroke, "AntiSeize")]
    BY <1>2, Zenon DEF Seizer!StartStroke
  <2> HIDE DEF v
  <2>2. /\ v.bank = w.bank /\ v.k1 = Seizer!K1!RequestPulse(w.k1, "open", s.stroke, "AntiSeize")
        /\ v.seize.running = s.running \cup {i}
    BY <2>1 DEF Seizer!Run, Fit, Seizer!Seize
  <2>3. v.k1 = K1!RequestPulse(w.k1, "open", s.stroke, "AntiSeize")
    <3>1. \A k, dir, dur, own :
            Seizer!K1!RequestPulse(k, dir, dur, own) = K1!RequestPulse(k, dir, dur, own)
      BY OneDriver, Zenon
    <3> QED BY <2>2, <3>1
  <2>4. s.stroke \in Nat
    BY <1>1, Assumptions DEF Seizer!Seize, Seizer!AntiSeizeAssumption
  <2>5. Wired(v.k1)
    BY <1>1, <2>3, <2>4, AskedOwner, EasedWired DEF Owned
  <2>6. SeizedBy(v.seize) = SeizedBy(s)
    BY <2>2 DEF SeizedBy
  <2>7. Owned(v)
    BY <2>2, <2>5, <2>6 DEF Owned
  <2> QED BY <2>2, <2>7 DEF v
<1>3. CASE ~Seizer!K1!Accepted(s.stroke)
  <2>1. v = [w EXCEPT !.seize.pending = @ \ {i}]
    BY <1>3, Zenon DEF Seizer!StartStroke
  <2> HIDE DEF v
  <2>2. v.bank = w.bank /\ v.k1 = w.k1 /\ v.seize.running = s.running
    BY <2>1 DEF Fit, Seizer!Seize
  <2>3. Owned(v)
    BY <2>2 DEF Owned, SeizedBy
  <2> QED BY <2>2, <2>3 DEF v
<1> QED BY <1>2, <1>3

\* One step of either walk: outputs that yield go on yielding.
LEMMA AdvanceKeeps ==
  ASSUME OneOutputEach, NEW w, Fit(w), Owned(w), NEW i \in Seizer!Out
  PROVE  LET v == Seizer!AdvanceRun(w, i)
         IN Owned(v) /\ Yields(v, i) /\ \A j \in Seizer!Out : Yields(w, j) => Yields(v, j)
<1> DEFINE v == Seizer!AdvanceRun(w, i)
<1>1. CASE i \notin w.seize.running
  BY <1>1 DEF Seizer!AdvanceRun, Yields
<1>2. CASE i \in w.seize.running /\ Seizer!Kind(i) = "ValveStroke"
  <2>1. v = Seizer!AdvanceStroke(w, i)
    BY <1>2 DEF Seizer!AdvanceRun
  <2>2. Owned(v) /\ v.seize.running \subseteq w.seize.running /\ Yields(v, i)
    BY <1>2, <2>1, StrokeKeeps
  <2> HIDE DEF v
  <2>3. v.bank.actual = w.bank.actual
    BY <2>2 DEF Owned
  <2>4. \A j \in Seizer!Out : Yields(w, j) => Yields(v, j)
    BY <2>2, <2>3 DEF Yields, Seizer!BlockerOn
  <2> QED BY <2>2, <2>4 DEF v
<1>3. CASE i \in w.seize.running /\ Seizer!Kind(i) # "ValveStroke"
  <2>1. v = Seizer!AdvanceRelay(w, i)
    BY <1>3 DEF Seizer!AdvanceRun
  <2>2. Owned(v) /\ v.seize.running \subseteq w.seize.running
    BY <1>3, <2>1, RelayKeeps
  <2> HIDE DEF v
  <2>3. v.bank.actual = w.bank.actual
    BY <2>2 DEF Owned
  <2>4. \A j \in Seizer!Out : Yields(w, j) => Yields(v, j)
    BY <2>2, <2>3 DEF Yields, Seizer!BlockerOn
  <2>5. Yields(v, i)
    BY <1>3 DEF Yields
  <2> QED BY <2>2, <2>4, <2>5 DEF v
<1> QED BY <1>1, <1>2, <1>3

\* A pending output starts, if at all, with everything owned, and next to no pump.
LEMMA StartKeeps ==
  ASSUME NEW w, Fit(w), Owned(w), NEW i \in Seizer!Out
  PROVE  LET v == Seizer!StartPending(w, i)
         IN Owned(v) /\ ((\A j \in Seizer!Out : Yields(w, j)) => \A j \in Seizer!Out : Yields(v, j))
<1> DEFINE v == Seizer!StartPending(w, i)
           Idle == i \notin (w.seize.pending \cap w.seize.enabled) \ w.seize.running
                      \/ Seizer!Blocked(w, i)
<1>1. CASE Idle
  BY <1>1 DEF Seizer!StartPending
<1>2. CASE ~Idle
  <2>1. ~Seizer!BlockerOn(i, w)
    BY <1>2 DEF Seizer!Blocked
  <2>2. /\ Owned(v) /\ v.bank.actual = w.bank.actual
        /\ v.seize.running \subseteq w.seize.running \cup {i}
    <3>1. CASE Seizer!Kind(i) = "ValveStroke"
      <4>1. v = Seizer!StartStroke(w, i)
        BY <1>2, <3>1 DEF Seizer!StartPending
      <4> HIDE DEF v
      <4> QED BY <3>1, <4>1, StrokeStartKeeps
    <3>2. CASE Seizer!Kind(i) # "ValveStroke"
      <4>1. v = Seizer!StartRelay(w, i)
        BY <1>2, <3>2 DEF Seizer!StartPending
      <4>2. Owned(v) /\ v.seize.running = w.seize.running \cup {i}
        BY <3>2, <4>1, RelayStartKeeps
      <4> HIDE DEF v
      <4> QED BY <4>2 DEF Owned
    <3> QED BY <3>1, <3>2
  <2> HIDE DEF v
  <2>3. ASSUME \A j \in Seizer!Out : Yields(w, j), NEW j \in Seizer!Out
        PROVE  Yields(v, j)
    BY <2>1, <2>2, <2>3 DEF Yields, Seizer!BlockerOn
  <2> QED BY <2>2, <2>3 DEF v
<1> QED BY <1>1, <1>2

\* A trigger changes no run.
LEMMA TriggeredKeeps ==
  ASSUME NEW w, Fit(w), Owned(w), NEW local
  PROVE  Owned(Seizer!Triggered(w, local))
<1> DEFINE v == Seizer!Triggered(w, local)
<1>1. v.bank = w.bank /\ v.k1 = w.k1 /\ v.seize.running = w.seize.running
  BY DEF Seizer!Triggered, Seizer!Refresh, Seizer!Trigger, Seizer!ClearPending, Fit, Seizer!Seize
<1> HIDE DEF v
<1>2. Owned(v)
  BY <1>1 DEF Owned, SeizedBy
<1> QED BY <1>2 DEF v

\* And so do the two walks, and the tick.
LEMMA AdvancedKeeps ==
  ASSUME OneOutputEach, NEW w, Fit(w), Owned(w)
  PROVE  Owned(Seizer!Advanced(w)) /\ \A j \in Seizer!Out : Yields(Seizer!Advanced(w), j)
<1> DEFINE N == Len(Outputs)
<1>1. N \in Nat
  BY Assumptions DEF Seizer!AntiSeizeAssumption
<1>2. PICK run : /\ Seizer!Advanced(w) = run[N] /\ run[0] = w
                 /\ \A i \in 0..N : Fit(run[i])
                 /\ \A i \in Seizer!Out : run[i] = Seizer!AdvanceRun(run[i - 1], i)
  BY AdvancedWalks
<1> DEFINE S == {n \in Nat : n <= N => Owned(run[n]) /\ \A j \in 1..n : Yields(run[n], j)}
<1>3. 0 \in S
  BY <1>2
<1>4. ASSUME NEW n \in Nat, n \in S PROVE n + 1 \in S
  <2> SUFFICES ASSUME n + 1 <= N
               PROVE  Owned(run[n + 1]) /\ \A j \in 1..(n + 1) : Yields(run[n + 1], j)
    OBVIOUS
  <2>1. Owned(run[n]) /\ (\A j \in 1..n : Yields(run[n], j)) /\ Fit(run[n])
    BY <1>1, <1>2, <1>4
  <2>2. n + 1 \in Seizer!Out /\ (n + 1) - 1 = n /\ 1..n \subseteq Seizer!Out
    BY <1>1 DEF Seizer!Out
  <2>3. run[n + 1] = Seizer!AdvanceRun(run[n], n + 1)
    BY <1>2, <2>2
  <2>4. /\ Owned(run[n + 1]) /\ Yields(run[n + 1], n + 1)
        /\ \A j \in Seizer!Out : Yields(run[n], j) => Yields(run[n + 1], j)
    BY <2>1, <2>2, <2>3, AdvanceKeeps
  <2>5. \A j \in 1..(n + 1) : j \in 1..n \/ j = n + 1
    OBVIOUS
  <2> QED BY <2>1, <2>2, <2>4, <2>5
<1> HIDE DEF S
<1>5. N \in S
  BY <1>1, <1>3, <1>4, Induct
<1> QED BY <1>1, <1>2, <1>5 DEF S, Seizer!Out

\* So does the walk over the pending outputs.
LEMMA StartedKeeps ==
  ASSUME NEW w, Fit(w), Owned(w), \A j \in Seizer!Out : Yields(w, j)
  PROVE  Owned(Seizer!Started(w)) /\ \A j \in Seizer!Out : Yields(Seizer!Started(w), j)
<1> DEFINE N == Len(Outputs)
<1>1. N \in Nat
  BY Assumptions DEF Seizer!AntiSeizeAssumption
<1>2. PICK run : /\ Seizer!Started(w) = run[N] /\ run[0] = w
                 /\ \A i \in 0..N : Fit(run[i])
                 /\ \A i \in Seizer!Out : run[i] = Seizer!StartPending(run[i - 1], i)
  BY StartedWalks
<1> DEFINE S == {n \in Nat : n <= N => Owned(run[n]) /\ \A j \in Seizer!Out : Yields(run[n], j)}
<1>3. 0 \in S
  BY <1>2
<1>4. ASSUME NEW n \in Nat, n \in S PROVE n + 1 \in S
  <2> SUFFICES ASSUME n + 1 <= N
               PROVE  Owned(run[n + 1]) /\ \A j \in Seizer!Out : Yields(run[n + 1], j)
    OBVIOUS
  <2>1. Owned(run[n]) /\ (\A j \in Seizer!Out : Yields(run[n], j)) /\ Fit(run[n])
    BY <1>1, <1>2, <1>4
  <2>2. n + 1 \in Seizer!Out /\ (n + 1) - 1 = n
    BY <1>1 DEF Seizer!Out
  <2>3. run[n + 1] = Seizer!StartPending(run[n], n + 1)
    BY <1>2, <2>2
  <2> QED BY <2>1, <2>2, <2>3, StartKeeps
<1> HIDE DEF S
<1>5. N \in S
  BY <1>1, <1>3, <1>4, Induct
<1> QED BY <1>1, <1>2, <1>5 DEF S

\* So does the whole tick.
LEMMA TickKeeps ==
  ASSUME OneOutputEach, NEW w, Fit(w), Owned(w), NEW local
  PROVE  LET v == Seizer!Tick(w, local)
         IN Owned(v) /\ \A j \in Seizer!Out : Yields(v, j)
<1> DEFINE t == Seizer!Triggered(w, local)
           a == Seizer!Advanced(t)
<1>1. Fit(t) /\ Owned(t)
  BY TriggeredFits, TriggeredKeeps
<1> HIDE DEF t
<1>2. Fit(a) /\ Owned(a) /\ \A j \in Seizer!Out : Yields(a, j)
  BY <1>1, AdvancedFits, AdvancedKeeps
<1> HIDE DEF a
<1>3. Owned(Seizer!Started(a)) /\ \A j \in Seizer!Out : Yields(Seizer!Started(a), j)
  BY <1>2, StartedKeeps
<1> QED BY <1>3 DEF Seizer!Tick, a, t

\* A fast tick passes on what the driver does to the contacts.
LEMMA FastSlots ==
  ASSUME NEW b \in Bank!Bank, UsersOnly(b), NEW k, k.power \in BOOLEAN, k.dirOpen \in BOOLEAN
  PROVE  TickBank(b, k).exercise = b.exercise
<1>1. ASSUME NEW r \in Bank!Bank PROVE Bank!Update(r).exercise = r.exercise
  BY DEF Bank!Update, Bank!Bank
<1>2. CASE ready /\ K1Present /\ ~inhibited
  <2>1. {PowerCh, DirCh} \subseteq Channel
    BY <1>2, HwRuntimeAssumption DEF HwRuntimeAssumption
  <2>2. Driven(b, k) \in Bank!Bank /\ Driven(b, k).exercise = b.exercise
    <3>1. Driven(b, k) \in Bank!Bank
      BY <2>1, DrivenBank
    <3>2. Driven(b, k).exercise = b.exercise
      BY DEF Driven, Bank!RequestControl, Bank!Bank
    <3> QED BY <3>1, <3>2
  <2>3. TickBank(b, k) = Bank!Update(Driven(b, k))
    BY <1>2 DEF TickBank
  <2> QED BY <1>1, <2>2, <2>3
<1>3. CASE ~(ready /\ K1Present /\ ~inhibited)
  <2>1. TickBank(b, k) = b \/ TickBank(b, k) = Bank!Update(b)
    BY <1>3 DEF TickBank
  <2> QED BY <1>1, <2>1
<1> QED BY <1>2, <1>3

\* A fast tick begins no stroke, and cuts nothing short.
LEMMA FastStrokes ==
  ASSUME NEW b, NEW k, K1P!Sound(k), FastTick(b, k)
  PROVE  (Stroking(k1') => Stroking(k)) /\ wire'.cut = wire.cut
<1>1. k1' = TickK1(k) /\ wire'.cut = wire.cut
  BY DEF FastTick, Watch
<1>2. Stroking(K1!Tick(k)) => Stroking(k)
  BY TickedOwner
<1>3. ~Stroking(K1!Cancel(k))
  BY CancelledOwner
<1> QED BY <1>1, <1>2, <1>3 DEF TickK1

\* A fast tick moves the byte by the rules of the interlock.
LEMMA FastWires ==
  ASSUME K1Present, ready, ~inhibited, IInv, ~wire.cut,
         NEW b \in Bank!Bank, UsersOnly(b), ~b.inhibited, b.actual = bank.actual,
         NEW k, K1P!Sound(k), Wired(k), FastTick(b, k)
  PROVE  /\ Wired(k1)' /\ [ByteWiring!Next]_(ByteWiring!vars)
         /\ (PowerCh \in bank'.actual) = k1'.power
<1> DEFINE l == K1!Tick(k)
           u == TickBank(b, l)
<1>1. k1' = l /\ bank' = u /\ Watch(u, wire.cut)
  BY DEF FastTick, TickK1
<1>2. K1P!Sound(l) /\ K1P!Step(k, l)
  BY TickedDriver, TickedOwner
<1> HIDE DEF l
<1>3. l.power \in BOOLEAN /\ l.dirOpen \in BOOLEAN /\ k.power \in BOOLEAN /\ k.dirOpen \in BOOLEAN
  BY <1>2, SoundDriver
<1>4. b.inhibited = inhibited
  BY InvBasics DEF Bank!Bank
<1>5. (PowerCh \in u.actual) = l.power /\ (DirCh \in u.actual) = l.dirOpen
  BY <1>3, <1>4, FastTicksBank
<1> HIDE DEF u
<1>6. /\ wire'.offFor = (IF Drop(u) THEN 0 ELSE wire.offFor)
      /\ wire'.stillFor = (IF Swing(u) THEN 0 ELSE wire.stillFor)
  BY <1>1 DEF Watch
<1>7. /\ Drop(u) = (PowerCh \in bank.actual /\ ~l.power)
      /\ Swing(u) = (k.dirOpen # l.dirOpen)
  BY <1>5 DEF Drop, Swing, Wired, WiredTo
<1>8. /\ (PowerCh \in bank'.actual) = l.power /\ (DirCh \in bank'.actual) = l.dirOpen
      /\ (DirCh \in bank.actual) = k.dirOpen
  BY <1>1, <1>5 DEF Wired, WiredTo
<1>9. /\ k.sinceOff \in Nat /\ k.sinceDir \in Nat /\ DeadTime \in Nat \ {0}
      /\ wire.offFor \in Nat /\ wire.stillFor \in Nat
  BY SoundDriver, InvBasics, Assumptions DEF K1!Driver, K1!K1DriverAssumption
<1>10. WiredTo(l, bank'.actual, wire'.offFor, wire'.stillFor)
  <2>1. WiredTo(k, bank.actual, wire.offFor, wire.stillFor)
    BY DEF Wired
  <2>2. /\ PowerCh \in bank'.actual /\ ~l.power => l.sinceOff = 0
        /\ l.power => PowerCh \in bank'.actual
        /\ (DirCh \in bank'.actual) = l.dirOpen
    BY <1>3, <1>8
  <2>3. ASSUME ~l.power
        PROVE  l.sinceOff <= wire'.offFor \/ DeadTime <= wire'.offFor
    <3>1. CASE PowerCh \in bank.actual
      <4>1. wire'.offFor = 0
        BY <1>6, <1>7, <2>3, <3>1
      <4>2. ~k.power => k.sinceOff = 0
        BY <2>1, <3>1 DEF WiredTo
      <4>3. l.sinceOff = 0
        BY <1>2, <2>3, <4>2
           DEF K1P!Step, K1P!SameWiring, K1P!SwitchedOff, K1P!Turned, K1P!SwitchedOn
      <4> QED BY <4>1, <4>3
    <3>2. CASE PowerCh \notin bank.actual
      <4>1. wire'.offFor = wire.offFor
        BY <1>6, <1>7, <3>2
      <4>2. ~k.power /\ (k.sinceOff <= wire.offFor \/ DeadTime <= wire.offFor)
        BY <2>1, <3>2 DEF WiredTo
      <4>3. l.sinceOff = k.sinceOff
        BY <1>2, <2>3, <4>2
           DEF K1P!Step, K1P!SameWiring, K1P!SwitchedOff, K1P!Turned, K1P!SwitchedOn
      <4> QED BY <4>1, <4>2, <4>3
    <3> QED BY <3>1, <3>2
  <2>4. l.sinceDir <= wire'.stillFor \/ DeadTime <= wire'.stillFor
    <3>1. k.sinceDir <= wire.stillFor \/ DeadTime <= wire.stillFor
      BY <2>1 DEF WiredTo
    <3>2. CASE K1P!Turned(k, l)
      <4>1. l.sinceDir = 0 /\ wire'.stillFor \in Nat
        BY <1>6, <1>9, <3>2 DEF K1P!Turned
      <4> QED BY <4>1
    <3>3. CASE ~K1P!Turned(k, l)
      <4>1. l.sinceDir = k.sinceDir /\ l.dirOpen = k.dirOpen
        BY <1>2, <3>3 DEF K1P!Step, K1P!SameWiring, K1P!SwitchedOff, K1P!SwitchedOn
      <4>2. wire'.stillFor = wire.stillFor
        BY <1>6, <1>7, <4>1
      <4> QED BY <3>1, <4>1, <4>2
    <3> QED BY <3>2, <3>3
  <2> QED BY <1>3, <1>8, <2>2, <2>3, <2>4 DEF WiredTo
<1>11. [ByteWiring!Next]_(ByteWiring!vars)
  <2>1. CASE PowerCh \in bank.actual /\ ~l.power
    <3>1. k.dirOpen = l.dirOpen
      BY <1>2, <1>9, <2>1
         DEF K1P!Step, K1P!SameWiring, K1P!SwitchedOff, K1P!Turned, K1P!SwitchedOn, Wired, WiredTo
    <3>2. /\ (PowerCh \in bank.actual) /\ (PowerCh \in bank'.actual) = FALSE /\ wire'.offFor = 0
          /\ (DirCh \in bank'.actual) = (DirCh \in bank.actual) /\ wire'.stillFor = wire.stillFor
      BY <1>3, <1>6, <1>7, <1>8, <2>1, <3>1
    <3>3. ByteWiring!SwitchOff
      BY <3>2 DEF ByteWiring!SwitchOff
    <3> QED BY <3>3 DEF ByteWiring!Next
  <2>2. CASE ~(PowerCh \in bank.actual /\ ~l.power)
    <3>1. wire'.offFor = wire.offFor
      BY <1>6, <1>7, <2>2
    <3>2. CASE K1P!Turned(k, l)
      <4>1. /\ PowerCh \notin bank.actual /\ PowerCh \notin bank'.actual /\ wire.offFor >= DeadTime
            /\ (DirCh \in bank'.actual) = ~(DirCh \in bank.actual) /\ wire'.stillFor = 0
        <5>1. ~k.power /\ k.sinceOff >= DeadTime /\ l.power = k.power /\ l.dirOpen = ~k.dirOpen
          BY <3>2 DEF K1P!Turned
        <5>2. PowerCh \notin bank.actual /\ (k.sinceOff <= wire.offFor \/ DeadTime <= wire.offFor)
          BY <1>9, <5>1 DEF Wired, WiredTo
        <5>3. PowerCh \notin bank'.actual /\ (DirCh \in bank'.actual) = ~(DirCh \in bank.actual)
          BY <1>8, <5>1
        <5>4. wire'.stillFor = 0
          BY <1>3, <1>6, <1>7, <5>1
        <5> QED BY <1>9, <5>1, <5>2, <5>3, <5>4
      <4>2. ByteWiring!Turn
        BY <3>1, <4>1 DEF ByteWiring!Turn
      <4> QED BY <4>2 DEF ByteWiring!Next
    <3>3. CASE ~K1P!Turned(k, l)
      <4>1. l.dirOpen = k.dirOpen /\ (~k.power /\ l.power => k.sinceDir >= DeadTime)
        BY <1>2, <3>3 DEF K1P!Step, K1P!SameWiring, K1P!SwitchedOff, K1P!SwitchedOn
      <4>2. (DirCh \in bank'.actual) = (DirCh \in bank.actual) /\ wire'.stillFor = wire.stillFor
        BY <1>6, <1>7, <1>8, <4>1
      <4>3. CASE (PowerCh \in bank.actual) = l.power
        BY <1>8, <3>1, <4>2, <4>3 DEF ByteWiring!vars
      <4>4. CASE PowerCh \notin bank.actual /\ l.power
        <5>1. ~k.power
          BY <1>3, <4>4 DEF Wired, WiredTo
        <5>2. wire.stillFor >= DeadTime
          BY <1>9, <4>1, <4>4, <5>1 DEF Wired, WiredTo
        <5>3. ByteWiring!SwitchOn
          BY <1>8, <3>1, <4>2, <4>4, <5>2 DEF ByteWiring!SwitchOn
        <5> QED BY <5>3 DEF ByteWiring!Next
      <4> QED BY <1>3, <2>2, <4>3, <4>4
    <3> QED BY <3>2, <3>3
  <2> QED BY <2>1, <2>2
<1>12. Wired(k1)'
  BY <1>1, <1>10 DEF Wired
<1> QED BY <1>1, <1>8, <1>11, <1>12

\* A fast tick of a whole pass: where a hold-off has cut in there is nothing to keep.
LEMMA FastMoves ==
  ASSUME K1Present, ready, IInv, inhibited => wire.cut,
         NEW b \in Bank!Bank, UsersOnly(b), b.inhibited = inhibited, b.actual = bank.actual,
         NEW k, K1P!Sound(k), Wired(k), FastTick(b, k)
  PROVE  /\ Wired(k1)' /\ (wire'.cut \/ [ByteWiring!Next]_(ByteWiring!vars))
         /\ ~wire'.cut => (PowerCh \in bank'.actual) = k1'.power
         /\ wire'.cut = wire.cut
         /\ Stroking(k1') => Stroking(k)
<1>1. wire'.cut = wire.cut /\ (Stroking(k1') => Stroking(k))
  BY FastStrokes
<1>2. CASE wire.cut
  BY <1>1, <1>2 DEF Wired
<1>3. CASE ~wire.cut
  BY <1>1, <1>3, FastWires
<1> QED BY <1>1, <1>2, <1>3
-----------------------------------------------------------------------------
(* Strokes and exercises, in the loop.                                     *)

Objects == [bank |-> bank, k1 |-> k1, seize |-> seize]

\* The inductive invariant of them.
OInv == /\ IInv /\ Owned(Objects)
        /\ ~ready => bank.actual = {} /\ ~K1!Busy(k1) /\ ~wire.cut
        /\ ready /\ inhibited => wire.cut
        /\ at = "pause" /\ ~wire.cut => (PowerCh \in bank.actual) = k1.power

Wires == wire'.cut \/ [ByteWiring!Next]_(ByteWiring!vars)

\* What OInv says of the objects.
LEMMA OwnedNow ==
  ASSUME OInv
  PROVE  /\ Stroking(k1) => \E i \in seize.running : Seizer!Kind(i) = "ValveStroke"
         /\ {c \in Channel : bank.exercise[c] # "unset"} = {Seizer!Ch(i) : i \in SeizedBy(seize)}
         /\ Wired(k1)
BY DEF OInv, Owned, Objects

\* And what makes it hold in the next state.
LEMMA OwnedThen ==
  ASSUME Stroking(k1') => \E i \in seize'.running : Seizer!Kind(i) = "ValveStroke",
         {c \in Channel : bank'.exercise[c] # "unset"} = {Seizer!Ch(i) : i \in SeizedBy(seize')},
         Wired(k1)'
  PROVE  Owned(Objects)'
BY DEF Owned, Objects, Stroking, SeizedBy, Wired

\* It is what the properties say of strokes and slots.
LEMMA OwnedHolds ==
  ASSUME OInv
  PROVE  StrokeIsOwned /\ ExerciseIsOwned
BY OwnedNow DEF StrokeIsOwned, ExerciseIsOwned, Seized, SeizedBy

\* Nothing that the invariant speaks of is touched.
LEMMA Untouched ==
  ASSUME OInv, IInv', UNCHANGED <<ready, inhibited, wire>>, at' # "pause",
         bank'.actual = bank.actual, bank'.exercise = bank.exercise,
         seize'.running = seize.running, K1!Busy(k1') => K1!Busy(k1),
         Stroking(k1') => Stroking(k1), Wired(k1')
  PROVE  OInv' /\ Wires
<1>1. Wired(k1)'
  BY DEF Wired
<1>2. SeizedBy(seize') = SeizedBy(seize)
  BY DEF SeizedBy
<1>3. Owned(Objects)'
  BY <1>1, <1>2, OwnedNow, OwnedThen
<1>4. Wires
  BY DEF Wires, ByteWiring!vars
<1> QED BY <1>3, <1>4 DEF OInv

\* A restart leaves nothing to own, and resets the wires.
LEMMA BootOwned ==
  ASSUME NEW boot \in Boots, bank' = boot.bank, k1' = boot.k1, seize' = boot.seize,
         wire' = boot.wire, inhibited' = FALSE, at' = "core", IInv'
  PROVE  OInv' /\ ByteWiring!Reset
<1>1. PICK s \in Settings, isReady \in BOOLEAN, stroke \in Strokes, up \in {0, DeadTime} :
        boot = Booted(s, isReady, stroke, up)
  BY DEF Boots
<1>2. /\ boot.bank = Bank!Configured(s.lock) /\ boot.k1 = K1!AtRest(up)
      /\ boot.seize = [Seizer!Configured(stroke) EXCEPT !.enabled = s.enabled]
      /\ boot.wire = [offFor |-> 0, stillFor |-> up, cut |-> FALSE]
  BY <1>1 DEF Booted
<1>3. bank'.actual = {} /\ \A c \in Channel : bank'.exercise[c] = "unset"
  BY <1>2 DEF Bank!Configured
<1>4. seize'.running = {}
  BY <1>2 DEF Seizer!Configured
<1>5. k1'.power = FALSE /\ k1'.dirOpen = FALSE /\ k1'.sinceOff = 0 /\ k1'.sinceDir = up
  BY <1>2 DEF K1!AtRest
<1>6. ~K1!Busy(k1')
  BY BootRight
<1>7. up \in 0..DeadTime /\ up <= up
  BY Assumptions DEF K1!K1DriverAssumption
<1>8. WiredTo(k1', bank'.actual, wire'.offFor, wire'.stillFor)
  <2>1. wire'.offFor = 0 /\ wire'.stillFor = up /\ 0 <= 0
    BY <1>2
  <2>2. (PowerCh \in bank'.actual) = FALSE /\ (DirCh \in bank'.actual) = FALSE
    BY <1>3
  <2>3. (DirCh \in bank'.actual) = k1'.dirOpen
    BY <1>5, <2>2, Zenon
  <2>4. k1'.sinceOff <= wire'.offFor /\ k1'.sinceDir <= wire'.stillFor
    BY <1>5, <1>7, <2>1
  <2>5. ~k1'.power /\ PowerCh \notin bank'.actual
    BY <1>5, <2>2, Zenon
  <2> QED BY <2>3, <2>4, <2>5 DEF WiredTo
<1>9. Owned(Objects)' /\ ~wire'.cut
  <2>1. Wired(k1)' /\ ~wire'.cut
    BY <1>2, <1>8 DEF Wired
  <2>2. ~Stroking(k1')
    BY <1>6, IdleOwner
  <2>3. SeizedBy(seize') = {}
    BY <1>4 DEF SeizedBy
  <2>4. {c \in Channel : bank'.exercise[c] # "unset"} = {Seizer!Ch(i) : i \in SeizedBy(seize')}
    BY <1>3, <2>3
  <2> QED BY <2>1, <2>2, <2>4, OwnedThen
<1>10. OInv'
  BY <1>3, <1>6, <1>9 DEF OInv
<1>11. ByteWiring!Reset
  BY <1>2, <1>3, <1>7 DEF ByteWiring!Reset
<1> QED BY <1>10, <1>11

\* The first start likewise.
LEMMA OrderlyInit == Init => OInv /\ ByteWiring!Init
<1> SUFFICES ASSUME Init PROVE OInv /\ ByteWiring!Init
  OBVIOUS
<1>1. PICK boot \in Boots : /\ bank = boot.bank /\ k1 = boot.k1 /\ seize = boot.seize
                            /\ settings = boot.settings /\ ready = boot.ready /\ wire = boot.wire
  BY DEF Init
<1>2. PICK s \in Settings, isReady \in BOOLEAN, stroke \in Strokes, up \in {0, DeadTime} :
        boot = Booted(s, isReady, stroke, up)
  BY <1>1 DEF Boots
<1>3. /\ bank = Bank!Configured(s.lock) /\ k1 = K1!AtRest(up)
      /\ seize = [Seizer!Configured(stroke) EXCEPT !.enabled = s.enabled]
      /\ wire = [offFor |-> 0, stillFor |-> up, cut |-> FALSE]
  BY <1>1, <1>2 DEF Booted
<1>4. bank.actual = {} /\ \A c \in Channel : bank.exercise[c] = "unset"
  BY <1>3 DEF Bank!Configured
<1>5. seize.running = {}
  BY <1>3 DEF Seizer!Configured
<1>6. k1.power = FALSE /\ k1.dirOpen = FALSE /\ k1.sinceOff = 0 /\ k1.sinceDir = up
  BY <1>3 DEF K1!AtRest
<1>7. ~K1!Busy(k1)
  BY <1>1, BootRight
<1>8. up \in 0..DeadTime /\ up <= up
  BY Assumptions DEF K1!K1DriverAssumption
<1>9. WiredTo(k1, bank.actual, wire.offFor, wire.stillFor)
  <2>1. wire.offFor = 0 /\ wire.stillFor = up /\ 0 <= 0
    BY <1>3
  <2>2. (PowerCh \in bank.actual) = FALSE /\ (DirCh \in bank.actual) = FALSE
    BY <1>4
  <2>3. (DirCh \in bank.actual) = k1.dirOpen
    BY <1>6, <2>2, Zenon
  <2>4. k1.sinceOff <= wire.offFor /\ k1.sinceDir <= wire.stillFor
    BY <1>6, <1>8, <2>1
  <2>5. ~k1.power /\ PowerCh \notin bank.actual
    BY <1>6, <2>2, Zenon
  <2> QED BY <2>3, <2>4, <2>5 DEF WiredTo
<1>10. Owned(Objects) /\ ~wire.cut
  <2>1. ~Stroking(k1) /\ ~wire.cut
    BY <1>3, <1>7, IdleOwner
  <2>2. SeizedBy(seize) = {}
    BY <1>5 DEF SeizedBy
  <2>3. {c \in Channel : bank.exercise[c] # "unset"} = {Seizer!Ch(i) : i \in SeizedBy(seize)}
    BY <1>4, <2>2
  <2> QED BY <1>9, <2>1, <2>3 DEF Owned, Objects, Wired
<1>11. IInv /\ ~inhibited /\ at = "core"
  BY InitRight DEF Init
<1>12. ByteWiring!Init
  BY <1>3, <1>4, <1>8 DEF ByteWiring!Init, ByteWiring!Rest
<1> QED BY <1>4, <1>7, <1>10, <1>11, <1>12 DEF OInv

\* A restart.
LEMMA RebootOrderly == ASSUME OInv, Reboot PROVE OInv' /\ Wires
<1>1. PICK boot \in Boots : /\ bank' = boot.bank /\ k1' = boot.k1 /\ seize' = boot.seize
                            /\ wire' = boot.wire
  BY DEF Reboot
<1>2. inhibited' = FALSE /\ at' = "core" /\ IInv'
  BY RebootRight DEF Reboot, OInv
<1>3. OInv' /\ ByteWiring!Reset
  BY <1>1, <1>2, BootOwned
<1> QED BY <1>3 DEF Wires, ByteWiring!Next

\* A slow pass begins.
LEMMA CoreTickOrderly == ASSUME OInv, CoreTick PROVE OInv' /\ Wires
<1>1. IInv'
  BY CoreTickRight DEF OInv
<1>2. UNCHANGED <<bank, k1, seize, ready, inhibited, wire>> /\ at' = "hw"
  BY DEF CoreTick
<1>3. Wired(k1')
  BY <1>2, OwnedNow
<1> QED BY <1>1, <1>2, <1>3, Untouched

\* A brown-out: the byte is not concerned.
LEMMA BrownOutOrderly == ASSUME OInv, BrownOut PROVE OInv' /\ Wires
<1>1. IInv'
  BY BrownOutRight DEF OInv
<1>2. UNCHANGED <<bank, k1, seize, ready, inhibited, wire, at>>
  BY DEF BrownOut
<1> QED BY <1>1, <1>2 DEF OInv, Owned, Objects, Wires, Stroking, SeizedBy, Wired, ByteWiring!vars

\* A new day.
LEMMA NewDayOrderly == ASSUME OInv, NewDay PROVE OInv' /\ Wires
<1>1. IInv'
  BY NewDayRight DEF OInv
<1>2. UNCHANGED <<bank, k1, ready, inhibited, wire, at>>
  BY DEF NewDay
<1>3. seize'.running = seize.running
  BY InvBasics DEF NewDay, OInv, Seizer!Seize
<1>4. SeizedBy(seize') = SeizedBy(seize)
  BY <1>3 DEF SeizedBy
<1>5. Owned(Objects)'
  <2>1. Wired(k1)'
    BY <1>2, OwnedNow DEF Wired
  <2> QED BY <1>2, <1>3, <1>4, <2>1, OwnedNow, OwnedThen
<1>6. Wires
  BY <1>2 DEF Wires, ByteWiring!vars
<1> QED BY <1>1, <1>2, <1>5, <1>6 DEF OInv

\* An update takes the outputs away, or gives them back: it cuts in, and ends any stroke.
LEMMA NetFastTickOrderly == ASSUME K1Present, OInv, NetFastTick PROVE OInv' /\ Wires
<1>1. IInv' /\ IInv
  BY NetFastTickRight DEF OInv
<1>2. PICK on \in BOOLEAN : SetOutputsInhibited(on)
  BY DEF NetFastTick
<1>3. at' = "fast" /\ UNCHANGED <<seize, ready>> /\ inhibited' = on
  BY <1>2 DEF NetFastTick, SetOutputsInhibited
<1>4. CASE ~(ready /\ inhibited # on)
  <2>1. UNCHANGED <<k1, bank, wire>>
    BY <1>2, <1>4 DEF SetOutputsInhibited
  <2>2. Owned(Objects)'
    <3>1. Wired(k1)'
      BY <2>1, OwnedNow DEF Wired
    <3> QED BY <1>3, <2>1, <3>1, OwnedNow, OwnedThen DEF SeizedBy
  <2>3. Wires
    BY <2>1 DEF Wires, ByteWiring!vars
  <2> QED BY <1>1, <1>3, <1>4, <2>1, <2>2, <2>3 DEF OInv
<1>5. CASE ready /\ inhibited # on
  <2>1. /\ k1' = (IF on THEN K1!Cancel(k1) ELSE k1)
        /\ bank' = Bank!SetInhibited(bank, on) /\ wire'.cut = TRUE
    BY <1>2, <1>5 DEF SetOutputsInhibited, Watch
  <2>2. Stroking(k1') => Stroking(k1)
    BY <1>1, <2>1, InvBasics, CancelledOwner
  <2>3. bank'.exercise = bank.exercise
    BY <1>1, <2>1, InvBasics DEF Bank!SetInhibited, Bank!Bank
  <2>4. Wired(k1)' /\ SeizedBy(seize') = SeizedBy(seize)
    BY <1>3, <2>1 DEF Wired, SeizedBy
  <2>5. Owned(Objects)'
    BY <1>3, <2>2, <2>3, <2>4, OwnedNow, OwnedThen
  <2>6. Wires
    BY <2>1 DEF Wires
  <2> QED BY <1>1, <1>3, <1>5, <2>1, <2>5, <2>6 DEF OInv
<1> QED BY <1>4, <1>5

\* The controller may take its motion and ask for a pulse, never while a stroke is made.
LEMMA CtlTickOrderly == ASSUME OInv, CtlTick PROVE OInv' /\ Wires
<1>1. IInv' /\ IInv
  BY CtlTickRight DEF OInv
<1>2. UNCHANGED <<ready, inhibited, wire>> /\ at' # "pause"
  BY DEF CtlTick
<1>3. bank'.actual = bank.actual /\ bank'.exercise = bank.exercise
  BY <1>1, InvBasics DEF CtlTick, Bank!Bank
<1>4. seize'.running = seize.running
  BY <1>1, InvBasics DEF CtlTick, Seizer!Seize
<1> DEFINE k == K1!TakeMotion(k1)
<1>5. K1P!Sound(k1) /\ K1P!Sound(k) /\ Stroking(k) = Stroking(k1) /\ K1!Busy(k) = K1!Busy(k1)
  BY <1>1, InvBasics, TakenDriver, TakenOwner
<1>6. Wired(k)
  BY <1>1, InvBasics, OwnedNow, TakenOwner, EasedWired
<1>7. CASE k1' = k
  BY <1>1, <1>2, <1>3, <1>4, <1>5, <1>6, <1>7, Untouched
<1>8. ASSUME NEW p \in Pulses, k1' = K1!RequestPulse(k, p[1], p[2], "Control")
      PROVE  OInv' /\ Wires
  <2>1. ready /\ p \in K1Requests \cup {<<"close", Recal>>}
    BY DEF Pulses, MayDrive
  <2>2. p \in {"close", "open"} \X Nat
    <3>1. /\ Durations \subseteq Nat /\ Recal \in Durations
          /\ K1Requests \subseteq {"close", "open"} \X Durations
      BY Assumptions, HwRuntimeAssumption DEF K1!K1DriverAssumption, HwRuntimeAssumption, K1!Dir
    <3>2. CASE p \in K1Requests
      <4>1. p \in {"close", "open"} \X Durations
        BY <3>1, <3>2
      <4> QED BY <3>1, <4>1
    <3>3. CASE p = <<"close", Recal>>
      <4>1. Recal \in Nat
        BY <3>1
      <4> QED BY <3>3, <4>1
    <3> QED BY <2>1, <3>2, <3>3
  <2> HIDE DEF k
  <2>3. p[1] \in {"close", "open"} /\ p[2] \in Nat
    BY <2>2
  <2>4. Eased(k, k1') /\ (Stroking(k1') => Stroking(k))
    BY <1>5, <1>8, <2>3, AskedOwner
  <2>5. Wired(k1')
    BY <1>5, <1>6, <2>4, EasedWired
  <2>6. OInv' /\ Wires
    <3>1. Owned(Objects)' /\ Wires
      <4>1. Wired(k1)'
        BY <1>2, <1>3, <2>5 DEF Wired
      <4>2. SeizedBy(seize') = SeizedBy(seize)
        BY <1>4 DEF SeizedBy
      <4>3. Owned(Objects)'
        BY <1>3, <1>4, <1>5, <2>4, <4>1, <4>2, OwnedNow, OwnedThen
      <4>4. Wires
        BY <1>2, <1>3 DEF Wires, ByteWiring!vars
      <4> QED BY <4>3, <4>4
    <3> QED BY <1>1, <1>2, <2>1, <3>1 DEF OInv
  <2> QED BY <2>6
<1>9. k1' = k \/ \E p \in Pulses : k1' = K1!RequestPulse(k, p[1], p[2], "Control")
  BY DEF CtlTick, Asked
<1> QED BY <1>7, <1>8, <1>9

\* A pass replays the driver into the byte.
LEMMA HwFastTickOrderly ==
  ASSUME K1Present, OInv, HwFastTick
  PROVE  OInv' /\ Wires
<1>1. IInv' /\ IInv
  BY HwFastTickRight DEF OInv
<1>2. at' = "pause" /\ seize' = seize /\ FastTick(bank, k1) /\ UNCHANGED <<ready, inhibited>>
  BY DEF HwFastTick, FastTick
<1>3. CASE ready
  <2>1. /\ Wired(k1)' /\ Wires /\ (~wire'.cut => (PowerCh \in bank'.actual) = k1'.power)
        /\ wire'.cut = wire.cut /\ (Stroking(k1') => Stroking(k1))
    <3>1. bank \in Bank!Bank /\ UsersOnly(bank) /\ bank.inhibited = inhibited /\ K1P!Sound(k1)
      BY <1>1, <1>3, InvBasics DEF InhibitIsKnown
    <3>2. Wired(k1) /\ (inhibited => wire.cut)
      BY <1>3, OwnedNow DEF OInv
    <3> QED BY <1>1, <1>2, <1>3, <3>1, <3>2, FastMoves DEF Wires
  <2>2. bank'.exercise = bank.exercise
    <3>1. k1'.power \in BOOLEAN /\ k1'.dirOpen \in BOOLEAN
      BY <1>1, InvBasics, SoundDriver DEF IInv
    <3>2. bank' = TickBank(bank, k1')
      BY <1>2 DEF FastTick
    <3>3. \A k : k.power \in BOOLEAN /\ k.dirOpen \in BOOLEAN =>
                   TickBank(bank, k).exercise = bank.exercise
      BY <1>1, InvBasics, FastSlots
    <3>4. k1' = TickK1(k1)
      BY <1>2 DEF FastTick
    <3>5. TickK1(k1).power \in BOOLEAN /\ TickK1(k1).dirOpen \in BOOLEAN
      BY <3>1, <3>4
    <3>6. bank' = TickBank(bank, TickK1(k1))
      BY <1>2 DEF FastTick
    <3> QED BY <3>3, <3>5, <3>6
  <2>3. Owned(Objects)'
    BY <1>2, <2>1, <2>2, OwnedNow, OwnedThen
  <2> QED BY <1>1, <1>2, <1>3, <2>1, <2>3 DEF OInv
<1>4. CASE ~ready
  <2>1. bank' = bank /\ k1' = k1 /\ Watch(bank, wire.cut)
    BY <1>2, <1>4 DEF FastTick, TickK1, TickBank
  <2>2. wire' = wire
    BY <1>1, <2>1, InvBasics DEF Watch, Drop, Swing
  <2>3. Owned(Objects)'
    <3>1. Wired(k1)'
      BY <2>1, <2>2, OwnedNow DEF Wired
    <3> QED BY <1>2, <2>1, <3>1, OwnedNow, OwnedThen
  <2>4. bank.actual = {} /\ ~K1!Busy(k1)
    BY <1>4 DEF OInv
  <2>5. (PowerCh \in bank.actual) = k1.power
    BY <1>1, <2>4, InvBasics DEF K1P!Sound, K1!Busy, K1!Driver
  <2>6. Wires
    BY <2>1, <2>2 DEF Wires, ByteWiring!vars
  <2> QED BY <1>1, <1>2, <1>4, <2>1, <2>2, <2>3, <2>4, <2>5, <2>6 DEF OInv
<1> QED BY <1>3, <1>4

\* A slow pass ticks the scheduler first: it yields to the pump by the byte of the pass before.
LEMMA HwTickOrderly ==
  ASSUME K1Present, OneOutputEach, OInv, HwTick
  PROVE  /\ OInv' /\ Wires
         /\ ready /\ ~inhibited =>
              \A i \in Seizer!Out : i \in seize'.running /\ Seizer!Kind(i) = "ValveStroke"
                                       => Outputs[i].blockers \cap bank.actual = {}
<1>1. IInv' /\ IInv
  BY HwTickRight DEF OInv
<1>2. at' = "ctl"
  BY DEF HwTick
<1>3. CASE ~ready
  <2>1. UNCHANGED <<bank, k1, seize, ready, inhibited, wire>>
    BY <1>3 DEF HwTick
  <2>2. Wired(k1')
    BY <2>1, OwnedNow
  <2> QED BY <1>1, <1>2, <1>3, <2>1, <2>2, Untouched
<1>4. CASE ready /\ inhibited
  <2> DEFINE b == Bank!SetLockMs(bank, settings.lock)
  <2>1. PICK local \in Clock : seize' = [seize EXCEPT !.enabled = settings.enabled] /\ FastTick(b, k1)
    BY <1>4 DEF HwTick
  <2>2. b = [bank EXCEPT !.lock = settings.lock]
    BY DEF Bank!SetLockMs
  <2>3. /\ b \in Bank!Bank /\ UsersOnly(b) /\ b.inhibited = inhibited
        /\ b.actual = bank.actual /\ b.exercise = bank.exercise
    BY <1>1, <1>4, <2>2, InvBasics DEF Settings, Bank!Bank, UsersOnly
  <2>4. Wired(k1) /\ wire.cut /\ K1P!Sound(k1)
    BY <1>1, <1>4, InvBasics, OwnedNow DEF OInv
  <2> HIDE DEF b
  <2>5. Wired(k1)' /\ wire'.cut = wire.cut /\ Wires /\ (Stroking(k1') => Stroking(k1))
    BY <1>1, <1>4, <2>1, <2>3, <2>4, FastMoves DEF Wires
  <2>6. bank'.exercise = b.exercise
    <3>1. k1' = TickK1(k1) /\ bank' = TickBank(b, TickK1(k1))
      BY <2>1 DEF FastTick
    <3>2. k1'.power \in BOOLEAN /\ k1'.dirOpen \in BOOLEAN
      BY <1>1, InvBasics, SoundDriver DEF IInv
    <3>3. TickK1(k1).power \in BOOLEAN /\ TickK1(k1).dirOpen \in BOOLEAN
      BY <3>1, <3>2
    <3>4. TickBank(b, TickK1(k1)).exercise = b.exercise
      BY <2>3, <3>3, FastSlots
    <3> QED BY <3>1, <3>4
  <2>7. seize'.running = seize.running
    BY <1>1, <2>1, InvBasics DEF Seizer!Seize
  <2>8. Owned(Objects)'
    <3>1. SeizedBy(seize') = SeizedBy(seize)
      BY <2>7 DEF SeizedBy
    <3> QED BY <2>3, <2>5, <2>6, <2>7, <3>1, OwnedNow, OwnedThen
  <2>9. ready' = ready /\ inhibited' = inhibited
    BY <2>1 DEF FastTick
  <2> QED BY <1>1, <1>2, <1>4, <2>4, <2>5, <2>8, <2>9 DEF OInv
<1>5. CASE ready /\ ~inhibited
  <2> DEFINE pushed == [bank |-> Bank!SetLockMs(bank, settings.lock), k1 |-> k1,
                        seize |-> [seize EXCEPT !.enabled = settings.enabled]]
  <2>1. PICK local \in Clock :
          LET w == Seizer!Tick(pushed, local) IN seize' = w.seize /\ FastTick(w.bank, w.k1)
    BY <1>1, <1>5 DEF HwTick
  <2>2. /\ pushed.bank = [bank EXCEPT !.lock = settings.lock] /\ pushed.k1 = k1
        /\ pushed.seize = [seize EXCEPT !.enabled = settings.enabled]
    BY DEF Bank!SetLockMs
  <2>3. Fit(pushed)
    <3>1. pushed.bank \in Bank!Bank /\ UsersOnly(pushed.bank) /\ ~pushed.bank.inhibited
      BY <1>1, <1>5, <2>2, InvBasics DEF Settings, Bank!Bank, UsersOnly
    <3>2. pushed.seize \in Seizer!Seize
      BY <1>1, <2>2, InvBasics DEF Settings, Seizer!Seize
    <3> QED BY <1>1, <2>2, <3>1, <3>2, InvBasics DEF Fit
  <2>4. Owned(pushed)
    <3>1. pushed.bank.actual = bank.actual /\ pushed.bank.exercise = bank.exercise
      BY <1>1, <2>2, InvBasics DEF Bank!Bank
    <3>2. pushed.seize.running = seize.running
      BY <1>1, <2>2, InvBasics DEF Seizer!Seize
    <3>3. SeizedBy(pushed.seize) = SeizedBy(seize)
      BY <3>2 DEF SeizedBy
    <3> HIDE DEF pushed
    <3> QED BY <2>2, <3>1, <3>2, <3>3, OwnedNow DEF Owned
  <2> HIDE DEF pushed
  <2> DEFINE w == Seizer!Tick(pushed, local)
  <2>5. Fit(w) /\ Owned(w) /\ \A j \in Seizer!Out : Yields(w, j)
    BY <2>3, <2>4, TickFits, TickKeeps
  <2>6. seize' = w.seize /\ FastTick(w.bank, w.k1)
    BY <2>1
  <2> HIDE DEF w
  <2>7. /\ w.bank \in Bank!Bank /\ UsersOnly(w.bank) /\ ~w.bank.inhibited /\ K1P!Sound(w.k1)
        /\ w.bank.actual = bank.actual /\ Wired(w.k1)
    BY <2>5 DEF Fit, Owned
  <2>8. /\ Wired(k1)' /\ Wires /\ (Stroking(k1') => Stroking(w.k1))
        /\ ~wire'.cut => (PowerCh \in bank'.actual) = k1'.power
    <3>1. w.bank.inhibited = inhibited
      BY <1>1, <1>5, <2>7, InvBasics DEF Bank!Bank
    <3> QED BY <1>1, <1>5, <2>6, <2>7, <3>1, FastMoves DEF Wires
  <2>9. bank'.exercise = w.bank.exercise
    <3>1. k1' = TickK1(w.k1) /\ bank' = TickBank(w.bank, TickK1(w.k1))
      BY <2>6 DEF FastTick
    <3>2. k1'.power \in BOOLEAN /\ k1'.dirOpen \in BOOLEAN
      BY <1>1, InvBasics, SoundDriver DEF IInv
    <3>3. TickK1(w.k1).power \in BOOLEAN /\ TickK1(w.k1).dirOpen \in BOOLEAN
      BY <3>1, <3>2
    <3>4. TickBank(w.bank, TickK1(w.k1)).exercise = w.bank.exercise
      BY <2>7, <3>3, FastSlots
    <3> QED BY <3>1, <3>4
  <2>10. Owned(Objects)'
    <3>1. Stroking(w.k1) => \E i \in w.seize.running : Seizer!Kind(i) = "ValveStroke"
      BY <2>5 DEF Owned
    <3>2. {c \in Channel : w.bank.exercise[c] # "unset"} = {Seizer!Ch(i) : i \in SeizedBy(w.seize)}
      BY <2>5 DEF Owned
    <3> QED BY <2>6, <2>8, <2>9, <3>1, <3>2, OwnedThen
  <2>11. OInv'
    <3>1. ready' /\ ~inhibited'
      BY <1>1, <1>5, <2>6 DEF FastTick
    <3> QED BY <1>1, <1>2, <2>10, <3>1 DEF OInv
  <2>12. ASSUME NEW i \in Seizer!Out, i \in seize'.running, Seizer!Kind(i) = "ValveStroke"
         PROVE  Outputs[i].blockers \cap bank.actual = {}
    BY <2>5, <2>6, <2>7, <2>12 DEF Yields, Seizer!BlockerOn
  <2> QED BY <2>8, <2>11, <2>12
<1> QED BY <1>3, <1>4, <1>5

\* Time passes, with the byte as the driver says.
LEMMA ElapseOrderly == ASSUME K1Present, OInv, Elapse PROVE OInv' /\ Wires
<1>1. IInv' /\ IInv
  BY ElapseRight DEF OInv
<1>2. PICK d \in Steps :
        LET slow == sinceSlow + d >= SlowPeriod IN
        /\ at' = IF slow THEN "core" ELSE "net"
        /\ bank' = Bank!Aged(bank, d) /\ k1' = K1!Aged(k1, d) /\ seize' = Seizer!Aged(seize, d)
        /\ wire' = [offFor |-> Older(wire.offFor, d, AgeCap),
                    stillFor |-> Older(wire.stillFor, d, AgeCap),
                    cut |-> wire.cut /\ (inhibited \/ ~Settled(d))]
  BY DEF Elapse
<1>3. at' # "pause" /\ at = "pause" /\ UNCHANGED <<ready, inhibited>>
  BY <1>2 DEF Elapse
<1>4. d \in Nat /\ d > 0
  BY HwRuntimeAssumption, TypeBounds DEF HwRuntimeAssumption
<1>5. bank'.actual = bank.actual /\ bank'.exercise = bank.exercise
  <2>1. bank'.actual = bank.actual
    BY <1>1, <1>2, <1>4, InvBasics, AgedBank
  <2>2. bank'.exercise = bank.exercise
    BY <1>1, <1>2, InvBasics DEF Bank!Aged, Bank!Bank
  <2> QED BY <2>1, <2>2
<1>6. seize'.running = seize.running
  BY <1>1, <1>2, InvBasics DEF Seizer!Aged, Seizer!Seize
<1>7. /\ K1!Busy(k1') = K1!Busy(k1) /\ k1'.power = k1.power /\ k1'.dirOpen = k1.dirOpen
      /\ k1'.sinceOff = Older(k1.sinceOff, d, AgeCap)
      /\ k1'.sinceDir = Older(k1.sinceDir, d, AgeCap)
  <2>1. K1P!Aged(k1, d) = K1!Aged(k1, d)
    BY OneDriver, Zenon
  <2>2. /\ K1P!Aged(k1, d).power = k1.power /\ K1P!Aged(k1, d).dirOpen = k1.dirOpen
        /\ K1P!Aged(k1, d).sinceOff = K1P!Older(k1.sinceOff, d, AgeCap)
        /\ K1P!Aged(k1, d).sinceDir = K1P!Older(k1.sinceDir, d, AgeCap)
    BY <1>1, <1>4, InvBasics, K1P!AgedSound, Assumptions
  <2>3. K1!Busy(k1') = K1!Busy(k1)
    BY <1>1, <1>2, <1>4, InvBasics, AgedDriver
  <2> QED BY <1>2, <2>1, <2>2, <2>3 DEF K1P!Older, Older
<1>8. Stroking(k1') = Stroking(k1)
  BY <1>1, <1>2, InvBasics DEF Stroking, K1!OwnerOf, K1!Aged, K1!Driver
<1>9. /\ k1.sinceOff \in Nat /\ k1.sinceDir \in Nat /\ wire.offFor \in Nat /\ wire.stillFor \in Nat
      /\ AgeCap \in Nat /\ k1.power \in BOOLEAN
  BY <1>1, InvBasics, TypeBounds DEF K1!Driver
<1>10. ASSUME ~wire'.cut
       PROVE  WiredTo(k1', bank'.actual, wire'.offFor, wire'.stillFor)
  <2>1. /\ (PowerCh \in bank.actual) = k1.power /\ (DirCh \in bank.actual) = k1.dirOpen
        /\ ~wire.cut => WiredTo(k1, bank.actual, wire.offFor, wire.stillFor)
        /\ wire.cut => DeadTime <= wire.offFor + d /\ DeadTime <= wire.stillFor + d
    <3>1. CASE wire.cut
      <4>1. ~inhibited /\ Settled(d) /\ ready
        BY <1>2, <1>10, <3>1 DEF OInv
      <4> QED BY <1>1, <1>3, <1>9, <3>1, <4>1, Assumptions
              DEF IInv, OutputsAreRight, ByteFollowsDriver, Settled, K1!K1DriverAssumption
    <3>2. CASE ~wire.cut
      BY <1>3, <3>2, OwnedNow DEF Wired, WiredTo, OInv
    <3> QED BY <3>1, <3>2
  <2>2. /\ wire'.offFor = Older(wire.offFor, d, AgeCap)
        /\ wire'.stillFor = Older(wire.stillFor, d, AgeCap)
    BY <1>2
  <2> DeadTime \in Nat /\ AgeCap >= DeadTime
    BY Assumptions DEF K1!K1DriverAssumption
  <2>3. k1'.sinceDir <= wire'.stillFor \/ DeadTime <= wire'.stillFor
    BY <1>4, <1>7, <1>9, <2>1, <2>2 DEF WiredTo, Older
  <2>4. PowerCh \notin bank'.actual => k1'.sinceOff <= wire'.offFor \/ DeadTime <= wire'.offFor
    BY <1>4, <1>5, <1>7, <1>9, <2>1, <2>2 DEF WiredTo, Older
  <2>5. (PowerCh \in bank'.actual) = k1'.power /\ (DirCh \in bank'.actual) = k1'.dirOpen
    BY <1>5, <1>7, <2>1, Zenon DEF WiredTo
  <2>6. k1'.power \in BOOLEAN
    BY <1>7, <1>9
  <2> QED BY <2>3, <2>4, <2>5, <2>6 DEF WiredTo
<1>11. Owned(Objects)'
  <2>1. Wired(k1)'
    BY <1>10 DEF Wired
  <2>2. SeizedBy(seize') = SeizedBy(seize)
    BY <1>6 DEF SeizedBy
  <2> QED BY <1>5, <1>6, <1>8, <2>1, <2>2, OwnedNow, OwnedThen
<1>12. Wires
  <2> DEFINE e == IF d < AgeCap THEN d ELSE AgeCap
  <2>1. /\ wire'.offFor = ByteWiring!Older(wire.offFor, e, AgeCap)
        /\ wire'.stillFor = ByteWiring!Older(wire.stillFor, e, AgeCap)
    <3>1. /\ wire'.offFor = Older(wire.offFor, d, AgeCap)
          /\ wire'.stillFor = Older(wire.stillFor, d, AgeCap)
      BY <1>2
    <3> QED BY <1>4, <1>9, <3>1 DEF Older, ByteWiring!Older
  <2>2. e \in 1..AgeCap
    BY <1>4, Assumptions DEF K1!K1DriverAssumption
  <2> HIDE DEF e
  <2>3. ByteWiring!Wait
    BY <1>5, <2>1, <2>2 DEF ByteWiring!Wait
  <2> QED BY <2>3 DEF Wires, ByteWiring!Next
<1>13. (ready /\ inhibited => wire'.cut) /\ (~ready => ~wire'.cut)
  BY <1>2 DEF OInv
<1> QED BY <1>1, <1>3, <1>5, <1>7, <1>11, <1>12, <1>13 DEF OInv

\* The pump is yielded to.
Yielded == HwTick /\ ready /\ ~inhibited /\ Stroking(k1') =>
             \A i \in seize'.running : Seizer!Kind(i) = "ValveStroke" =>
                  Outputs[i].blockers \cap bank.actual = {}

\* Every step keeps the invariant, moves the wires by the interlock, and yields to the pump.
LEMMA StepOrderly ==
  ASSUME K1Present, OneOutputEach, OInv, [Next]_vars
  PROVE  OInv' /\ Wires /\ [Yielded]_vars
<1>1. OInv' /\ Wires
  <2>1. CASE Loop
    BY <2>1, CoreTickOrderly, HwTickOrderly, CtlTickOrderly, NetFastTickOrderly,
       HwFastTickOrderly, ElapseOrderly DEF Loop
  <2>2. CASE Reboot \/ BrownOut \/ NewDay
    BY <2>2, RebootOrderly, BrownOutOrderly, NewDayOrderly
  <2>3. CASE UNCHANGED vars
    <3>1. IInv'
      BY <2>3, StepRight DEF OInv
    <3>2. UNCHANGED <<bank, k1, seize, ready, inhibited, wire, at>>
      BY <2>3 DEF vars
    <3> QED BY <3>1, <3>2
            DEF OInv, Owned, Objects, Wires, Stroking, SeizedBy, Wired, ByteWiring!vars
  <2> QED BY <2>1, <2>2, <2>3 DEF Next
<1>2. Yielded
  <2> SUFFICES ASSUME HwTick, ready, ~inhibited, NEW i \in seize'.running, Seizer!Kind(i) = "ValveStroke"
               PROVE  Outputs[i].blockers \cap bank.actual = {}
    BY DEF Yielded
  <2>1. i \in Seizer!Out
    BY <1>1, InvBasics DEF OInv, IInv, OutputsAreRight, TypeOK, Seizer!Seize
  <2> QED BY <2>1, HwTickOrderly
<1> QED BY <1>1, <1>2

\* K1 moves for an anti-seize only as long as its run goes on, every exercise slot has a run
\* behind it, a stroke gives way to its pump, and none of them can break the interlock of the
\* output byte, from the start and again a dead time after each hold-off.  So it is where
\* every channel is exercised by one output (OneOutputEach: the tables of the two
\* controllers), whatever the settings, the controller, the updates and the restarts do.
THEOREM StrokesStayOrderly ==
  ASSUME K1Present, OneOutputEach
  PROVE  Spec => StrokesAreOrderly
<1>1. Init => OInv /\ ByteWiring!Init
  BY OrderlyInit
<1>2. OInv /\ [Next]_vars => OInv'
  BY StepOrderly
<1>3. OInv /\ [Next]_vars => [wire'.cut \/ ByteWiring!Next]_(ByteWiring!vars)
  BY StepOrderly DEF Wires
<1>4. OInv /\ [Next]_vars => [Yielded]_vars
  BY StepOrderly
<1>5. OInv => StrokeIsOwned /\ ExerciseIsOwned
  BY OwnedHolds
<1>6. Spec => []OInv
  BY <1>1, <1>2, PTL DEF Spec
<1>7. Spec => []StrokeIsOwned /\ []ExerciseIsOwned
  BY <1>5, <1>6, PTL
<1>8. Spec => [][Yielded]_vars
  BY <1>4, <1>6, PTL DEF Spec
<1>9. Spec => ByteWiring!Init /\ [][wire'.cut \/ ByteWiring!Next]_(ByteWiring!vars)
  BY <1>1, <1>3, <1>6, PTL DEF Spec
<1>10. Spec => StrokeYieldsToPump
  BY <1>8 DEF StrokeYieldsToPump, Yielded
<1>11. Spec => ByteIsInterlocked
  BY <1>9 DEF ByteIsInterlocked
<1> QED BY <1>7, <1>10, <1>11 DEF StrokesAreOrderly
=============================================================================
