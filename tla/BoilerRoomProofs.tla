-------------------------- MODULE BoilerRoomProofs --------------------------
(***************************************************************************)
(* Theorems of BoilerRoom for every set of plants: whatever the sensors    *)
(* read, whatever the thresholds are set to, in whatever order, and        *)
(* whenever commands, updates, exercises and restarts come.                *)
(***************************************************************************)
EXTENDS BoilerRoom, TLAPS

BankProofs == INSTANCE RelayBankProofs WITH
                Channel <- Pump, Lockable <- Pump, Logged <- Pump, Emergency <- Pump,
                Exercised <- Pump, LockValues <- Locks, log <- {}, noticed <- {}

-----------------------------------------------------------------------------
(* The relay bank of the boiler room: its operators are those the theorems *)
(* of RelayBank are about.                                                 *)

\* The relay bank's assumption holds of the boiler room's bank.
LEMMA BankAssumption == BankProofs!RelayBankAssumption
<1>1. Locks \subseteq 0..AgeCap
  BY BoilerRoomAssumption DEF Locks, Settings, Age
<1>2. Locks # {}
  <2>1. PICK p \in Plant : Choices[p] # {}
    BY BoilerRoomAssumption
  <2>2. PICK s \in Choices[p] : TRUE
    BY <2>1
  <2>3. s.lock \in Locks
    BY <2>2 DEF Locks
  <2> QED BY <2>3
<1> QED
  BY <1>1, <1>2, BoilerRoomAssumption DEF BankProofs!RelayBankAssumption

\* update(), a hold-off and the passage of time keep the bank's types.
LEMMA BankTypes ==
  ASSUME NEW b \in Bank!Bank, NEW on \in BOOLEAN, NEW d \in Nat
  PROVE  /\ Bank!Update(b) \in Bank!Bank
         /\ Bank!SetInhibited(b, on) \in Bank!Bank
         /\ Bank!Aged(b, d) \in Bank!Bank
<1>1. BankProofs!Bank = Bank!Bank
  BY Zenon DEF Bank!Bank, BankProofs!Bank, Bank!Request, Bank!Reason,
               BankProofs!Request, BankProofs!Reason
<1>2. BankProofs!Update(b) = Bank!Update(b)
  BY Zenon DEF Bank!Update, BankProofs!Update, Bank!Switching, BankProofs!Switching,
               Bank!Held, BankProofs!Held, Bank!Mismatched, BankProofs!Mismatched,
               Bank!Wants, BankProofs!Wants, Bank!Bypass, BankProofs!Bypass,
               Bank!Source, BankProofs!Source
<1>3. BankProofs!SetInhibited(b, on) = Bank!SetInhibited(b, on)
  BY Zenon DEF Bank!SetInhibited, BankProofs!SetInhibited
<1>4. BankProofs!Aged(b, d) = Bank!Aged(b, d)
  BY Zenon DEF Bank!Aged, BankProofs!Aged, Bank!Older, BankProofs!Older
<1> QED
  BY <1>1, <1>2, <1>3, <1>4, BankAssumption, BankProofs!UpdateType,
     BankProofs!SetInhibitedType, BankProofs!AgedType

\* update() and a hold-off leave the requests alone.
LEMMA RequestsStay ==
  ASSUME NEW b \in Bank!Bank, NEW on \in BOOLEAN
  PROVE  /\ Bank!Update(b).safety = b.safety
         /\ Bank!Update(b).inhibited = b.inhibited
         /\ Bank!SetInhibited(b, on).safety = b.safety
BY DEF Bank!Update, Bank!SetInhibited, Bank!Bank

\* A safety request is obeyed by the next update(), lock or no lock, unless the
\* outputs are held off.
LEMMA SafetyIsObeyed ==
  ASSUME NEW b \in Bank!Bank, ~b.inhibited, NEW p \in Pump, b.safety[p] = "on"
  PROVE  p \in Bank!Update(b).actual
<1> DEFINE sw == Bank!Switching(b)
<1>1. Bank!Update(b).actual = (b.actual \ sw) \cup (sw \ b.actual)
  BY DEF Bank!Update, Bank!Bank
<1>2. Bank!Wants(b, p) /\ Bank!Bypass(b, p)
  BY DEF Bank!Wants, Bank!Bypass, Bank!Source
<1>3. p \in sw <=> p \notin b.actual
  BY <1>2 DEF Bank!Switching, Bank!Mismatched
<1> QED
  BY <1>1, <1>3

\* What hw.tick() leaves behind is a bank, and its requests are those it found.
LEMMA HwTickType ==
  ASSUME NEW b \in Bank!Bank, NEW x \in SUBSET Pump, settings.lock \in Locks
  PROVE  HwTick(b, x) \in Bank!Bank
<1> DEFINE locked == Bank!SetLockMs(b, settings.lock)
           exercise == [p \in Pump |-> IF p \in x THEN "on" ELSE "unset"]
           moved == [locked EXCEPT !.exercise = exercise]
<1>1. locked \in Bank!Bank
  BY DEF Bank!SetLockMs, Bank!Bank
<1>2. exercise \in [Pump -> Bank!Request]
  BY DEF Bank!Request
<1>3. moved \in Bank!Bank
  <2> HIDE DEF locked, exercise
  <2> QED BY <1>1, <1>2 DEF Bank!Bank
<1>4. HwTick(b, x) = Bank!Update(IF b.inhibited THEN locked ELSE moved)
  BY DEF HwTick
<1> HIDE DEF moved, locked
<1> QED
  BY <1>1, <1>3, <1>4, BankTypes

\* The fast ticks that end a pass keep the requests, and obey those for safety.
LEMMA FastTicksObey ==
  ASSUME NEW b \in Bank!Bank, NEW off \in BOOLEAN
  PROVE  LET after == FastTicks(b, off)
         IN /\ after \in Bank!Bank
            /\ after.safety = b.safety
            /\ ~after.inhibited =>
                 \A p \in Pump : b.safety[p] = "on" => p \in after.actual
<1> DEFINE held == Bank!SetInhibited(b, off)
<1>1. held \in Bank!Bank /\ held.safety = b.safety
  BY BankTypes, RequestsStay
<1>2. FastTicks(b, off) = Bank!Update(held)
  BY DEF FastTicks
<1> HIDE DEF held
<1>3. /\ Bank!Update(held) \in Bank!Bank
      /\ Bank!Update(held).safety = held.safety
      /\ Bank!Update(held).inhibited = held.inhibited
  BY <1>1, BankTypes, RequestsStay
<1>4. ~held.inhibited =>
        \A p \in Pump : held.safety[p] = "on" => p \in Bank!Update(held).actual
  BY <1>1, SafetyIsObeyed
<1> QED
  BY <1>1, <1>2, <1>3, <1>4

-----------------------------------------------------------------------------
(* The loops. *)

Loops == [{"overheat", "burning", "charging", "returning"} -> BOOLEAN]

\* A pass leaves four latches.
LEMMA LoopType ==
  ASSUME NEW l \in Loops, NEW s \in Settings, NEW r \in Sensors
  PROVE  Loop(l, Guarded(s), r) \in Loops
<1> DEFINE g == Guarded(s)
           once == Loop(l, g, r)
<1>1. l.overheat \in BOOLEAN
  BY DEF Loops
<1>2. Overheat(l, g, r) \in BOOLEAN
  BY <1>1 DEF Overheat
<1>3. Burning(l, g, r) \in BOOLEAN
  BY DEF Burning
<1>4. Charging(l, g, r) \in BOOLEAN
  BY DEF Charging
<1>5. Returning(l, g, r, Burning(l, g, r)) \in BOOLEAN
  BY DEF Returning
<1>6. once = [overheat |-> Overheat(l, g, r), burning |-> Burning(l, g, r),
              charging |-> Charging(l, g, r),
              returning |-> Returning(l, g, r, Burning(l, g, r))]
  BY Zenon DEF Loop
<1> HIDE DEF once, g
<1>7. once \in Loops
  BY <1>2, <1>3, <1>4, <1>5, <1>6 DEF Loops
<1> QED
  BY <1>7 DEF once, g

\* The guards leave integers, in order.
LEMMA GuardsOrder ==
  ASSUME NEW s \in Settings
  PROVE  LET g == Guarded(s)
         IN /\ {g.p1DeltaOn, g.p1DeltaOff, g.p1T1Min, g.p1Hyst, g.ohOn, g.ohClear,
                g.p2T2Off, g.p2Hyst, g.p2T1Burn} \subseteq Int
            /\ {g.p1Hyst, g.p2Hyst} \subseteq Nat
            /\ g.p1DeltaOff < g.p1DeltaOn
            /\ g.ohClear < g.ohOn /\ g.ohOn = s.ohOn
BY DEF Guarded, Lower, Settings

\* Readings that stay the same change nothing after one pass: what sets a latch
\* never clears it.
LEMMA LoopIsIdempotent ==
  ASSUME NEW l \in Loops, NEW s \in Settings, NEW r \in Sensors
  PROVE  LET g == Guarded(s)
         IN Loop(Loop(l, g, r), g, r) = Loop(l, g, r)
<1> DEFINE g == Guarded(s)
           once == Loop(l, g, r)
<1>1. /\ {g.p1DeltaOn, g.p1DeltaOff, g.p1T1Min, g.p1Hyst, g.ohOn, g.ohClear,
          g.p2T2Off, g.p2Hyst, g.p2T1Burn} \subseteq Int
      /\ {g.p1Hyst, g.p2Hyst} \subseteq Nat
      /\ g.p1DeltaOff < g.p1DeltaOn /\ g.ohClear < g.ohOn
  BY GuardsOrder
<1>2. {r.T1.c, r.T2.c, r.T3.c} \subseteq Int
  BY DEF Sensors, Probe
<1>3. /\ l.overheat \in BOOLEAN /\ l.burning \in BOOLEAN
      /\ l.charging \in BOOLEAN /\ l.returning \in BOOLEAN
  BY DEF Loops
<1>4. /\ once.overheat = Overheat(l, g, r)
      /\ once.burning = Burning(l, g, r)
      /\ once.charging = Charging(l, g, r)
      /\ once.returning = Returning(l, g, r, Burning(l, g, r))
  BY DEF Loop
<1> HIDE DEF g, once
<1>5. Overheat(once, g, r) = once.overheat
  BY <1>1, <1>2, <1>3, <1>4 DEF Overheat, Latched
<1>6. Burning(once, g, r) = once.burning
  BY <1>1, <1>2, <1>3, <1>4 DEF Burning, Latched
<1>7. Charging(once, g, r) = once.charging
  BY <1>1, <1>2, <1>3, <1>4 DEF Charging, Latched
<1>8. Returning(once, g, r, once.burning) = once.returning
  BY <1>1, <1>2, <1>3, <1>4 DEF Returning, Latched
<1>9. Loop(once, g, r) = once
  BY <1>4, <1>5, <1>6, <1>7, <1>8 DEF Loop, once
<1> QED
  BY <1>9 DEF g, once

-----------------------------------------------------------------------------
(* The inductive invariant. *)

Typed == /\ plant \in Plant /\ settings \in Choices[plant]
         /\ loop \in Loops /\ bank \in Bank!Bank

\* What the decisions of the last slow pass ask for is in the safety slots: the
\* requests outlive the pass, the fast ticks and the hold-offs after it.
ForcedAsk ==
  /\ hot => loop.overheat
  /\ loop.overheat => bank.safety["P1"] = "on" /\ bank.safety["P3"] = "on"
  /\ "t1_failsafe" \in alarms => bank.safety["P1"] = "on"
  /\ "t1t2_failsafe" \in alarms => bank.safety["P2"] = "on"

ForcedRun ==
  ~bank.inhibited => \A p \in Pump : bank.safety[p] = "on" => p \in bank.actual

IInv == Typed /\ ForcedAsk /\ ForcedRun

\* The choices of a plant are settings, and the relay locks among them.
LEMMA ChoicesTyped ==
  ASSUME NEW p \in Plant, NEW s \in Choices[p]
  PROVE  s \in Settings /\ s.lock \in Locks
BY BoilerRoomAssumption DEF Locks

\* A boiler room that has just started, or started again, has asked for nothing.
LEMMA StartIInv ==
  ASSUME NEW lock \in Locks
  PROVE  LET b == Bank!Configured(lock)
         IN /\ b \in Bank!Bank /\ ~b.inhibited
            /\ \A p \in Pump : b.safety[p] = "unset"
<1> DEFINE b == Bank!Configured(lock)
<1>1. BankProofs!Bank = Bank!Bank
  BY Zenon DEF Bank!Bank, BankProofs!Bank, Bank!Request, Bank!Reason,
               BankProofs!Request, BankProofs!Reason
<1>2. BankProofs!Configured(lock) = b
  BY Zenon DEF Bank!Configured, BankProofs!Configured
<1>3. b \in Bank!Bank
  BY <1>1, <1>2, BankAssumption, BankProofs!ConfiguredType
<1>4. ~b.inhibited /\ \A p \in Pump : b.safety[p] = "unset"
  BY DEF Bank!Configured
<1> QED
  BY <1>3, <1>4

\* No latch is set at the start.
LEMMA ColdType == Cold \in Loops /\ ~Cold.overheat
<1>1. ASSUME NEW no \in BOOLEAN
      PROVE  [overheat |-> no, burning |-> no, charging |-> no, returning |-> no] \in Loops
  BY DEF Loops
<1>2. Cold \in Loops
  BY <1>1, Zenon DEF Cold
<1>3. ~Cold.overheat
  BY DEF Cold
<1> QED
  BY <1>2, <1>3

\* A start, and a restart.
LEMMA InitStart ==
  ASSUME plant \in Plant, settings \in Choices[plant], loop = Cold, alarms = {},
         hot = FALSE, bank = Bank!Configured(settings.lock)
  PROVE  IInv
<1>1. settings.lock \in Locks
  BY ChoicesTyped
<1>2. /\ bank \in Bank!Bank /\ ~bank.inhibited
      /\ \A p \in Pump : bank.safety[p] = "unset"
  BY <1>1, StartIInv
<1>3. loop \in Loops /\ ~loop.overheat
  BY ColdType
<1> QED
  BY <1>2, <1>3 DEF IInv, Typed, ForcedAsk, ForcedRun

\* Whatever the decisions, a slow pass leaves their requests in the bank.
LEMMA RequestsType ==
  ASSUME NEW b, b \in Bank!Bank, NEW l, NEW r, NEW u
  PROVE  LET requests == Slots(b, Forced(l, r, u), Asked(l, r, u))
         IN /\ requests \in Bank!Bank
            /\ \A p \in Forced(l, r, u) : requests.safety[p] = "on"
<1>1. PICK forced : forced = Forced(l, r, u)
  OBVIOUS
<1>2. PICK wanted : wanted = Asked(l, r, u)
  OBVIOUS
<1>3. forced \subseteq Pump
  BY <1>1 DEF Forced
<1>4. wanted \subseteq Pump
  BY <1>2 DEF Asked
<1> DEFINE safety == [p \in Pump |-> IF p \in forced THEN "on" ELSE "unset"]
<1>5. safety \in [Pump -> Bank!Request] /\ \A p \in forced : safety[p] = "on"
  BY <1>3 DEF Bank!Request
<1>6. Slots(b, forced, wanted) = [b EXCEPT !.safety = safety, !.control = wanted]
  BY DEF Slots
<1> HIDE DEF safety
<1>7. Slots(b, forced, wanted) \in Bank!Bank
  BY <1>4, <1>5, <1>6 DEF Bank!Bank
<1>8. Slots(b, forced, wanted).safety = safety
  BY <1>6 DEF Bank!Bank
<1> QED
  BY <1>1, <1>2, <1>5, <1>7, <1>8

\* A slow pass decides, asks and switches, whatever it reads.
LEMMA SlowPassIInv ==
  ASSUME IInv, NEW d \in Steps, SlowPass(d)
  PROVE  IInv'
<1> DEFINE g == Guarded(settings)
<1>1. PICK r \in Readings[plant], off \in OutputsOff,
           b \in {HwTick(Bank!Aged(bank, d), x) : x \in SUBSET Exercisable} :
        \E u : LET l == Loop(loop, g, r) IN
          /\ loop' = l /\ alarms' = Alarms(l, r)
          /\ bank' = FastTicks(Slots(b, Forced(l, r, u), Asked(l, r, u)), off)
          /\ hot' = IF r.T1.health = "Pending" THEN hot
                    ELSE r.T1.health = "Ok" /\ r.T1.c > settings.ohOn
          /\ UNCHANGED <<plant, settings>>
  BY DEF SlowPass
<1>2. PICK u : LET l == Loop(loop, g, r) IN
          /\ loop' = l /\ alarms' = Alarms(l, r)
          /\ bank' = FastTicks(Slots(b, Forced(l, r, u), Asked(l, r, u)), off)
          /\ hot' = IF r.T1.health = "Pending" THEN hot
                    ELSE r.T1.health = "Ok" /\ r.T1.c > settings.ohOn
          /\ UNCHANGED <<plant, settings>>
  BY <1>1
<1> DEFINE l == Loop(loop, g, r)
           requests == Slots(b, Forced(l, r, u), Asked(l, r, u))
<1>3. /\ plant \in Plant /\ settings \in Settings /\ settings.lock \in Locks
      /\ r \in Sensors /\ loop \in Loops
  BY ChoicesTyped, BoilerRoomAssumption DEF IInv, Typed
<1>4. l \in Loops
  BY <1>3, LoopType
<1>5. b \in Bank!Bank
  <2>1. d \in Nat /\ Exercisable \subseteq Pump
    BY <1>3, BoilerRoomAssumption DEF Age, Exercisable
  <2>2. PICK x \in SUBSET Pump : b = HwTick(Bank!Aged(bank, d), x)
    BY <2>1
  <2>3. Bank!Aged(bank, d) \in Bank!Bank
    BY <2>1, BankTypes DEF IInv, Typed
  <2> QED BY <2>2, <2>3, <1>3, HwTickType
<1>6. Forced(l, r, u) \in SUBSET Pump /\ Asked(l, r, u) \in SUBSET Pump
  BY DEF Forced, Asked
<1>7. /\ requests \in Bank!Bank
      /\ \A p \in Forced(l, r, u) : requests.safety[p] = "on"
  BY <1>5, RequestsType
<1>8. off \in BOOLEAN
  BY DEF OutputsOff
<1>9. bank' = FastTicks(requests, off) /\ loop' = l /\ alarms' = Alarms(l, r)
  BY <1>2
<1>10. /\ bank' \in Bank!Bank /\ bank'.safety = requests.safety
       /\ ~bank'.inhibited => \A p \in Pump : requests.safety[p] = "on" => p \in bank'.actual
  <2> HIDE DEF requests
  <2> QED BY <1>7, <1>8, <1>9, FastTicksObey
<1>11. Typed'
  BY <1>2, <1>4, <1>9, <1>10 DEF IInv, Typed
<1>12. ForcedRun'
  BY <1>10 DEF ForcedRun
<1>13. ForcedAsk'
  <2>1. hot' => loop'.overheat
    <3>1. /\ g.ohOn \in Int /\ g.ohClear \in Int /\ r.T1.c \in Int
          /\ g.ohClear < g.ohOn /\ g.ohOn = settings.ohOn
      BY <1>3, GuardsOrder DEF Sensors, Probe
    <3>2. loop'.overheat = Overheat(loop, g, r)
      BY <1>9 DEF Loop
    <3>3. loop.overheat \in BOOLEAN /\ (hot => loop.overheat)
      BY <1>3 DEF Loops, IInv, ForcedAsk
    <3>4. hot' = IF r.T1.health = "Pending" THEN hot
                 ELSE r.T1.health = "Ok" /\ r.T1.c > settings.ohOn
      BY <1>2
    <3> HIDE DEF g
    <3>5. CASE r.T1.health = "Pending"
      BY <3>2, <3>3, <3>4, <3>5 DEF Overheat
    <3>6. CASE r.T1.health # "Pending"
      <4>1. hot' => r.T1.health = "Ok" /\ r.T1.c > settings.ohOn
        BY <3>4, <3>6, Zenon
      <4>2. r.T1.c > settings.ohOn => r.T1.c > g.ohOn /\ ~(r.T1.c < g.ohClear)
        BY <3>1
      <4> QED BY <3>2, <3>3, <3>6, <4>1, <4>2 DEF Overheat, Latched
    <3> QED BY <3>5, <3>6
  <2>2. loop'.overheat => {"P1", "P3"} \subseteq Forced(l, r, u)
    BY <1>9 DEF Forced, Pump
  <2>3. /\ "t1_failsafe" \in alarms' => "P1" \in Forced(l, r, u)
        /\ "t1t2_failsafe" \in alarms' => "P2" \in Forced(l, r, u)
    BY <1>9 DEF Alarms, Forced, Pump
  <2> HIDE DEF requests, l
  <2> QED BY <2>1, <2>2, <2>3, <1>7, <1>10 DEF ForcedAsk
<1> QED
  BY <1>11, <1>12, <1>13 DEF IInv

\* The passes between slow ones obey what was requests.
LEMMA FastPassIInv ==
  ASSUME IInv, FastPass
  PROVE  IInv'
<1>1. PICK off \in OutputsOff : bank' = FastTicks(bank, off)
  BY DEF FastPass
<1>2. off \in BOOLEAN /\ bank \in Bank!Bank
  BY DEF OutputsOff, IInv, Typed
<1>3. /\ bank' \in Bank!Bank /\ bank'.safety = bank.safety
      /\ ~bank'.inhibited => \A p \in Pump : bank.safety[p] = "on" => p \in bank'.actual
  BY <1>1, <1>2, FastTicksObey
<1>4. UNCHANGED <<plant, settings, loop, alarms, hot>>
  BY DEF FastPass
<1> QED
  BY <1>3, <1>4 DEF IInv, Typed, ForcedAsk, ForcedRun

\* IInv holds of the start and of every step.
LEMMA Inductive == Spec => []IInv
<1>1. Init => IInv
  BY InitStart DEF Init
<1>2. IInv /\ [Next]_vars => IInv'
  <2> SUFFICES ASSUME IInv, [Next]_vars PROVE IInv'
    OBVIOUS
  <2>1. CASE \E d \in Steps : SlowPass(d)
    BY <2>1, SlowPassIInv
  <2>2. CASE FastPass
    BY <2>2, FastPassIInv
  <2>3. CASE SetFlag
    BY <2>3 DEF SetFlag, IInv, Typed, ForcedAsk, ForcedRun
  <2>4. CASE ChangeSettings
    BY <2>4 DEF ChangeSettings, IInv, Typed, ForcedAsk, ForcedRun
  <2>5. CASE LinkChanges
    BY <2>5 DEF LinkChanges, history, IInv, Typed, ForcedAsk, ForcedRun
  <2>6. CASE Reboot
    <3>1. /\ plant' \in Plant /\ settings' \in Choices[plant']
          /\ loop' = Cold /\ alarms' = {} /\ hot' = FALSE
          /\ bank' = Bank!Configured(settings'.lock)
      BY <2>6 DEF Reboot, IInv, Typed
    <3>2. settings'.lock \in Locks
      BY <3>1, ChoicesTyped
    <3>3. /\ bank' \in Bank!Bank /\ ~bank'.inhibited
          /\ \A p \in Pump : bank'.safety[p] = "unset"
      BY <3>1, <3>2, StartIInv
    <3>4. loop' \in Loops /\ ~loop'.overheat
      BY <3>1, ColdType
    <3> QED
      BY <3>1, <3>3, <3>4 DEF IInv, Typed, ForcedAsk, ForcedRun
  <2>7. CASE UNCHANGED vars
    BY <2>7 DEF vars, history, IInv, Typed, ForcedAsk, ForcedRun
  <2> QED
    BY <2>1, <2>2, <2>3, <2>4, <2>5, <2>6, <2>7 DEF Next
<1> QED
  BY <1>1, <1>2, PTL DEF Spec

-----------------------------------------------------------------------------
(* What the supply of the home and the checks rest on.                     *)

\* Nobody asks for OFF, and what is held off is off; an age is that of the last change
\* for as long as a pump is off.
SlotsFit ==
  /\ \A p \in Pump : bank.safety[p] # "off" /\ bank.exercise[p] # "off"
  /\ bank.inhibited => bank.actual = {}
  /\ \A p \in Pump : p \notin bank.actual => bank.sinceOn[p] = bank.since[p]

\* The flag is the home's word; what was decided in the last slow pass is asked for, and
\* P3 is off only by decision, by the lock, or for a while.
SupplyFits ==
  /\ noNeed = word
  /\ supply.mode = "Off" => open /\ (steady => word)
  /\ steady => ~bank.inhibited
  /\ steady /\ supply.mode # "Off" => "P3" \in bank.control
  /\ supply.running => bank.safety["P3"] = "on"
  /\ steady /\ "P3" \notin bank.actual => supply.mode = "Off" \/ bank.since["P3"] < bank.lock
  /\ AntiFreezeKeepsP3Moving

\* The machine and the history count the same time since a refusal.
RefusalFits == lastOffer.how = "refused" => supply.waiting /\ supply.waited = lastOffer.age

\* A pump under check has run as long as its check says, or was held off since, or has just
\* been stopped by its rule and waits for the next pass, which will see it off.
Stopped(p) == /\ p \notin bank.actual /\ bank.since[p] = 0 /\ ~bank.inhibited
              /\ ~Bank!Wants(bank, p)

CheckFits(w) ==
  LET k == checks[w]
      p == PumpOf[w]
  IN /\ k.tracking => /\ \A t \in {HotOf[w], ColdOf[w]} : span[t] >= k.ran
                      /\ \/ span["outputs"] <= k.ran
                         \/ p \in bank.actual /\ bank.since[p] >= k.ran
                         \/ Stopped(p)
     /\ k.warns => k.tracking /\ (steady => k.ran >= settings.minOn)
     /\ plant \notin Diagnosed => ~k.tracking

ChecksFit == \A w \in Check : CheckFits(w)

RInv == TypeOK /\ SlotsFit /\ SupplyFits /\ RefusalFits /\ ChecksFit

-----------------------------------------------------------------------------
(* What update() does to one pump.                                         *)

\* Who is off is off since his last change.
OffSince(b) == \A p \in Pump : p \notin b.actual => b.sinceOn[p] = b.since[p]

\* An update moves a pump only where its request points, and restarts its age then.
LEMMA UpdateMoves ==
  ASSUME NEW b, b \in Bank!Bank, NEW p \in Pump
  PROVE  LET a == Bank!Update(b)
         IN /\ a.control = b.control /\ a.safety = b.safety /\ a.exercise = b.exercise
            /\ a.lock = b.lock /\ a.inhibited = b.inhibited
            /\ b.inhibited => a.actual = b.actual
            /\ ~b.inhibited /\ Bank!Wants(b, p) /\ p \notin a.actual =>
                 p \notin b.actual /\ b.since[p] < b.lock
            /\ (p \in a.actual <=> p \in b.actual) => a.since[p] = b.since[p]
            /\ p \notin a.actual /\ p \in b.actual => a.since[p] = 0 /\ ~Bank!Wants(b, p)
            /\ ~Bank!Wants(b, p) /\ p \notin b.actual => p \notin a.actual
<1> DEFINE a == Bank!Update(b)
           sw == Bank!Switching(b)
<1>1. /\ a.control = b.control /\ a.safety = b.safety /\ a.exercise = b.exercise
      /\ a.lock = b.lock /\ a.inhibited = b.inhibited
  BY DEF Bank!Update, Bank!Bank
<1>2. a.actual = (b.actual \ sw) \cup (sw \ b.actual)
  BY DEF Bank!Update, Bank!Bank
<1>3. a.since = [c \in Pump |-> IF c \in sw THEN 0 ELSE b.since[c]]
  BY DEF Bank!Update, Bank!Bank
<1>4. a.since[p] = IF p \in sw THEN 0 ELSE b.since[p]
  BY <1>3
<1>5. /\ b.inhibited => sw = {}
      /\ p \in sw => (Bank!Wants(b, p) <=> p \notin b.actual)
      /\ ~b.inhibited /\ Bank!Wants(b, p) /\ p \notin b.actual /\ p \notin sw => ~Bank!Bypass(b, p)
  <2>1. Bank!Wants(b, p) \in BOOLEAN
    BY DEF Bank!Wants
  <2>2. p \in sw => Bank!Wants(b, p) # (p \in b.actual)
    BY DEF Bank!Switching, Bank!Mismatched
  <2>3. ~b.inhibited /\ p \notin sw => Bank!Wants(b, p) = (p \in b.actual) \/ ~Bank!Bypass(b, p)
    BY DEF Bank!Switching, Bank!Mismatched
  <2>4. b.inhibited => sw = {}
    BY DEF Bank!Switching
  <2> HIDE DEF sw
  <2> QED BY <2>1, <2>2, <2>3, <2>4
<1>6. ~Bank!Bypass(b, p) => b.since[p] < b.lock
  <2>1. b.since[p] \in Int /\ b.lock \in Int
    BY BoilerRoomAssumption DEF Bank!Bank, Locks, Settings, Age
  <2> QED BY <2>1 DEF Bank!Bypass
<1> HIDE DEF a, sw
<1> QED BY <1>1, <1>2, <1>4, <1>5, <1>6 DEF a

\* It leaves those that are off with the age of their last change.
LEMMA UpdateDates ==
  ASSUME NEW b, b \in Bank!Bank, OffSince(b), b.inhibited => b.actual = {}
  PROVE  OffSince(Bank!Update(b))
<1> DEFINE a == Bank!Update(b)
           sw == Bank!Switching(b)
<1>1. a.actual = (b.actual \ sw) \cup (sw \ b.actual)
  BY DEF Bank!Update, Bank!Bank
<1>2. /\ a.since = [c \in Pump |-> IF c \in sw THEN 0 ELSE b.since[c]]
      /\ a.sinceOn = [c \in Pump |-> IF ~b.inhibited /\ c \in b.actual \cup a.actual
                                     THEN 0 ELSE b.sinceOn[c]]
  BY DEF Bank!Update, Bank!Bank
<1>3. b.inhibited => sw = {}
  BY DEF Bank!Switching
<1>4. ASSUME NEW p \in Pump, p \notin a.actual PROVE a.sinceOn[p] = a.since[p]
  <2>1. /\ a.since[p] = IF p \in sw THEN 0 ELSE b.since[p]
        /\ a.sinceOn[p] = IF ~b.inhibited /\ p \in b.actual \cup a.actual THEN 0 ELSE b.sinceOn[p]
    BY <1>2
  <2> HIDE DEF a, sw
  <2> QED BY <1>1, <1>3, <1>4, <2>1 DEF OffSince
<1> QED BY <1>4 DEF OffSince

\* A hold-off takes the outputs away, and only that.
LEMMA HoldOffs ==
  ASSUME NEW b, b \in Bank!Bank, NEW off \in BOOLEAN, b.inhibited => b.actual = {}, OffSince(b)
  PROVE  LET a == Bank!SetInhibited(b, off)
         IN /\ a.control = b.control /\ a.safety = b.safety /\ a.exercise = b.exercise
            /\ a.lock = b.lock /\ a.inhibited = off
            /\ off => a.actual = {}
            /\ ~off => a.actual = b.actual /\ a.since = b.since
            /\ \A p \in Pump : a.since[p] = IF p \in b.actual /\ off THEN 0 ELSE b.since[p]
            /\ OffSince(a)
<1>1. CASE b.inhibited = off
  BY <1>1 DEF Bank!SetInhibited, Bank!Bank
<1>2. CASE b.inhibited # off /\ ~off
  <2>1. Bank!SetInhibited(b, off) = [b EXCEPT !.inhibited = FALSE]
    BY <1>2 DEF Bank!SetInhibited
  <2> QED BY <1>2, <2>1 DEF Bank!Bank, OffSince
<1>3. CASE b.inhibited # off /\ off
  <2> DEFINE a == Bank!SetInhibited(b, off)
  <2>1. /\ a.control = b.control /\ a.safety = b.safety /\ a.exercise = b.exercise
        /\ a.lock = b.lock /\ a.inhibited = TRUE /\ a.actual = {}
        /\ a.since = [c \in Pump |-> IF c \in b.actual THEN 0 ELSE b.since[c]]
        /\ a.sinceOn = [c \in Pump |-> IF c \in b.actual THEN 0 ELSE b.sinceOn[c]]
    BY <1>3 DEF Bank!SetInhibited, Bank!Bank
  <2> HIDE DEF a
  <2>2. a.inhibited = off
    BY <1>3, <2>1
  <2>3. OffSince(a)
    BY <2>1 DEF OffSince
  <2> QED BY <1>3, <2>1, <2>2, <2>3 DEF a
<1> QED BY <1>1, <1>2, <1>3

\* What is asked of a pump depends on its requests alone.
LEMMA WantsStay ==
  ASSUME NEW a, NEW b, NEW p \in Pump,
         a.control = b.control, a.safety = b.safety, a.exercise = b.exercise
  PROVE  Bank!Wants(a, p) <=> Bank!Wants(b, p)
BY DEF Bank!Wants

\* The fast ticks: hold-off, then update.
LEMMA FastTicksMove ==
  ASSUME NEW b, b \in Bank!Bank, NEW off \in BOOLEAN, b.inhibited => b.actual = {}, OffSince(b),
         NEW p \in Pump
  PROVE  LET a == FastTicks(b, off)
         IN /\ a.control = b.control /\ a.safety = b.safety /\ a.exercise = b.exercise
            /\ a.lock = b.lock /\ a.inhibited = off
            /\ off => a.actual = {}
            /\ ~off /\ Bank!Wants(b, p) /\ p \notin a.actual =>
                 p \notin b.actual /\ b.since[p] < b.lock
            /\ (p \in a.actual <=> p \in b.actual) => a.since[p] = b.since[p]
            /\ p \notin a.actual /\ p \in b.actual => a.since[p] = 0 /\ (~off => ~Bank!Wants(b, p))
            /\ ~Bank!Wants(b, p) /\ p \notin b.actual => p \notin a.actual
            /\ OffSince(a)
<1> DEFINE h == Bank!SetInhibited(b, off)
           a == Bank!Update(h)
<1>1. h \in Bank!Bank
  BY BankTypes
<1>2. /\ h.control = b.control /\ h.safety = b.safety /\ h.exercise = b.exercise
      /\ h.lock = b.lock /\ h.inhibited = off
      /\ off => h.actual = {}
      /\ ~off => h.actual = b.actual /\ h.since = b.since
      /\ h.since[p] = IF p \in b.actual /\ off THEN 0 ELSE b.since[p]
      /\ OffSince(h)
  BY HoldOffs
<1>3. FastTicks(b, off) = a
  BY DEF FastTicks
<1> HIDE DEF h
<1>4. Bank!Wants(h, p) <=> Bank!Wants(b, p)
  BY <1>2, WantsStay
<1>5. /\ a.control = h.control /\ a.safety = h.safety /\ a.exercise = h.exercise
      /\ a.lock = h.lock /\ a.inhibited = h.inhibited
      /\ h.inhibited => a.actual = h.actual
      /\ ~h.inhibited /\ Bank!Wants(h, p) /\ p \notin a.actual =>
           p \notin h.actual /\ h.since[p] < h.lock
      /\ (p \in a.actual <=> p \in h.actual) => a.since[p] = h.since[p]
      /\ p \notin a.actual /\ p \in h.actual => a.since[p] = 0 /\ ~Bank!Wants(h, p)
      /\ ~Bank!Wants(h, p) /\ p \notin h.actual => p \notin a.actual
  BY <1>1, UpdateMoves
<1>6. OffSince(a)
  BY <1>1, <1>2, UpdateDates
<1> HIDE DEF a
<1>7. CASE off
  BY <1>2, <1>3, <1>4, <1>5, <1>6, <1>7
<1>8. CASE ~off
  BY <1>2, <1>3, <1>4, <1>5, <1>6, <1>8
<1> QED BY <1>7, <1>8

\* hw.tick(): lock, exercises, update.
LEMMA HwTickMoves ==
  ASSUME NEW b, b \in Bank!Bank, NEW x \in SUBSET Pump, settings.lock \in Locks,
         b.inhibited => b.actual = {}, OffSince(b), NEW p \in Pump
  PROVE  LET a == HwTick(b, x)
         IN /\ a.control = b.control /\ a.safety = b.safety /\ a.inhibited = b.inhibited
            /\ b.inhibited => a.actual = {} /\ a.exercise = b.exercise
            /\ ~b.inhibited => a.exercise = [q \in Pump |-> IF q \in x THEN "on" ELSE "unset"]
            /\ ~b.inhibited /\ b.safety[p] = "on" => p \in a.actual
            /\ (p \in a.actual <=> p \in b.actual) => a.since[p] = b.since[p]
            /\ p \notin a.actual /\ p \in b.actual => a.since[p] = 0
            /\ p \notin b.actual /\ p \notin x /\ b.safety[p] # "on" /\ p \notin b.control =>
                 p \notin a.actual
            /\ OffSince(a)
<1> DEFINE locked == Bank!SetLockMs(b, settings.lock)
           exercise == [q \in Pump |-> IF q \in x THEN "on" ELSE "unset"]
           moved == [locked EXCEPT !.exercise = exercise]
           m == IF b.inhibited THEN locked ELSE moved
           a == Bank!Update(m)
<1>1. /\ locked \in Bank!Bank /\ locked.control = b.control /\ locked.safety = b.safety
      /\ locked.inhibited = b.inhibited /\ locked.actual = b.actual /\ locked.since = b.since
      /\ locked.sinceOn = b.sinceOn /\ locked.exercise = b.exercise
  BY DEF Bank!SetLockMs, Bank!Bank
<1>2. exercise \in [Pump -> Bank!Request]
  BY DEF Bank!Request
<1>3. /\ moved \in Bank!Bank /\ moved.control = b.control /\ moved.safety = b.safety
      /\ moved.inhibited = b.inhibited /\ moved.actual = b.actual /\ moved.since = b.since
      /\ moved.sinceOn = b.sinceOn /\ moved.exercise = exercise
  <2> HIDE DEF locked, exercise
  <2> QED BY <1>1, <1>2 DEF Bank!Bank
<1>4. HwTick(b, x) = a
  BY DEF HwTick
<1>5. exercise[p] = IF p \in x THEN "on" ELSE "unset"
  OBVIOUS
<1> HIDE DEF locked, moved, exercise
<1>6. /\ m \in Bank!Bank /\ m.control = b.control /\ m.safety = b.safety
      /\ m.inhibited = b.inhibited /\ m.actual = b.actual /\ m.since = b.since
      /\ m.sinceOn = b.sinceOn
      /\ m.exercise = IF b.inhibited THEN b.exercise ELSE exercise
  BY <1>1, <1>3
<1> HIDE DEF m
<1>7. OffSince(m) /\ (m.inhibited => m.actual = {})
  BY <1>6 DEF OffSince
<1>8. OffSince(a)
  BY <1>6, <1>7, UpdateDates
<1>9. /\ a.control = m.control /\ a.safety = m.safety /\ a.exercise = m.exercise
      /\ a.lock = m.lock /\ a.inhibited = m.inhibited
      /\ m.inhibited => a.actual = m.actual
      /\ (p \in a.actual <=> p \in m.actual) => a.since[p] = m.since[p]
      /\ p \notin a.actual /\ p \in m.actual => a.since[p] = 0 /\ ~Bank!Wants(m, p)
      /\ ~Bank!Wants(m, p) /\ p \notin m.actual => p \notin a.actual
  BY <1>6, UpdateMoves
<1>10. ~m.inhibited /\ m.safety[p] = "on" => p \in a.actual
  BY <1>6, SafetyIsObeyed
<1>11. ~b.inhibited /\ p \notin x /\ b.safety[p] # "on" /\ p \notin b.control => ~Bank!Wants(m, p)
  BY <1>5, <1>6 DEF Bank!Wants
<1> HIDE DEF a
<1>12. b.inhibited => a.actual = {}
  BY <1>6, <1>7, <1>9
<1>13. /\ a.control = b.control /\ a.safety = b.safety /\ a.inhibited = b.inhibited
       /\ b.inhibited => a.actual = {} /\ a.exercise = b.exercise
       /\ ~b.inhibited => a.exercise = exercise
       /\ ~b.inhibited /\ b.safety[p] = "on" => p \in a.actual
       /\ (p \in a.actual <=> p \in b.actual) => a.since[p] = b.since[p]
       /\ p \notin a.actual /\ p \in b.actual => a.since[p] = 0
       /\ p \notin b.actual /\ p \notin x /\ b.safety[p] # "on" /\ p \notin b.control => p \notin a.actual
  BY <1>6, <1>9, <1>10, <1>11, <1>12
<1> QED BY <1>4, <1>8, <1>13 DEF exercise

-----------------------------------------------------------------------------
(* The supply's machine and the checks, by themselves.                     *)

Modes == {"Normal", "Off", "Offer"}
Supplies == [mode : Modes, offered : Age, waiting : BOOLEAN, waited : Age,
             running : BOOLEAN, ran : Age]
Checks == [tracking : BOOLEAN, ran : Age, baseline : Int, warns : BOOLEAN]

\* Ages stay ages, and in order.
LEMMA Ageing ==
  ASSUME NEW a \in Age, NEW b \in Age, NEW d \in Age
  PROVE  /\ Older(a, d, AgeCap) \in Age
         /\ a <= b => Older(a, d, AgeCap) <= Older(b, d, AgeCap)
         /\ a <= Older(a, d, AgeCap)
         /\ d # 0 /\ Older(a, d, AgeCap) = 0 => AgeCap = 0
BY BoilerRoomAssumption DEF Older, Age

\* What a transition tells of the flag, the link and the wait.
LEMMA ModeTells ==
  ASSUME NEW u \in Supplies, NEW s, NEW gate \in BOOLEAN, NEW flag \in BOOLEAN,
         NEW t3C \in Int, NEW overheat \in BOOLEAN
  PROVE  LET m == Mode(u, s, gate, flag, t3C, overheat)
         IN /\ m \in Modes
            /\ m = "Off" => gate /\ flag
            /\ gate /\ u.mode = "Offer" /\ m # "Offer" => (m = "Off" <=> flag)
            /\ m = "Offer" /\ u.mode # "Offer" =>
                 u.mode = "Off" /\ (u.waiting => s.wait = 0 \/ u.waited >= s.wait)
<1> DEFINE rested == ~u.waiting \/ s.wait = 0 \/ u.waited >= s.wait
           offers == flag /\ ~overheat /\ t3C >= s.p3T3Offer /\ rested
           stops == flag /\ ~offers
           waits == u.offered < s.window
           m == Mode(u, s, gate, flag, t3C, overheat)
<1>1. u.mode \in Modes /\ u.waiting \in BOOLEAN
  BY DEF Supplies
<1>2. m = IF ~gate THEN "Normal"
          ELSE CASE u.mode = "Normal" -> IF flag THEN "Off" ELSE "Normal"
                 [] u.mode = "Off" -> IF offers THEN "Offer"
                                      ELSE IF stops THEN "Off" ELSE "Normal"
                 [] u.mode = "Offer" -> IF waits THEN "Offer"
                                        ELSE IF flag THEN "Off" ELSE "Normal"
  BY DEF Mode
<1>3. (offers => flag /\ rested) /\ (stops => flag)
  OBVIOUS
<1>4. rested => (u.waiting => s.wait = 0 \/ u.waited >= s.wait)
  OBVIOUS
<1>5. flag \in BOOLEAN /\ offers \in BOOLEAN /\ stops \in BOOLEAN /\ waits \in BOOLEAN /\ rested \in BOOLEAN
  OBVIOUS
<1> DEFINE Told ==  /\ m \in Modes
                    /\ m = "Off" => gate /\ flag
                    /\ gate /\ u.mode = "Offer" /\ m # "Offer" => (m = "Off" <=> flag)
                    /\ m = "Offer" /\ u.mode # "Offer" =>
                         u.mode = "Off" /\ (u.waiting => s.wait = 0 \/ u.waited >= s.wait)
<1> HIDE DEF m, offers, stops, waits, rested
<1>6. ASSUME ~gate PROVE Told
  <2>1. m = "Normal"
    BY <1>2, <1>6
  <2> QED BY <1>6, <2>1 DEF Modes
<1>7. ASSUME gate, u.mode = "Normal" PROVE Told
  <2>1. m = IF flag THEN "Off" ELSE "Normal"
    BY <1>2, <1>7
  <2> QED BY <1>7, <2>1 DEF Modes
<1>8. ASSUME gate, u.mode = "Off" PROVE Told
  <2>1. m = IF offers THEN "Offer" ELSE IF stops THEN "Off" ELSE "Normal"
    BY <1>2, <1>8
  <2> QED BY <1>3, <1>4, <1>8, <2>1 DEF Modes
<1>9. ASSUME gate, u.mode = "Offer" PROVE Told
  <2>1. m = IF waits THEN "Offer" ELSE IF flag THEN "Off" ELSE "Normal"
    BY <1>2, <1>9
  <2> QED BY <1>9, <2>1 DEF Modes
<1>10. Told
  <2> HIDE DEF Told
  <2> QED BY <1>1, <1>6, <1>7, <1>8, <1>9 DEF Modes
<1> QED BY <1>10 DEF m

\* The machine's state, a pass later.
Tells(u, s, gate, flag, t3C, overheat, relayOn, idle) ==
  LET next == Supply(u, s, gate, flag, t3C, overheat, relayOn, idle)
  IN /\ next \in Supplies
     /\ next.mode = Mode(u, s, gate, flag, t3C, overheat)
     /\ next.waiting = (u.waiting \/ (u.mode = "Offer" /\ next.mode = "Off"))
     /\ next.waited = IF u.mode = "Offer" /\ next.mode = "Off" THEN 0 ELSE u.waited
     /\ s.afEnable /\ ~relayOn /\ idle >= s.afInterval /\ ~u.running => next.running

LEMMA SupplyTells ==
  ASSUME NEW u \in Supplies, NEW s, NEW gate \in BOOLEAN, NEW flag \in BOOLEAN,
         NEW t3C \in Int, NEW overheat \in BOOLEAN, NEW relayOn \in BOOLEAN, NEW idle \in Age
  PROVE  Tells(u, s, gate, flag, t3C, overheat, relayOn, idle)
<1> DEFINE m == Mode(u, s, gate, flag, t3C, overheat)
           refused == u.mode = "Offer" /\ m = "Off"
           running == IF u.running THEN s.afEnable /\ u.ran < s.afDuration
                      ELSE Due(u, s, relayOn, idle)
           offered == IF m = u.mode /\ m = "Offer" THEN u.offered ELSE 0
           waiting == u.waiting \/ refused
           waited == IF refused THEN 0 ELSE u.waited
           ran == IF u.running /\ running THEN u.ran ELSE 0
           v == [mode |-> m, offered |-> offered, waiting |-> waiting, waited |-> waited,
                 running |-> running, ran |-> ran]
<1>1. Supply(u, s, gate, flag, t3C, overheat, relayOn, idle) = v
  BY DEF Supply
<1>2. m \in Modes
  BY ModeTells
<1>3. 0 \in Age
  BY BoilerRoomAssumption DEF Age
<1>4. /\ u.mode \in Modes /\ u.offered \in Age /\ u.waiting \in BOOLEAN /\ u.waited \in Age
      /\ u.running \in BOOLEAN /\ u.ran \in Age
  BY DEF Supplies
<1>5. running \in BOOLEAN
  BY DEF Due
<1>6. offered \in Age /\ waiting \in BOOLEAN /\ waited \in Age /\ ran \in Age
  BY <1>3, <1>4
<1>7. s.afEnable /\ ~relayOn /\ idle >= s.afInterval /\ ~u.running => running
  BY DEF Due
<1> HIDE DEF m, running, offered, waited, ran
<1>8. v \in Supplies
  BY <1>2, <1>5, <1>6 DEF Supplies
<1>9. v.mode = m /\ v.waiting = waiting /\ v.waited = waited /\ v.running = running
  OBVIOUS
<1> HIDE DEF v, waiting
<1>10. /\ v.mode = m
       /\ v.waiting = (u.waiting \/ (u.mode = "Offer" /\ v.mode = "Off"))
       /\ v.waited = IF u.mode = "Offer" /\ v.mode = "Off" THEN 0 ELSE u.waited
  BY <1>9 DEF waiting, waited
<1> QED BY <1>1, <1>7, <1>8, <1>9, <1>10 DEF m, Tells

\* Time passes for the machine.
LEMMA LaterTells ==
  ASSUME NEW u \in Supplies, NEW d \in Age
  PROVE  LET v == Later(u, d)
         IN /\ v \in Supplies /\ v.mode = u.mode /\ v.waiting = u.waiting /\ v.running = u.running
            /\ u.waiting => v.waited = Older(u.waited, d, AgeCap)
<1> DEFINE offered == IF u.mode = "Offer" THEN Older(u.offered, d, AgeCap) ELSE 0
           waited == IF u.waiting THEN Older(u.waited, d, AgeCap) ELSE 0
           ran == IF u.running THEN Older(u.ran, d, AgeCap) ELSE 0
           v == [u EXCEPT !.offered = offered, !.waited = waited, !.ran = ran]
<1>1. Later(u, d) = v
  BY DEF Later
<1>2. /\ u.mode \in Modes /\ u.offered \in Age /\ u.waiting \in BOOLEAN /\ u.waited \in Age
      /\ u.running \in BOOLEAN /\ u.ran \in Age /\ 0 \in Age
  BY BoilerRoomAssumption DEF Supplies, Age
<1>3. offered \in Age /\ waited \in Age /\ ran \in Age
  BY <1>2, Ageing
<1>4. u.waiting => waited = Older(u.waited, d, AgeCap)
  OBVIOUS
<1> HIDE DEF offered, waited, ran
<1> DEFINE v1 == [u EXCEPT !.offered = offered]
           v2 == [v1 EXCEPT !.waited = waited]
           v3 == [v2 EXCEPT !.ran = ran]
<1>5. v1 \in Supplies /\ v1.mode = u.mode /\ v1.waiting = u.waiting /\ v1.running = u.running
  BY <1>3 DEF Supplies
<1> HIDE DEF v1
<1>6. /\ v2 \in Supplies /\ v2.mode = v1.mode /\ v2.waiting = v1.waiting
      /\ v2.running = v1.running /\ v2.waited = waited
  BY <1>3, <1>5 DEF Supplies
<1> HIDE DEF v2
<1>7. /\ v3 \in Supplies /\ v3.mode = v2.mode /\ v3.waiting = v2.waiting
      /\ v3.running = v2.running /\ v3.waited = v2.waited
  BY <1>3, <1>6 DEF Supplies
<1>8. v = v3
  BY DEF v1, v2
<1> HIDE DEF v, v3
<1> QED BY <1>1, <1>4, <1>5, <1>6, <1>7, <1>8 DEF v

\* A check, a pass later: it goes on, starts, or forgets all.
LEMMA CheckTells ==
  ASSUME NEW w \in Check, NEW k \in Checks, NEW d \in Age, NEW s \in Settings, NEW r \in Sensors,
         NEW actual
  PROVE  LET n == Checked(w, Running(k, d), s, r, actual)
         IN /\ n \in Checks
            /\ n.tracking => /\ PumpOf[w] \in actual
                             /\ r[HotOf[w]].health = "Ok" /\ r[ColdOf[w]].health = "Ok"
                             /\ n.ran = IF k.tracking THEN Older(k.ran, d, AgeCap) ELSE 0
            /\ n.warns => n.tracking /\ n.ran >= s.minOn
<1>1. /\ k.tracking \in BOOLEAN /\ k.ran \in Age /\ k.baseline \in Int /\ k.warns \in BOOLEAN
      /\ 0 \in Age
  BY BoilerRoomAssumption DEF Checks, Age
<1> DEFINE ran == IF k.tracking THEN Older(k.ran, d, AgeCap) ELSE 0
           aged == Running(k, d)
           cold == r[ColdOf[w]].c
           base == IF k.tracking THEN k.baseline ELSE cold
           warns == s.checking /\ ran >= s.minOn /\ r[HotOf[w]].c - cold > s.delta /\ cold - base < s.minRise
           n == Checked(w, aged, s, r, actual)
<1>2. ran \in Age
  BY <1>1, Ageing
<1>3. aged = [k EXCEPT !.ran = ran]
  BY DEF Running
<1>4. aged.tracking = k.tracking /\ aged.baseline = k.baseline /\ aged.ran = ran
  BY <1>3 DEF Checks
<1>5. cold \in Int
  BY DEF Sensors, Probe, ColdOf, Check
<1>6. base \in Int /\ warns \in BOOLEAN
  BY <1>1, <1>5 DEF Settings
<1>7. n = IF Watching(w, r, actual)
          THEN [tracking |-> TRUE, ran |-> ran, baseline |-> base, warns |-> warns]
          ELSE NotTracking
  <2> HIDE DEF aged, ran
  <2> QED BY <1>4 DEF Checked
<1>8. warns => ran >= s.minOn
  OBVIOUS
<1> HIDE DEF ran, base, warns, n, cold
<1>9. CASE Watching(w, r, actual)
  <2>1. n = [tracking |-> TRUE, ran |-> ran, baseline |-> base, warns |-> warns]
    BY <1>7, <1>9
  <2>2. n \in Checks /\ n.ran = ran /\ n.warns = warns /\ n.tracking
    BY <1>2, <1>6, <2>1 DEF Checks
  <2>3. PumpOf[w] \in actual /\ r[HotOf[w]].health = "Ok" /\ r[ColdOf[w]].health = "Ok"
    BY <1>9 DEF Watching
  <2> QED BY <1>8, <2>2, <2>3 DEF n, ran, aged
<1>10. CASE ~Watching(w, r, actual)
  <2>1. n = NotTracking
    BY <1>7, <1>10
  <2>2. n \in Checks /\ ~n.tracking /\ ~n.warns
    BY <1>1, <2>1 DEF NotTracking, Checks
  <2> QED BY <2>2 DEF n, aged
<1> QED BY <1>9, <1>10

-----------------------------------------------------------------------------
(* The steps keep them.                                                    *)

\* The guards touch the thresholds, not the times.
LEMMA GuardsSpareTimes ==
  ASSUME NEW s \in Settings
  PROVE  LET g == Guarded(s)
         IN g.afEnable = s.afEnable /\ g.afInterval = s.afInterval /\ g.wait = s.wait
<1>1. PICK n1 : n1 = Lower(s.p1DeltaOff, s.p1DeltaOn - 1)
  OBVIOUS
<1>2. PICK n2 : n2 = Lower(s.ohClear, s.ohOn - 2)
  OBVIOUS
<1> DEFINE g1 == [s EXCEPT !.p1DeltaOff = n1]
           g2 == [g1 EXCEPT !.ohClear = n2]
<1>3. Guarded(s) = g2
  BY <1>1, <1>2 DEF Guarded
<1>4. g1 = [i \in DOMAIN s |-> IF i = "p1DeltaOff" THEN n1 ELSE s[i]]
  BY DEF Settings
<1>5. {"afEnable", "afInterval", "wait", "ohClear"} \subseteq DOMAIN s
  BY DEF Settings
<1> HIDE DEF g1
<1>6. g2 = [i \in DOMAIN s |-> IF i = "ohClear" THEN n2 ELSE g1[i]]
  BY <1>4
<1> HIDE DEF g2
<1> QED BY <1>3, <1>4, <1>5, <1>6

\* Time passes for the bank.
LEMMA AgedTells ==
  ASSUME NEW b, b \in Bank!Bank, NEW d \in Age, OffSince(b)
  PROVE  LET a == Bank!Aged(b, d)
         IN /\ a \in Bank!Bank /\ a.control = b.control /\ a.safety = b.safety
            /\ a.exercise = b.exercise /\ a.actual = b.actual
            /\ a.inhibited = b.inhibited
            /\ \A p \in Pump : /\ a.since[p] = Older(b.since[p], d, AgeCap)
                               /\ a.sinceOn[p] = Older(b.sinceOn[p], d, AgeCap)
            /\ OffSince(a)
<1>1. PICK a : a = Bank!Aged(b, d)
  OBVIOUS
<1>2. a \in Bank!Bank
  <2>1. d \in Nat
    BY BoilerRoomAssumption DEF Age
  <2> QED BY <1>1, <2>1, BankTypes
<1>3. /\ a.control = b.control /\ a.safety = b.safety
      /\ a.exercise = b.exercise /\ a.actual = b.actual
      /\ a.inhibited = b.inhibited
      /\ a.since = [p \in Pump |-> Bank!Older(b.since[p], d, AgeCap)]
      /\ a.sinceOn = [p \in Pump |-> Bank!Older(b.sinceOn[p], d, AgeCap)]
  BY <1>1 DEF Bank!Aged, Bank!Bank
<1>4. \A p \in Pump : /\ a.since[p] = Older(b.since[p], d, AgeCap)
                      /\ a.sinceOn[p] = Older(b.sinceOn[p], d, AgeCap)
  BY <1>3 DEF Older, Bank!Older
<1>5. OffSince(a)
  BY <1>3, <1>4 DEF OffSince
<1> QED BY <1>1, <1>2, <1>3, <1>4, <1>5

\* The pass in its parts: the bank the controller finds, what it decides, what it asks
\* for, and the bank it leaves.
Passes(d, r, off, x, aged, b, old, g, l, u, requests) ==
  /\ r \in Readings[plant] /\ off \in OutputsOff /\ x \subseteq Exercisable
  /\ aged = Bank!Aged(bank, d) /\ b = HwTick(aged, x)
  /\ old = Later(supply, d) /\ g = Guarded(settings) /\ l = Loop(loop, g, r)
  /\ u = Supply(old, g, link /\ r.T3.health = "Ok", noNeed /\ link, r.T3.c, l.overheat,
                "P3" \in b.actual, b.sinceOn["P3"])
  /\ requests = Slots(b, Forced(l, r, u), Asked(l, r, u))
  /\ loop' = l /\ supply' = u /\ alarms' = Alarms(l, r)
  /\ noNeed' = FlagLeft(supply.mode, u.mode)
  /\ bank' = FastTicks(requests, off)
  /\ hot' = IF r.T1.health = "Pending" THEN hot
            ELSE r.T1.health = "Ok" /\ r.T1.c > settings.ohOn
  /\ open' = (link /\ r.T3.health = "Ok")
  /\ word' = (word /\ ~(u.mode = "Offer" /\ supply.mode # "Offer"))
  /\ steady' = (~bank.inhibited /\ ~off)
  /\ lastOffer' = IF supply.mode = "Offer" /\ u.mode # "Offer" /\ link /\ r.T3.health = "Ok"
                  THEN [how |-> IF u.mode = "Off" THEN "refused" ELSE "accepted", age |-> 0]
                  ELSE [lastOffer EXCEPT !.age = Older(@, d, AgeCap)]
  /\ IF plant \in Diagnosed
     THEN /\ checks' = [w \in Check |->
                          Checked(w, Running(checks[w], d), settings, r, b.actual)]
          /\ span' = [i \in DOMAIN span |->
                        IF (IF i = "outputs" THEN off ELSE r[i].health # "Ok")
                        THEN 0 ELSE Older(span[i], d, AgeCap)]
     ELSE UNCHANGED <<checks, span>>
  /\ UNCHANGED <<plant, settings, link, heard>>

\* Every slow pass is of these parts.
LEMMA PassesApart ==
  ASSUME NEW d \in Steps, SlowPass(d)
  PROVE  \E r, off, x, aged, b, old, g, l, u, requests :
           Passes(d, r, off, x, aged, b, old, g, l, u, requests)
<1> DEFINE old == Later(supply, d)
           g == Guarded(settings)
           L(r) == Loop(loop, g, r)
           U(r, b) == Supply(old, g, link /\ r.T3.health = "Ok", noNeed /\ link, r.T3.c,
                             L(r).overheat, "P3" \in b.actual, b.sinceOn["P3"])
<1>1. PICK r \in Readings[plant], off \in OutputsOff,
           b \in {HwTick(Bank!Aged(bank, d), x) : x \in SUBSET Exercisable} :
        /\ loop' = L(r) /\ supply' = U(r, b) /\ alarms' = Alarms(L(r), r)
        /\ noNeed' = FlagLeft(supply.mode, U(r, b).mode)
        /\ bank' = FastTicks(Slots(b, Forced(L(r), r, U(r, b)), Asked(L(r), r, U(r, b))), off)
        /\ hot' = IF r.T1.health = "Pending" THEN hot
                  ELSE r.T1.health = "Ok" /\ r.T1.c > settings.ohOn
        /\ open' = (link /\ r.T3.health = "Ok")
        /\ word' = (word /\ ~(U(r, b).mode = "Offer" /\ supply.mode # "Offer"))
        /\ steady' = (~bank.inhibited /\ ~off)
        /\ lastOffer' = IF (supply.mode = "Offer" /\ U(r, b).mode # "Offer")
                             /\ (link /\ r.T3.health = "Ok")
                        THEN [how |-> IF U(r, b).mode = "Off" THEN "refused" ELSE "accepted",
                              age |-> 0]
                        ELSE [lastOffer EXCEPT !.age = Older(@, d, AgeCap)]
        /\ IF plant \in Diagnosed
           THEN /\ checks' = [w \in Check |->
                                Checked(w, Running(checks[w], d), settings, r, b.actual)]
                /\ span' = [i \in DOMAIN span |->
                              IF (IF i = "outputs" THEN off ELSE r[i].health # "Ok")
                              THEN 0 ELSE Older(span[i], d, AgeCap)]
           ELSE UNCHANGED <<checks, span>>
        /\ UNCHANGED <<plant, settings, link, heard>>
  BY DEF SlowPass
<1>2. PICK x \in SUBSET Exercisable : b = HwTick(Bank!Aged(bank, d), x)
  BY <1>1
<1> DEFINE l == L(r)
           u == U(r, b)
           requests == Slots(b, Forced(l, r, u), Asked(l, r, u))
           aged == Bank!Aged(bank, d)
<1>3. Passes(d, r, off, x, aged, b, old, g, l, u, requests)
  BY <1>1, <1>2 DEF Passes
<1> HIDE DEF aged, old, g, L, U, l, u, requests
<1> QED BY <1>3

\* A slow pass decides anew, for the supply and for the checks.
LEMMA SlowPassRInv ==
  ASSUME IInv, RInv, NEW d \in Steps, SlowPass(d)
  PROVE  RInv' /\ (Offers /\ lastOffer.how = "refused" => lastOffer'.age >= settings.wait)
               /\ (supply.mode = "Offer" /\ supply'.mode # "Offer" /\ open'
                     => (supply'.mode = "Off" <=> word))
<1>1. PICK r, off, x, aged, b, old, g, l, u, requests :
        Passes(d, r, off, x, aged, b, old, g, l, u, requests)
  BY PassesApart
<1>2. PICK gate : gate = (link /\ r.T3.health = "Ok")
  OBVIOUS
<1>3. PICK flag : flag = (noNeed /\ link)
  OBVIOUS
<1>4. PICK on : on = ("P3" \in b.actual)
  OBVIOUS
\* What is what.
<1>5. /\ r \in Readings[plant] /\ off \in OutputsOff /\ x \in SUBSET Exercisable
      /\ aged = Bank!Aged(bank, d) /\ b = HwTick(aged, x)
      /\ old = Later(supply, d) /\ g = Guarded(settings) /\ l = Loop(loop, g, r)
      /\ u = Supply(old, g, gate, flag, r.T3.c, l.overheat, on, b.sinceOn["P3"])
      /\ requests = Slots(b, Forced(l, r, u), Asked(l, r, u))
  BY <1>1, <1>2, <1>3, <1>4 DEF Passes
<1>6. /\ supply' = u /\ alarms' = Alarms(l, r)
      /\ noNeed' = FlagLeft(supply.mode, u.mode)
      /\ bank' = FastTicks(requests, off)
      /\ open' = gate
      /\ word' = (word /\ ~(u.mode = "Offer" /\ supply.mode # "Offer"))
      /\ steady' = (~bank.inhibited /\ ~off)
      /\ settings' = settings /\ plant' = plant /\ link' = link /\ heard' = heard
  BY <1>1, <1>2 DEF Passes
<1>7. hot' = IF r.T1.health = "Pending" THEN hot
             ELSE r.T1.health = "Ok" /\ r.T1.c > settings.ohOn
  BY <1>1 DEF Passes
<1>8. lastOffer' = IF supply.mode = "Offer" /\ u.mode # "Offer" /\ gate
                   THEN [how |-> IF u.mode = "Off" THEN "refused" ELSE "accepted", age |-> 0]
                   ELSE [lastOffer EXCEPT !.age = Older(@, d, AgeCap)]
  BY <1>1, <1>2 DEF Passes
<1>9. IF plant \in Diagnosed
      THEN /\ checks' = [w \in Check |->
                           Checked(w, Running(checks[w], d), settings, r, b.actual)]
           /\ span' = [i \in DOMAIN span |->
                         IF (IF i = "outputs" THEN off ELSE r[i].health # "Ok")
                         THEN 0 ELSE Older(span[i], d, AgeCap)]
      ELSE UNCHANGED <<checks, span>>
  BY <1>1 DEF Passes
<1>10. /\ d \in Age /\ d > 0 /\ plant \in Plant /\ settings \in Settings /\ settings.lock \in Locks
       /\ r \in Sensors /\ loop \in Loops /\ off \in BOOLEAN /\ x \in SUBSET Pump
       /\ bank \in Bank!Bank /\ supply \in Supplies /\ checks \in [Check -> Checks]
       /\ {noNeed, link, hot, open, word, heard, steady} \subseteq BOOLEAN
       /\ span \in [Probe \cup {"outputs"} -> Age]
       /\ lastOffer \in [how : {"none", "refused", "accepted"}, age : Age]
  <2>1. d \in Age /\ d > 0 /\ x \in SUBSET Pump
    BY <1>5, BoilerRoomAssumption DEF Age, Exercisable, IInv, Typed
  <2>2. settings \in Settings /\ settings.lock \in Locks /\ r \in Sensors
    BY <1>5, ChoicesTyped, BoilerRoomAssumption DEF IInv, Typed
  <2>3. off \in BOOLEAN
    BY <1>5 DEF OutputsOff
  <2> QED BY <2>1, <2>2, <2>3 DEF IInv, Typed, RInv, TypeOK, Supplies, Modes, Checks
<1>11. g.afEnable = settings.afEnable /\ g.afInterval = settings.afInterval /\ g.wait = settings.wait
  BY <1>5, <1>10, GuardsSpareTimes
<1>12. /\ aged \in Bank!Bank /\ aged.control = bank.control /\ aged.safety = bank.safety
       /\ aged.exercise = bank.exercise /\ aged.actual = bank.actual
       /\ aged.inhibited = bank.inhibited
       /\ \A p \in Pump : /\ aged.since[p] = Older(bank.since[p], d, AgeCap)
                          /\ aged.sinceOn[p] = Older(bank.sinceOn[p], d, AgeCap)
       /\ OffSince(aged)
       /\ aged.inhibited => aged.actual = {}
  <2>1. OffSince(bank) /\ (bank.inhibited => bank.actual = {})
    BY DEF RInv, SlotsFit, OffSince
  <2>2. /\ aged \in Bank!Bank /\ aged.control = bank.control /\ aged.safety = bank.safety
        /\ aged.exercise = bank.exercise /\ aged.actual = bank.actual
        /\ aged.inhibited = bank.inhibited
        /\ \A p \in Pump : /\ aged.since[p] = Older(bank.since[p], d, AgeCap)
                           /\ aged.sinceOn[p] = Older(bank.sinceOn[p], d, AgeCap)
        /\ OffSince(aged)
    BY <1>5, <1>10, <2>1, AgedTells
  <2> QED BY <2>1, <2>2
<1>13. ASSUME NEW p \in Pump
       PROVE  /\ b.control = aged.control /\ b.safety = aged.safety /\ b.inhibited = aged.inhibited
              /\ aged.inhibited => b.actual = {} /\ b.exercise = aged.exercise
              /\ ~aged.inhibited => b.exercise = [q \in Pump |-> IF q \in x THEN "on" ELSE "unset"]
              /\ ~aged.inhibited /\ aged.safety[p] = "on" => p \in b.actual
              /\ (p \in b.actual <=> p \in aged.actual) => b.since[p] = aged.since[p]
              /\ p \notin b.actual /\ p \in aged.actual => b.since[p] = 0
              /\ p \notin aged.actual /\ p \notin x /\ aged.safety[p] # "on" /\ p \notin aged.control =>
                   p \notin b.actual
              /\ OffSince(b)
  BY <1>5, <1>10, <1>12, HwTickMoves
<1>14. "P3" \in Pump
  BY DEF Pump
<1>15. /\ b \in Bank!Bank /\ b.control = bank.control /\ b.safety = bank.safety
       /\ b.inhibited = bank.inhibited /\ (b.inhibited => b.actual = {}) /\ OffSince(b)
       /\ \A q \in Pump : b.exercise[q] # "off"
  <2>1. b \in Bank!Bank
    BY <1>5, <1>10, <1>12, HwTickType
  <2>2. \A q \in Pump : bank.exercise[q] # "off"
    BY DEF RInv, SlotsFit
  <2> QED BY <1>12, <1>13, <1>14, <2>1, <2>2
\* The decisions.
<1>16. l \in Loops /\ l.overheat \in BOOLEAN
  <2>1. l \in Loops
    BY <1>5, <1>10, LoopType
  <2> QED BY <2>1 DEF Loops
<1>17. /\ old \in Supplies /\ old.mode = supply.mode /\ old.waiting = supply.waiting
       /\ old.running = supply.running
       /\ supply.waiting => old.waited = Older(supply.waited, d, AgeCap)
  BY <1>5, <1>10, LaterTells
<1>18. /\ gate \in BOOLEAN /\ flag \in BOOLEAN /\ r.T3.c \in Int
       /\ on \in BOOLEAN /\ b.sinceOn["P3"] \in Age
  BY <1>2, <1>3, <1>4, <1>10, <1>14, <1>15 DEF Sensors, Probe, Bank!Bank, Age
<1>19. /\ u \in Supplies
       /\ u.mode = Mode(old, g, gate, flag, r.T3.c, l.overheat)
       /\ u.waiting = (old.waiting \/ (old.mode = "Offer" /\ u.mode = "Off"))
       /\ u.waited = IF old.mode = "Offer" /\ u.mode = "Off" THEN 0 ELSE old.waited
       /\ g.afEnable /\ ~on /\ b.sinceOn["P3"] >= g.afInterval /\ ~old.running => u.running
  <2>1. PICK t : t = r.T3.c
    OBVIOUS
  <2>2. PICK o : o = l.overheat
    OBVIOUS
  <2>3. PICK idle : idle = b.sinceOn["P3"]
    OBVIOUS
  <2>4. t \in Int /\ o \in BOOLEAN /\ idle \in Age /\ u = Supply(old, g, gate, flag, t, o, on, idle)
    BY <1>5, <1>16, <1>18, <2>1, <2>2, <2>3
  <2>5. Tells(old, g, gate, flag, t, o, on, idle)
    BY <1>17, <1>18, <2>4, SupplyTells
  <2> QED BY <2>1, <2>2, <2>3, <2>4, <2>5 DEF Tells
<1>20. /\ u.mode \in Modes
       /\ u.mode = "Off" => gate /\ flag
       /\ gate /\ old.mode = "Offer" /\ u.mode # "Offer" => (u.mode = "Off" <=> flag)
       /\ u.mode = "Offer" /\ old.mode # "Offer" =>
            old.mode = "Off" /\ (old.waiting => g.wait = 0 \/ old.waited >= g.wait)
  BY <1>16, <1>17, <1>18, <1>19, ModeTells
<1>21. PICK F : F = Forced(l, r, u)
  OBVIOUS
<1>22. PICK A : A = Asked(l, r, u)
  OBVIOUS
<1>23. /\ F \in SUBSET Pump /\ A \in SUBSET Pump
       /\ "P3" \in A <=> u.mode # "Off"
       /\ u.running => "P3" \in F
  BY <1>21, <1>22 DEF Forced, Asked, Pump
<1>24. /\ requests \in Bank!Bank /\ requests.control = A
       /\ requests.safety = [p \in Pump |-> IF p \in F THEN "on" ELSE "unset"]
       /\ requests.exercise = b.exercise /\ requests.actual = b.actual
       /\ requests.since = b.since /\ requests.sinceOn = b.sinceOn
       /\ requests.lock = b.lock /\ requests.inhibited = b.inhibited
  <2>1. requests \in Bank!Bank
    BY <1>5, <1>15, RequestsType
  <2>2. PICK safety : safety = [p \in Pump |-> IF p \in F THEN "on" ELSE "unset"]
    OBVIOUS
  <2>3. requests = [b EXCEPT !.safety = safety, !.control = A]
    BY <1>5, <1>21, <1>22, <2>2 DEF Slots
  <2>4. /\ requests.control = A /\ requests.safety = safety
        /\ requests.exercise = b.exercise /\ requests.actual = b.actual
        /\ requests.since = b.since /\ requests.sinceOn = b.sinceOn
        /\ requests.lock = b.lock /\ requests.inhibited = b.inhibited
    BY <1>15, <2>3 DEF Bank!Bank
  <2> QED BY <2>1, <2>2, <2>4
<1>25. OffSince(requests) /\ (requests.inhibited => requests.actual = {})
  BY <1>15, <1>24 DEF OffSince
<1>26. ASSUME NEW p \in Pump
       PROVE  /\ bank'.control = A /\ bank'.safety = requests.safety /\ bank'.exercise = b.exercise
              /\ bank'.lock = b.lock /\ bank'.inhibited = off
              /\ off => bank'.actual = {}
              /\ ~off /\ Bank!Wants(requests, p) /\ p \notin bank'.actual =>
                   p \notin b.actual /\ b.since[p] < b.lock
              /\ (p \in bank'.actual <=> p \in b.actual) => bank'.since[p] = b.since[p]
              /\ p \notin bank'.actual /\ p \in b.actual =>
                   bank'.since[p] = 0 /\ (~off => ~Bank!Wants(requests, p))
              /\ OffSince(bank')
  <2>1. PICK a : a = FastTicks(requests, off)
    OBVIOUS
  <2>2. /\ a.control = requests.control /\ a.safety = requests.safety
        /\ a.exercise = requests.exercise /\ a.lock = requests.lock /\ a.inhibited = off
        /\ off => a.actual = {}
        /\ ~off /\ Bank!Wants(requests, p) /\ p \notin a.actual =>
             p \notin requests.actual /\ requests.since[p] < requests.lock
        /\ (p \in a.actual <=> p \in requests.actual) => a.since[p] = requests.since[p]
        /\ p \notin a.actual /\ p \in requests.actual =>
             a.since[p] = 0 /\ (~off => ~Bank!Wants(requests, p))
        /\ OffSince(a)
    BY <1>10, <1>24, <1>25, <2>1, FastTicksMove
  <2> QED BY <1>6, <1>24, <2>1, <2>2 DEF OffSince
<1>27. IInv'
  BY SlowPassIInv
\* The parts.
<1>28. SlotsFit'
  <2>1. \A p \in Pump : bank'.safety[p] # "off" /\ bank'.exercise[p] # "off"
    BY <1>14, <1>15, <1>24, <1>26
  <2> QED BY <1>14, <1>26, <2>1 DEF SlotsFit, OffSince
<1>29. TypeOK'
  <2>1. /\ plant' \in Plant /\ settings' \in Choices[plant'] /\ loop' \in Loops
        /\ bank' \in Bank!Bank
    BY <1>27 DEF IInv, Typed
  <2>2. {noNeed', link', hot', open', word', heard', steady'} \subseteq BOOLEAN
    <3>1. noNeed' \in BOOLEAN /\ word' \in BOOLEAN /\ steady' \in BOOLEAN
      BY <1>6 DEF FlagLeft
    <3>2. hot' \in BOOLEAN
      BY <1>7, <1>10
    <3> QED BY <1>6, <1>10, <1>18, <3>1, <3>2
  <2>3. supply' \in Supplies
    BY <1>6, <1>19
  <2>4. alarms' \subseteq {"overheat", "t1_failsafe", "t1t2_failsafe", "t2_failsafe", "t3_failsafe"}
    BY <1>6 DEF Alarms
  <2>5. checks' \in [Check -> Checks]
    <3>1. ASSUME plant \in Diagnosed, NEW w \in Check
          PROVE  Checked(w, Running(checks[w], d), settings, r, b.actual) \in Checks
      BY <1>10, CheckTells
    <3> QED BY <1>9, <1>10, <3>1
  <2>6. lastOffer' \in [how : {"none", "refused", "accepted"}, age : Age]
    <3>1. 0 \in Age /\ lastOffer.age \in Age
      BY <1>10, BoilerRoomAssumption DEF Age
    <3>2. PICK a : a = Older(lastOffer.age, d, AgeCap)
      OBVIOUS
    <3>3. a \in Age
      BY <1>10, <3>1, <3>2, Ageing
    <3> QED BY <1>8, <1>10, <3>1, <3>2, <3>3
  <2>7. span' \in [Probe \cup {"outputs"} -> Age]
    <3>1. ASSUME NEW i \in Probe \cup {"outputs"}
          PROVE  Older(span[i], d, AgeCap) \in Age
      <4>1. span[i] \in Age
        BY <1>10
      <4> QED BY <1>10, <4>1, Ageing
    <3>2. 0 \in Age
      BY BoilerRoomAssumption DEF Age
    <3> QED BY <1>9, <1>10, <3>1, <3>2
  <2> QED BY <2>1, <2>2, <2>3, <2>4, <2>5, <2>6, <2>7 DEF TypeOK, Supplies, Modes, Checks, Loops
<1>30. ASSUME NEW p \in Pump
       PROVE  /\ ~bank.inhibited /\ bank.safety[p] = "on" => p \in b.actual
              /\ (p \in b.actual <=> p \in bank.actual) => b.since[p] = Older(bank.since[p], d, AgeCap)
              /\ p \notin b.actual /\ p \in bank.actual => b.since[p] = 0
              /\ p \notin bank.actual /\ p \notin x /\ bank.safety[p] # "on" /\ p \notin bank.control =>
                   p \notin b.actual
  BY <1>12, <1>13
<1>31. SupplyFits'
  <2>1. noNeed = word /\ noNeed \in BOOLEAN /\ link \in BOOLEAN
    BY <1>10 DEF RInv, SupplyFits
  <2>2. noNeed' = word'
    BY <1>6, <2>1 DEF FlagLeft
  <2>3. u.mode = "Off" => open' /\ word'
    BY <1>3, <1>6, <1>20, <2>1
  <2>4. steady' => ~off /\ ~bank.inhibited /\ ~bank'.inhibited /\ bank'.control = A
    BY <1>6, <1>14, <1>26
  <2>5. steady' /\ u.mode # "Off" => "P3" \in bank'.control
    BY <1>23, <2>4
  <2>6. u.running => bank'.safety["P3"] = "on"
    BY <1>14, <1>23, <1>24, <1>26
  <2>7. ASSUME steady', "P3" \notin bank'.actual, u.mode # "Off"
        PROVE  bank'.since["P3"] < bank'.lock
    <3>1. Bank!Wants(requests, "P3")
      <4>1. "P3" \in requests.control /\ requests.safety["P3"] \in {"on", "unset"}
        BY <1>14, <1>23, <1>24, <2>7
      <4>2. requests.exercise["P3"] \in {"on", "unset"}
        <5>1. b.exercise \in [Pump -> {"unset", "off", "on"}]
          BY <1>15 DEF Bank!Bank, Bank!Request
        <5> QED BY <1>14, <1>15, <1>24, <5>1
      <4> QED BY <4>1, <4>2 DEF Bank!Wants
    <3>2. "P3" \notin b.actual /\ b.since["P3"] < b.lock /\ bank'.lock = b.lock
      BY <1>14, <1>26, <2>4, <2>7, <3>1
    <3>3. bank'.since["P3"] = b.since["P3"]
      BY <1>14, <1>26, <2>7, <3>2
    <3> QED BY <3>2, <3>3
  <2>8. AntiFreezeKeepsP3Moving'
    <3> SUFFICES ASSUME steady', settings'.afEnable, "P3" \notin bank'.actual
                 PROVE  bank'.since["P3"] < settings'.afInterval
      BY DEF AntiFreezeKeepsP3Moving
    <3>1. bank'.safety["P3"] # "on"
      BY <1>14, <1>27, <2>4 DEF IInv, ForcedRun
    <3>2. ~u.running
      BY <2>6, <3>1
    <3>3. settings.afInterval \in Nat /\ settings.afInterval > 0
      BY <1>10, BoilerRoomAssumption DEF Settings, Age
    <3>4. CASE "P3" \in b.actual
      <4>1. bank'.since["P3"] = 0
        BY <1>14, <1>26, <3>4
      <4> QED BY <1>6, <3>3, <4>1
    <3>5. CASE "P3" \notin b.actual
      <4>1. bank'.since["P3"] = b.since["P3"]
        BY <1>14, <1>26, <3>5
      <4>2. ~old.running
        BY <1>14, <1>17, <1>30, <2>4, <3>5 DEF RInv, SupplyFits
      <4>3. ~(b.sinceOn["P3"] >= settings.afInterval)
        BY <1>4, <1>6, <1>11, <1>19, <3>2, <3>5, <4>2
      <4>4. b.sinceOn["P3"] = b.since["P3"] /\ b.sinceOn["P3"] \in Int
        BY <1>14, <1>15, <1>18, <3>5, BoilerRoomAssumption DEF OffSince, Age
      <4> QED BY <1>6, <3>3, <4>1, <4>3, <4>4
    <3> QED BY <3>4, <3>5
  <2>9. supply'.mode = "Off" => open' /\ (steady' => word')
    BY <1>6, <2>3
  <2>10. steady' /\ supply'.mode # "Off" => "P3" \in bank'.control
    BY <1>6, <2>5
  <2>11. supply'.running => bank'.safety["P3"] = "on"
    BY <1>6, <2>6
  <2>12. steady' /\ "P3" \notin bank'.actual => supply'.mode = "Off" \/ bank'.since["P3"] < bank'.lock
    BY <1>6, <2>7
  <2> QED BY <2>2, <2>4, <2>8, <2>9, <2>10, <2>11, <2>12, Zenon DEF SupplyFits
<1>32. RefusalFits'
  <2> SUFFICES ASSUME lastOffer'.how = "refused"
               PROVE  supply'.waiting /\ supply'.waited = lastOffer'.age
    BY DEF RefusalFits
  <2>1. supply.mode = old.mode
    BY <1>17
  <2>2. CASE supply.mode = "Offer" /\ u.mode # "Offer" /\ gate
    <3>1. lastOffer' = [how |-> IF u.mode = "Off" THEN "refused" ELSE "accepted", age |-> 0]
      BY <1>8, <2>2
    <3>2. u.mode = "Off" /\ lastOffer'.age = 0
      BY <3>1
    <3> QED BY <1>6, <1>19, <2>1, <2>2, <3>2
  <2>3. CASE ~(supply.mode = "Offer" /\ u.mode # "Offer" /\ gate)
    <3>1. lastOffer' = [lastOffer EXCEPT !.age = Older(@, d, AgeCap)]
      BY <1>8, <2>3
    <3>2. lastOffer'.how = lastOffer.how /\ lastOffer'.age = Older(lastOffer.age, d, AgeCap)
      BY <1>10, <3>1
    <3>3. supply.waiting /\ supply.waited = lastOffer.age
      BY <3>2 DEF RInv, RefusalFits
    <3>4. ~(old.mode = "Offer" /\ u.mode = "Off")
      BY <1>20, <2>1, <2>3
    <3> QED BY <1>6, <1>17, <1>19, <3>2, <3>3, <3>4
  <2> QED BY <2>2, <2>3
\* The transitions.
<1>33. Offers /\ lastOffer.how = "refused" => lastOffer'.age >= settings.wait
  <2> SUFFICES ASSUME Offers, lastOffer.how = "refused" PROVE lastOffer'.age >= settings.wait
    OBVIOUS
  <2>1. supply.mode # "Offer" /\ u.mode = "Offer"
    BY <1>6 DEF Offers
  <2>2. lastOffer' = [lastOffer EXCEPT !.age = Older(@, d, AgeCap)]
    BY <1>8, <2>1
  <2>3. lastOffer'.age = Older(lastOffer.age, d, AgeCap)
    BY <1>10, <2>2
  <2>4. supply.waiting /\ supply.waited = lastOffer.age
    BY DEF RInv, RefusalFits
  <2>5. settings.wait = 0 \/ lastOffer'.age >= settings.wait
    BY <1>11, <1>17, <1>20, <2>1, <2>3, <2>4
  <2>6. lastOffer'.age \in Nat
    <3>1. lastOffer.age \in Age
      BY <1>10
    <3>2. Older(lastOffer.age, d, AgeCap) \in Age
      BY <1>10, <3>1, Ageing
    <3> QED BY <2>3, <3>2, BoilerRoomAssumption DEF Age
  <2> QED BY <2>5, <2>6
<1>34. supply.mode = "Offer" /\ supply'.mode # "Offer" /\ open' => (supply'.mode = "Off" <=> word)
  <2> SUFFICES ASSUME supply.mode = "Offer", supply'.mode # "Offer", open'
               PROVE  supply'.mode = "Off" <=> word
    OBVIOUS
  <2>1. gate /\ u.mode # "Offer" /\ old.mode = "Offer"
    BY <1>6, <1>17
  <2>2. u.mode = "Off" <=> flag
    BY <1>20, <2>1
  <2>3. flag <=> word
    BY <1>2, <1>3, <1>10, <2>1 DEF RInv, SupplyFits
  <2> QED BY <1>6, <2>2, <2>3
\* The checks.
<1>35. ASSUME NEW w \in Check PROVE CheckFits(w)'
  <2>1. PICK p \in Pump : p = PumpOf[w]
    BY DEF PumpOf, Check, Pump
  <2>2. PICK k : k = checks[w]
    OBVIOUS
  <2>3. PICK n : n = checks'[w]
    OBVIOUS
  <2>4. HotOf[w] \in Probe /\ ColdOf[w] \in Probe /\ "outputs" \notin Probe
    BY DEF HotOf, ColdOf, Check, Probe
  <2>5. CASE plant \notin Diagnosed
    <3>1. checks' = checks /\ span' = span
      BY <1>9, <2>5
    <3>2. ~checks[w].tracking /\ ~checks[w].warns
      BY <2>5 DEF RInv, ChecksFit, CheckFits
    <3> QED BY <2>5, <1>6, <3>1, <3>2 DEF CheckFits
  <2>6. CASE plant \in Diagnosed
    <3>1. n = Checked(w, Running(k, d), settings, r, b.actual)
      BY <1>9, <2>2, <2>3, <2>6
    <3>2. \A i \in Probe \cup {"outputs"} :
            span'[i] = IF (IF i = "outputs" THEN off ELSE r[i].health # "Ok")
                       THEN 0 ELSE Older(span[i], d, AgeCap)
      BY <1>9, <1>10, <2>6
    <3>3. k \in Checks
      BY <1>10, <2>2
    <3>4. /\ n \in Checks
          /\ n.tracking => /\ p \in b.actual
                           /\ r[HotOf[w]].health = "Ok" /\ r[ColdOf[w]].health = "Ok"
                           /\ n.ran = IF k.tracking THEN Older(k.ran, d, AgeCap) ELSE 0
          /\ n.warns => n.tracking /\ n.ran >= settings.minOn
      BY <1>10, <2>1, <3>1, <3>3, CheckTells
    <3>5. k.ran \in Age /\ \A i \in Probe \cup {"outputs"} : span[i] \in Age
      BY <1>10, <3>3 DEF Checks
    <3>6. bank.since[p] \in Age
      BY <1>10 DEF Bank!Bank, Age
    <3>7. k.tracking => /\ span[HotOf[w]] >= k.ran /\ span[ColdOf[w]] >= k.ran
                        /\ \/ span["outputs"] <= k.ran
                           \/ p \in bank.actual /\ bank.since[p] >= k.ran
                           \/ Stopped(p)
      BY <2>1, <2>2 DEF RInv, ChecksFit, CheckFits
    <3>8. ASSUME n.tracking, NEW t \in {HotOf[w], ColdOf[w]}
          PROVE  span'[t] >= n.ran
      <4>1. span'[t] = Older(span[t], d, AgeCap)
        BY <2>4, <3>2, <3>4, <3>8
      <4>2. span[t] \in Age /\ Older(span[t], d, AgeCap) \in Age
        <5>1. span[t] \in Age
          BY <2>4, <3>5
        <5> QED BY <1>10, <5>1, Ageing
      <4>3. CASE k.tracking
        <5>1. k.ran <= span[t]
          BY <3>5, <3>7, <4>2, <4>3, BoilerRoomAssumption DEF Age
        <5>2. /\ Older(k.ran, d, AgeCap) <= Older(span[t], d, AgeCap)
              /\ Older(k.ran, d, AgeCap) \in Age
          BY <1>10, <3>5, <4>2, <5>1, Ageing
        <5> QED BY <3>4, <3>8, <4>1, <4>2, <4>3, <5>2, BoilerRoomAssumption DEF Age
      <4>4. CASE ~k.tracking
        BY <3>4, <3>8, <4>1, <4>2, <4>4, BoilerRoomAssumption DEF Age
      <4> QED BY <4>3, <4>4
    <3>9. ASSUME n.tracking
          PROVE  \/ span'["outputs"] <= n.ran
                 \/ p \in bank'.actual /\ bank'.since[p] >= n.ran
                 \/ Stopped(p)'
      <4>1. n.ran \in Nat /\ n.ran = IF k.tracking THEN Older(k.ran, d, AgeCap) ELSE 0
        BY <3>4, <3>9, BoilerRoomAssumption DEF Checks, Age
      <4>2. span'["outputs"] = IF off THEN 0 ELSE Older(span["outputs"], d, AgeCap)
        BY <3>2
      <4>3. CASE off
        BY <4>1, <4>2, <4>3
      <4>4. CASE ~off /\ p \notin bank'.actual
        <5>1. bank'.since[p] = 0 /\ ~Bank!Wants(requests, p) /\ ~bank'.inhibited
          BY <1>26, <3>4, <3>9, <4>4
        <5>2. /\ bank'.control = requests.control /\ bank'.safety = requests.safety
              /\ bank'.exercise = requests.exercise
          BY <1>24, <1>26
        <5>3. PICK a : a = bank'
          OBVIOUS
        <5>4. Bank!Wants(a, p) <=> Bank!Wants(requests, p)
          BY <5>2, <5>3, WantsStay
        <5>5. ~Bank!Wants(bank', p)
          BY <5>1, <5>3, <5>4
        <5>6. ~Bank!Wants(bank, p)'
          BY <5>5 DEF Bank!Wants
        <5> QED BY <4>4, <5>1, <5>6 DEF Stopped
      <4>5. CASE ~off /\ p \in bank'.actual
        <5>1. bank'.since[p] = b.since[p]
          BY <1>26, <3>4, <3>9, <4>5
        <5>2. CASE ~k.tracking
          <6>1. b.since[p] \in Nat
            BY <1>15, BoilerRoomAssumption DEF Bank!Bank
          <6> QED BY <4>1, <4>5, <5>1, <5>2, <6>1
        <5>3. CASE k.tracking /\ span["outputs"] <= k.ran
          <6>1. span["outputs"] \in Age
            BY <3>5
          <6>2. Older(span["outputs"], d, AgeCap) <= Older(k.ran, d, AgeCap)
            BY <1>10, <3>5, <5>3, <6>1, Ageing
          <6> QED BY <4>1, <4>2, <4>5, <5>3, <6>2
        <5>4. CASE k.tracking /\ p \in bank.actual /\ bank.since[p] >= k.ran
          <6>1. b.since[p] = Older(bank.since[p], d, AgeCap)
            BY <1>30, <3>4, <3>9, <5>4
          <6>2. k.ran <= bank.since[p]
            BY <3>5, <3>6, <5>4, BoilerRoomAssumption DEF Age
          <6>3. /\ Older(k.ran, d, AgeCap) <= Older(bank.since[p], d, AgeCap)
                /\ Older(bank.since[p], d, AgeCap) \in Age
            BY <1>10, <3>5, <3>6, <6>2, Ageing
          <6> QED BY <4>1, <4>5, <5>1, <5>4, <6>1, <6>3, BoilerRoomAssumption DEF Age
        <5>5. CASE k.tracking /\ Stopped(p)
          <6>1. /\ p \notin bank.actual /\ bank.since[p] = 0 /\ ~bank.inhibited
                /\ ~Bank!Wants(bank, p)
            BY <5>5 DEF Stopped
          <6>2. bank.safety[p] \in {"unset", "on"} /\ bank.exercise[p] \in {"unset", "on"}
            BY <1>10 DEF Bank!Bank, Bank!Request, RInv, SlotsFit
          <6>3. bank.safety[p] # "on" /\ bank.exercise[p] # "on" /\ p \notin bank.control
            BY <6>1, <6>2 DEF Bank!Wants
          <6>4. p \notin x
            BY <1>5, <6>1, <6>3 DEF Exercisable
          <6> QED BY <1>30, <3>4, <3>9, <6>1, <6>3, <6>4
        <5> QED BY <3>7, <5>2, <5>3, <5>4, <5>5
      <4> QED BY <4>3, <4>4, <4>5
    <3>10. n.warns => n.tracking /\ n.ran >= settings'.minOn
      BY <1>6, <3>4
    <3> QED BY <1>6, <2>1, <2>3, <2>6, <3>8, <3>9, <3>10 DEF CheckFits
  <2> QED BY <2>5, <2>6
<1>36. ChecksFit'
  BY <1>35 DEF ChecksFit
<1> QED BY <1>28, <1>29, <1>31, <1>32, <1>33, <1>34, <1>36 DEF RInv

\* A pass in between obeys, and nothing is decided.
LEMMA FastPassRInv ==
  ASSUME IInv, RInv, FastPass
  PROVE  RInv' /\ supply' = supply
<1>1. PICK off \in OutputsOff :
        /\ bank' = FastTicks(bank, off)
        /\ steady' = (steady /\ ~off)
        /\ span' = IF off THEN [span EXCEPT !["outputs"] = 0] ELSE span
  BY DEF FastPass
<1>2. UNCHANGED <<plant, settings, noNeed, link, loop, supply, alarms, checks,
                  hot, open, word, heard, lastOffer>>
  BY DEF FastPass
<1>3. /\ off \in BOOLEAN /\ bank \in Bank!Bank /\ settings \in Settings
      /\ checks \in [Check -> Checks]
      /\ span \in [Probe \cup {"outputs"} -> Age] /\ steady \in BOOLEAN
  <2>1. settings \in Settings
    BY ChoicesTyped DEF IInv, Typed
  <2> QED BY <2>1 DEF OutputsOff, IInv, Typed, RInv, TypeOK, Checks
<1>4. OffSince(bank) /\ (bank.inhibited => bank.actual = {})
  BY DEF RInv, SlotsFit, OffSince
<1>5. ASSUME NEW p \in Pump
      PROVE  /\ bank'.control = bank.control /\ bank'.safety = bank.safety
             /\ bank'.exercise = bank.exercise
             /\ bank'.lock = bank.lock /\ bank'.inhibited = off
             /\ off => bank'.actual = {}
             /\ ~off /\ Bank!Wants(bank, p) /\ p \notin bank'.actual =>
                  p \notin bank.actual /\ bank.since[p] < bank.lock
             /\ (p \in bank'.actual <=> p \in bank.actual) => bank'.since[p] = bank.since[p]
             /\ p \notin bank'.actual /\ p \in bank.actual =>
                  bank'.since[p] = 0 /\ (~off => ~Bank!Wants(bank, p))
             /\ ~Bank!Wants(bank, p) /\ p \notin bank.actual => p \notin bank'.actual
             /\ OffSince(bank')
  <2>1. PICK a : a = FastTicks(bank, off)
    OBVIOUS
  <2>2. /\ a.control = bank.control /\ a.safety = bank.safety
        /\ a.exercise = bank.exercise /\ a.lock = bank.lock /\ a.inhibited = off
        /\ off => a.actual = {}
        /\ ~off /\ Bank!Wants(bank, p) /\ p \notin a.actual =>
             p \notin bank.actual /\ bank.since[p] < bank.lock
        /\ (p \in a.actual <=> p \in bank.actual) => a.since[p] = bank.since[p]
        /\ p \notin a.actual /\ p \in bank.actual =>
             a.since[p] = 0 /\ (~off => ~Bank!Wants(bank, p))
        /\ ~Bank!Wants(bank, p) /\ p \notin bank.actual => p \notin a.actual
        /\ OffSince(a)
    BY <1>3, <1>4, <2>1, FastTicksMove
  <2> QED BY <1>1, <2>1, <2>2 DEF OffSince
<1>6. IInv'
  BY FastPassIInv
<1>7. "P3" \in Pump
  BY DEF Pump
<1>8. SlotsFit'
  BY <1>5, <1>7 DEF RInv, SlotsFit, OffSince
<1>9. TypeOK'
  <2>1. steady' \in BOOLEAN
    BY <1>1
  <2>2. span' \in [Probe \cup {"outputs"} -> Age]
    BY <1>1, <1>3, BoilerRoomAssumption DEF Age
  <2>3. bank' \in Bank!Bank
    BY <1>6 DEF IInv, Typed
  <2> QED BY <1>2, <2>1, <2>2, <2>3 DEF RInv, TypeOK
<1>10. SupplyFits'
  <2>1. steady' => steady /\ ~off
    BY <1>1
  <2>2. /\ noNeed = word
        /\ supply.mode = "Off" => open /\ (steady => word)
        /\ steady => ~bank.inhibited
        /\ steady /\ supply.mode # "Off" => "P3" \in bank.control
        /\ supply.running => bank.safety["P3"] = "on"
        /\ steady /\ "P3" \notin bank.actual => supply.mode = "Off" \/ bank.since["P3"] < bank.lock
        /\ AntiFreezeKeepsP3Moving
    BY DEF RInv, SupplyFits
  <2>3. steady' => ~bank'.inhibited
    BY <1>5, <1>7, <2>1
  <2>4. ASSUME steady', "P3" \notin bank'.actual, supply.mode # "Off"
        PROVE  bank'.since["P3"] < bank'.lock
    <3>1. "P3" \in bank.control
      BY <2>1, <2>2, <2>4
    <3>2. Bank!Wants(bank, "P3")
      <4>1. bank.safety["P3"] \in {"on", "unset"} /\ bank.exercise["P3"] \in {"on", "unset"}
        BY <1>3, <1>7 DEF Bank!Bank, Bank!Request, RInv, SlotsFit
      <4> QED BY <3>1, <4>1 DEF Bank!Wants
    <3> QED BY <1>5, <1>7, <2>1, <2>4, <3>2
  <2>5. AntiFreezeKeepsP3Moving'
    <3> SUFFICES ASSUME steady', settings'.afEnable, "P3" \notin bank'.actual
                 PROVE  bank'.since["P3"] < settings'.afInterval
      BY DEF AntiFreezeKeepsP3Moving
    <3>1. settings.afInterval \in Nat /\ settings.afInterval > 0
      BY <1>3, BoilerRoomAssumption DEF Settings, Age
    <3>2. CASE "P3" \in bank.actual
      BY <1>2, <1>5, <1>7, <3>1, <3>2
    <3>3. CASE "P3" \notin bank.actual
      BY <1>2, <1>5, <1>7, <2>1, <2>2, <3>3 DEF AntiFreezeKeepsP3Moving
    <3> QED BY <3>2, <3>3
  <2>6. bank'.control = bank.control /\ bank'.safety = bank.safety
    BY <1>5, <1>7
  <2> QED BY <1>2, <2>1, <2>2, <2>3, <2>4, <2>5, <2>6 DEF SupplyFits
<1>11. RefusalFits'
  BY <1>2 DEF RInv, RefusalFits
<1>12. ASSUME NEW w \in Check PROVE CheckFits(w)'
  <2>1. PICK p \in Pump : p = PumpOf[w]
    BY DEF PumpOf, Check, Pump
  <2>2. PICK k : k = checks[w]
    OBVIOUS
  <2>3. HotOf[w] \in Probe /\ ColdOf[w] \in Probe /\ "outputs" \notin Probe
    BY DEF HotOf, ColdOf, Check, Probe
  <2>4. k.ran \in Nat
    BY <1>3, <2>2, BoilerRoomAssumption DEF Checks, Age
  <2>5. /\ k.tracking => /\ \A t \in {HotOf[w], ColdOf[w]} : span[t] >= k.ran
                         /\ \/ span["outputs"] <= k.ran
                            \/ p \in bank.actual /\ bank.since[p] >= k.ran
                            \/ Stopped(p)
        /\ k.warns => k.tracking /\ (steady => k.ran >= settings.minOn)
        /\ plant \notin Diagnosed => ~k.tracking
    BY <2>1, <2>2 DEF RInv, ChecksFit, CheckFits
  <2>6. \A t \in {HotOf[w], ColdOf[w]} : span'[t] = span[t]
    BY <1>1, <1>3, <2>3
  <2>7. checks'[w] = k
    BY <1>2, <2>2
  <2>8. ASSUME k.tracking
        PROVE  \/ span'["outputs"] <= k.ran
               \/ p \in bank'.actual /\ bank'.since[p] >= k.ran
               \/ Stopped(p)'
    <3>1. CASE off
      <4>1. span' = [span EXCEPT !["outputs"] = 0]
        BY <1>1, <3>1
      <4>2. span'["outputs"] = 0
        BY <1>3, <4>1
      <4> QED BY <2>4, <4>2
    <3>2. ASSUME ~off, p \notin bank'.actual, ~Bank!Wants(bank, p), bank'.since[p] = 0
          PROVE  Stopped(p)'
      <4>1. ~bank'.inhibited
        BY <1>5, <3>2
      <4>2. PICK a : a = bank'
        OBVIOUS
      <4>3. Bank!Wants(a, p) <=> Bank!Wants(bank, p)
        BY <1>5, <4>2, WantsStay
      <4>4. ~Bank!Wants(bank, p)'
        BY <3>2, <4>2, <4>3 DEF Bank!Wants
      <4> QED BY <3>2, <4>1, <4>4 DEF Stopped
    <3>3. CASE ~off /\ span["outputs"] <= k.ran
      BY <1>1, <3>3
    <3>4. CASE ~off /\ p \in bank.actual /\ bank.since[p] >= k.ran
      <4>1. CASE p \in bank'.actual
        BY <1>5, <3>4, <4>1
      <4>2. CASE p \notin bank'.actual
        BY <1>5, <3>2, <3>4, <4>2
      <4> QED BY <4>1, <4>2
    <3>5. CASE ~off /\ Stopped(p)
      <4>1. p \notin bank.actual /\ bank.since[p] = 0 /\ ~Bank!Wants(bank, p)
        BY <3>5 DEF Stopped
      <4>2. p \notin bank'.actual /\ bank'.since[p] = 0
        BY <1>5, <4>1
      <4> QED BY <3>2, <3>5, <4>1, <4>2
    <3> QED BY <2>5, <2>8, <3>1, <3>3, <3>4, <3>5
  <2>9. k.warns => k.tracking /\ (steady' => k.ran >= settings'.minOn)
    BY <1>1, <1>2, <2>5
  <2> QED BY <1>2, <2>1, <2>5, <2>6, <2>7, <2>8, <2>9 DEF CheckFits
<1>13. ChecksFit'
  BY <1>12 DEF ChecksFit
<1> QED BY <1>2, <1>8, <1>9, <1>10, <1>11, <1>13 DEF RInv

\* A start, and a restart.
Started ==
  /\ plant \in Plant /\ settings \in Choices[plant] /\ noNeed \in BOOLEAN
  /\ loop = Cold /\ supply = Normal /\ alarms = {} /\ link = FALSE
  /\ bank = Bank!Configured(settings.lock)
  /\ hot = FALSE /\ open = FALSE /\ word = noNeed /\ heard = FALSE /\ steady = FALSE
  /\ lastOffer = NoOffer
  /\ checks = [w \in Check |-> NotTracking]
  /\ span = [i \in Probe \cup {"outputs"} |-> 0]

LEMMA StartRInv == Started => RInv
<1> SUFFICES ASSUME Started PROVE RInv
  OBVIOUS
<1> USE DEF Started
<1>1. settings.lock \in Locks
  BY ChoicesTyped
<1>2. /\ bank \in Bank!Bank /\ ~bank.inhibited
      /\ \A p \in Pump : bank.safety[p] = "unset"
  BY <1>1, StartIInv
<1>3. loop \in Loops
  BY ColdType
<1>4. 0 \in Age /\ AgeCap \in Age
  BY BoilerRoomAssumption DEF Age
<1>5. NotTracking \in Checks /\ ~NotTracking.tracking /\ ~NotTracking.warns
  BY <1>4 DEF NotTracking, Checks
<1>6. Normal \in Supplies /\ Normal.mode = "Normal" /\ ~Normal.running
  BY <1>4 DEF Normal, Supplies, Modes
<1>7. NoOffer \in [how : {"none", "refused", "accepted"}, age : Age] /\ NoOffer.how = "none"
  BY <1>4 DEF NoOffer
<1>8. TypeOK
  <2>1. checks \in [Check -> Checks] /\ span \in [Probe \cup {"outputs"} -> Age]
    BY <1>4, <1>5
  <2> QED BY <1>2, <1>3, <1>6, <1>7, <2>1 DEF TypeOK, Supplies, Modes, Checks, Loops
<1>9. SlotsFit
  <2>1. /\ \A p \in Pump : bank.exercise[p] = "unset"
        /\ bank.actual = {}
        /\ \A p \in Pump : bank.sinceOn[p] = bank.since[p]
    BY DEF Bank!Configured
  <2> QED BY <1>2, <2>1 DEF SlotsFit
<1>10. SupplyFits
  BY <1>6 DEF SupplyFits, AntiFreezeKeepsP3Moving
<1>11. RefusalFits
  BY <1>7 DEF RefusalFits
<1>12. ChecksFit
  BY <1>5 DEF ChecksFit, CheckFits
<1> QED BY <1>8, <1>9, <1>10, <1>11, <1>12 DEF RInv

\* Commands decide nothing, and make the history unsteady until the next slow pass.
LEMMA CommandsRInv ==
  ASSUME RInv, IInv', SetFlag \/ ChangeSettings \/ LinkChanges
  PROVE  RInv' /\ supply' = supply
<1>1. UNCHANGED <<plant, loop, supply, alarms, checks, bank, hot, open, lastOffer, span>>
  BY DEF SetFlag, ChangeSettings, LinkChanges, history
<1>2. noNeed = word
  BY DEF RInv, SupplyFits
<1>3. /\ noNeed' = word'
      /\ {noNeed', link', heard', word'} \subseteq BOOLEAN
      /\ \/ steady' = FALSE
         \/ UNCHANGED <<settings, word, steady>>
  BY <1>2 DEF SetFlag, ChangeSettings, LinkChanges, history, RInv, TypeOK
<1>4. TypeOK'
  <2>1. settings' \in Choices[plant']
    BY DEF IInv, Typed
  <2>2. steady' \in BOOLEAN
    BY <1>3 DEF RInv, TypeOK
  <2> QED BY <1>1, <1>3, <2>1, <2>2 DEF RInv, TypeOK
<1>5. SlotsFit' /\ RefusalFits'
  BY <1>1 DEF RInv, SlotsFit, RefusalFits
<1>6. SupplyFits'
  BY <1>1, <1>3 DEF RInv, SupplyFits, AntiFreezeKeepsP3Moving
<1>7. ASSUME NEW w \in Check PROVE CheckFits(w)'
  <2>1. CheckFits(w)
    BY DEF RInv, ChecksFit
  <2> QED BY <1>1, <1>3, <2>1 DEF CheckFits, Stopped, Bank!Wants
<1>8. ChecksFit'
  BY <1>7 DEF ChecksFit
<1> QED BY <1>1, <1>4, <1>5, <1>6, <1>8 DEF RInv

\* What every step does with an offer.
RefusedWaits == Offers /\ lastOffer.how = "refused" => lastOffer'.age >= settings.wait
AnswerCounts == supply.mode = "Offer" /\ supply'.mode # "Offer" /\ open'
                  => (supply'.mode = "Off" <=> word)

\* Every step keeps the invariant, the wait and the answer.
LEMMA StepRInv ==
  ASSUME IInv, IInv', RInv, [Next]_vars
  PROVE  RInv' /\ RefusedWaits /\ AnswerCounts
<1>1. CASE \E d \in Steps : SlowPass(d)
  BY <1>1, SlowPassRInv DEF RefusedWaits, AnswerCounts
<1>2. CASE FastPass
  BY <1>2, FastPassRInv DEF RefusedWaits, AnswerCounts, Offers
<1>3. CASE SetFlag \/ ChangeSettings \/ LinkChanges
  BY <1>3, CommandsRInv DEF RefusedWaits, AnswerCounts, Offers
<1>4. CASE Reboot
  <2>1. Started'
    BY <1>4 DEF Reboot, IInv, Typed, Flags, Started
  <2>2. Started' => RInv'
    BY StartRInv, PTL
  <2>3. supply'.mode = "Normal"
    BY <1>4 DEF Reboot, Normal
  <2>4. open' = FALSE
    BY <1>4 DEF Reboot
  <2> QED BY <2>1, <2>2, <2>3, <2>4 DEF RefusedWaits, AnswerCounts, Offers
<1>5. CASE UNCHANGED vars
  <2>1. RInv'
    BY <1>5 DEF vars, history, RInv, TypeOK, SlotsFit, SupplyFits, AntiFreezeKeepsP3Moving,
                RefusalFits, ChecksFit, CheckFits, Stopped, Bank!Wants
  <2> QED BY <1>5, <2>1 DEF vars, RefusedWaits, AnswerCounts, Offers
<1> QED BY <1>1, <1>2, <1>3, <1>4, <1>5 DEF Next

\* The invariant holds of the start and of every step.
LEMMA RoomInductive == Spec => [](IInv /\ RInv)
<1>1. Init => IInv /\ RInv
  BY InitStart, StartRInv DEF Init, Flags, Started
<1>2. IInv /\ RInv /\ [Next]_vars => RInv' \/ ~IInv'
  BY StepRInv
<1> QED
  BY <1>1, <1>2, Inductive, PTL DEF Spec
-----------------------------------------------------------------------------
(* The theorems. *)

\* A boiler read as overheated has its own pump and the pump that dumps its heat
\* running, for all plants, settings, commands, exercises, updates and restarts.
THEOREM BoilerIsCooled == Spec => []HotBoilerIsCooled
<1>1. IInv => HotBoilerIsCooled
  BY DEF IInv, ForcedAsk, ForcedRun, HotBoilerIsCooled, Pump
<1> QED
  BY <1>1, Inductive, PTL

\* Failed sensors have their fail-safe pumps running.
THEOREM FailSafesAreRun == Spec => []FailSafesRun
<1>1. IInv => FailSafesRun
  BY DEF IInv, ForcedAsk, ForcedRun, FailSafesRun, Pump
<1> QED
  BY <1>1, Inductive, PTL

\* Readings that stay the same never make a pump of the boiler start and stop:
\* every reachable latch settles in one pass, for all thresholds.
THEOREM LoopsSettle == Spec => []LoopSettles
<1>1. IInv => LoopSettles
  <2> SUFFICES ASSUME IInv, NEW r \in Readings[plant]
               PROVE  LET g == Guarded(settings)
                          once == Loop(loop, g, r)
                      IN Loop(once, g, r) = once
    BY DEF LoopSettles
  <2>1. loop \in Loops /\ settings \in Settings /\ r \in Sensors
    BY ChoicesTyped, BoilerRoomAssumption DEF IInv, Typed
  <2> QED
    BY <2>1, LoopIsIdempotent
<1> QED
  BY <1>1, Inductive, PTL

\* P3 supplies the home unless the home has said otherwise, is not left to freeze, and a
\* warning is about a pump that ran for as long as it says: for all plants, settings,
\* commands, exercises, updates and restarts.
THEOREM RoomServes == Spec => []RoomDoesItsPart
<1>1. IInv /\ RInv => RoomDoesItsPart
  <2> SUFFICES ASSUME IInv, RInv PROVE RoomDoesItsPart
    OBVIOUS
  <2>1. HomeIsSupplied
    BY DEF RInv, SupplyFits, HomeIsSupplied
  <2>2. ASSUME NEW w \in Check, checks[w].warns
        PROVE  /\ \A t \in {HotOf[w], ColdOf[w]} : span[t] >= settings.minOn \/ ~steady
               /\ \/ PumpOf[w] \notin bank.actual
                  \/ bank.since[PumpOf[w]] >= settings.minOn
                  \/ span["outputs"] <= checks[w].ran \/ ~steady
    <3>1. PICK p \in Pump : p = PumpOf[w]
      BY DEF PumpOf, Check, Pump
    <3>2. /\ settings.minOn \in Int /\ checks[w].ran \in Int /\ bank.since[p] \in Int
          /\ \A t \in {HotOf[w], ColdOf[w]} : span[t] \in Int
      <4>1. settings \in Settings
        BY ChoicesTyped DEF IInv, Typed
      <4>2. bank \in Bank!Bank /\ checks \in [Check -> Checks]
            /\ span \in [Probe \cup {"outputs"} -> Age]
        BY DEF RInv, TypeOK, Checks
      <4>3. HotOf[w] \in Probe /\ ColdOf[w] \in Probe
        BY DEF HotOf, ColdOf, Check, Probe
      <4> QED BY <4>1, <4>2, <4>3, BoilerRoomAssumption DEF Settings, Age, Bank!Bank, Checks
    <3>3. CheckFits(w)
      BY DEF RInv, ChecksFit
    <3>4. checks[w].tracking /\ (steady => checks[w].ran >= settings.minOn)
      BY <2>2, <3>3 DEF CheckFits
    <3>5. /\ \A t \in {HotOf[w], ColdOf[w]} : span[t] >= checks[w].ran
          /\ \/ span["outputs"] <= checks[w].ran
             \/ bank.since[p] >= checks[w].ran
             \/ p \notin bank.actual
      BY <3>1, <3>3, <3>4 DEF CheckFits, Stopped
    <3> QED BY <3>1, <3>2, <3>4, <3>5
  <2>3. WarningsAreEarned
    BY <2>2 DEF WarningsAreEarned
  <2>4. TypeOK /\ AntiFreezeKeepsP3Moving
    BY DEF RInv, SupplyFits
  <2> QED BY <2>1, <2>3, <2>4 DEF RoomDoesItsPart
<1> QED
  BY <1>1, RoomInductive, PTL

\* What the home says after an offer is made decides how the offer ends, and a home that
\* refused is not offered heat again before the wait is over.
THEOREM AnswersAreCounted == Spec => AnswersCount
<1>1. IInv /\ IInv' /\ RInv /\ [Next]_vars => [RefusedWaits]_vars /\ [AnswerCounts]_vars
  BY StepRInv
<1>2. [AnswerCounts]_vars =>
        [supply.mode = "Offer" /\ supply'.mode # "Offer" /\ open'
           => (supply'.mode = "Off" <=> word)]_vars
  BY DEF AnswerCounts
<1>3. [RefusedWaits]_vars =>
        [Offers /\ lastOffer.how = "refused" => lastOffer'.age >= settings.wait]_vars
  BY DEF RefusedWaits
<1> QED
  BY <1>1, <1>2, <1>3, RoomInductive, PTL DEF Spec, AnswersCount, AnswerDecides, RefusalIsRespected
=============================================================================
