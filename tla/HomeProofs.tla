------------------------------ MODULE HomeProofs -----------------------------
(***************************************************************************)
(* What the heating controller of the house promises, for all constants.   *)
(* The inductive invariants stand beside each component.                   *)
(***************************************************************************)
EXTENDS Home, FiniteSets, FiniteSetTheorems, TLAPS

-----------------------------------------------------------------------------
(* The relay bank of the house: its operators are those the theorems of    *)
(* RelayBank are about.                                                    *)

BankP == INSTANCE RelayBankProofs WITH
           Channel <- House!Output, Lockable <- House!Output, Logged <- House!Output,
           Emergency <- {}, Exercised <- House!Output, LockValues <- House!Age,
           bank <- v8, log <- {}, noticed <- {}

\* It is one bank, whichever module speaks of it.
LEMMA OneBank ==
  ASSUME NEW b
  PROVE  /\ BankP!Bank = House!Bank!Bank
         /\ BankP!Update(b) = House!Bank!Update(b)
         /\ \A on : BankP!SetInhibited(b, on) = House!Bank!SetInhibited(b, on)
         /\ \A d : BankP!Aged(b, d) = House!Bank!Aged(b, d)
         /\ BankP!Configured(b) = House!Bank!Configured(b)
<1>1. BankP!Bank = House!Bank!Bank
  BY Zenon DEF BankP!Bank, House!Bank!Bank, BankP!Request, House!Bank!Request,
     BankP!Reason, House!Bank!Reason
<1>2. BankP!Update(b) = House!Bank!Update(b)
  BY Zenon DEF BankP!Update, House!Bank!Update, BankP!Switching, House!Bank!Switching, BankP!Held,
     House!Bank!Held, BankP!Mismatched, House!Bank!Mismatched, BankP!Wants, House!Bank!Wants,
     BankP!Bypass, House!Bank!Bypass, BankP!Source, House!Bank!Source
<1>3. \A on : BankP!SetInhibited(b, on) = House!Bank!SetInhibited(b, on)
  BY Zenon DEF BankP!SetInhibited, House!Bank!SetInhibited
<1>4. \A d : BankP!Aged(b, d) = House!Bank!Aged(b, d)
  BY Zenon DEF BankP!Aged, House!Bank!Aged, BankP!Older, House!Bank!Older
<1>5. BankP!Configured(b) = House!Bank!Configured(b)
  BY Zenon DEF BankP!Configured, House!Bank!Configured
<1> QED BY <1>1, <1>2, <1>3, <1>4, <1>5

\* update(), a hold-off and the passage of time keep the bank's types.
LEMMA BankTypes ==
  ASSUME House!HomeHeatingAssumption, NEW b \in House!Bank!Bank, NEW on \in BOOLEAN, NEW d \in Nat
  PROVE  /\ House!Bank!Update(b) \in House!Bank!Bank
         /\ House!Bank!SetInhibited(b, on) \in House!Bank!Bank
         /\ House!Bank!Aged(b, d) \in House!Bank!Bank
<1>1. BankP!RelayBankAssumption
  BY DEF House!HomeHeatingAssumption, BankP!RelayBankAssumption, House!Age
<1> QED
  BY <1>1, OneBank, BankP!UpdateType, BankP!SetInhibitedType, BankP!AgedType

-----------------------------------------------------------------------------
(* What the passes do to one output.                                       *)

\* An update moves an output only where its request points, and restarts its age then.
LEMMA UpdateMoves ==
  ASSUME House!HomeHeatingAssumption, NEW b \in House!Bank!Bank, NEW o \in House!Output,
         b.safety[o] = "unset"
  PROVE  LET a == House!Bank!Update(b)
         IN /\ a.control = b.control /\ a.safety = b.safety /\ a.exercise = b.exercise
            /\ a.lock = b.lock /\ a.inhibited = b.inhibited
            /\ b.inhibited => a.actual = b.actual
            /\ (o \in a.actual <=> o \in b.actual) => a.since[o] = b.since[o]
            /\ o \notin a.actual /\ o \in b.actual => a.since[o] = 0 /\ ~House!Bank!Wants(b, o)
            /\ ~House!Bank!Wants(b, o) /\ o \notin b.actual => o \notin a.actual
            /\ ~b.inhibited /\ ~House!Bank!Wants(b, o) /\ o \in a.actual /\ b.exercise[o] = "unset" =>
                 o \in b.actual /\ b.since[o] < b.lock
<1> DEFINE a == House!Bank!Update(b)
           sw == House!Bank!Switching(b)
<1>1. /\ a.control = b.control /\ a.safety = b.safety /\ a.exercise = b.exercise
      /\ a.lock = b.lock /\ a.inhibited = b.inhibited
  BY DEF House!Bank!Update, House!Bank!Bank
<1>2. a.actual = (b.actual \ sw) \cup (sw \ b.actual)
  BY DEF House!Bank!Update, House!Bank!Bank
<1>3. a.since = [c \in House!Output |-> IF c \in sw THEN 0 ELSE b.since[c]]
  BY DEF House!Bank!Update, House!Bank!Bank
<1>4. a.since[o] = IF o \in sw THEN 0 ELSE b.since[o]
  BY <1>3
<1>5. /\ b.inhibited => sw = {}
      /\ o \in sw => (House!Bank!Wants(b, o) <=> o \notin b.actual)
      /\ ~b.inhibited /\ ~House!Bank!Wants(b, o) /\ o \in b.actual /\ o \notin sw =>
           ~House!Bank!Bypass(b, o)
  <2>1. House!Bank!Wants(b, o) \in BOOLEAN
    BY DEF House!Bank!Wants
  <2>2. o \in sw => House!Bank!Wants(b, o) # (o \in b.actual)
    BY DEF House!Bank!Switching, House!Bank!Mismatched
  <2>3. ~b.inhibited /\ o \notin sw =>
          House!Bank!Wants(b, o) = (o \in b.actual) \/ ~House!Bank!Bypass(b, o)
    BY DEF House!Bank!Switching, House!Bank!Mismatched
  <2>4. b.inhibited => sw = {}
    BY DEF House!Bank!Switching
  <2> HIDE DEF sw
  <2> QED BY <2>1, <2>2, <2>3, <2>4
<1>6. ~House!Bank!Bypass(b, o) => b.since[o] < b.lock
  <2>1. b.since[o] \in Int /\ b.lock \in Int
    BY DEF House!HomeHeatingAssumption, House!Bank!Bank, House!Age
  <2> QED BY <2>1 DEF House!Bank!Bypass
<1> HIDE DEF a, sw
<1> QED BY <1>1, <1>2, <1>4, <1>5, <1>6 DEF a

\* A hold-off takes the outputs away, and only that.
LEMMA HoldOffs ==
  ASSUME NEW b \in House!Bank!Bank, NEW off \in BOOLEAN, b.inhibited => b.actual = {}
  PROVE  LET a == House!Bank!SetInhibited(b, off)
         IN /\ a.control = b.control /\ a.safety = b.safety /\ a.exercise = b.exercise
            /\ a.lock = b.lock /\ a.inhibited = off
            /\ off => a.actual = {}
            /\ ~off => a.actual = b.actual /\ a.since = b.since
<1>1. CASE b.inhibited = off
  BY <1>1 DEF House!Bank!SetInhibited, House!Bank!Bank
<1>2. CASE b.inhibited # off /\ ~off
  <2>1. House!Bank!SetInhibited(b, off) = [b EXCEPT !.inhibited = FALSE]
    BY <1>2 DEF House!Bank!SetInhibited
  <2> QED BY <1>2, <2>1 DEF House!Bank!Bank
<1>3. CASE b.inhibited # off /\ off
  <2> DEFINE a == House!Bank!SetInhibited(b, off)
  <2>1. /\ a.control = b.control /\ a.safety = b.safety /\ a.exercise = b.exercise
        /\ a.lock = b.lock /\ a.inhibited = TRUE /\ a.actual = {}
    BY <1>3 DEF House!Bank!SetInhibited, House!Bank!Bank
  <2> HIDE DEF a
  <2>2. a.inhibited = off
    BY <1>3, <2>1
  <2> QED BY <1>3, <2>1, <2>2 DEF a
<1> QED BY <1>1, <1>2, <1>3

\* What is asked of an output depends on its requests alone.
LEMMA WantsStay ==
  ASSUME NEW a, NEW b, NEW o \in House!Output,
         a.control = b.control, a.safety = b.safety, a.exercise = b.exercise
  PROVE  House!Bank!Wants(a, o) <=> House!Bank!Wants(b, o)
BY DEF House!Bank!Wants

\* What nobody reads may be forgotten.
LEMMA PlainStays ==
  ASSUME House!HomeHeatingAssumption, NEW b \in House!Bank!Bank
  PROVE  LET a == House!Plain(b)
         IN /\ a \in House!Bank!Bank
            /\ a.control = b.control /\ a.safety = b.safety /\ a.exercise = b.exercise
            /\ a.lock = b.lock /\ a.inhibited = b.inhibited
            /\ a.actual = b.actual /\ a.since = b.since
<1>1. PICK r : r = [o \in House!Output |-> "Boot"]
  OBVIOUS
<1>2. PICK z : z = [o \in House!Output |-> 0]
  OBVIOUS
<1>3. r \in [House!Output -> House!Bank!Reason] /\ z \in [House!Output -> 0..AgeCap]
  BY <1>1, <1>2 DEF House!Bank!Reason, House!HomeHeatingAssumption
<1>4. House!Plain(b) = [b EXCEPT !.reason = r, !.delayed = {}, !.delayLogged = {},
                                 !.hasBeenOn = {}, !.sinceOn = z]
  BY <1>1, <1>2 DEF House!Plain
<1>5. PICK a : a = House!Plain(b)
  OBVIOUS
<1>6. /\ a.control = b.control /\ a.safety = b.safety /\ a.exercise = b.exercise
      /\ a.lock = b.lock /\ a.inhibited = b.inhibited
      /\ a.actual = b.actual /\ a.since = b.since
  BY <1>4, <1>5 DEF House!Bank!Bank
<1>7. a \in House!Bank!Bank
  BY <1>3, <1>4, <1>5 DEF House!Bank!Bank
<1> QED BY <1>5, <1>6, <1>7

\* What the fast ticks, a hold-off and an update, make of bank b for output o.
Ticked(a, b, off, o) ==
  /\ a.control = b.control /\ a.safety = b.safety /\ a.exercise = b.exercise
  /\ a.lock = b.lock /\ a.inhibited = off
  /\ off => a.actual = {}
  /\ ~House!Bank!Wants(b, o) /\ o \notin b.actual => o \notin a.actual
  /\ ~House!Bank!Wants(b, o) /\ o \in a.actual /\ b.exercise[o] = "unset" =>
       a.since[o] < a.lock
  /\ ~off /\ (o \in a.actual <=> o \in b.actual) => a.since[o] = b.since[o]
  /\ ~off /\ o \in b.actual /\ o \notin a.actual =>
       a.since[o] = 0 /\ ~House!Bank!Wants(a, o)

LEMMA FastTicksMove ==
  ASSUME House!HomeHeatingAssumption, NEW b \in House!Bank!Bank, NEW off \in BOOLEAN,
         b.inhibited => b.actual = {}, NEW o \in House!Output, b.safety[o] = "unset"
  PROVE  House!FastTicks(b, off) \in House!Bank!Bank /\ Ticked(House!FastTicks(b, off), b, off, o)
<1>1. PICK h : h = House!Bank!SetInhibited(b, off)
  OBVIOUS
<1>2. PICK u : u = House!Bank!Update(h)
  OBVIOUS
<1>3. PICK a : a = House!Plain(u)
  OBVIOUS
<1>4. House!FastTicks(b, off) = a
  BY <1>1, <1>2, <1>3 DEF House!FastTicks
<1>5. h \in House!Bank!Bank /\ u \in House!Bank!Bank
  BY <1>1, <1>2, BankTypes
<1>6. /\ h.control = b.control /\ h.safety = b.safety /\ h.exercise = b.exercise
      /\ h.lock = b.lock /\ h.inhibited = off
      /\ off => h.actual = {}
      /\ ~off => h.actual = b.actual /\ h.since = b.since
  BY <1>1, HoldOffs
<1>7. /\ u.control = h.control /\ u.safety = h.safety /\ u.exercise = h.exercise
      /\ u.lock = h.lock /\ u.inhibited = h.inhibited
      /\ h.inhibited => u.actual = h.actual
      /\ (o \in u.actual <=> o \in h.actual) => u.since[o] = h.since[o]
      /\ o \notin u.actual /\ o \in h.actual => u.since[o] = 0 /\ ~House!Bank!Wants(h, o)
      /\ ~House!Bank!Wants(h, o) /\ o \notin h.actual => o \notin u.actual
      /\ ~h.inhibited /\ ~House!Bank!Wants(h, o) /\ o \in u.actual /\ h.exercise[o] = "unset" =>
           o \in h.actual /\ h.since[o] < h.lock
  BY <1>2, <1>5, <1>6, UpdateMoves
<1>8. /\ a \in House!Bank!Bank
      /\ a.control = u.control /\ a.safety = u.safety /\ a.exercise = u.exercise
      /\ a.lock = u.lock /\ a.inhibited = u.inhibited
      /\ a.actual = u.actual /\ a.since = u.since
  BY <1>3, <1>5, PlainStays
<1>9. /\ House!Bank!Wants(h, o) <=> House!Bank!Wants(b, o)
      /\ House!Bank!Wants(a, o) <=> House!Bank!Wants(b, o)
  BY <1>6, <1>7, <1>8, WantsStay
<1>10. CASE off
  BY <1>4, <1>6, <1>7, <1>8, <1>9, <1>10 DEF Ticked
<1>11. CASE ~off
  BY <1>4, <1>6, <1>7, <1>8, <1>9, <1>11 DEF Ticked
<1> QED BY <1>10, <1>11

\* Time passes.
LEMMA AgedMoves ==
  ASSUME House!HomeHeatingAssumption, NEW b \in House!Bank!Bank, NEW d \in Nat
  PROVE  LET a == House!Bank!Aged(b, d)
         IN /\ a.control = b.control /\ a.safety = b.safety /\ a.exercise = b.exercise
            /\ a.lock = b.lock /\ a.inhibited = b.inhibited /\ a.actual = b.actual
            /\ \A o \in House!Output : a.since[o] = House!Older(b.since[o], d, AgeCap)
BY DEF House!Bank!Aged, House!Bank!Bank, House!Bank!Older, House!Older

\* hw.tick(): the lock, the exercises of the outputs in os, an update.  A pump that was off and
\* is not wanted is not started within less than the time after which it is exercised.
Worked(a, b, lock) ==
  /\ a.control = b.control /\ a.safety = b.safety /\ a.lock = lock /\ a.inhibited = b.inhibited
  /\ a.exercise["P4"] # "off"
  /\ b.inhibited => a.actual = b.actual
  /\ ~b.inhibited /\ ~House!Bank!Wants(b, "P4") /\ "P4" \notin b.actual /\ b.since["P4"] < AgeCap =>
       "P4" \notin a.actual
  /\ "P4" \in b.actual /\ "P4" \in a.actual => a.since["P4"] = b.since["P4"]

LEMMA HwTickWorks ==
  ASSUME House!HomeHeatingAssumption, NEW b \in House!Bank!Bank, NEW lock \in House!Age,
         NEW os \in SUBSET House!Output, b.safety["P4"] = "unset", b.exercise["P4"] # "off"
  PROVE  House!HwTick(b, lock, os) \in House!Bank!Bank /\ Worked(House!HwTick(b, lock, os), b, lock)
<1>1. PICK l : l = House!Bank!SetLockMs(b, lock)
  OBVIOUS
<1>2. PICK x : x = IF b.inhibited THEN l ELSE House!Exercise(l, os)
  OBVIOUS
<1>3. PICK a : a = House!Bank!Update(x)
  OBVIOUS
<1>4. House!HwTick(b, lock, os) = a
  BY <1>1, <1>2, <1>3 DEF House!HwTick
<1>5. /\ l \in House!Bank!Bank
      /\ l.control = b.control /\ l.safety = b.safety /\ l.exercise = b.exercise
      /\ l.lock = lock /\ l.inhibited = b.inhibited /\ l.actual = b.actual /\ l.since = b.since
  BY <1>1 DEF House!Bank!SetLockMs, House!Bank!Bank
<1>6. /\ x \in House!Bank!Bank
      /\ x.control = l.control /\ x.safety = l.safety
      /\ x.lock = l.lock /\ x.inhibited = l.inhibited /\ x.actual = l.actual /\ x.since = l.since
  <2>1. CASE b.inhibited
    BY <1>2, <1>5, <2>1
  <2>2. CASE ~b.inhibited
    <3>1. PICK e : e = [o \in House!Output |->
             IF o \notin os THEN "unset"
             ELSE IF l.exercise[o] # "unset" THEN l.exercise[o]
             ELSE IF ~House!Idle(l, o) THEN "unset"
             ELSE IF o \in l.actual THEN "off" ELSE "on"]
      OBVIOUS
    <3>2. e \in [House!Output -> House!Bank!Request]
      BY <1>5, <3>1 DEF House!Bank!Bank, House!Bank!Request
    <3>3. x = [l EXCEPT !.exercise = e]
      BY <1>2, <2>2, <3>1 DEF House!Exercise
    <3> QED BY <1>5, <3>2, <3>3 DEF House!Bank!Bank
  <2> QED BY <2>1, <2>2
<1>7. /\ x.exercise["P4"] # "off"
      /\ ~b.inhibited => x.exercise["P4"] = "unset" \/ b.exercise["P4"] = "on"
                         \/ (b.since["P4"] = AgeCap /\ "P4" \notin b.actual)
  <2>1. CASE b.inhibited
    BY <1>2, <1>5, <2>1
  <2>2. CASE ~b.inhibited
    <3>1. "P4" \in House!Output /\ b.exercise["P4"] \in {"unset", "off", "on"}
      BY DEF House!Output, House!Bank!Bank, House!Bank!Request
    <3>2. x.exercise = [o \in House!Output |->
             IF o \notin os THEN "unset"
             ELSE IF l.exercise[o] # "unset" THEN l.exercise[o]
             ELSE IF ~House!Idle(l, o) THEN "unset"
             ELSE IF o \in l.actual THEN "off" ELSE "on"]
      BY <1>2, <1>5, <2>2 DEF House!Exercise, House!Bank!Bank
    <3>3. x.exercise["P4"] =
             IF "P4" \notin os THEN "unset"
             ELSE IF l.exercise["P4"] # "unset" THEN l.exercise["P4"]
             ELSE IF ~House!Idle(l, "P4") THEN "unset"
             ELSE IF "P4" \in l.actual THEN "off" ELSE "on"
      BY <3>1, <3>2
    <3> QED BY <1>5, <2>2, <3>1, <3>3 DEF House!Idle
  <2> QED BY <2>1, <2>2
<1>8. "P4" \in House!Output /\ x.safety["P4"] = "unset"
  BY <1>5, <1>6 DEF House!Output
<1>9. /\ a.control = x.control /\ a.safety = x.safety /\ a.exercise = x.exercise
      /\ a.lock = x.lock /\ a.inhibited = x.inhibited
      /\ x.inhibited => a.actual = x.actual
      /\ ("P4" \in a.actual <=> "P4" \in x.actual) => a.since["P4"] = x.since["P4"]
      /\ ~House!Bank!Wants(x, "P4") /\ "P4" \notin x.actual => "P4" \notin a.actual
  BY <1>3, <1>6, <1>8, UpdateMoves
<1>10. a \in House!Bank!Bank
  BY <1>3, <1>6, 0 \in Nat, BankTypes
<1>11. ASSUME ~b.inhibited, ~House!Bank!Wants(b, "P4"), b.since["P4"] < AgeCap
       PROVE  ~House!Bank!Wants(x, "P4")
  <2>1. b.exercise["P4"] # "on" /\ b.exercise["P4"] \in {"unset", "off", "on"}
    BY <1>11, <1>8 DEF House!Bank!Wants, House!Bank!Bank, House!Bank!Request
  <2>2. "P4" \notin b.control
    BY <1>11, <2>1 DEF House!Bank!Wants
  <2>3. b.since["P4"] # AgeCap
    BY <1>8, <1>11 DEF House!Bank!Bank, House!HomeHeatingAssumption
  <2>4. x.exercise["P4"] = "unset"
    BY <1>7, <1>11, <2>1, <2>3
  <2> QED BY <1>5, <1>6, <1>8, <2>2, <2>4 DEF House!Bank!Wants
<1> QED BY <1>4, <1>5, <1>6, <1>7, <1>9, <1>10, <1>11 DEF Worked

-----------------------------------------------------------------------------
(* The decisions.                                                          *)

\* The guard touches one setting, and leaves a differential that can be left.
LEMMA GuardFits ==
  ASSUME NEW s \in House!Settings
  PROVE  LET g == House!Guarded(s)
         IN /\ g \in House!Settings
            /\ g.heating = s.heating /\ g.h2Set = s.h2Set /\ g.offDelay = s.offDelay
            /\ g.k2Delta = s.k2Delta /\ g.k2H3Min = s.k2H3Min /\ g.k2H3MinHyst = s.k2H3MinHyst
            /\ g.k2H4Max = s.k2H4Max /\ g.k2H4MaxHyst = s.k2H4MaxHyst
            /\ g.k2DeltaHyst < g.k2Delta
<1>1. PICK h : h = House!Lower(s.k2DeltaHyst, s.k2Delta - 1)
  OBVIOUS
<1>2. s.k2DeltaHyst \in Int /\ s.k2Delta \in Nat \ {0}
  BY DEF House!Settings
<1>3. h \in Int /\ h < s.k2Delta
  BY <1>1, <1>2 DEF House!Lower
<1>4. House!Guarded(s) = [s EXCEPT !.k2DeltaHyst = h]
  BY <1>1 DEF House!Guarded
<1> QED BY <1>3, <1>4 DEF House!Settings

\* What the fail-safe table wants is a demand.
LEMMA WantedIsDemand ==
  ASSUME NEW s, NEW g, g.h2Set = s.h2Set, NEW r \in House!Sensors, House!Wanted(s, r)
  PROVE  House!Demand(g, r)
<1>1. PICK failed : failed = House!FailedOf(r)
  OBVIOUS
<1>2. "H3" \in failed <=> House!Failed(r, "H3")
  BY <1>1 DEF House!FailedOf
<1>3. House!Multi(r) <=> House!Cardinality(failed) >= 2
  BY <1>1 DEF House!Multi
<1>4. \/ failed = {"H3"}
      \/ "H3" \notin failed /\ ~House!Pending(r, "H3") /\ House!Cardinality(failed) = 2
      \/ r.H3.health = "Ok" /\ r.H3.c >= s.h2Set
  BY <1>1 DEF House!Wanted
<1>5. r.H3.health \in {"Ok", "Failed", "Pending"} /\ r["H3"] = r.H3
  BY DEF House!Sensors, House!Reading
<1>6. CASE failed = {"H3"}
  <2>1. House!Cardinality({"H3"}) = Cardinality({"H3"})
    BY DEF House!Cardinality, Cardinality, House!IsFiniteSet, IsFiniteSet
  <2>2. House!Cardinality(failed) = 1
    BY <1>6, <2>1, FS_Singleton
  <2> QED BY <1>2, <1>3, <1>6, <2>2 DEF House!Demand
<1>7. CASE "H3" \notin failed /\ ~House!Pending(r, "H3") /\ House!Cardinality(failed) = 2
  BY <1>2, <1>3, <1>5, <1>7 DEF House!Demand, House!Failed, House!Pending
<1>8. CASE r.H3.health = "Ok" /\ r.H3.c >= s.h2Set
  BY <1>8 DEF House!Demand
<1> QED BY <1>4, <1>6, <1>7, <1>8

\* P4Logic: a request, and the age of the last demand.
LEMMA PumpFits ==
  ASSUME AgeCap \in Nat, NEW p \in [on : BOOLEAN, since : House!Age], NEW s \in House!Settings,
         NEW r \in House!Sensors
  PROVE  LET q == House!Pump(p, s, r)
         IN /\ q \in [on : BOOLEAN, since : House!Age]
            /\ q.since = IF s.heating /\ House!Demand(s, r) THEN 0 ELSE p.since
<1>1. House!Demand(s, r) \in BOOLEAN /\ House!Delays(p, s, r) \in BOOLEAN /\ s.heating \in BOOLEAN
  BY DEF House!Demand, House!Delays, House!Settings
<1> QED BY <1>1 DEF House!Pump, House!Age

\* What clears a latch and does not set it leaves it open.
LEMMA LatchFits ==
  ASSUME NEW ok \in BOOLEAN, NEW sets \in BOOLEAN, NEW clears \in BOOLEAN
  PROVE  /\ House!Latched(ok, sets, clears) \in BOOLEAN
         /\ clears /\ ~sets => ~House!Latched(ok, sets, clears)
BY DEF House!Latched

\* K2Logic: the diverter is in bypass when the last settled readings call the tank unsafe.
LEMMA DiverterFits ==
  ASSUME NEW k \in [bypass : BOOLEAN, valid : BOOLEAN, deltaOk : BOOLEAN, h3Ok : BOOLEAN, h4Ok : BOOLEAN],
         NEW s \in House!Settings, NEW r \in House!Sensors, v9 = "unsafe" => k.bypass
  PROVE  LET n == House!Divert(k, House!Guarded(s), r)
         IN /\ n \in [bypass : BOOLEAN, valid : BOOLEAN, deltaOk : BOOLEAN, h3Ok : BOOLEAN, h4Ok : BOOLEAN]
            /\ House!Told(s, r) = "unsafe" => n.bypass
<1> DEFINE Kind == [bypass : BOOLEAN, valid : BOOLEAN, deltaOk : BOOLEAN, h3Ok : BOOLEAN, h4Ok : BOOLEAN]
<1>1. PICK g : g = House!Guarded(s)
  OBVIOUS
<1>2. /\ g.k2Delta \in Nat /\ g.k2DeltaHyst \in Int /\ g.k2DeltaHyst < g.k2Delta
      /\ g.k2H4Max \in Int /\ g.k2H4MaxHyst \in Nat \ {0} /\ g.k2H4Max = s.k2H4Max
  BY <1>1, GuardFits DEF House!Settings
<1>3. /\ r.H3.c \in Int /\ r.H4.c \in Int
      /\ r.H3.health \in {"Ok", "Failed", "Pending"} /\ r.H4.health \in {"Ok", "Failed", "Pending"}
      /\ r["H3"] = r.H3 /\ r["H4"] = r.H4
  BY DEF House!Sensors, House!Reading
<1>4. PICK n : n = House!Divert(k, g, r)
  OBVIOUS
<1>5. House!Reset \in Kind /\ House!Waiting(k) \in Kind /\ House!Waiting(k).bypass = k.bypass
  BY DEF House!Reset, House!Waiting
<1>6. CASE House!Failed(r, "H4") \/ House!Failed(r, "H3")
  <2>1. n = [House!Reset EXCEPT !.bypass = TRUE]
    BY <1>4, <1>6 DEF House!Divert
  <2>2. n \in Kind /\ n.bypass
    BY <1>5, <2>1
  <2> QED BY <1>1, <1>4, <2>2
<1>7. CASE ~House!Failed(r, "H4") /\ ~House!Failed(r, "H3") /\ (House!Pending(r, "H3") \/ House!Pending(r, "H4"))
  <2>1. n = House!Waiting(k)
    BY <1>4, <1>7 DEF House!Divert
  <2>2. House!Told(s, r) = v9
    BY <1>7 DEF House!Told
  <2> QED BY <1>1, <1>4, <1>5, <2>1, <2>2
<1>8. CASE ~House!Failed(r, "H4") /\ ~House!Failed(r, "H3") /\ ~House!Pending(r, "H3") /\ ~House!Pending(r, "H4")
  <2>1. PICK was : was = IF k.valid THEN k ELSE [House!Reset EXCEPT !.h4Ok = TRUE]
    OBVIOUS
  <2>2. was \in Kind
    BY <1>5, <2>1
  <2>3. PICK deltaOk : deltaOk = House!Latched(was.deltaOk, r.H3.c > r.H4.c + g.k2Delta,
                                               r.H3.c <= r.H4.c + g.k2Delta - g.k2DeltaHyst)
    OBVIOUS
  <2>4. PICK h3Ok : h3Ok = House!Latched(was.h3Ok, r.H3.c >= g.k2H3Min, r.H3.c < g.k2H3Min - g.k2H3MinHyst)
    OBVIOUS
  <2>5. PICK h4Ok : h4Ok = House!Latched(was.h4Ok, r.H4.c <= g.k2H4Max - g.k2H4MaxHyst, r.H4.c >= g.k2H4Max)
    OBVIOUS
  <2>6. n = [bypass |-> ~(deltaOk /\ h3Ok /\ h4Ok), valid |-> TRUE,
             deltaOk |-> deltaOk, h3Ok |-> h3Ok, h4Ok |-> h4Ok]
    BY <1>4, <1>8, <2>1, <2>3, <2>4, <2>5 DEF House!Divert
  <2>7. was.deltaOk \in BOOLEAN /\ was.h3Ok \in BOOLEAN /\ was.h4Ok \in BOOLEAN
    BY <2>2
  <2>8. /\ deltaOk \in BOOLEAN /\ (r.H3.c <= r.H4.c => ~deltaOk)
        /\ h3Ok \in BOOLEAN
        /\ h4Ok \in BOOLEAN /\ (r.H4.c >= g.k2H4Max => ~h4Ok)
    <3>1. /\ (r.H3.c > r.H4.c + g.k2Delta) \in BOOLEAN
          /\ (r.H3.c <= r.H4.c + g.k2Delta - g.k2DeltaHyst) \in BOOLEAN
          /\ (r.H3.c >= g.k2H3Min) \in BOOLEAN /\ (r.H3.c < g.k2H3Min - g.k2H3MinHyst) \in BOOLEAN
          /\ (r.H4.c <= g.k2H4Max - g.k2H4MaxHyst) \in BOOLEAN /\ (r.H4.c >= g.k2H4Max) \in BOOLEAN
      OBVIOUS
    <3>2. /\ deltaOk \in BOOLEAN /\ h3Ok \in BOOLEAN /\ h4Ok \in BOOLEAN
          /\ (r.H3.c <= r.H4.c + g.k2Delta - g.k2DeltaHyst) /\ ~(r.H3.c > r.H4.c + g.k2Delta) => ~deltaOk
          /\ (r.H4.c >= g.k2H4Max) /\ ~(r.H4.c <= g.k2H4Max - g.k2H4MaxHyst) => ~h4Ok
      BY <2>3, <2>4, <2>5, <2>7, <3>1, LatchFits, Zenon
    <3>3. /\ r.H3.c <= r.H4.c => r.H3.c <= r.H4.c + g.k2Delta - g.k2DeltaHyst
                                 /\ ~(r.H3.c > r.H4.c + g.k2Delta)
          /\ r.H4.c >= g.k2H4Max => ~(r.H4.c <= g.k2H4Max - g.k2H4MaxHyst)
      BY <1>2, <1>3
    <3> QED BY <3>2, <3>3
  <2>9. n \in Kind
    BY <2>6, <2>8
  <2>10. House!Told(s, r) = "unsafe" => r.H4.c >= g.k2H4Max \/ r.H3.c <= r.H4.c
    BY <1>2, <1>8 DEF House!Told
  <2>11. n.bypass = ~(deltaOk /\ h3Ok /\ h4Ok)
    BY <2>6
  <2> QED BY <1>1, <1>4, <2>8, <2>9, <2>10, <2>11
<1> QED BY <1>6, <1>7, <1>8

-----------------------------------------------------------------------------
(* HouseFits is inductive.                                                 *)

\* A boot finds the outputs off and nothing decided.
LEMMA StartFits == House!Init => House!HouseFits
<1> SUFFICES ASSUME House!Init PROVE House!HouseFits
  OBVIOUS
<1> USE DEF House!Init
<1>1. BankP!RelayBankAssumption
  BY HomeAssumption DEF HomeAssumption, House!HomeHeatingAssumption, BankP!RelayBankAssumption, House!Age
<1>2. v2 \in House!Settings /\ AgeCap \in Nat
  BY HomeAssumption DEF HomeAssumption, House!HomeHeatingAssumption
<1>3. v2.lock \in House!Age
  BY <1>2 DEF House!Settings
<1>4. v8 \in House!Bank!Bank
  BY <1>1, <1>3, OneBank, BankP!ConfiguredType
<1>5. House!TypeFits
  BY <1>2, <1>4 DEF House!TypeFits, House!Reset, House!Untracked, House!Age
<1>6. House!SlotsFit
  BY DEF House!SlotsFit, House!Bank!Configured, House!Output
<1>7. House!NoNeedFits /\ House!TankFits /\ House!FlowFits
  BY DEF House!NoNeedFits, House!TankFits, House!FlowFits, House!Untracked
<1> QED BY <1>5, <1>6, <1>7 DEF House!HouseFits

LEMMA RestartFits == House!HouseFits /\ House!Restart => House!HouseFits'
<1> SUFFICES ASSUME House!HouseFits, House!Restart PROVE House!HouseFits'
  OBVIOUS
<1>1. House!Init'
  BY DEF House!Restart, House!Begin, House!Init, House!HouseFits, House!TypeFits
<1>2. (House!Init => House!HouseFits)'
  BY StartFits, PTL
<1> QED BY <1>1, <1>2

\* An update forgets no request: what was not asked for, and was off, stays off.
LEMMA FastPassFits == House!HouseFits /\ House!FastPass => House!HouseFits'
<1> SUFFICES ASSUME House!HouseFits, House!FastPass PROVE House!HouseFits'
  OBVIOUS
<1> USE DEF House!HouseFits
<1>1. PICK off \in House!OutputsOff : v8' = House!FastTicks(v8, off)
  BY DEF House!FastPass
<1>2. UNCHANGED <<v1, v2, v3, v4, v5, v6, v7, v9, v10>>
  BY DEF House!FastPass
<1>3. off \in BOOLEAN /\ (off => v1 \in Updated)
  BY DEF House!OutputsOff
<1>4. PICK b : b = v8
  OBVIOUS
<1>5. PICK n : n = House!FastTicks(b, off)
  OBVIOUS
<1>6. v8' = n /\ v8 = b
  BY <1>1, <1>4, <1>5
<1>7. /\ b \in House!Bank!Bank
      /\ \A o \in House!Output : b.safety[o] = "unset"
      /\ b.inhibited => b.actual = {}
  BY <1>4 DEF House!TypeFits, House!SlotsFit
<1>8. /\ n \in House!Bank!Bank
      /\ \A o \in House!Output : Ticked(n, b, off, o)
  <2>1. n \in House!Bank!Bank
    BY <1>3, <1>5, <1>7, "P4" \in House!Output, HomeAssumption, FastTicksMove DEF HomeAssumption, House!Output
  <2>2. ASSUME NEW o \in House!Output PROVE Ticked(n, b, off, o)
    BY <1>3, <1>5, <1>7, HomeAssumption, FastTicksMove DEF HomeAssumption
  <2> QED BY <2>1, <2>2
<1>9. "P4" \in House!Output /\ "K2" \in House!Output
  BY DEF House!Output
<1>10. House!TypeFits'
  BY <1>2, <1>6, <1>8 DEF House!TypeFits
<1>11. n.control = b.control /\ n.safety = b.safety /\ n.exercise = b.exercise /\ n.lock = b.lock
  BY <1>8, <1>9 DEF Ticked
<1>12. House!SlotsFit'
  BY <1>2, <1>3, <1>6, <1>8, <1>9, <1>11 DEF House!SlotsFit, Ticked
<1>13. House!NoNeedFits'
  <2>1. ASSUME v5, NEW o \in House!Output, o \in n.actual, n.exercise[o] = "unset"
        PROVE  FALSE
    <3>1. b.control = {} /\ o \notin b.actual
      BY <1>6, <1>11, <2>1 DEF House!NoNeedFits, House!Exercising
    <3>2. ~House!Bank!Wants(b, o)
      BY <1>7, <1>11, <2>1, <3>1 DEF House!Bank!Wants
    <3> QED BY <1>8, <2>1, <3>1, <3>2 DEF Ticked
  <2> QED BY <1>2, <1>6, <1>11, <2>1 DEF House!NoNeedFits, House!Exercising
<1>14. House!TankFits'
  <2>1. ASSUME v9 = "unsafe", "K2" \in n.actual, n.exercise["K2"] = "unset"
        PROVE  n.since["K2"] < n.lock
    <3>1. "K2" \notin b.control
      BY <1>6, <2>1 DEF House!TankFits
    <3>2. ~House!Bank!Wants(b, "K2")
      BY <1>7, <1>9, <1>11, <2>1, <3>1 DEF House!Bank!Wants
    <3> QED BY <1>8, <1>9, <1>11, <2>1, <3>2 DEF Ticked
  <2> QED BY <1>2, <1>6, <1>11, <2>1 DEF House!TankFits, House!Exercising
<1>15. House!FlowFits'
  <2>1. ASSUME v7.tracking, v1 \notin Updated
        PROVE  IF "P4" \in n.actual THEN n.since["P4"] >= v7.ran
               ELSE n.since["P4"] = 0 /\ ~House!Bank!Wants(n, "P4")
    <3>1. ~off /\ Ticked(n, b, off, "P4")
      BY <1>3, <1>8, <1>9, <2>1
    <3>2. IF "P4" \in b.actual THEN b.since["P4"] >= v7.ran
          ELSE b.since["P4"] = 0 /\ ~House!Bank!Wants(b, "P4")
      BY <1>6, <2>1 DEF House!FlowFits
    <3>3. House!Bank!Wants(n, "P4") <=> House!Bank!Wants(b, "P4")
      BY <1>9, <1>11, WantsStay
    <3> QED BY <3>1, <3>2, <3>3 DEF Ticked
  <2> QED BY <1>2, <1>6, <2>1 DEF House!FlowFits
<1> QED BY <1>10, <1>12, <1>13, <1>14, <1>15

\* A slow pass decides on what it reads, and its hardware tick only starts a pump at rest
\* that has been off for longer than a pass takes.
LEMMA SlowPassFits ==
  ASSUME House!HouseFits, NEW d \in Steps, House!SlowPass(d)
  PROVE  House!HouseFits'
<1> USE DEF House!HouseFits
<1> DEFINE
     Does(s, off, b, was, r, p, k) ==
        /\ v2' = s
        /\ v3' = p /\ v4' = k
        /\ v5' = House!NoNeed(p, k, s, r, b)
        /\ v6' = House!Alarms(r)
        /\ v7' = House!Checked([v7 EXCEPT !.ran = IF v7.tracking THEN House!Older(@, d, AgeCap) ELSE 0],
                               s, r, b)
        /\ v8' = House!FastTicks(House!Requested(b, p, k), off)
        /\ v9' = House!Told(s, r)
        /\ v10' = IF s.heating /\ House!Wanted(s, r) THEN 0 ELSE House!Older(v10, d, AgeCap)
        /\ UNCHANGED v1
<1>a. PICK s \in HouseChoices[v1], os \in SUBSET Exercises[v1] :
        \E b \in {House!HwTick(House!Bank!Aged(v8, d), s.lock, os)},
           was \in {[v3 EXCEPT !.since = House!Older(@, d, AgeCap)]}, r \in HouseReadings[v1] :
        \E p \in {House!Pump(was, House!Guarded(s), r)},
           k \in {House!Divert(v4, House!Guarded(s), r)}, off \in House!OutputsOff :
          Does(s, off, b, was, r, p, k)
  BY DEF House!SlowPass
<1>b. PICK b \in {House!HwTick(House!Bank!Aged(v8, d), s.lock, os)},
           was \in {[v3 EXCEPT !.since = House!Older(@, d, AgeCap)]}, r \in HouseReadings[v1] :
        \E p \in {House!Pump(was, House!Guarded(s), r)},
           k \in {House!Divert(v4, House!Guarded(s), r)}, off \in House!OutputsOff :
          Does(s, off, b, was, r, p, k)
  BY <1>a
<1>c. PICK p \in {House!Pump(was, House!Guarded(s), r)},
           k \in {House!Divert(v4, House!Guarded(s), r)}, off \in House!OutputsOff :
        Does(s, off, b, was, r, p, k)
  BY <1>b
<1>1. /\ b = House!HwTick(House!Bank!Aged(v8, d), s.lock, os)
      /\ was = [v3 EXCEPT !.since = House!Older(@, d, AgeCap)]
      /\ p = House!Pump(was, House!Guarded(s), r)
      /\ k = House!Divert(v4, House!Guarded(s), r)
      /\ Does(s, off, b, was, r, p, k)
  BY <1>c
<1>2. /\ House!HomeHeatingAssumption
      /\ AgeCap \in Nat /\ d \in Nat /\ d >= 1 /\ d < AgeCap
      /\ s \in House!Settings /\ r \in House!Sensors /\ os \in SUBSET House!Output
      /\ off \in BOOLEAN /\ (off => v1 \in Updated)
  <2>1. v1 \in HousePlants /\ House!HomeHeatingAssumption
    BY HomeAssumption DEF HomeAssumption, House!TypeFits
  <2>2. /\ AgeCap \in Nat /\ Steps \subseteq 1..(AgeCap - 1)
        /\ HouseReadings[v1] \subseteq House!Sensors /\ HouseChoices[v1] \subseteq House!Settings
        /\ Exercises[v1] \subseteq House!Output
    BY <2>1 DEF House!HomeHeatingAssumption
  <2>3. d \in Nat /\ d >= 1 /\ d < AgeCap
    BY <2>2
  <2>4. off \in BOOLEAN /\ (off => v1 \in Updated)
    BY DEF House!OutputsOff
  <2> QED BY <2>1, <2>2, <2>3, <2>4
<1>3. "P4" \in House!Output /\ "K2" \in House!Output
  BY DEF House!Output
<1>4. PICK z : z = v8
  OBVIOUS
<1>5. /\ z \in House!Bank!Bank
      /\ \A o \in House!Output : z.safety[o] = "unset"
      /\ z.exercise["P4"] # "off"
      /\ z.inhibited => z.actual = {} /\ v1 \in Updated
  BY <1>4 DEF House!TypeFits, House!SlotsFit
<1>6. PICK a : a = House!Bank!Aged(z, d)
  OBVIOUS
<1>7. /\ a \in House!Bank!Bank
      /\ a.control = z.control /\ a.safety = z.safety /\ a.exercise = z.exercise
      /\ a.lock = z.lock /\ a.inhibited = z.inhibited /\ a.actual = z.actual
      /\ \A o \in House!Output : a.since[o] = House!Older(z.since[o], d, AgeCap)
  BY <1>2, <1>5, <1>6, FALSE \in BOOLEAN, BankTypes, AgedMoves
<1>8. b \in House!Bank!Bank /\ Worked(b, a, s.lock)
  <2>1. b = House!HwTick(a, s.lock, os) /\ s.lock \in House!Age
    BY <1>1, <1>2, <1>4, <1>6 DEF House!Settings
  <2> QED BY <1>2, <1>3, <1>5, <1>7, <2>1, HwTickWorks
<1>9. PICK q : q = House!Requested(b, p, k)
  OBVIOUS
<1>10. /\ q \in House!Bank!Bank
       /\ q.control = {o \in House!Output : IF o = "P4" THEN p.on ELSE ~k.bypass}
       /\ q.safety = b.safety /\ q.exercise = b.exercise /\ q.lock = b.lock
       /\ q.inhibited = b.inhibited /\ q.actual = b.actual /\ q.since = b.since
  <2>1. PICK c : c = {o \in House!Output : IF o = "P4" THEN p.on ELSE ~k.bypass}
    OBVIOUS
  <2>2. q = [b EXCEPT !.control = c]
    BY <1>9, <2>1 DEF House!Requested
  <2>3. c \in SUBSET House!Output
    BY <2>1
  <2> QED BY <1>8, <2>1, <2>2, <2>3 DEF House!Bank!Bank
<1>11. /\ q.inhibited => q.actual = {}
       /\ \A o \in House!Output : q.safety[o] = "unset"
  BY <1>5, <1>7, <1>8, <1>10 DEF Worked
<1>12. PICK n : n = House!FastTicks(q, off)
  OBVIOUS
<1>13. v8' = n
  BY <1>1, <1>9, <1>12
<1>14. /\ n \in House!Bank!Bank
       /\ \A o \in House!Output : Ticked(n, q, off, o)
  <2>1. ASSUME NEW o \in House!Output
        PROVE  n \in House!Bank!Bank /\ Ticked(n, q, off, o)
    BY <1>2, <1>10, <1>11, <1>12, FastTicksMove
  <2> QED BY <1>3, <2>1
<1>15. n.control = q.control /\ n.safety = q.safety /\ n.exercise = q.exercise /\ n.lock = q.lock
  BY <1>3, <1>14 DEF Ticked
<1>16. /\ was \in [on : BOOLEAN, since : House!Age] /\ was.since = House!Older(v3.since, d, AgeCap)
       /\ v10 \in House!Age /\ v3.since \in House!Age
  <2>1. v3 \in [on : BOOLEAN, since : House!Age] /\ v10 \in House!Age
    BY DEF House!TypeFits
  <2>2. House!Older(v3.since, d, AgeCap) \in House!Age
    BY <1>2, <2>1 DEF House!Older, House!Age
  <2> QED BY <1>1, <2>1, <2>2
<1>17. /\ p \in [on : BOOLEAN, since : House!Age]
       /\ p.since = IF s.heating /\ House!Demand(House!Guarded(s), r) THEN 0 ELSE was.since
  BY <1>1, <1>2, <1>16, GuardFits, PumpFits
<1>18. /\ k \in [bypass : BOOLEAN, valid : BOOLEAN, deltaOk : BOOLEAN, h3Ok : BOOLEAN, h4Ok : BOOLEAN]
       /\ House!Told(s, r) = "unsafe" => k.bypass
  BY <1>1, <1>2, DiverterFits DEF House!TypeFits, House!TankFits
<1>19. PICK f : f = [v7 EXCEPT !.ran = IF v7.tracking THEN House!Older(@, d, AgeCap) ELSE 0]
  OBVIOUS
<1>20. f \in [tracking : BOOLEAN, ran : House!Age, warns : BOOLEAN]
  <2>1. v7 \in [tracking : BOOLEAN, ran : House!Age, warns : BOOLEAN]
    BY DEF House!TypeFits
  <2> QED BY <1>2, <1>19, <2>1 DEF House!Older, House!Age
<1>21. House!TypeFits'
  <2>1. v7' \in [tracking : BOOLEAN, ran : House!Age, warns : BOOLEAN]
    <3>1. v7' = House!Checked(f, s, r, b)
      BY <1>1, <1>19
    <3> QED BY <1>2, <1>20, <3>1 DEF House!Checked, House!Untracked, House!Age
  <2>2. v10' \in House!Age
    BY <1>1, <1>2, <1>16 DEF House!Older, House!Age
  <2> QED BY <1>1, <1>13, <1>14, <1>17, <1>18, <2>1, <2>2 DEF House!TypeFits
<1>22. House!SlotsFit'
  BY <1>1, <1>2, <1>3, <1>8, <1>10, <1>11, <1>13, <1>14, <1>15 DEF House!SlotsFit, Ticked, Worked
<1>23. House!NoNeedFits'
  <2>1. p.since <= v10'
    <3>1. CASE s.heating /\ House!Demand(House!Guarded(s), r)
      BY <1>17, <1>21, <3>1 DEF House!TypeFits, House!Age
    <3>2. CASE ~(s.heating /\ House!Demand(House!Guarded(s), r))
      <4>1. ~(s.heating /\ House!Wanted(s, r))
        BY <1>2, <3>2, GuardFits, WantedIsDemand
      <4>2. v3.since <= v10
        BY DEF House!NoNeedFits
      <4> QED BY <1>1, <1>2, <1>16, <1>17, <3>2, <4>1, <4>2 DEF House!Older, House!Age
    <3> QED BY <3>1, <3>2
  <2>2. v5' => /\ q.control = {}
               /\ s.heating => p.since >= s.offDelay
               /\ "P4" \in b.actual => b.exercise["P4"] # "unset"
               /\ "K2" \in b.actual => b.exercise["K2"] # "unset"
    <3> SUFFICES ASSUME v5' PROVE /\ q.control = {}
                                  /\ s.heating => p.since >= s.offDelay
                                  /\ "P4" \in b.actual => b.exercise["P4"] # "unset"
                                  /\ "K2" \in b.actual => b.exercise["K2"] # "unset"
      OBVIOUS
    <3>1. House!Bypassed(k, b) /\ House!PumpIsOff(p, b) /\ House!OffDelayElapsed(p, s)
      BY <1>1 DEF House!NoNeed
    <3> QED BY <1>10, <3>1 DEF House!Bypassed, House!PumpIsOff, House!OffDelayElapsed, House!Exercising,
               House!Output
  <2>3. ASSUME v5', NEW o \in House!Output, o \in n.actual, n.exercise[o] = "unset"
        PROVE  FALSE
    <3>1. q.exercise[o] = "unset" /\ o \notin q.control
      BY <1>15, <2>2, <2>3
    <3>2. o \notin q.actual
      BY <1>10, <2>2, <2>3, <3>1 DEF House!Output
    <3>3. ~House!Bank!Wants(q, o)
      BY <1>11, <3>1 DEF House!Bank!Wants
    <3> QED BY <1>14, <2>3, <3>2, <3>3 DEF Ticked
  <2>4. v10' \in Int /\ p.since \in Int /\ s.offDelay \in Int
    BY <1>2, <1>17, <1>21 DEF House!TypeFits, House!Age, House!Settings
  <2> QED BY <1>1, <1>13, <1>15, <2>1, <2>2, <2>3, <2>4 DEF House!NoNeedFits, House!Exercising
<1>24. House!TankFits'
  <2>1. ASSUME House!Told(s, r) = "unsafe" PROVE k.bypass /\ "K2" \notin q.control
    BY <1>10, <1>18, <2>1
  <2>2. ASSUME House!Told(s, r) = "unsafe", "K2" \in n.actual, n.exercise["K2"] = "unset"
        PROVE  n.since["K2"] < n.lock
    <3>1. ~House!Bank!Wants(q, "K2") /\ q.exercise["K2"] = "unset"
      BY <1>3, <1>11, <1>15, <2>1, <2>2 DEF House!Bank!Wants
    <3> QED BY <1>3, <1>14, <2>2, <3>1 DEF Ticked
  <2> QED BY <1>1, <1>13, <1>15, <2>1, <2>2 DEF House!TankFits, House!Exercising
<1>25. House!FlowFits'
  <2>1. v7' = House!Checked(f, s, r, b)
    BY <1>1, <1>19
  <2>2. v7'.warns => v7'.tracking /\ v7'.ran >= s.minOn
    BY <1>20, <2>1 DEF House!Checked, House!Untracked
  <2>3. ASSUME v7'.tracking, v1 \notin Updated
        PROVE  IF "P4" \in n.actual THEN n.since["P4"] >= v7'.ran
               ELSE n.since["P4"] = 0 /\ ~House!Bank!Wants(n, "P4")
    <3>1. "P4" \in b.actual /\ v7'.ran = f.ran
      BY <2>1, <2>3 DEF House!Checked, House!Untracked, House!Tracking
    <3>2. ~off /\ ~z.inhibited
      BY <1>2, <1>5, <2>3
    <3>3. /\ z.since["P4"] \in Nat /\ a.since["P4"] \in Nat /\ b.since["P4"] \in Nat
          /\ v7 \in [tracking : BOOLEAN, ran : House!Age, warns : BOOLEAN]
      BY <1>2, <1>3, <1>5, <1>7, <1>8 DEF House!Bank!Bank, House!TypeFits
    <3>4. f.ran = IF v7.tracking THEN House!Older(v7.ran, d, AgeCap) ELSE 0
      BY <1>19, <3>3
    <3>5. b.since["P4"] >= f.ran
      <4>1. CASE ~v7.tracking
        BY <3>3, <3>4, <4>1
      <4>2. CASE v7.tracking /\ "P4" \in z.actual
        <5>1. z.since["P4"] >= v7.ran
          BY <1>4, <2>3, <4>2 DEF House!FlowFits
        <5>2. b.since["P4"] = House!Older(z.since["P4"], d, AgeCap)
          BY <1>3, <1>7, <1>8, <3>1, <4>2 DEF Worked
        <5> QED BY <1>2, <3>3, <3>4, <4>2, <5>1, <5>2 DEF House!Older, House!Age
      <4>3. CASE v7.tracking /\ "P4" \notin z.actual
        <5>1. z.since["P4"] = 0 /\ ~House!Bank!Wants(z, "P4")
          BY <1>4, <2>3, <4>3 DEF House!FlowFits
        <5>2. a.since["P4"] < AgeCap /\ ~House!Bank!Wants(a, "P4")
          BY <1>2, <1>3, <1>7, <5>1, WantsStay DEF House!Older
        <5> QED BY <1>7, <1>8, <3>1, <3>2, <4>3, <5>2 DEF Worked
      <4> QED BY <4>1, <4>2, <4>3
    <3>6. Ticked(n, q, off, "P4")
      BY <1>3, <1>14
    <3> QED BY <1>10, <3>1, <3>2, <3>5, <3>6 DEF Ticked
  <2> QED BY <1>1, <1>13, <2>2, <2>3 DEF House!FlowFits
<1> QED BY <1>21, <1>22, <1>23, <1>24, <1>25

\* HomeHeatingController, HwRuntime: HouseFits is inductive.
LEMMA HouseKeeps == House!HouseFits /\ [House!Next]_(House!vars) => House!HouseFits'
<1> SUFFICES ASSUME House!HouseFits, [House!Next]_(House!vars) PROVE House!HouseFits'
  OBVIOUS
<1>1. CASE \E d \in Steps : House!SlowPass(d)
  BY <1>1, SlowPassFits
<1>2. CASE House!FastPass
  BY <1>2, FastPassFits
<1>3. CASE House!Restart
  BY <1>3, RestartFits
<1>4. CASE UNCHANGED House!vars
  BY <1>4 DEF House!vars, House!HouseFits, House!TypeFits, House!SlotsFit, House!NoNeedFits,
     House!TankFits, House!FlowFits, House!Exercising, House!Bank!Wants
<1> QED BY <1>1, <1>2, <1>3, <1>4 DEF House!Next

LEMMA HouseSafe == House!HouseFits => House!HouseTellsTheTruth /\ House!TankIsSpared
<1> SUFFICES ASSUME House!HouseFits PROVE House!HouseTellsTheTruth /\ House!TankIsSpared
  OBVIOUS
<1> USE DEF House!HouseFits
<1>1. House!TankIsSpared
  BY DEF House!TankFits, House!TankIsSpared
<1>2. /\ v2 \in House!Settings /\ v7.ran \in Int
      /\ v8.since["P4"] \in Int /\ v2.minOn \in Int
  <2>1. v2 \in House!Settings
    BY HomeAssumption DEF HomeAssumption, House!HomeHeatingAssumption, House!TypeFits
  <2>2. AgeCap \in Nat
    BY HomeAssumption DEF HomeAssumption, House!HomeHeatingAssumption
  <2> QED BY <2>1, <2>2 DEF House!Settings, House!TypeFits, House!Age, House!Bank!Bank, House!Output
<1>3. House!HouseTellsTheTruth
  BY <1>2 DEF House!HouseTellsTheTruth, House!NoNeedFits, House!FlowFits, House!Output
<1> QED BY <1>1, <1>3

-----------------------------------------------------------------------------
(* The house within the composition.                                       *)

HouseIsFit == part = "house" => House!HouseFits

\* HomeHeatingController: HouseFits holds wherever the house is the part looked at.
LEMMA HouseStaysFit == Spec => []HouseIsFit
<1>1. Init => HouseIsFit
  BY StartFits DEF Init, HouseIsFit
<1>2. HouseIsFit /\ [Next]_vars => HouseIsFit'
  <2> SUFFICES ASSUME HouseIsFit, [Next]_vars, part' = "house" PROVE House!HouseFits'
    BY DEF HouseIsFit
  <2>1. part = "house" /\ [House!Next]_(House!vars)
    <3>1. CASE Next
      BY <3>1 DEF Next
    <3>2. CASE UNCHANGED vars
      BY <3>2 DEF vars, House!vars
    <3> QED BY <3>1, <3>2
  <2> QED BY <2>1, HouseKeeps DEF HouseIsFit
<1> QED BY <1>1, <1>2, PTL DEF Spec

\* NoNeed, P4FlowCheck: what the house tells the boiler room, and the warning of a pump that
\* moves no water, are so, for any plant, settings, readings and pace of the passes.
THEOREM HouseIsTruthful == Spec => []HouseTellsTheTruth
<1>1. HouseIsFit => HouseTellsTheTruth
  BY HouseSafe DEF HouseIsFit, HouseTellsTheTruth
<1> QED BY <1>1, HouseStaysFit, PTL

\* K2Logic, RelayBank: the diverter is not turned to a tank that the last settled readings
\* call full, warmer than the supply, or blind, for any settings and readings.
THEOREM TanksAreSpared == Spec => []TankIsSpared
<1>1. HouseIsFit => TankIsSpared
  BY HouseSafe DEF HouseIsFit, TankIsSpared
<1> QED BY <1>1, HouseStaysFit, PTL

-----------------------------------------------------------------------------
(* The driver of the valve: its operators are those the theorems of        *)
(* K1Driver are about.                                                     *)

K1P == INSTANCE K1DriverProofs WITH
         Durations <- 0..MaxPulse, MaxGap <- 1, StartsMod <- 2, AgeCap <- DeadTime,
         MaxTravel <- 0, k1 <- v2, sinceTick <- 0, travelled <- 0

\* It is one driver, whichever module speaks of it.
LEMMA OneDriver ==
  ASSUME NEW k
  PROVE  /\ K1P!Driver = Valve!K1!Driver /\ K1P!NoMotion = Valve!K1!NoMotion
         /\ K1P!Accepted(k) <=> Valve!K1!Accepted(k)
         /\ \A dir, ms, owner : K1P!RequestPulse(k, dir, ms, owner) = Valve!K1!RequestPulse(k, dir, ms, owner)
         /\ K1P!Cancel(k) = Valve!K1!Cancel(k) /\ K1P!Tick(k) = Valve!K1!Tick(k)
         /\ K1P!TakeMotion(k) = Valve!K1!TakeMotion(k)
         /\ \A d : K1P!Aged(k, d) = Valve!K1!Aged(k, d)
         /\ K1P!AtRest(k) = Valve!K1!AtRest(k)
<1>1. K1P!Driver = Valve!K1!Driver /\ K1P!NoMotion = Valve!K1!NoMotion
  BY Zenon DEF K1P!Driver, Valve!K1!Driver, K1P!Dir, Valve!K1!Dir, K1P!Owner, Valve!K1!Owner,
     K1P!NoMotion, Valve!K1!NoMotion
<1>2. \A x : K1P!Accepted(x) <=> Valve!K1!Accepted(x)
  BY Zenon DEF K1P!Accepted, Valve!K1!Accepted
<1>3. \A x : K1P!StopRun(x) = Valve!K1!StopRun(x)
  BY Zenon DEF K1P!StopRun, Valve!K1!StopRun
<1>4. \A x : K1P!Drop(x) = Valve!K1!Drop(x)
  BY Zenon DEF K1P!Drop, Valve!K1!Drop
<1>5. \A x, dir, ms, owner : /\ K1P!Extend(x, ms, owner) = Valve!K1!Extend(x, ms, owner)
                             /\ K1P!Pend(x, dir, ms, owner) = Valve!K1!Pend(x, dir, ms, owner)
  BY Zenon DEF K1P!Extend, Valve!K1!Extend, K1P!Pend, Valve!K1!Pend
<1>6. \A dir, ms, owner : K1P!RequestPulse(k, dir, ms, owner) = Valve!K1!RequestPulse(k, dir, ms, owner)
  BY <1>2, <1>3, <1>5, Zenon DEF K1P!RequestPulse, Valve!K1!RequestPulse
<1>7. K1P!Cancel(k) = Valve!K1!Cancel(k)
  BY <1>3, <1>4, Zenon DEF K1P!Cancel, Valve!K1!Cancel
<1>8. \A x : K1P!EndRun(x) = Valve!K1!EndRun(x)
  BY <1>3, Zenon DEF K1P!EndRun, Valve!K1!EndRun
<1>9. \A x : K1P!Start(x) = Valve!K1!Start(x) /\ K1P!Turn(x) = Valve!K1!Turn(x)
  BY <1>4, Zenon DEF K1P!Start, Valve!K1!Start, K1P!Turn, Valve!K1!Turn
<1>10. \A x : K1P!Advance(x) = Valve!K1!Advance(x)
  BY <1>9, Zenon DEF K1P!Advance, Valve!K1!Advance
<1>11. K1P!Tick(k) = Valve!K1!Tick(k)
  BY <1>8, <1>10, Zenon DEF K1P!Tick, Valve!K1!Tick
<1>12. K1P!TakeMotion(k) = Valve!K1!TakeMotion(k)
  BY <1>1, Zenon DEF K1P!TakeMotion, Valve!K1!TakeMotion
<1>13. \A d : K1P!Aged(k, d) = Valve!K1!Aged(k, d)
  BY Zenon DEF K1P!Aged, Valve!K1!Aged, K1P!Older, Valve!K1!Older
<1>14. K1P!AtRest(k) = Valve!K1!AtRest(k)
  BY <1>1, Zenon DEF K1P!AtRest, Valve!K1!AtRest
<1> QED BY <1>1, <1>2, <1>6, <1>7, <1>11, <1>12, <1>13, <1>14

LEMMA ValveConstants ==
  /\ K1P!K1DriverAssumption
  /\ Travel \in Nat \ {0} /\ DeadTime \in Nat \ {0} /\ SlowPeriod \in Nat \ {0}
  /\ Overdrive \in Nat /\ RecalSlack \in Nat /\ Overdrive >= RecalSlack /\ MaxPulse \in Nat \ {0}
  /\ SlowPeriod <= 2 * DeadTime
<1>1. Valve!MixingValveAssumption
  BY HomeAssumption DEF HomeAssumption
<1>2. /\ Travel \in Nat \ {0} /\ DeadTime \in Nat \ {0} /\ SlowPeriod \in Nat \ {0}
      /\ Overdrive \in Nat /\ RecalSlack \in Nat /\ Overdrive >= RecalSlack
      /\ SlowPeriod <= 2 * DeadTime
  BY <1>1 DEF Valve!MixingValveAssumption
<1>3. MaxPulse \in Nat \ {0}
  BY <1>1 DEF Valve!MixingValveAssumption
<1> QED BY <1>2, <1>3 DEF K1P!K1DriverAssumption

-----------------------------------------------------------------------------
(* What the operations do to the place of the valve.                       *)

Still(k) == k.motion = K1P!NoMotion
Single(k) == k.running => Still(k)

\* A run that is stopped and told, or started, moves nothing.
LEMMA PlaceStays ==
  ASSUME NEW k, K1P!Sound(k), Single(k), NEW l, K1P!Sound(l), K1P!Told(k, l), NEW from \in 0..Travel
  PROVE  Valve!Place(l, from) = Valve!Place(k, from)
<1> USE ValveConstants
<1>1. /\ k \in K1P!Driver /\ l \in K1P!Driver
      /\ k.running \in BOOLEAN /\ l.running \in BOOLEAN
      /\ k.runDir \in {"open", "close"} /\ l.runDir \in {"open", "close"}
      /\ k.ran \in Nat /\ l.ran \in Nat
      /\ k.motion \in [{"open", "close"} -> Nat] /\ l.motion \in [{"open", "close"} -> Nat]
  BY DEF K1P!Sound, K1P!Driver, K1P!Dir
<1>2. CASE l.running = k.running /\ l.runDir = k.runDir /\ l.ran = k.ran /\ l.motion = k.motion
  BY <1>2 DEF Valve!Place, Valve!Underway
<1>3. CASE k.running /\ ~l.running /\ l.motion = [k.motion EXCEPT ![k.runDir] = @ + k.ran]
  <2>1. k.motion["open"] = 0 /\ k.motion["close"] = 0
    BY <1>3 DEF Single, Still, K1P!NoMotion, K1P!Dir
  <2>2. /\ l.motion["open"] = IF k.runDir = "open" THEN k.ran ELSE 0
        /\ l.motion["close"] = IF k.runDir = "open" THEN 0 ELSE k.ran
    BY <1>1, <1>3, <2>1
  <2> QED BY <1>1, <1>3, <2>1, <2>2 DEF Valve!Place, Valve!Underway, Valve!Between
<1>4. CASE ~k.running /\ l.motion = k.motion /\ (l.running => l.ran = 0)
  BY <1>1, <1>4 DEF Valve!Place, Valve!Underway
<1> QED BY <1>2, <1>3, <1>4 DEF K1P!Told

\* takeMotion(): what is taken is no longer outstanding.
LEMMA PlaceIsTaken ==
  ASSUME NEW k, K1P!Sound(k), NEW from \in 0..Travel
  PROVE  LET l == K1P!TakeMotion(k)
             to == Valve!Between(0, from + k.motion["open"] - k.motion["close"], Travel)
         IN /\ K1P!Sound(l) /\ Still(l) /\ l.running = k.running /\ l.runDir = k.runDir
            /\ l.pending = k.pending /\ to \in 0..Travel
            /\ Valve!Place(l, to) = Valve!Place(k, from)
<1>1. PICK l : l = K1P!TakeMotion(k)
  OBVIOUS
<1>2. PICK to : to = Valve!Between(0, from + k.motion["open"] - k.motion["close"], Travel)
  OBVIOUS
<1>3. K1P!Sound(l)
  BY <1>1, ValveConstants, K1P!TakeMotionSound
<1>4. k \in K1P!Driver /\ k.motion \in [{"open", "close"} -> Nat]
  BY DEF K1P!Sound, K1P!Driver, K1P!Dir
<1>5. to \in 0..Travel
  BY <1>2, <1>4, ValveConstants DEF Valve!Between
<1>6. /\ l.motion = K1P!NoMotion /\ l.running = k.running /\ l.runDir = k.runDir /\ l.ran = k.ran
      /\ l.pending = k.pending
  BY <1>1, <1>4 DEF K1P!TakeMotion, K1P!Driver
<1>7. l.motion["open"] = 0 /\ l.motion["close"] = 0
  BY <1>6 DEF K1P!NoMotion, K1P!Dir
<1>8. Valve!Between(0, to + l.motion["open"] - l.motion["close"], Travel) = to
  BY <1>5, <1>7, ValveConstants DEF Valve!Between
<1>9. Valve!Place(l, to) = Valve!Place(k, from)
  BY <1>2, <1>6, <1>8 DEF Valve!Place, Valve!Underway
<1> QED BY <1>1, <1>2, <1>3, <1>5, <1>6, <1>9 DEF Still

\* The motor moves the valve as far as the run gets longer, or to the stop.
LEMMA PlaceMoves ==
  ASSUME NEW k, K1P!Sound(k), NEW from \in 0..Travel
  PROVE  LET l == K1P!Aged(k, 1)
             at == Valve!Place(k, from)
         IN /\ K1P!Sound(l) /\ l.motion = k.motion /\ l.running = k.running
            /\ l.pending = k.pending /\ l.pendDir = k.pendDir /\ l.dirOpen = k.dirOpen
            /\ l.sinceOff = K1P!Older(k.sinceOff, 1, DeadTime)
            /\ l.sinceDir = K1P!Older(k.sinceDir, 1, DeadTime)
            /\ Valve!Place(l, from) =
                 IF ~k.power THEN at ELSE Valve!Between(0, IF k.dirOpen THEN at + 1 ELSE at - 1, Travel)
            /\ at \in 0..Travel
<1> USE ValveConstants
<1>1. PICK l : l = K1P!Aged(k, 1)
  OBVIOUS
<1>2. PICK base : base = Valve!Between(0, from + k.motion["open"] - k.motion["close"], Travel)
  OBVIOUS
<1>3. /\ k \in K1P!Driver /\ k.running \in BOOLEAN /\ k.ran \in Nat
      /\ k.runDir \in {"open", "close"} /\ k.motion \in [{"open", "close"} -> Nat]
  BY DEF K1P!Sound, K1P!Driver, K1P!Dir
<1>4. base \in 0..Travel
  BY <1>2, <1>3 DEF Valve!Between
<1>5. PICK ran : ran = IF k.running THEN k.ran + 1 ELSE k.ran
  OBVIOUS
<1>6. PICK left : left = IF k.running THEN k.left - 1 ELSE k.left
  OBVIOUS
<1>7. l = [k EXCEPT !.sinceOff = K1P!Older(k.sinceOff, 1, DeadTime),
                    !.sinceDir = K1P!Older(k.sinceDir, 1, DeadTime),
                    !.sinceMove = K1P!Older(k.sinceMove, 1, DeadTime), !.ran = ran, !.left = left]
  BY <1>1, <1>5, <1>6, Zenon DEF K1P!Aged
<1>8. /\ l.motion = k.motion /\ l.running = k.running /\ l.runDir = k.runDir /\ l.ran = ran
      /\ l.pending = k.pending /\ l.pendDir = k.pendDir /\ l.dirOpen = k.dirOpen
      /\ l.sinceOff = K1P!Older(k.sinceOff, 1, DeadTime)
      /\ l.sinceDir = K1P!Older(k.sinceDir, 1, DeadTime)
  BY <1>3, <1>7 DEF K1P!Driver
<1>9. K1P!Sound(l)
  BY <1>1, K1P!AgedSound
<1>10. /\ Valve!Place(k, from) = Valve!Between(0, base + Valve!Underway(k), Travel)
       /\ Valve!Place(l, from) = Valve!Between(0, base + Valve!Underway(l), Travel)
  BY <1>2, <1>8 DEF Valve!Place
<1>11. k.power = k.running /\ (k.running => k.dirOpen = (k.runDir = "open"))
  BY DEF K1P!Sound
<1>12. Valve!Place(k, from) \in 0..Travel
  BY <1>3, <1>4, <1>10 DEF Valve!Between, Valve!Underway
<1>13. CASE ~k.running
  BY <1>1, <1>5, <1>8, <1>9, <1>10, <1>11, <1>12, <1>13 DEF Valve!Underway
<1>14. CASE k.running /\ k.runDir = "open"
  <2>1. Valve!Underway(k) = k.ran /\ Valve!Underway(l) = k.ran + 1 /\ k.dirOpen
    BY <1>3, <1>5, <1>8, <1>11, <1>14 DEF Valve!Underway
  <2>2. Valve!Between(0, base + (k.ran + 1), Travel)
          = Valve!Between(0, Valve!Between(0, base + k.ran, Travel) + 1, Travel)
    BY <1>3, <1>4 DEF Valve!Between
  <2> QED BY <1>1, <1>8, <1>9, <1>10, <1>11, <1>12, <1>14, <2>1, <2>2
<1>15. CASE k.running /\ k.runDir # "open"
  <2>1. Valve!Underway(k) = -k.ran /\ Valve!Underway(l) = -(k.ran + 1) /\ ~k.dirOpen
    BY <1>3, <1>5, <1>8, <1>11, <1>15 DEF Valve!Underway
  <2>2. Valve!Between(0, base + (-(k.ran + 1)), Travel)
          = Valve!Between(0, Valve!Between(0, base + (-k.ran), Travel) - 1, Travel)
    BY <1>3, <1>4 DEF Valve!Between
  <2> QED BY <1>1, <1>8, <1>9, <1>10, <1>11, <1>12, <1>15, <2>1, <2>2
<1> QED BY <1>3, <1>13, <1>14, <1>15

\* What nobody reads may be forgotten.
LEMMA PlainDriver ==
  ASSUME NEW k, K1P!Sound(k)
  PROVE  LET l == Valve!Plain(k)
         IN /\ K1P!Sound(l) /\ l.motion = k.motion /\ l.running = k.running
            /\ l.pending = k.pending /\ l.pendDir = k.pendDir /\ l.dirOpen = k.dirOpen
            /\ l.sinceOff = k.sinceOff /\ l.sinceDir = k.sinceDir
            /\ \A from : Valve!Place(l, from) = Valve!Place(k, from)
<1>1. PICK l : l = Valve!Plain(k)
  OBVIOUS
<1>2. k \in K1P!Driver
  BY DEF K1P!Sound
<1>3. l = [k EXCEPT !.starts = 0, !.hasMoved = FALSE, !.sinceMove = 0]
  BY <1>1 DEF Valve!Plain
<1>4. l \in K1P!Driver
  <2>1. 0 \in 0..(2 - 1) /\ 0 \in 0..DeadTime
    BY ValveConstants
  <2> QED BY <1>2, <1>3, <2>1 DEF K1P!Driver
<1>5. /\ l.motion = k.motion /\ l.running = k.running /\ l.runDir = k.runDir /\ l.ran = k.ran
      /\ l.pending = k.pending /\ l.pendDir = k.pendDir /\ l.dirOpen = k.dirOpen
      /\ l.sinceOff = k.sinceOff /\ l.sinceDir = k.sinceDir /\ l.power = k.power /\ l.pendDur = k.pendDur
  BY <1>2, <1>3 DEF K1P!Driver
<1>6. K1P!Sound(l)
  BY <1>4, <1>5 DEF K1P!Sound
<1> QED BY <1>1, <1>5, <1>6 DEF Valve!Place, Valve!Underway

-----------------------------------------------------------------------------
(* K1Logic: what a pass decides.                                           *)

\* Nothing but the motion of a pass and a recalibration touches the estimate.
SameEstimate(l, m) == /\ m \in Valve!Logic
                      /\ m.known = l.known /\ m.pct = l.pct /\ m.recal = l.recal /\ m.closed = l.closed

LEMMA RearmFits ==
  ASSUME NEW l \in Valve!Logic
  PROVE  SameEstimate(l, Valve!Rearm(l))
<1>1. PICK m : m = Valve!Rearm(l)
  OBVIOUS
<1>2. PICK none : none = 0
  OBVIOUS
<1>3. m = [l EXCEPT !.ff = FALSE, !.x = none, !.needEval = TRUE, !.sinceEval = none]
  BY <1>1, <1>2 DEF Valve!Rearm
<1>4. none \in Int /\ none \in Nat
  BY <1>2
<1>5. m \in Valve!Logic
  BY <1>3, <1>4 DEF Valve!Logic
<1>6. m.known = l.known /\ m.pct = l.pct /\ m.recal = l.recal /\ m.closed = l.closed
  BY <1>3 DEF Valve!Logic
<1> QED BY <1>1, <1>5, <1>6 DEF SameEstimate

LEMMA EnterFits ==
  ASSUME NEW l \in Valve!Logic, NEW mode \in Valve!Mode
  PROVE  SameEstimate(l, Valve!Enter(l, mode))
<1>1. CASE mode = l.mode
  BY <1>1 DEF Valve!Enter, SameEstimate
<1>2. CASE mode # l.mode
  <2>1. PICK m : m = Valve!Rearm(l)
    OBVIOUS
  <2>2. SameEstimate(l, m)
    BY <2>1, RearmFits
  <2>3. Valve!Enter(l, mode) = [m EXCEPT !.mode = mode, !.anchored = FALSE]
    BY <1>2, <2>1 DEF Valve!Enter
  <2> QED BY <2>2, <2>3 DEF SameEstimate, Valve!Logic
<1> QED BY <1>1, <1>2

LEMMA EvaluatedFits ==
  ASSUME NEW l \in Valve!Logic
  PROVE  SameEstimate(l, Valve!Evaluated(l))
BY DEF SameEstimate, Valve!Evaluated, Valve!Logic

LEMMA ModeFits ==
  ASSUME NEW r, NEW running
  PROVE  Valve!SelectMode(r, running) \in Valve!Mode
BY DEF Valve!SelectMode, Valve!Mode

LEMMA TargetFits ==
  ASSUME NEW r \in Valve!Reading
  PROVE  Valve!FeedforwardTarget(r) \in Int
<1>1. r.h1 \in Int /\ r.h3 \in Int
  BY DEF Valve!Reading
<1>2. Travel \in Nat /\ SmallDiff \in Nat /\ H2Set \in Int
  BY ValveConstants, HomeAssumption DEF HomeAssumption, Valve!MixingValveAssumption
<1>3. CASE r.h3 - r.h1 <= SmallDiff
  BY <1>2, <1>3 DEF Valve!FeedforwardTarget
<1>4. CASE ~(r.h3 - r.h1 <= SmallDiff)
  <2>1. PICK a : a = (H2Set - r.h1) * Travel
    OBVIOUS
  <2>2. PICK b : b = r.h3 - r.h1
    OBVIOUS
  <2>3. a \in Int /\ b \in Nat \ {0}
    BY <1>1, <1>2, <1>4, <2>1, <2>2
  <2>4. a \div b \in Int
    BY <2>3
  <2>5. Valve!FeedforwardTarget(r) = Valve!Between(0, a \div b, Travel)
    BY <1>4, <2>1, <2>2 DEF Valve!FeedforwardTarget
  <2> QED BY <1>2, <2>4, <2>5 DEF Valve!Between
<1> QED BY <1>3, <1>4

\* A plan moves the valve one way.
LEMMA PlansFit ==
  ASSUME NEW from, NEW target, NEW r
  PROVE  /\ Valve!PlanMoveTo(from, target).dir \in {"open", "close"}
         /\ Valve!PlanFeedback(from, r).dir \in {"open", "close"}
<1>1. \A ms : Valve!Open(ms).dir = "open" /\ Valve!Close(ms).dir = "close"
  BY DEF Valve!Open, Valve!Close
<1>2. Valve!NoMove.dir = "close"
  BY DEF Valve!NoMove
<1>3. \A x, y : Valve!ToEnd(x, y).dir \in {"open", "close"}
  BY <1>1 DEF Valve!ToEnd
<1>4. Valve!PlanMoveTo(from, target).dir \in {"open", "close"}
  BY <1>1, <1>2, <1>3 DEF Valve!PlanMoveTo
<1>5. Valve!PlanFeedback(from, r).dir \in {"open", "close"}
  BY <1>1, <1>2, <1>3 DEF Valve!PlanFeedback
<1> QED BY <1>4, <1>5

\* Control of a mode: a command only for a driver with nothing to do.
Commands(d, l, in) ==
  /\ SameEstimate(l, d.logic)
  /\ d.cmd.dir \in {"open", "close"}
  /\ in.busy => d.cmd.dir = "close"

LEMMA ControlFits ==
  ASSUME NEW l \in Valve!Logic, NEW in, in.r \in Valve!Reading
  PROVE  /\ Commands(Valve!Control(l, in), l, in)
         /\ Valve!Control(l, in) = [logic |-> Valve!Control(l, in).logic, cmd |-> Valve!Control(l, in).cmd]
<1> DEFINE d == Valve!Control(l, in)
<1>1. CASE d = [logic |-> l, cmd |-> Valve!NoMove]
  BY <1>1 DEF Commands, SameEstimate, Valve!NoMove
<1>2. CASE Valve!CanMove(in) /\ \E target : d = [logic |-> l, cmd |-> Valve!PlanMoveTo(l.pct, target)]
  BY <1>2, PlansFit DEF Commands, SameEstimate, Valve!CanMove
<1>3. CASE Valve!CanMove(in) /\ d = [logic |-> [Valve!Evaluated(l) EXCEPT !.anchored = TRUE],
                                     cmd |-> Valve!PlanMoveTo(l.pct, FailPos)]
  <2>1. PICK m : m = Valve!Evaluated(l)
    OBVIOUS
  <2>2. SameEstimate(l, m)
    BY <2>1, EvaluatedFits
  <2>3. SameEstimate(l, [m EXCEPT !.anchored = TRUE])
    BY <2>2 DEF SameEstimate, Valve!Logic
  <2> QED BY <1>3, <2>1, <2>3, PlansFit DEF Commands, Valve!CanMove
<1>4. CASE Valve!CanMove(in) /\ d = Valve!Evaluate(l, in.r)
  <2>1. PICK m : m = Valve!Evaluated(l)
    OBVIOUS
  <2>2. PICK x : x = Valve!FeedforwardTarget(in.r)
    OBVIOUS
  <2>3. SameEstimate(l, m) /\ x \in Int
    BY <2>1, <2>2, EvaluatedFits, TargetFits
  <2>4. SameEstimate(l, [m EXCEPT !.ff = TRUE, !.x = x])
    BY <2>3 DEF SameEstimate, Valve!Logic
  <2>5. \/ d = [logic |-> [m EXCEPT !.ff = TRUE, !.x = x], cmd |-> Valve!PlanMoveTo(l.pct, x)]
        \/ d = [logic |-> m, cmd |-> Valve!NoMove]
        \/ d = [logic |-> m, cmd |-> Valve!PlanFeedback(l.pct, in.r)]
    BY <1>4, <2>1, <2>2 DEF Valve!Evaluate
  <2>6. Valve!NoMove.dir = "close"
    BY DEF Valve!NoMove
  <2> HIDE DEF d
  <2> QED BY <1>4, <2>3, <2>4, <2>5, <2>6, PlansFit DEF Commands, Valve!CanMove, d
<1>5. \/ d = [logic |-> l, cmd |-> Valve!NoMove]
      \/ Valve!CanMove(in) /\ d = [logic |-> l, cmd |-> Valve!PlanMoveTo(l.pct, 0)]
      \/ Valve!CanMove(in) /\ d = [logic |-> l, cmd |-> Valve!PlanMoveTo(l.pct, FailPos)]
      \/ Valve!CanMove(in) /\ d = [logic |-> [Valve!Evaluated(l) EXCEPT !.anchored = TRUE],
                                   cmd |-> Valve!PlanMoveTo(l.pct, FailPos)]
      \/ Valve!CanMove(in) /\ d = Valve!Evaluate(l, in.r)
  BY DEF Valve!Control
<1> HIDE DEF d
<1> QED BY <1>1, <1>2, <1>3, <1>4, <1>5 DEF d

\* What is known of the place where the motion was taken last.
Placed(l, from) == /\ from \in 0..Travel
                   /\ l.known => from = l.pct
                   /\ l.recal => from = 0 \/ from + l.closed <= Travel

\* Step 1: the motion is added to the estimate and to what has been closed.
LEMMA MovedFits ==
  ASSUME NEW l \in Valve!Logic, NEW motion \in [{"open", "close"} -> Nat], NEW from, Placed(l, from)
  PROVE  LET m == Valve!Moved(l, motion)
         IN /\ m \in Valve!Logic /\ m.recal = l.recal
            /\ Placed(m, Valve!Between(0, from + motion["open"] - motion["close"], Travel))
<1>1. PICK pct : pct = Valve!Integrated(l.pct, motion)
  OBVIOUS
<1>2. PICK closed : closed = IF ~l.recal THEN l.closed
                             ELSE IF motion["open"] > 0 THEN 0 ELSE l.closed + motion["close"]
  OBVIOUS
<1>3. PICK m : m = Valve!Moved(l, motion)
  OBVIOUS
<1>4. /\ l.pct \in 0..Travel /\ l.closed \in Nat /\ l.recal \in BOOLEAN /\ l.known \in BOOLEAN
      /\ motion["open"] \in Nat /\ motion["close"] \in Nat
  BY DEF Valve!Logic
<1>5. pct \in 0..Travel /\ closed \in Nat
  BY <1>1, <1>2, <1>4, ValveConstants DEF Valve!Integrated, Valve!Between
<1>6. m = [l EXCEPT !.pct = pct, !.closed = closed]
  BY <1>1, <1>2, <1>3 DEF Valve!Moved
<1>7. m \in Valve!Logic
  BY <1>5, <1>6 DEF Valve!Logic
<1>8. m.recal = l.recal /\ m.known = l.known /\ m.pct = pct /\ m.closed = closed
  BY <1>6 DEF Valve!Logic
<1>9. PICK to : to = Valve!Between(0, from + motion["open"] - motion["close"], Travel)
  OBVIOUS
<1>10. from \in 0..Travel
  BY DEF Placed
<1>11. to \in 0..Travel
  BY <1>4, <1>9, <1>10, ValveConstants DEF Valve!Between
<1>12. l.known => to = pct
  BY <1>1, <1>9 DEF Placed, Valve!Integrated
<1>13. ASSUME l.recal PROVE to = 0 \/ to + closed <= Travel
  <2>1. from = 0 \/ from + l.closed <= Travel
    BY <1>13 DEF Placed
  <2>2. CASE motion["open"] > 0
    BY <1>2, <1>11, <1>13, <2>2, ValveConstants
  <2>3. CASE ~(motion["open"] > 0)
    BY <1>2, <1>4, <1>9, <1>10, <1>13, <2>1, <2>3, ValveConstants DEF Valve!Between
  <2> QED BY <2>2, <2>3
<1> QED BY <1>3, <1>7, <1>8, <1>9, <1>11, <1>12, <1>13 DEF Placed

\* Steps 2 and 3: a recalibration that starts has closed nothing yet.
LEMMA PreparedFits ==
  ASSUME NEW l \in Valve!Logic, NEW in, NEW from, Placed(l, from)
  PROVE  Valve!Prepared(l, in) \in Valve!Logic /\ Placed(Valve!Prepared(l, in), from)
<1>1. PICK starts : starts = Valve!RecalStarts(l, in)
  OBVIOUS
<1>2. PICK recal : recal = (l.recal \/ Valve!Triggered(l, in))
  OBVIOUS
<1>3. PICK closed : closed = IF Valve!RecalStarts(l, in) THEN 0 ELSE l.closed
  OBVIOUS
<1>4. PICK m : m = [l EXCEPT !.booted = TRUE, !.recal = recal, !.closed = closed]
  OBVIOUS
<1>5. l.recal \in BOOLEAN /\ recal \in BOOLEAN /\ l.closed \in Nat /\ closed \in Nat
  BY <1>2, <1>3 DEF Valve!Logic
<1>6. m \in Valve!Logic
  BY <1>4, <1>5 DEF Valve!Logic
<1>7. m.known = l.known /\ m.pct = l.pct /\ m.recal = recal /\ m.closed = closed
  BY <1>4 DEF Valve!Logic
<1>8. recal => (l.recal /\ closed = l.closed) \/ closed = 0
  BY <1>2, <1>3 DEF Valve!RecalStarts
<1>9. Placed(m, from)
  BY <1>7, <1>8, ValveConstants DEF Placed
<1>10. Valve!Prepared(l, in) = m \/ Valve!Prepared(l, in) = Valve!Rearm(m)
  BY <1>2, <1>3, <1>4 DEF Valve!Prepared
<1>11. SameEstimate(m, Valve!Rearm(m))
  BY <1>6, RearmFits
<1>12. Placed(Valve!Rearm(m), from)
  BY <1>9, <1>11 DEF Placed, SameEstimate
<1> QED BY <1>6, <1>9, <1>10, <1>11, <1>12 DEF SameEstimate

\* Step 4: who has closed for longer than the valve travels, and opened never, is at 0.
LEMMA RecalibratedFits ==
  ASSUME NEW l \in Valve!Logic, l.recal, Valve!RecalIsOver(l), NEW from, Placed(l, from)
  PROVE  Valve!Recalibrated(l) \in Valve!Logic /\ Placed(Valve!Recalibrated(l), from)
<1>1. PICK m : m = Valve!Recalibrated(l)
  OBVIOUS
<1>2. l.closed \in Nat /\ 0 \in 0..Travel
  BY ValveConstants DEF Valve!Logic
<1>3. m \in Valve!Logic /\ m.pct = 0 /\ m.recal = FALSE
  BY <1>1, <1>2 DEF Valve!Recalibrated, Valve!Logic
<1>4. l.closed > Travel
  BY <1>2, ValveConstants DEF Valve!RecalIsOver, Valve!Recal
<1>5. from = 0
  BY <1>2, <1>4, ValveConstants DEF Placed
<1> QED BY <1>1, <1>3, <1>5, ValveConstants DEF Placed

\* update(): the estimate stays with the valve, and a driver at work is only told to close.
LEMMA DecideFits ==
  ASSUME NEW l \in Valve!Logic, NEW in, in.r \in Valve!Reading, in.held \in BOOLEAN, in.hold \in BOOLEAN,
         in.motion \in [{"open", "close"} -> Nat], NEW from, Placed(l, from)
  PROVE  LET d == Valve!Decide(l, in)
         IN /\ d.logic \in Valve!Logic
            /\ Placed(d.logic, Valve!Between(0, from + in.motion["open"] - in.motion["close"], Travel))
            /\ d.cmd.dir \in {"open", "close"}
            /\ in.busy => d.cmd.dir = "close"
<1>1. PICK to : to = Valve!Between(0, from + in.motion["open"] - in.motion["close"], Travel)
  OBVIOUS
<1>2. PICK moved : moved = Valve!Moved(l, in.motion)
  OBVIOUS
<1>3. PICK ready : ready = Valve!Prepared(moved, in)
  OBVIOUS
<1>4. moved \in Valve!Logic /\ Placed(moved, to)
  BY <1>1, <1>2, MovedFits
<1>5. ready \in Valve!Logic /\ Placed(ready, to)
  BY <1>3, <1>4, PreparedFits
<1>6. PICK d : d = IF ready.recal /\ ~Valve!RecalIsOver(ready)
           THEN [logic |-> [ready EXCEPT !.mode = "Recalibrating"],
                 cmd |-> IF Valve!CloseAtOnce(l, in) THEN Valve!Close(Valve!Recal)
                         ELSE IF Valve!CanMove(in) THEN Valve!Close(Valve!Recal - ready.closed) ELSE Valve!NoMove]
           ELSE Valve!Control(Valve!Enter(IF ready.recal THEN Valve!Recalibrated(ready) ELSE ready,
                                          Valve!SelectMode(in.r, in.p4Running)), in)
  OBVIOUS
<1>7. /\ d.logic \in Valve!Logic /\ Placed(d.logic, to)
      /\ d.cmd.dir \in {"open", "close"} /\ (in.busy => d.cmd.dir = "close")
      /\ d = [logic |-> d.logic, cmd |-> d.cmd]
  <2>1. CASE ready.recal /\ ~Valve!RecalIsOver(ready)
    <3>1. PICK going : going = [ready EXCEPT !.mode = "Recalibrating"]
      OBVIOUS
    <3>2. SameEstimate(ready, going)
      BY <1>5, <3>1 DEF SameEstimate, Valve!Logic, Valve!Mode
    <3>3. PICK cmd : cmd = IF Valve!CloseAtOnce(l, in) THEN Valve!Close(Valve!Recal)
                           ELSE IF Valve!CanMove(in) THEN Valve!Close(Valve!Recal - ready.closed)
                           ELSE Valve!NoMove
      OBVIOUS
    <3>4. cmd.dir = "close"
      BY <3>3 DEF Valve!Close, Valve!NoMove
    <3>5. d = [logic |-> going, cmd |-> cmd]
      BY <1>6, <2>1, <3>1, <3>3
    <3> QED BY <1>5, <3>2, <3>4, <3>5 DEF SameEstimate, Placed
  <2>2. CASE ~(ready.recal /\ ~Valve!RecalIsOver(ready))
    <3>1. PICK free : free = IF ready.recal THEN Valve!Recalibrated(ready) ELSE ready
      OBVIOUS
    <3>2. free \in Valve!Logic /\ Placed(free, to)
      BY <1>5, <2>2, <3>1, RecalibratedFits
    <3>3. PICK entered : entered = Valve!Enter(free, Valve!SelectMode(in.r, in.p4Running))
      OBVIOUS
    <3>4. SameEstimate(free, entered)
      BY <3>2, <3>3, EnterFits, ModeFits
    <3>5. d = Valve!Control(entered, in)
      BY <1>6, <2>2, <3>1, <3>3
    <3>6. Commands(d, entered, in) /\ d = [logic |-> d.logic, cmd |-> d.cmd]
      BY <3>4, <3>5, ControlFits DEF SameEstimate
    <3> QED BY <3>2, <3>4, <3>6 DEF Commands, SameEstimate, Placed
  <2> QED BY <2>1, <2>2
<1>8. in.r.p4 \in BOOLEAN /\ in.r.heating \in BOOLEAN
  BY DEF Valve!Reading
<1>9. PICK logic : logic = [d.logic EXCEPT !.p4 = in.r.p4, !.heating = in.r.heating,
                                           !.held = in.held, !.hold = in.hold]
  OBVIOUS
<1>10. Valve!Decide(l, in) = [d EXCEPT !.logic.p4 = in.r.p4, !.logic.heating = in.r.heating,
                                       !.logic.held = in.held, !.logic.hold = in.hold]
  BY <1>2, <1>3, <1>6, Zenon DEF Valve!Decide
<1>11. Valve!Decide(l, in) = [logic |-> logic, cmd |-> d.cmd]
  BY <1>7, <1>9, <1>10
<1>12. SameEstimate(d.logic, logic)
  BY <1>7, <1>8, <1>9 DEF SameEstimate, Valve!Logic
<1> QED BY <1>1, <1>7, <1>11, <1>12 DEF SameEstimate, Placed

-----------------------------------------------------------------------------
(* K1StepTest.                                                             *)

LEMMA WindowFits ==
  ASSUME NEW t \in Valve!Test, NEW h2 \in Int
  PROVE  /\ Valve!Window(t, h2) \in Valve!Test
         /\ Valve!Window(t, h2).running = t.running
<1>1. PICK none : none = 0
  OBVIOUS
<1>2. PICK m : m = [t EXCEPT !.window = none, !.low = h2, !.high = h2]
  OBVIOUS
<1>3. m = Valve!Window(t, h2) /\ none \in Nat
  BY <1>1, <1>2 DEF Valve!Window
<1>4. m \in Valve!Test /\ m.running = t.running
  BY <1>2, <1>3 DEF Valve!Test
<1> QED BY <1>3, <1>4

LEMMA NoTestFits == Valve!NoTest \in Valve!Test /\ ~Valve!NoTest.running
BY DEF Valve!NoTest, Valve!Test

LEMMA MeasuredFits ==
  ASSUME NEW t \in Valve!Test, NEW h2 \in Int
  PROVE  Valve!Measured(t, h2) \in Valve!Test
<1>1. PICK low : low = IF h2 < t.low THEN h2 ELSE t.low
  OBVIOUS
<1>2. PICK high : high = IF h2 > t.high THEN h2 ELSE t.high
  OBVIOUS
<1>3. PICK wider : wider = [t EXCEPT !.low = low, !.high = high]
  OBVIOUS
<1>4. low \in Int /\ high \in Int
  BY <1>1, <1>2 DEF Valve!Test
<1>5. wider \in Valve!Test
  BY <1>3, <1>4 DEF Valve!Test
<1>6. PICK w : w = Valve!Window(t, h2)
  OBVIOUS
<1>7. w \in Valve!Test
  BY <1>6, WindowFits
<1>8. [w EXCEPT !.dead = TRUE] \in Valve!Test
  BY <1>7 DEF Valve!Test
<1>9. Valve!Measured(t, h2) \in {[w EXCEPT !.dead = TRUE], t, w, wider}
  BY <1>1, <1>2, <1>3, <1>6 DEF Valve!Measured
<1> QED BY <1>5, <1>7, <1>8, <1>9

\* A test starts in a pass that finds the driver idle and gives it no other command.
LEMMA StepTestFits ==
  ASSUME NEW t \in Valve!Test, NEW in, in.r \in Valve!Reading, NEW d, NEW starts
  PROVE  LET n == Valve!StepTest(t, in, d, starts)
         IN /\ n \in Valve!Test
            /\ n.running /\ ~t.running => d.cmd.ms = 0 /\ ~in.busy
<1>1. in.r.h2 \in Int /\ in.r.h3 \in Int
  BY DEF Valve!Reading
<1>2. PICK m : m = Valve!Measured(t, in.r.h2)
  OBVIOUS
<1>3. PICK quiet : quiet = [t EXCEPT !.start = FALSE, !.cancel = FALSE]
  OBVIOUS
<1>4. m \in Valve!Test /\ quiet \in Valve!Test /\ quiet.running = t.running
  BY <1>1, <1>2, <1>3, MeasuredFits DEF Valve!Test
<1>5. \A o \in {"Aborted", "Result", "NoResponse"} :
        Valve!End(t, o) \in Valve!Test /\ ~Valve!End(t, o).running
  BY NoTestFits DEF Valve!End, Valve!Test
<1>6. Valve!Go(t, in) \in Valve!Test
  <2>1. PICK w : w = Valve!Window(Valve!NoTest, in.r.h2)
    OBVIOUS
  <2>2. w \in Valve!Test
    BY <1>1, <2>1, WindowFits, NoTestFits
  <2>3. Valve!Go(t, in) = [w EXCEPT !.running = TRUE, !.last = t.last, !.h2 = in.r.h2, !.h3 = in.r.h3]
    BY <2>1 DEF Valve!Go
  <2> QED BY <1>1, <2>2, <2>3 DEF Valve!Test
<1>7. PICK over : over = (Valve!Settled(t, m) \/ t.age >= Observe)
  OBVIOUS
<1>8. PICK outcome : outcome = IF m.dead /\ in.r.h2 > t.h2 THEN "Result" ELSE "NoResponse"
  OBVIOUS
<1>9. PICK after : after = CASE t.running /\ Valve!MustAbort(t, in, d, starts) -> Valve!End(t, "Aborted")
                 [] t.running /\ ~Valve!MustAbort(t, in, d, starts) /\ over -> Valve!End(t, outcome)
                 [] t.running /\ ~Valve!MustAbort(t, in, d, starts) /\ ~over -> m
                 [] OTHER -> IF t.start /\ Valve!MayStart(t, in, d) THEN Valve!Go(t, in) ELSE quiet
  OBVIOUS
<1>10. /\ after \in Valve!Test
       /\ after.running /\ ~t.running => d.cmd.ms = 0 /\ ~in.busy
  <2>1. outcome \in {"Aborted", "Result", "NoResponse"}
    BY <1>8
  <2>2. CASE t.running
    BY <1>4, <1>5, <1>9, <2>1, <2>2
  <2>3. CASE ~t.running
    <3>1. after = IF t.start /\ Valve!MayStart(t, in, d) THEN Valve!Go(t, in) ELSE quiet
      BY <1>9, <2>3
    <3> QED BY <1>4, <1>6, <2>3, <3>1 DEF Valve!MayStart
  <2> QED BY <2>2, <2>3
<1>11. PICK may : may = Valve!MayStart(after, in, d)
  OBVIOUS
<1>12. may \in BOOLEAN
  BY <1>11 DEF Valve!MayStart
<1>13. Valve!StepTest(t, in, d, starts) = [after EXCEPT !.cancel = FALSE, !.may = may]
  BY <1>2, <1>3, <1>7, <1>8, <1>9, <1>11, Zenon DEF Valve!StepTest
<1> QED BY <1>10, <1>12, <1>13 DEF Valve!Test

-----------------------------------------------------------------------------
(* The hardware's part of a pass.                                          *)

\* An operation that leaves a sound driver, tells one run at a time and moves nothing.
Harmless(k, l) == /\ K1P!Sound(l)
                  /\ \A from \in 0..Travel : Valve!Place(l, from) = Valve!Place(k, from)

LEMMA CancelHarmless ==
  ASSUME NEW k, K1P!Sound(k), Single(k)
  PROVE  /\ Harmless(k, Valve!K1!Cancel(k))
         /\ ~Valve!K1!Cancel(k).running /\ ~Valve!K1!Cancel(k).pending
<1>1. K1P!Cancel(k) = Valve!K1!Cancel(k)
  BY OneDriver
<1>2. /\ K1P!Sound(K1P!Cancel(k)) /\ ~K1P!Cancel(k).running /\ ~K1P!Cancel(k).pending
      /\ K1P!Told(k, K1P!Cancel(k))
  BY ValveConstants, K1P!CancelSound, K1P!CancelTells
<1> QED BY <1>1, <1>2, PlaceStays DEF Harmless

LEMMA TickHarmless ==
  ASSUME NEW k, K1P!Sound(k), Single(k)
  PROVE  LET l == Valve!K1!Tick(k)
         IN /\ Harmless(k, l)
            /\ l.running => l.motion = k.motion
            /\ l.running /\ ~k.running =>
                 k.pending /\ k.dirOpen = (k.pendDir = "open") /\ k.sinceDir >= DeadTime
            /\ l.pending => K1P!Waited(k, l)
<1>1. PICK l : l = K1P!Tick(k)
  OBVIOUS
<1>2. l = Valve!K1!Tick(k)
  BY <1>1, OneDriver
<1>3. /\ K1P!Sound(l) /\ K1P!Told(k, l)
      /\ l.running => l.motion = k.motion
      /\ l.running /\ ~k.running =>
           k.pending /\ k.dirOpen = (k.pendDir = "open") /\ k.sinceDir >= DeadTime
      /\ l.pending => K1P!Waited(k, l)
  BY <1>1, ValveConstants, K1P!TickSound, K1P!TickTells
<1> QED BY <1>2, <1>3, PlaceStays DEF Harmless

LEMMA RequestHarmless ==
  ASSUME NEW k, K1P!Sound(k), Single(k), NEW dir \in {"open", "close"}, NEW ms,
         NEW owner \in {"Control", "AntiSeize"}
  PROVE  LET l == Valve!K1!RequestPulse(k, dir, ms, owner)
         IN /\ Harmless(k, l) /\ Single(l)
            /\ l.running => k.running
            /\ \/ l = k
               \/ l.running
               \/ /\ l.pendDir = dir /\ (~k.running => l.motion = k.motion)
                  /\ k.running => k.runDir # dir /\ l.dirOpen = k.dirOpen /\ l.sinceOff = 0
<1>1. PICK l : l = K1P!RequestPulse(k, dir, ms, owner)
  OBVIOUS
<1>2. l = Valve!K1!RequestPulse(k, dir, ms, owner)
  BY <1>1, OneDriver
<1>3. dir \in K1P!Dir /\ owner \in K1P!Owner
  BY DEF K1P!Dir, K1P!Owner
<1>4. /\ K1P!Sound(l) /\ K1P!Told(k, l)
      /\ l.running => k.running /\ l.motion = k.motion
      /\ \/ l = k
         \/ l.running
         \/ /\ l.pendDir = dir /\ (~k.running => l.motion = k.motion)
            /\ k.running => k.runDir # dir /\ l.dirOpen = k.dirOpen /\ l.sinceOff = 0
  BY <1>1, <1>3, ValveConstants, K1P!RequestTells
<1> QED BY <1>2, <1>4, PlaceStays DEF Harmless, Single, Still

\* hw.tick() of a slow pass: the stroke, then the driver.
LEMMA StrokeFits ==
  ASSUME NEW s \in {"none", "open", "close"}, NEW k, K1P!Sound(k), Single(k), NEW due
  PROVE  LET h == Valve!StrokeStep(s, k, due)
         IN h.stroke \in {"none", "open", "close"} /\ Harmless(k, h.k1) /\ Single(h.k1)
<1> DEFINE h == Valve!StrokeStep(s, k, due)
<1>1. PICK req : req = [dir \in {"open", "close"} |-> Valve!K1!RequestPulse(k, dir, Valve!Recal, "AntiSeize")]
  OBVIOUS
<1>2. \A dir \in {"open", "close"} : Harmless(k, req[dir]) /\ Single(req[dir])
  BY <1>1, RequestHarmless
<1>3. PICK c : c = Valve!K1!Cancel(k)
  OBVIOUS
<1>4. Harmless(k, c) /\ Single(c)
  BY <1>3, CancelHarmless DEF Single
<1>5. Harmless(k, k)
  BY DEF Harmless
<1>6. h \in {[stroke |-> "open", k1 |-> req["open"]], [stroke |-> "close", k1 |-> req["close"]],
             [stroke |-> s, k1 |-> k], [stroke |-> "none", k1 |-> k], [stroke |-> "none", k1 |-> c]}
  BY <1>1, <1>3 DEF Valve!StrokeStep
<1> HIDE DEF h
<1> QED BY <1>2, <1>4, <1>5, <1>6 DEF h

\* The driver's tick, or its cancellation while the outputs are held off.
LEMMA TickedHarmless ==
  ASSUME NEW k, K1P!Sound(k), Single(k)
  PROVE  Harmless(k, Valve!Ticked(k))
<1>1. Harmless(k, k)
  BY DEF Harmless
<1> QED BY <1>1, TickHarmless, CancelHarmless DEF Valve!Ticked

-----------------------------------------------------------------------------
(* The invariant, in the terms of the driver's theorems.                   *)

\* TakingFits of a driver, s after the slow pass.
Taking(k, s) ==
  k.motion # K1P!NoMotion =>
    /\ ~k.running
    /\ k.pending => /\ k.pendDir = "close"
                    /\ IF k.dirOpen THEN k.sinceOff <= s ELSE k.sinceDir + DeadTime <= s

\* PlaceFits of a driver, an estimate and a position.
Lies(k, l, at) == \E from \in 0..Travel : Placed(l, from) /\ Valve!Place(k, from) = at

\* The types of what is not the driver.
TypesFit ==
  /\ v1 \in ValvePlants /\ v3 \in 0..Travel /\ v4 \in Valve!Logic
  /\ v5 \in Valve!Test /\ v6 \in {"none", "open", "close"} /\ v7 \in ValveReadings[v1]
  /\ v8 \in [on : BOOLEAN, age : Nat] /\ v9 \in BOOLEAN
  /\ v11 \in {"slow", "fast", "pause"}
  /\ v12 \in 0..(IF v11 = "slow" THEN SlowPeriod ELSE SlowPeriod - 1)

LEMMA ValveFitsMeans ==
  Valve!ValveFits <=> TypesFit /\ K1P!Sound(v2) /\ Taking(v2, v12) /\ Lies(v2, v4, v3)
<1>1. /\ K1P!Driver = Valve!K1!Driver /\ K1P!NoMotion = Valve!K1!NoMotion
      /\ \A d : K1P!Accepted(d) <=> Valve!K1!Accepted(d)
  BY OneDriver
<1>2. Valve!TypeFits <=> TypesFit /\ v2 \in K1P!Driver
  BY <1>1 DEF Valve!TypeFits, TypesFit
<1>3. v2 \in K1P!Driver => (K1P!Sound(v2) <=> Valve!DriverFits)
  <2> SUFFICES ASSUME v2 \in K1P!Driver PROVE K1P!Sound(v2) <=> Valve!DriverFits
    OBVIOUS
  <2>1. K1P!Accepted(v2.pendDur) <=> Valve!K1!Accepted(v2.pendDur)
    BY <1>1
  <2> QED BY <2>1 DEF K1P!Sound, Valve!DriverFits
<1>4. Valve!TakingFits <=> Taking(v2, v12)
  BY <1>1 DEF Valve!TakingFits, Taking
<1>5. Valve!PlaceFits <=> Lies(v2, v4, v3)
  BY DEF Valve!PlaceFits, Lies, Placed
<1>6. K1P!Sound(v2) => v2 \in K1P!Driver
  BY DEF K1P!Sound
<1> QED BY <1>2, <1>3, <1>4, <1>5, <1>6 DEF Valve!ValveFits

LEMMA ValveFitsThen ==
  Valve!ValveFits' <=> TypesFit' /\ K1P!Sound(v2') /\ Taking(v2', v12') /\ Lies(v2', v4', v3')
<1>1. (Valve!ValveFits <=> TypesFit /\ K1P!Sound(v2) /\ Taking(v2, v12) /\ Lies(v2, v4, v3))'
  BY ValveFitsMeans, PTL
<1> QED BY <1>1 DEF K1P!Sound, K1P!Driver, K1P!Accepted, K1P!Dir, K1P!Owner, Taking, K1P!NoMotion,
   Lies, Placed, Valve!Place, Valve!Underway, Valve!Between

\* A driver has at most one run that is not told.
LEMMA TakingIsSingle ==
  ASSUME NEW k, NEW s, Taking(k, s)
  PROVE  Single(k)
BY DEF Taking, Single, Still

\* An operation that is harmless leaves the valve where it lies.
LEMMA HarmlessLies ==
  ASSUME NEW k, NEW l, Harmless(k, l), NEW e, NEW at, Lies(k, e, at)
  PROVE  Lies(l, e, at)
BY DEF Harmless, Lies

\* So does forgetting what nobody reads.
LEMMA PlainFits ==
  ASSUME NEW k, K1P!Sound(k), NEW s, NEW e, NEW at, Taking(k, s), Lies(k, e, at)
  PROVE  LET l == Valve!Plain(k) IN K1P!Sound(l) /\ Taking(l, s) /\ Lies(l, e, at)
BY PlainDriver DEF Taking, Lies

\* A tick before two dead times have passed starts nothing while there is motion to tell.
LEMMA TickTakes ==
  ASSUME NEW k, K1P!Sound(k), NEW s \in Nat, s < 2 * DeadTime, Taking(k, s)
  PROVE  Taking(Valve!K1!Tick(k), s)
<1>1. PICK l : l = Valve!K1!Tick(k)
  OBVIOUS
<1>2. /\ k.sinceOff \in 0..DeadTime /\ k.sinceDir \in 0..DeadTime /\ k.dirOpen \in BOOLEAN
      /\ DeadTime \in Nat \ {0}
  BY ValveConstants DEF K1P!Sound, K1P!Driver
<1>3. /\ l.running => l.motion = k.motion
      /\ l.running /\ ~k.running =>
           k.pending /\ k.dirOpen = (k.pendDir = "open") /\ k.sinceDir >= DeadTime
      /\ l.pending => K1P!Waited(k, l)
  BY <1>1, TickHarmless, TakingIsSingle
<1> SUFFICES ASSUME l.motion # K1P!NoMotion
             PROVE  /\ ~l.running
                    /\ l.pending => /\ l.pendDir = "close"
                                    /\ IF l.dirOpen THEN l.sinceOff <= s ELSE l.sinceDir + DeadTime <= s
  BY <1>1 DEF Taking
<1>4. ~l.running
  <2> SUFFICES ASSUME l.running PROVE FALSE
    OBVIOUS
  <2>1. k.motion # K1P!NoMotion
    BY <1>3
  <2> QED BY <1>2, <1>3, <2>1 DEF Taking
<1>5. ASSUME l.pending
      PROVE  /\ l.pendDir = "close"
             /\ IF l.dirOpen THEN l.sinceOff <= s ELSE l.sinceDir + DeadTime <= s
  <2>1. K1P!Waited(k, l)
    BY <1>3, <1>5
  <2>2. /\ k.motion # K1P!NoMotion /\ k.pending /\ l.pendDir = k.pendDir
        /\ \/ l.dirOpen = k.dirOpen /\ l.sinceOff = k.sinceOff /\ l.sinceDir = k.sinceDir
           \/ /\ k.dirOpen # (k.pendDir = "open") /\ k.sinceOff >= DeadTime
              /\ l.dirOpen = ~k.dirOpen /\ l.sinceDir = 0
    BY <2>1 DEF K1P!Waited
  <2>3. k.pendDir = "close" /\ IF k.dirOpen THEN k.sinceOff <= s ELSE k.sinceDir + DeadTime <= s
    BY <2>2 DEF Taking
  <2>4. CASE l.dirOpen = k.dirOpen /\ l.sinceOff = k.sinceOff /\ l.sinceDir = k.sinceDir
    BY <2>2, <2>3, <2>4
  <2>5. CASE /\ k.dirOpen # (k.pendDir = "open") /\ k.sinceOff >= DeadTime
             /\ l.dirOpen = ~k.dirOpen /\ l.sinceDir = 0
    <3>1. k.dirOpen = TRUE
      BY <1>2, <2>3, <2>5
    <3>2. l.dirOpen = FALSE /\ k.sinceOff <= s
      BY <2>3, <2>5, <3>1
    <3>3. 0 + DeadTime <= s
      BY <1>2, <2>5, <3>2
    <3> QED BY <2>2, <2>3, <2>5, <3>2, <3>3
  <2> QED BY <2>2, <2>4, <2>5
<1> QED BY <1>4, <1>5

-----------------------------------------------------------------------------
(* The steps.                                                              *)

\* A driver that has just been constructed.
LEMMA FreshDriver ==
  ASSUME NEW up \in {0, DeadTime}, NEW s, NEW at \in 0..Travel
  PROVE  LET k == Valve!Plain(Valve!K1!AtRest(up))
         IN K1P!Sound(k) /\ Taking(k, s) /\ Lies(k, Valve!ResetLogic, at)
<1>1. PICK k : k = K1P!AtRest(up)
  OBVIOUS
<1>2. k = Valve!K1!AtRest(up)
  BY <1>1, OneDriver
<1>3. K1P!Sound(k)
  BY <1>1, K1P!AtRestSound, ValveConstants
<1>4. k.motion = K1P!NoMotion /\ k.running = FALSE
  BY <1>1 DEF K1P!AtRest
<1>5. k.motion["open"] = 0 /\ k.motion["close"] = 0
  BY <1>4 DEF K1P!NoMotion, K1P!Dir
<1>6. Valve!Place(k, at) = at
  BY <1>4, <1>5, ValveConstants DEF Valve!Place, Valve!Underway, Valve!Between
<1>7. Placed(Valve!ResetLogic, at)
  BY DEF Placed, Valve!ResetLogic
<1>8. Taking(k, s) /\ Lies(k, Valve!ResetLogic, at)
  BY <1>4, <1>6, <1>7 DEF Taking, Lies
<1> QED BY <1>2, <1>3, <1>8, PlainFits

LEMMA ResetsFit ==
  /\ Valve!ResetLogic \in Valve!Logic /\ Valve!NoTest \in Valve!Test
  /\ [on |-> FALSE, age |-> 0] \in [on : BOOLEAN, age : Nat]
BY NoTestFits, ValveConstants DEF Valve!ResetLogic, Valve!Logic, Valve!Mode

LEMMA ValveStarts == Valve!Init => Valve!ValveFits
<1> SUFFICES ASSUME Valve!Init PROVE Valve!ValveFits
  OBVIOUS
<1>1. v2 = Valve!Plain(Valve!K1!AtRest(0)) /\ v4 = Valve!ResetLogic /\ v3 \in 0..Travel
  BY DEF Valve!Init
<1>2. K1P!Sound(v2) /\ Taking(v2, v12) /\ Lies(v2, v4, v3)
  BY <1>1, FreshDriver
<1>3. TypesFit
  <2>1. v12 \in 0..(IF v11 = "slow" THEN SlowPeriod ELSE SlowPeriod - 1)
    BY ValveConstants DEF Valve!Init
  <2> QED BY <2>1, ResetsFit DEF Valve!Init, TypesFit
<1> QED BY <1>2, <1>3, ValveFitsMeans

LEMMA ValveRestarts ==
  ASSUME Valve!ValveFits, Valve!Restart
  PROVE  Valve!ValveFits'
<1>1. PICK up \in {0, DeadTime} : v2' = Valve!Plain(Valve!K1!AtRest(up))
  BY DEF Valve!Restart, Valve!Fresh
<1>2. TypesFit
  BY ValveFitsMeans
<1>3. v4' = Valve!ResetLogic /\ v3' \in 0..Travel
  BY <1>2 DEF Valve!Restart, Valve!Fresh, TypesFit
<1>4. K1P!Sound(v2') /\ Taking(v2', v12') /\ Lies(v2', v4', v3')
  BY <1>1, <1>3, FreshDriver
<1>5. TypesFit'
  <2>1. v12' \in 0..(IF v11' = "slow" THEN SlowPeriod ELSE SlowPeriod - 1)
    BY ValveConstants DEF Valve!Restart, Valve!Fresh
  <2> QED BY <1>2, <2>1, ResetsFit DEF Valve!Restart, Valve!Fresh, TypesFit
<1> QED BY <1>4, <1>5, ValveFitsThen

\* The two commands of the page.
LEMMA TestCommandsFit ==
  ASSUME Valve!ValveFits, Valve!StartTest \/ Valve!CancelTest
  PROVE  Valve!ValveFits'
<1>1. TypesFit /\ K1P!Sound(v2) /\ Taking(v2, v12) /\ Lies(v2, v4, v3)
  BY ValveFitsMeans
<1>2. /\ v1' = v1 /\ v2' = v2 /\ v3' = v3 /\ v4' = v4 /\ v6' = v6 /\ v7' = v7 /\ v8' = v8
      /\ v9' = v9 /\ v11' = v11 /\ v12' = v12
  BY DEF Valve!StartTest, Valve!CancelTest
<1>3. v5' \in Valve!Test
  <2>1. v5 \in Valve!Test
    BY <1>1 DEF TypesFit
  <2>2. v5' = [v5 EXCEPT !.start = TRUE] \/ v5' = [v5 EXCEPT !.cancel = v5.running, !.start = FALSE]
    BY DEF Valve!StartTest, Valve!CancelTest
  <2>3. v5.running \in BOOLEAN
    BY <2>1 DEF Valve!Test
  <2> QED BY <2>1, <2>2, <2>3 DEF Valve!Test
<1>4. TypesFit'
  BY <1>1, <1>2, <1>3 DEF TypesFit
<1>5. K1P!Sound(v2') /\ Taking(v2', v12') /\ Lies(v2', v4', v3')
  BY <1>1, <1>2
<1> QED BY <1>4, <1>5, ValveFitsThen

Relay == [on : BOOLEAN, age : Nat]

LEMMA RelayFits ==
  ASSUME NEW r \in Relay, NEW request \in BOOLEAN
  PROVE  Valve!P4Followed(r, request) \in Relay /\ Valve!Followed(r, request) \in Relay
BY DEF Relay, Valve!P4Followed, Valve!Followed

LEMMA FastPassOfValveFits ==
  ASSUME Valve!ValveFits, Valve!FastPass
  PROVE  Valve!ValveFits'
<1>1. TypesFit /\ K1P!Sound(v2) /\ Taking(v2, v12) /\ Lies(v2, v4, v3)
  BY ValveFitsMeans
<1>2. Single(v2)
  BY <1>1, TakingIsSingle
<1>3. v12 \in Nat /\ v12 < 2 * DeadTime /\ v12 \in 0..(SlowPeriod - 1) /\ v11' = "pause" /\ v12' = v12
  BY <1>1, ValveConstants DEF TypesFit, Valve!FastPass
<1>4. PICK c : c = Valve!K1!Cancel(v2)
  OBVIOUS
<1>5. Harmless(v2, c) /\ Taking(c, v12) /\ Single(c)
  BY <1>1, <1>2, <1>4, CancelHarmless DEF Taking, Single
<1>6. K1P!Sound(c) /\ Lies(c, v4, v3)
  BY <1>1, <1>5, HarmlessLies DEF Harmless
<1>7. \A k : K1P!Sound(k) /\ Taking(k, v12) /\ Lies(k, v4, v3) =>
        LET l == Valve!K1!Tick(k) IN K1P!Sound(l) /\ Taking(l, v12) /\ Lies(l, v4, v3)
  <2> SUFFICES ASSUME NEW k, K1P!Sound(k), Taking(k, v12), Lies(k, v4, v3)
               PROVE  LET l == Valve!K1!Tick(k) IN K1P!Sound(l) /\ Taking(l, v12) /\ Lies(l, v4, v3)
    OBVIOUS
  <2>1. Harmless(k, Valve!K1!Tick(k)) /\ Taking(Valve!K1!Tick(k), v12)
    BY <1>3, TickHarmless, TickTakes, TakingIsSingle
  <2> QED BY <2>1, HarmlessLies DEF Harmless
<1>8. \E k : v2' = Valve!Plain(k) /\ K1P!Sound(k) /\ Taking(k, v12) /\ Lies(k, v4, v3)
  <2>1. v2' \in {Valve!Plain(v2), Valve!Plain(c), Valve!Plain(Valve!K1!Tick(v2)), Valve!Plain(Valve!K1!Tick(c))}
    BY <1>4 DEF Valve!FastPass, Valve!Ticked
  <2> QED BY <1>1, <1>5, <1>6, <1>7, <2>1
<1>9. K1P!Sound(v2') /\ Taking(v2', v12) /\ Lies(v2', v4, v3)
  BY <1>8, PlainFits
<1>10. v8' \in Relay
  <2>1. v8 \in Relay /\ Valve!Dropped \in Relay
    BY <1>1 DEF TypesFit, Valve!Dropped, Relay
  <2>2. v4.p4 \in BOOLEAN
    BY <1>1 DEF TypesFit, Valve!Logic
  <2> QED BY <2>1, <2>2, RelayFits DEF Valve!FastPass
<1>11. v9' \in BOOLEAN
  BY <1>1 DEF TypesFit, Valve!FastPass
<1>12. v1' = v1 /\ v3' = v3 /\ v4' = v4 /\ v5' = v5 /\ v6' = v6 /\ v7' = v7
  BY DEF Valve!FastPass
<1>13. TypesFit'
  BY <1>1, <1>3, <1>10, <1>11, <1>12 DEF TypesFit, Relay
<1> QED BY <1>3, <1>9, <1>12, <1>13, ValveFitsThen

\* A step of time: the motor moves the valve, and the run gets longer with it.
LEMMA ElapseFits ==
  ASSUME Valve!ValveFits, Valve!Elapse
  PROVE  Valve!ValveFits'
<1>1. TypesFit /\ K1P!Sound(v2) /\ Taking(v2, v12) /\ Lies(v2, v4, v3)
  BY ValveFitsMeans
<1>2. PICK from \in 0..Travel : Placed(v4, from) /\ Valve!Place(v2, from) = v3
  BY <1>1 DEF Lies
<1>3. PICK l : l = Valve!K1!Aged(v2, 1)
  OBVIOUS
<1>4. l = K1P!Aged(v2, 1)
  BY <1>3, OneDriver
<1>5. /\ K1P!Sound(l) /\ l.motion = v2.motion /\ l.running = v2.running
      /\ l.pending = v2.pending /\ l.pendDir = v2.pendDir /\ l.dirOpen = v2.dirOpen
      /\ l.sinceOff = K1P!Older(v2.sinceOff, 1, DeadTime)
      /\ l.sinceDir = K1P!Older(v2.sinceDir, 1, DeadTime)
      /\ Valve!Place(l, from) =
           IF ~v2.power THEN v3 ELSE Valve!Between(0, IF v2.dirOpen THEN v3 + 1 ELSE v3 - 1, Travel)
  BY <1>1, <1>2, <1>4, PlaceMoves
<1>6. /\ v12 \in 0..(SlowPeriod - 1) /\ v12' = v12 + 1
      /\ v11' = IF v12 + 1 = SlowPeriod THEN "slow" ELSE "fast"
      /\ v3' = IF ~v2.power THEN v3 ELSE Valve!Between(0, IF v2.dirOpen THEN v3 + 1 ELSE v3 - 1, Travel)
      /\ v2' = Valve!Plain(l)
  BY <1>1, <1>3 DEF TypesFit, Valve!Elapse
<1>7. Valve!Place(l, from) = v3' /\ v3' \in 0..Travel
  BY <1>1, <1>5, <1>6, ValveConstants DEF TypesFit, Valve!Between
<1>8. /\ v2.sinceOff \in 0..DeadTime /\ v2.sinceDir \in 0..DeadTime /\ v2.dirOpen \in BOOLEAN
      /\ DeadTime \in Nat \ {0}
  BY <1>1, ValveConstants DEF K1P!Sound, K1P!Driver
<1>9. Taking(l, v12')
  <2> SUFFICES ASSUME l.motion # K1P!NoMotion
               PROVE  /\ ~l.running
                      /\ l.pending => /\ l.pendDir = "close"
                                      /\ IF l.dirOpen THEN l.sinceOff <= v12' ELSE l.sinceDir + DeadTime <= v12'
    BY DEF Taking
  <2>1. /\ ~v2.running
        /\ v2.pending => /\ v2.pendDir = "close"
                         /\ IF v2.dirOpen THEN v2.sinceOff <= v12 ELSE v2.sinceDir + DeadTime <= v12
    BY <1>1, <1>5 DEF Taking
  <2>2. l.sinceOff <= v2.sinceOff + 1 /\ l.sinceDir <= v2.sinceDir + 1
        /\ l.sinceOff \in Nat /\ l.sinceDir \in Nat
    BY <1>5, <1>8 DEF K1P!Older
  <2> QED BY <1>5, <1>6, <1>8, <2>1, <2>2, ValveConstants
<1>10. v4' \in Valve!Logic /\ Placed(v4', from)
  <2>1. PICK s : s = IF v4.needEval THEN 0 ELSE Valve!Older(v4.sinceEval, 1, Period)
    OBVIOUS
  <2>2. v4' = [v4 EXCEPT !.sinceEval = s]
    BY <2>1 DEF Valve!Elapse
  <2>3. v4 \in Valve!Logic
    BY <1>1 DEF TypesFit
  <2>4. s \in Nat
    <3>1. Period \in Nat
      BY HomeAssumption DEF HomeAssumption, Valve!MixingValveAssumption
    <3>2. v4.sinceEval \in Nat
      BY <2>3 DEF Valve!Logic
    <3> QED BY <2>1, <3>1, <3>2 DEF Valve!Older
  <2> QED BY <1>2, <2>2, <2>3, <2>4 DEF Placed, Valve!Logic
<1>11. v5' \in Valve!Test
  <2>1. v5 \in Valve!Test
    BY <1>1 DEF TypesFit
  <2>2. PICK age : age = Valve!Older(v5.age, 1, Observe)
    OBVIOUS
  <2>3. PICK window : window = IF v5.dead THEN Valve!Older(v5.window, 1, SettleTime) ELSE 0
    OBVIOUS
  <2>4. v5' = v5 \/ v5' = [v5 EXCEPT !.age = age, !.window = window]
    BY <2>2, <2>3 DEF Valve!Elapse
  <2>5. Observe \in Nat /\ SettleTime \in Nat
    BY HomeAssumption DEF HomeAssumption, Valve!MixingValveAssumption
  <2>6. age \in Nat /\ window \in Nat
    BY <2>1, <2>2, <2>3, <2>5 DEF Valve!Older, Valve!Test
  <2> QED BY <2>1, <2>4, <2>6 DEF Valve!Test
<1>12. v8' \in Relay
  <2>1. v8 \in Relay
    BY <1>1 DEF TypesFit, Relay
  <2>2. PICK age : age = Valve!Older(v8.age, 1, Lock)
    OBVIOUS
  <2>3. Lock \in Nat
    BY HomeAssumption DEF HomeAssumption, Valve!MixingValveAssumption
  <2>4. age \in Nat
    BY <2>1, <2>2, <2>3 DEF Valve!Older, Relay
  <2>5. v8' = [v8 EXCEPT !.age = age]
    BY <2>2 DEF Valve!Elapse
  <2> QED BY <2>1, <2>4, <2>5 DEF Relay
<1>13. v1' = v1 /\ v6' = v6 /\ v7' = v7 /\ v9' = v9
  BY DEF Valve!Elapse
<1>14. v11' \in {"slow", "fast", "pause"} /\ v12' \in 0..(IF v11' = "slow" THEN SlowPeriod ELSE SlowPeriod - 1)
  BY <1>6, ValveConstants
<1>15. TypesFit'
  BY <1>1, <1>7, <1>10, <1>11, <1>12, <1>13, <1>14 DEF TypesFit, Relay
<1>16. Lies(l, v4', v3')
  BY <1>7, <1>10 DEF Lies
<1>17. K1P!Sound(v2') /\ Taking(v2', v12') /\ Lies(v2', v4', v3')
  BY <1>5, <1>6, <1>9, <1>16, PlainFits
<1> QED BY <1>15, <1>17, ValveFitsThen

\* What a slow pass does with the driver once its motion is taken: the controller's command,
\* and a pulse of the test only when there is none.
LEMMA PulsesFit ==
  ASSUME NEW k, K1P!Sound(k), Still(k), NEW e, NEW at, Lies(k, e, at),
         NEW cmd, cmd.dir \in {"open", "close"}, k.pending \/ k.running => cmd.dir = "close",
         NEW starts \in BOOLEAN, starts => cmd.ms = 0 /\ ~k.pending /\ ~k.running
  PROVE  LET l == Valve!Pulsed(Valve!Pulsed(k, cmd), IF starts THEN Valve!Open(StepPulse) ELSE Valve!NoMove)
         IN K1P!Sound(l) /\ Taking(l, 0) /\ Lies(l, e, at)
<1>1. ~Valve!K1!Accepted(0)
  BY ValveConstants DEF Valve!K1!Accepted
<1>2. Taking(k, 0) /\ Single(k)
  BY DEF Taking, Still, Single
<1>3. \A m, c : c.ms = 0 => Valve!Pulsed(m, c) = m
  BY <1>1 DEF Valve!Pulsed, Valve!K1!RequestPulse
<1>4. CASE ~starts
  <2>1. PICK l : l = Valve!Pulsed(k, cmd)
    OBVIOUS
  <2>2. Valve!NoMove.ms = 0
    BY DEF Valve!NoMove
  <2>3. Valve!Pulsed(l, Valve!NoMove) = l
    BY <1>3, <2>2
  <2>4. l = Valve!K1!RequestPulse(k, cmd.dir, cmd.ms, "Control")
    BY <2>1 DEF Valve!Pulsed
  <2>5. /\ Harmless(k, l) /\ Single(l)
        /\ \/ l = k
           \/ l.running
           \/ /\ l.pendDir = cmd.dir /\ (~k.running => l.motion = k.motion)
              /\ k.running => k.runDir # cmd.dir /\ l.dirOpen = k.dirOpen /\ l.sinceOff = 0
    BY <1>2, <2>4, RequestHarmless
  <2>6. Taking(l, 0)
    <3>1. CASE l = k
      BY <1>2, <3>1
    <3>2. CASE l.running
      BY <2>5, <3>2 DEF Single, Still, Taking
    <3>3. CASE ~l.running /\ ~k.running /\ l.motion = k.motion
      BY <3>3 DEF Still, Taking
    <3>4. CASE /\ ~l.running /\ k.running /\ l.pendDir = cmd.dir
               /\ k.runDir # cmd.dir /\ l.dirOpen = k.dirOpen /\ l.sinceOff = 0
      <4>1. cmd.dir = "close" /\ k.runDir = "open"
        <5>1. k.runDir \in {"open", "close"}
          BY DEF K1P!Sound, K1P!Driver, K1P!Dir
        <5> QED BY <3>4, <5>1
      <4>2. l.dirOpen = TRUE
        BY <3>4, <4>1 DEF K1P!Sound
      <4> QED BY <3>4, <4>1, <4>2 DEF Taking
    <3> QED BY <2>5, <3>1, <3>2, <3>3, <3>4
  <2>7. Lies(l, e, at)
    BY <2>5, HarmlessLies
  <2> QED BY <1>4, <2>1, <2>3, <2>5, <2>6, <2>7 DEF Harmless
<1>5. CASE starts
  <2>1. Valve!Pulsed(k, cmd) = k
    BY <1>3, <1>5
  <2>2. PICK l : l = Valve!Pulsed(k, Valve!Open(StepPulse))
    OBVIOUS
  <2>3. PICK ms : l = Valve!K1!RequestPulse(k, "open", ms, "Control")
    BY <2>2 DEF Valve!Pulsed, Valve!Open
  <2>4. /\ Harmless(k, l) /\ Single(l)
        /\ \/ l = k
           \/ l.running
           \/ ~k.running => l.motion = k.motion
    BY <1>2, <2>3, RequestHarmless
  <2>5. l.motion = K1P!NoMotion
    BY <1>5, <2>4 DEF Single, Still
  <2>6. Taking(l, 0) /\ Lies(l, e, at)
    BY <2>4, <2>5, HarmlessLies DEF Taking
  <2> QED BY <1>5, <2>1, <2>2, <2>4, <2>6 DEF Harmless
<1> QED BY <1>4, <1>5

\* What a slow pass leaves, of the values that it computes.
PassLeaves(hw, k, relay, in, d, t) ==
  /\ v6' = hw.stroke
  /\ v8' = relay
  /\ v4' = d.logic
  /\ v5' = t
  /\ v2' = Valve!Plain(Valve!Pulsed(Valve!Pulsed(Valve!K1!TakeMotion(k), d.cmd),
                       IF t.running /\ ~v5.running THEN Valve!Open(StepPulse) ELSE Valve!NoMove))
  /\ v13' = IF t.running /\ ~v5.running THEN [open |-> 0, close |-> 0] ELSE v13

PassDoes(due, hw, k, relay, in, d, t) ==
  /\ due \in (IF v1 = "exercised" THEN BOOLEAN ELSE {FALSE})
  /\ hw = IF v9 THEN [stroke |-> v6, k1 |-> v2] ELSE Valve!StrokeStep(v6, v2, due)
  /\ k = Valve!Ticked(hw.k1) /\ relay = Valve!P4Followed(v8, v4.p4)
  /\ in = Valve!Inputs(v7', k, relay) /\ d = Valve!Decide(v4, in)
  /\ t = Valve!StepTest(v5, in, d, Valve!RecalStarts(v4, in))
  /\ PassLeaves(hw, k, relay, in, d, t)

LEMMA PassDoesSo ==
  ASSUME Valve!SlowPass
  PROVE  \E due, hw, k, relay, in, d, t : PassDoes(due, hw, k, relay, in, d, t)
<1>1. \E due \in (IF v1 = "exercised" THEN BOOLEAN ELSE {FALSE}) :
      \E hw \in {IF v9 THEN [stroke |-> v6, k1 |-> v2] ELSE Valve!StrokeStep(v6, v2, due)} :
      \E k \in {Valve!Ticked(hw.k1)}, relay \in {Valve!P4Followed(v8, v4.p4)} :
      \E in \in {Valve!Inputs(v7', k, relay)} :
      \E d \in {Valve!Decide(v4, in)} :
      \E t \in {Valve!StepTest(v5, in, d, Valve!RecalStarts(v4, in))} :
        PassLeaves(hw, k, relay, in, d, t)
  BY DEF Valve!SlowPass, PassLeaves
<1> QED BY <1>1, Zenon DEF PassDoes

\* A slow pass: the stroke, the tick, the motion, the decision, the test and the command.
LEMMA SlowPassOfValveFits ==
  ASSUME Valve!ValveFits, Valve!SlowPass
  PROVE  Valve!ValveFits'
<1> USE DEF PassDoes, PassLeaves
<1>0. PICK due, hw, k, relay, in, d, t : PassDoes(due, hw, k, relay, in, d, t)
  BY PassDoesSo
<1>1. TypesFit /\ K1P!Sound(v2) /\ Taking(v2, v12) /\ Lies(v2, v4, v3)
  BY ValveFitsMeans
<1>2. /\ v7' \in ValveReadings[v1] /\ v7' \in Valve!Reading
      /\ v1' = v1 /\ v3' = v3 /\ v9' = v9 /\ v11' = "fast" /\ v12' = 0
  <2>1. v1 \in ValvePlants /\ v7' \in ValveReadings[v1]
    BY <1>1 DEF TypesFit, Valve!SlowPass
  <2>2. ValveReadings[v1] \subseteq Valve!Reading
    BY <2>1, HomeAssumption DEF HomeAssumption, Valve!MixingValveAssumption
  <2> QED BY <2>1, <2>2 DEF Valve!SlowPass
<1>3. /\ v4 \in Valve!Logic /\ v5 \in Valve!Test /\ v6 \in {"none", "open", "close"}
      /\ v8 \in Relay /\ v9 \in BOOLEAN
  BY <1>1 DEF TypesFit, Relay
\* The stroke and the tick.
<1>4. hw.stroke \in {"none", "open", "close"} /\ Harmless(v2, hw.k1) /\ Single(hw.k1)
  <2>1. Single(v2) /\ Harmless(v2, v2)
    BY <1>1, TakingIsSingle DEF Harmless
  <2>2. CASE v9
    BY <1>0, <1>3, <2>1, <2>2
  <2>3. CASE ~v9
    BY <1>1, <1>0, <1>3, <2>1, <2>3, StrokeFits
  <2> QED BY <2>2, <2>3
<1>5. K1P!Sound(k) /\ Lies(k, v4, v3)
  <2>1. K1P!Sound(hw.k1) /\ Lies(hw.k1, v4, v3)
    BY <1>1, <1>4, HarmlessLies DEF Harmless
  <2>2. Harmless(hw.k1, k)
    BY <1>0, <1>4, <2>1, TickedHarmless
  <2> QED BY <2>1, <2>2, HarmlessLies DEF Harmless
<1>6. PICK from \in 0..Travel : Placed(v4, from) /\ Valve!Place(k, from) = v3
  BY <1>5 DEF Lies
\* What the controller is told, and what it makes of it.
<1>7. /\ in.r = v7' /\ in.motion = k.motion /\ (in.busy <=> k.pending \/ k.running)
      /\ in.held = v9 /\ in.hold = v5.running
  BY <1>0 DEF Valve!Inputs, Valve!K1!Busy
<1>8. /\ in.r \in Valve!Reading /\ in.held \in BOOLEAN /\ in.hold \in BOOLEAN
      /\ in.motion \in [{"open", "close"} -> Nat]
  <2>1. k.motion \in [{"open", "close"} -> Nat]
    BY <1>5 DEF K1P!Sound, K1P!Driver, K1P!Dir
  <2> QED BY <1>2, <1>3, <1>7, <2>1 DEF Valve!Test
<1>9. PICK to : to = Valve!Between(0, from + in.motion["open"] - in.motion["close"], Travel)
  OBVIOUS
<1>10. /\ d.logic \in Valve!Logic /\ Placed(d.logic, to)
       /\ d.cmd.dir \in {"open", "close"}
       /\ in.busy => d.cmd.dir = "close"
  BY <1>0, <1>3, <1>6, <1>8, <1>9, DecideFits
<1>11. /\ t \in Valve!Test
       /\ t.running /\ ~v5.running => d.cmd.ms = 0 /\ ~in.busy
  BY <1>0, <1>3, <1>8, StepTestFits
\* The driver.
<1>12. PICK m : m = Valve!K1!TakeMotion(k)
  OBVIOUS
<1>13. /\ K1P!Sound(m) /\ Still(m) /\ m.running = k.running /\ m.pending = k.pending
       /\ to \in 0..Travel /\ Valve!Place(m, to) = v3
  <2>1. m = K1P!TakeMotion(k)
    BY <1>12, OneDriver
  <2> QED BY <1>5, <1>6, <1>7, <1>9, <2>1, PlaceIsTaken
<1>14. Lies(m, d.logic, v3)
  BY <1>10, <1>13 DEF Lies
<1>15. PICK starts : starts = (t.running /\ ~v5.running)
  OBVIOUS
<1>16. PICK l : l = Valve!Pulsed(Valve!Pulsed(m, d.cmd),
                                 IF starts THEN Valve!Open(StepPulse) ELSE Valve!NoMove)
  OBVIOUS
<1>17. K1P!Sound(l) /\ Taking(l, 0) /\ Lies(l, d.logic, v3)
  <2>1. starts \in BOOLEAN
    BY <1>15
  <2>2. m.pending \/ m.running => d.cmd.dir = "close"
    BY <1>7, <1>10, <1>13
  <2>3. starts => d.cmd.ms = 0 /\ ~m.pending /\ ~m.running
    BY <1>7, <1>11, <1>13, <1>15
  <2> QED BY <1>10, <1>13, <1>14, <1>16, <2>1, <2>2, <2>3, PulsesFit
<1>18. v2' = Valve!Plain(l)
  BY <1>0, <1>12, <1>15, <1>16
<1>19. K1P!Sound(v2') /\ Taking(v2', v12') /\ Lies(v2', v4', v3')
  BY <1>0, <1>2, <1>17, <1>18, PlainFits
<1>20. relay \in Relay
  BY <1>0, <1>3, RelayFits DEF Valve!Logic
<1>21. TypesFit'
  <2>1. v12' \in 0..(IF v11' = "slow" THEN SlowPeriod ELSE SlowPeriod - 1)
    BY <1>2, ValveConstants
  <2>2. v3' \in 0..Travel /\ v1' \in ValvePlants /\ v9' \in BOOLEAN
    BY <1>1, <1>2 DEF TypesFit
  <2>3. v4' \in Valve!Logic /\ v5' \in Valve!Test /\ v6' \in {"none", "open", "close"} /\ v8' \in Relay
    BY <1>0, <1>4, <1>10, <1>11, <1>20
  <2>4. v7' \in ValveReadings[v1'] /\ v11' \in {"slow", "fast", "pause"}
    BY <1>2
  <2> QED BY <2>1, <2>2, <2>3, <2>4 DEF TypesFit, Relay
<1> QED BY <1>19, <1>21, ValveFitsThen

LEMMA ValveKeeps ==
  ASSUME Valve!ValveFits, [Valve!Next]_(Valve!vars)
  PROVE  Valve!ValveFits'
<1>1. CASE Valve!StartTest \/ Valve!CancelTest
  BY <1>1, TestCommandsFit
<1>2. CASE Valve!SlowPass
  BY <1>2, SlowPassOfValveFits
<1>3. CASE Valve!FastPass
  BY <1>3, FastPassOfValveFits
<1>4. CASE Valve!Elapse
  BY <1>4, ElapseFits
<1>5. CASE Valve!Restart
  BY <1>5, ValveRestarts
<1>6. CASE UNCHANGED Valve!vars
  <2>1. TypesFit /\ K1P!Sound(v2) /\ Taking(v2, v12) /\ Lies(v2, v4, v3)
    BY ValveFitsMeans
  <2>2. TypesFit' /\ K1P!Sound(v2') /\ Taking(v2', v12') /\ Lies(v2', v4', v3')
    BY <1>6, <2>1 DEF Valve!vars, TypesFit
  <2> QED BY <2>2, ValveFitsThen
<1> QED BY <1>1, <1>2, <1>3, <1>4, <1>5, <1>6 DEF Valve!Next

LEMMA ValveSafe == Valve!ValveFits => Valve!EstimateIsTrue
<1> SUFFICES ASSUME Valve!ValveFits, v4.known PROVE Valve!Place(v2, v4.pct) = v3
  BY DEF Valve!EstimateIsTrue
<1>1. Lies(v2, v4, v3)
  BY ValveFitsMeans
<1>2. PICK from \in 0..Travel : Placed(v4, from) /\ Valve!Place(v2, from) = v3
  BY <1>1 DEF Lies
<1> QED BY <1>2 DEF Placed

-----------------------------------------------------------------------------
(* The valve within the composition.                                       *)

ValveIsFit == part = "valve" => Valve!ValveFits

\* The mixing valve: ValveFits holds wherever the valve is the part looked at.
LEMMA ValveStaysFit == Spec => []ValveIsFit
<1>1. Init => ValveIsFit
  BY ValveStarts DEF Init, ValveIsFit
<1>2. ValveIsFit /\ [Next]_vars => ValveIsFit'
  <2> SUFFICES ASSUME ValveIsFit, [Next]_vars, part' = "valve" PROVE Valve!ValveFits'
    BY DEF ValveIsFit
  <2>1. part = "valve" /\ [Valve!Next]_(Valve!vars)
    <3>1. CASE Next
      BY <3>1 DEF Next
    <3>2. CASE UNCHANGED vars
      BY <3>2 DEF vars, Valve!vars
    <3> QED BY <3>1, <3>2
  <2> QED BY <2>1, ValveKeeps DEF ValveIsFit
<1> QED BY <1>1, <1>2, PTL DEF Spec

\* K1Logic, D6: a position the controller calls known is the valve's own, to the unit of
\* travel, for any travel, pulses, readings, firmware updates and restarts.
THEOREM EstimatesAreTrue == Spec => []EstimateIsTrue
<1>1. ValveIsFit => EstimateIsTrue
  BY ValveSafe DEF ValveIsFit, EstimateIsTrue
<1> QED BY <1>1, ValveStaysFit, PTL

-----------------------------------------------------------------------------
(* The pulse of a step test.                                               *)

LEMMA TestConstants ==
  /\ StepPulse \in Nat \ {0} /\ Observe \in Nat /\ SettleTime \in Nat
  /\ SettleTime > StepPulse + 2 * DeadTime /\ Observe > StepPulse + 2 * DeadTime
  /\ Travel <= MaxPulse
<1>1. Valve!MixingValveAssumption
  BY HomeAssumption DEF HomeAssumption
<1>2. StepPulse \in Nat \ {0} /\ Observe \in Nat /\ SettleTime \in Nat /\ MaxPulse >= Valve!Recal
  BY <1>1 DEF Valve!MixingValveAssumption
<1>3. SettleTime > StepPulse + 2 * DeadTime /\ Observe > StepPulse + 2 * DeadTime
  BY <1>1, <1>2, ValveConstants DEF Valve!MixingValveAssumption
<1> QED BY <1>2, <1>3, ValveConstants DEF Valve!Recal

\* Waits, Runs and Done of a driver and of what the motor did.
PulseWaits(k, did) == /\ ~k.running /\ k.pending /\ k.pendDir = "open" /\ k.pendDur = StepPulse
                      /\ did = [open |-> 0, close |-> 0]
PulseRuns(k, did) == /\ k.running /\ k.runDir = "open" /\ k.left >= 0 /\ k.ran + k.left = StepPulse
                     /\ did = [open |-> k.ran, close |-> 0]
PulseDone(k, did) == ~k.running /\ ~k.pending /\ did = [open |-> StepPulse, close |-> 0]

\* InTime, before a pause and otherwise.
PulseInTime(k, t, pause) ==
  /\ t.window <= t.age /\ t.age + Valve!Due(k) <= StepPulse + 2 * DeadTime
  /\ pause => Valve!Due(k) > IF k.running THEN 0 ELSE StepPulse + IF k.dirOpen THEN 0 ELSE DeadTime

PulseGoes(k, did, t, pause) ==
  \/ PulseDone(k, did)
  \/ (PulseWaits(k, did) \/ PulseRuns(k, did)) /\ PulseInTime(k, t, pause)

\* What the pulse depends on.
SameRun(k, l) ==
  /\ l.running = k.running /\ l.pending = k.pending /\ l.runDir = k.runDir /\ l.pendDir = k.pendDir
  /\ l.pendDur = k.pendDur /\ l.ran = k.ran /\ l.left = k.left /\ l.dirOpen = k.dirOpen
  /\ l.sinceOff = k.sinceOff /\ l.sinceDir = k.sinceDir

LEMMA SamePulse ==
  ASSUME NEW k, NEW l, SameRun(k, l), NEW did, NEW t, NEW pause, PulseGoes(k, did, t, pause)
  PROVE  PulseGoes(l, did, t, pause)
<1>1. Valve!Due(l) = Valve!Due(k)
  BY DEF SameRun, Valve!Due
<1> QED BY <1>1 DEF SameRun, PulseGoes, PulseDone, PulseWaits, PulseRuns, PulseInTime

LEMMA TakenAndPlain ==
  ASSUME NEW k, K1P!Sound(k)
  PROVE  SameRun(k, Valve!K1!TakeMotion(k)) /\ SameRun(k, Valve!Plain(k))
BY DEF K1P!Sound, K1P!Driver, SameRun, Valve!K1!TakeMotion, Valve!Plain

LEMMA DriverTypes ==
  ASSUME NEW k, K1P!Sound(k)
  PROVE  /\ k.ran \in Nat /\ k.left \in Int /\ k.running \in BOOLEAN /\ k.pending \in BOOLEAN
         /\ k.dirOpen \in BOOLEAN /\ k.sinceOff \in 0..DeadTime /\ k.sinceDir \in 0..DeadTime
         /\ k.power = k.running /\ (k.running => k.dirOpen = (k.runDir = "open") /\ ~k.pending)
         /\ DeadTime \in Nat \ {0} /\ StepPulse \in Nat \ {0}
         /\ Valve!Due(k) \in Int
<1>1. /\ k.ran \in Nat /\ k.left \in Int /\ k.running \in BOOLEAN /\ k.pending \in BOOLEAN
      /\ k.dirOpen \in BOOLEAN /\ k.sinceOff \in 0..DeadTime /\ k.sinceDir \in 0..DeadTime
      /\ k.power = k.running /\ (k.running => k.dirOpen = (k.runDir = "open") /\ ~k.pending)
      /\ DeadTime \in Nat \ {0} /\ StepPulse \in Nat \ {0}
  BY ValveConstants, TestConstants DEF K1P!Sound, K1P!Driver
<1> QED BY <1>1 DEF Valve!Due

\* A tick moves the pulse on.
LEMMA PulseTicks ==
  ASSUME NEW k, K1P!Sound(k), NEW t \in Valve!Test, NEW did, NEW pause, PulseGoes(k, did, t, pause)
  PROVE  PulseGoes(Valve!K1!Tick(k), did, t, TRUE)
<1>1. PICK l : l = K1P!Tick(k)
  OBVIOUS
<1>2. l = Valve!K1!Tick(k) /\ K1P!Sound(l) /\ K1P!Carried(k, l) /\ (l.running => l.left > 0)
  BY <1>1, OneDriver, ValveConstants, K1P!TickSound, K1P!TickCarries
<1>3. t.age \in Nat /\ t.window \in Nat
  BY DEF Valve!Test
<1>4. CASE PulseDone(k, did)
  BY <1>2, <1>4 DEF PulseDone, PulseGoes, K1P!Carried
<1>5. CASE PulseRuns(k, did) /\ PulseInTime(k, t, pause)
  <2>1. CASE k.left > 0 /\ l.running /\ l.runDir = k.runDir /\ l.ran = k.ran /\ l.left = k.left
    <3>1. Valve!Due(l) = k.left /\ Valve!Due(k) = k.left
      BY <1>5, <2>1 DEF PulseRuns, Valve!Due
    <3>2. PulseRuns(l, did)
      BY <1>5, <2>1 DEF PulseRuns
    <3>3. PulseInTime(l, t, TRUE)
      BY <1>5, <2>1, <3>1 DEF PulseInTime
    <3> QED BY <1>2, <3>2, <3>3 DEF PulseGoes
  <2>2. CASE k.left <= 0 /\ ~l.running /\ ~l.pending
    <3>1. k.ran = StepPulse
      BY <1>5, <2>2, DriverTypes DEF PulseRuns
    <3> QED BY <1>2, <1>5, <2>2, <3>1 DEF PulseGoes, PulseDone, PulseRuns
  <2> QED BY <1>2, <1>5, <2>1, <2>2 DEF K1P!Carried, PulseRuns
<1>6. CASE PulseWaits(k, did) /\ PulseInTime(k, t, pause)
  <2>1. CASE /\ k.dirOpen = (k.pendDir = "open") /\ k.sinceDir >= DeadTime
             /\ l.running /\ l.runDir = k.pendDir /\ l.ran = 0 /\ l.left = k.pendDur
    <3>1. Valve!Due(l) = StepPulse /\ Valve!Due(k) = StepPulse
      BY <1>6, <2>1, DriverTypes DEF PulseWaits, Valve!Due
    <3>2. PulseRuns(l, did)
      BY <1>6, <2>1, DriverTypes DEF PulseRuns, PulseWaits
    <3>3. PulseInTime(l, t, TRUE)
      BY <1>6, <2>1, <3>1, DriverTypes DEF PulseInTime
    <3> QED BY <1>2, <3>2, <3>3 DEF PulseGoes
  <2>2. CASE /\ ~l.running /\ l.pending /\ l.pendDir = k.pendDir /\ l.pendDur = k.pendDur
             /\ l.dirOpen = k.dirOpen /\ l.sinceOff = k.sinceOff /\ l.sinceDir = k.sinceDir
             /\ IF k.dirOpen = (k.pendDir = "open") THEN k.sinceDir < DeadTime ELSE k.sinceOff < DeadTime
    <3>1. PulseWaits(l, did)
      BY <1>6, <2>2 DEF PulseWaits
    <3>2. Valve!Due(l) = Valve!Due(k)
      BY <1>6, <2>2 DEF PulseWaits, Valve!Due
    <3>3. IF k.dirOpen THEN k.sinceDir < DeadTime ELSE k.sinceOff < DeadTime
      BY <1>6, <2>2, DriverTypes DEF PulseWaits
    <3>4. Valve!Due(k) > StepPulse + IF k.dirOpen THEN 0 ELSE DeadTime
      BY <1>6, <3>3, DriverTypes DEF PulseWaits, Valve!Due
    <3>5. PulseInTime(l, t, TRUE)
      BY <1>6, <2>2, <3>2, <3>4 DEF PulseInTime
    <3> QED BY <1>2, <3>1, <3>5 DEF PulseGoes
  <2>3. CASE /\ ~l.running /\ l.pending /\ l.pendDir = k.pendDir /\ l.pendDur = k.pendDur
             /\ k.dirOpen # (k.pendDir = "open") /\ k.sinceOff >= DeadTime
             /\ l.dirOpen = ~k.dirOpen /\ l.sinceDir = 0
    <3>1. PulseWaits(l, did)
      BY <1>6, <2>3 DEF PulseWaits
    <3>2. k.dirOpen = FALSE /\ l.dirOpen = TRUE
      BY <1>6, <2>3, DriverTypes DEF PulseWaits
    <3>3. Valve!Due(l) = StepPulse + DeadTime /\ Valve!Due(k) = StepPulse + DeadTime
      BY <1>6, <2>3, <3>2, DriverTypes DEF PulseWaits, Valve!Due
    <3>4. PulseInTime(l, t, TRUE)
      BY <1>6, <2>3, <3>2, <3>3, DriverTypes DEF PulseInTime
    <3> QED BY <1>2, <3>1, <3>4 DEF PulseGoes
  <2>4. k.pending /\ ~k.running
    BY <1>6 DEF PulseWaits
  <2> QED BY <1>2, <2>1, <2>2, <2>3, <2>4 DEF K1P!Carried
<1> QED BY <1>4, <1>5, <1>6 DEF PulseGoes

\* Time brings the pulse nearer to its end, and the motor makes it.
LEMMA PulseAges ==
  ASSUME NEW k, K1P!Sound(k), NEW t \in Valve!Test, NEW n \in Valve!Test, NEW did, PulseGoes(k, did, t, TRUE),
         n.age = Valve!Older(t.age, 1, Observe),
         n.window \in {0, Valve!Older(t.window, 1, SettleTime)}
  PROVE  PulseGoes(Valve!K1!Aged(k, 1),
                   IF ~k.power THEN did
                   ELSE IF k.dirOpen THEN [did EXCEPT !.open = @ + 1] ELSE [did EXCEPT !.close = @ + 1],
                   n, FALSE)
<1>1. PICK l : l = Valve!K1!Aged(k, 1)
  OBVIOUS
<1>2. PICK ran : ran = IF k.running THEN k.ran + 1 ELSE k.ran
  OBVIOUS
<1>3. PICK left : left = IF k.running THEN k.left - 1 ELSE k.left
  OBVIOUS
<1>4. l = [k EXCEPT !.sinceOff = Valve!K1!Older(k.sinceOff, 1, DeadTime),
                    !.sinceDir = Valve!K1!Older(k.sinceDir, 1, DeadTime),
                    !.sinceMove = Valve!K1!Older(k.sinceMove, 1, DeadTime), !.ran = ran, !.left = left]
  BY <1>1, <1>2, <1>3, Zenon DEF Valve!K1!Aged
<1>5. /\ l.running = k.running /\ l.pending = k.pending /\ l.runDir = k.runDir /\ l.pendDir = k.pendDir
      /\ l.pendDur = k.pendDur /\ l.dirOpen = k.dirOpen /\ l.ran = ran /\ l.left = left
      /\ l.sinceOff = Valve!K1!Older(k.sinceOff, 1, DeadTime)
      /\ l.sinceDir = Valve!K1!Older(k.sinceDir, 1, DeadTime)
  BY <1>4 DEF K1P!Sound, K1P!Driver
<1>6. PICK made : made = IF ~k.power THEN did
                         ELSE IF k.dirOpen THEN [did EXCEPT !.open = @ + 1] ELSE [did EXCEPT !.close = @ + 1]
  OBVIOUS
<1>7. t.age \in Nat /\ t.window \in Nat /\ n.age \in Nat /\ n.window \in Nat
  BY DEF Valve!Test
<1>8. CASE PulseDone(k, did)
  BY <1>1, <1>5, <1>6, <1>8, DriverTypes DEF PulseDone, PulseGoes
<1>9. ASSUME t.window <= t.age, t.age < Observe
      PROVE  n.window <= n.age /\ n.age = t.age + 1
  BY <1>7, <1>9, TestConstants DEF Valve!Older
<1>10. CASE PulseRuns(k, did) /\ PulseInTime(k, t, TRUE)
  <2>1. k.left > 0 /\ Valve!Due(k) = k.left /\ Valve!Due(l) = k.left - 1
    BY <1>3, <1>5, <1>10, DriverTypes DEF PulseRuns, PulseInTime, Valve!Due
  <2>2. k.power /\ k.dirOpen /\ k.running
    BY <1>10, DriverTypes DEF PulseRuns
  <2>3. did = [open |-> k.ran, close |-> 0] /\ made = [did EXCEPT !.open = @ + 1]
    BY <1>6, <1>10, <2>2 DEF PulseRuns
  <2>4. made = [open |-> k.ran + 1, close |-> 0]
    BY <2>3
  <2>5. PulseRuns(l, made)
    BY <1>2, <1>3, <1>5, <1>10, <2>1, <2>2, <2>4, DriverTypes DEF PulseRuns
  <2>6. t.window <= t.age /\ t.age < Observe /\ t.age + k.left <= StepPulse + 2 * DeadTime
    BY <1>7, <1>10, <2>1, DriverTypes, TestConstants DEF PulseInTime
  <2>7. PulseInTime(l, n, FALSE)
    BY <1>7, <1>9, <2>1, <2>6, DriverTypes DEF PulseInTime
  <2> QED BY <1>1, <1>6, <2>5, <2>7 DEF PulseGoes
<1>11. CASE PulseWaits(k, did) /\ PulseInTime(k, t, TRUE)
  <2>1. ~k.running /\ made = did
    BY <1>6, <1>11, DriverTypes DEF PulseWaits
  <2>2. IF k.dirOpen THEN k.sinceDir < DeadTime ELSE k.sinceOff < DeadTime
    BY <1>11, <2>1, DriverTypes DEF PulseInTime, Valve!Due
  <2>3. Valve!Due(l) = Valve!Due(k) - 1 /\ Valve!Due(k) > 0
    BY <1>5, <2>1, <2>2, DriverTypes DEF Valve!Due, Valve!K1!Older
  <2>4. PulseWaits(l, made)
    BY <1>5, <1>11, <2>1 DEF PulseWaits
  <2>5. t.window <= t.age /\ t.age < Observe /\ t.age + Valve!Due(k) <= StepPulse + 2 * DeadTime
    BY <1>7, <1>11, <2>3, DriverTypes, TestConstants DEF PulseInTime
  <2>6. PulseInTime(l, n, FALSE)
    BY <1>7, <1>9, <2>3, <2>5, DriverTypes DEF PulseInTime
  <2> QED BY <1>1, <1>6, <2>4, <2>6 DEF PulseGoes
<1> QED BY <1>8, <1>10, <1>11 DEF PulseGoes

\* A test asks an idle driver for its pulse.
LEMMA PulseStarts ==
  ASSUME NEW k, K1P!Sound(k), ~k.running, ~k.pending, StepPulse < Travel, NEW t, t.age = 0, t.window = 0
  PROVE  PulseGoes(Valve!Pulsed(k, Valve!Open(StepPulse)), [open |-> 0, close |-> 0], t, FALSE)
<1>1. PICK l : l = Valve!Pulsed(k, Valve!Open(StepPulse))
  OBVIOUS
<1>2. Valve!K1!Accepted(StepPulse)
  BY ValveConstants, TestConstants DEF Valve!K1!Accepted
<1>3. l = [k EXCEPT !.pending = TRUE, !.pendDir = "open", !.pendDur = StepPulse, !.pendOwner = "Control"]
  BY <1>1, <1>2 DEF Valve!Pulsed, Valve!Open, Valve!K1!RequestPulse, Valve!K1!Pend
<1>4. /\ l.running = k.running /\ l.pending /\ l.pendDir = "open" /\ l.pendDur = StepPulse
      /\ l.dirOpen = k.dirOpen /\ l.sinceOff = k.sinceOff /\ l.sinceDir = k.sinceDir
  BY <1>3 DEF K1P!Sound, K1P!Driver
<1>5. Valve!Due(l) <= StepPulse + 2 * DeadTime /\ Valve!Due(l) \in Int
  BY <1>4, DriverTypes DEF Valve!Due
<1>6. PulseWaits(l, [open |-> 0, close |-> 0]) /\ PulseInTime(l, t, FALSE)
  BY <1>4, <1>5 DEF PulseWaits, PulseInTime
<1> QED BY <1>1, <1>6 DEF PulseGoes

\* update() in mode Normal leaves the valve alone while a test holds it.
LEMMA HeldControl ==
  ASSUME NEW l \in Valve!Logic, NEW in
  PROVE  /\ Valve!Control(l, in).logic.mode = l.mode
         /\ in.hold /\ l.mode = "Normal" => Valve!Control(l, in).cmd.ms = 0
<1>1. PICK m : m = Valve!Evaluated(l)
  OBVIOUS
<1>2. m \in Valve!Logic /\ m.mode = l.mode
  BY <1>1 DEF Valve!Evaluated, Valve!Logic
<1>3. PICK d : d = Valve!Control(l, in)
  OBVIOUS
<1>4. PICK e : e = Valve!Evaluate(l, in.r)
  OBVIOUS
<1>5. e.logic.mode = l.mode
  <2>1. PICK x : x = Valve!FeedforwardTarget(in.r)
    OBVIOUS
  <2>2. [m EXCEPT !.ff = TRUE, !.x = x].mode = m.mode
    BY <1>2 DEF Valve!Logic
  <2>3. e.logic = [m EXCEPT !.ff = TRUE, !.x = x] \/ e.logic = m
    BY <1>1, <1>4, <2>1 DEF Valve!Evaluate
  <2> QED BY <1>2, <2>2, <2>3
<1>6. \/ d.logic = l \/ d.logic = [m EXCEPT !.anchored = TRUE] \/ d.logic = e.logic
  BY <1>1, <1>3, <1>4 DEF Valve!Control
<1>7. [m EXCEPT !.anchored = TRUE].mode = m.mode
  BY <1>2 DEF Valve!Logic
<1>8. d.logic.mode = l.mode
  BY <1>2, <1>5, <1>6, <1>7
<1>9. in.hold /\ l.mode = "Normal" => d.cmd = Valve!NoMove
  BY <1>3 DEF Valve!Control
<1>10. Valve!NoMove.ms = 0
  BY DEF Valve!NoMove
<1> QED BY <1>3, <1>8, <1>9, <1>10

LEMMA HeldDecide ==
  ASSUME NEW l \in Valve!Logic, NEW in, in.r \in Valve!Reading, in.held \in BOOLEAN, in.hold \in BOOLEAN,
         in.motion \in [{"open", "close"} -> Nat], NEW from, Placed(l, from)
  PROVE  LET d == Valve!Decide(l, in)
         IN d.logic.p4 = in.r.p4 /\ (in.hold /\ d.logic.mode = "Normal" => d.cmd.ms = 0)
<1>1. PICK to : to = Valve!Between(0, from + in.motion["open"] - in.motion["close"], Travel)
  OBVIOUS
<1>2. PICK moved : moved = Valve!Moved(l, in.motion)
  OBVIOUS
<1>3. PICK ready : ready = Valve!Prepared(moved, in)
  OBVIOUS
<1>4. moved \in Valve!Logic /\ Placed(moved, to)
  BY <1>1, <1>2, MovedFits
<1>5. ready \in Valve!Logic /\ Placed(ready, to)
  BY <1>3, <1>4, PreparedFits
<1>6. PICK d : d = IF ready.recal /\ ~Valve!RecalIsOver(ready)
           THEN [logic |-> [ready EXCEPT !.mode = "Recalibrating"],
                 cmd |-> IF Valve!CloseAtOnce(l, in) THEN Valve!Close(Valve!Recal)
                         ELSE IF Valve!CanMove(in) THEN Valve!Close(Valve!Recal - ready.closed) ELSE Valve!NoMove]
           ELSE Valve!Control(Valve!Enter(IF ready.recal THEN Valve!Recalibrated(ready) ELSE ready,
                                          Valve!SelectMode(in.r, in.p4Running)), in)
  OBVIOUS
<1>7. /\ d.logic \in Valve!Logic /\ d = [logic |-> d.logic, cmd |-> d.cmd]
      /\ in.hold /\ d.logic.mode = "Normal" => d.cmd.ms = 0
  <2>1. CASE ready.recal /\ ~Valve!RecalIsOver(ready)
    <3>1. PICK going : going = [ready EXCEPT !.mode = "Recalibrating"]
      OBVIOUS
    <3>2. going \in Valve!Logic /\ going.mode = "Recalibrating"
      BY <1>5, <3>1 DEF Valve!Logic, Valve!Mode
    <3>3. PICK cmd : cmd = IF Valve!CloseAtOnce(l, in) THEN Valve!Close(Valve!Recal)
                           ELSE IF Valve!CanMove(in) THEN Valve!Close(Valve!Recal - ready.closed)
                           ELSE Valve!NoMove
      OBVIOUS
    <3>4. d = [logic |-> going, cmd |-> cmd]
      BY <1>6, <2>1, <3>1, <3>3
    <3> QED BY <3>2, <3>4
  <2>2. CASE ~(ready.recal /\ ~Valve!RecalIsOver(ready))
    <3>1. PICK free : free = IF ready.recal THEN Valve!Recalibrated(ready) ELSE ready
      OBVIOUS
    <3>2. free \in Valve!Logic
      BY <1>5, <2>2, <3>1, RecalibratedFits
    <3>3. PICK entered : entered = Valve!Enter(free, Valve!SelectMode(in.r, in.p4Running))
      OBVIOUS
    <3>4. entered \in Valve!Logic
      BY <3>2, <3>3, EnterFits, ModeFits DEF SameEstimate
    <3>5. d = Valve!Control(entered, in)
      BY <1>6, <2>2, <3>1, <3>3
    <3>6. Commands(d, entered, in) /\ d = [logic |-> d.logic, cmd |-> d.cmd]
      BY <3>4, <3>5, ControlFits
    <3>7. d.logic.mode = entered.mode /\ (in.hold /\ entered.mode = "Normal" => d.cmd.ms = 0)
      BY <3>4, <3>5, HeldControl
    <3> QED BY <3>6, <3>7 DEF Commands, SameEstimate
  <2> QED BY <2>1, <2>2
<1>8. PICK logic : logic = [d.logic EXCEPT !.p4 = in.r.p4, !.heating = in.r.heating,
                                           !.held = in.held, !.hold = in.hold]
  OBVIOUS
<1>9. Valve!Decide(l, in) = [d EXCEPT !.logic.p4 = in.r.p4, !.logic.heating = in.r.heating,
                                      !.logic.held = in.held, !.logic.hold = in.hold]
  BY <1>2, <1>3, <1>6, Zenon DEF Valve!Decide
<1>10. Valve!Decide(l, in) = [logic |-> logic, cmd |-> d.cmd]
  BY <1>7, <1>8, <1>9
<1>11. logic.p4 = in.r.p4 /\ logic.mode = d.logic.mode
  BY <1>7, <1>8 DEF Valve!Logic
<1> QED BY <1>7, <1>10, <1>11

\* What a pass makes of a test, as far as its pulse is concerned.
TestGoes(t, n, in, d, starts) ==
  /\ n.start \/ n.running => t.start \/ t.running
  /\ n.running /\ ~t.running => t.start /\ Valve!MayStart(t, in, d) /\ n.age = 0 /\ n.window = 0
  /\ n.running /\ t.running => ~Valve!MustAbort(t, in, d, starts) /\ n.age = t.age /\ n.window \in {0, t.window}
  /\ ~n.running /\ t.running /\ n.last = "Result" =>
       ~Valve!MustAbort(t, in, d, starts) /\ (t.window >= SettleTime \/ t.age >= Observe)

LEMMA MeasuredGoes ==
  ASSUME NEW t \in Valve!Test, NEW h2 \in Int
  PROVE  LET m == Valve!Measured(t, h2)
         IN /\ m.running = t.running /\ m.start = t.start /\ m.age = t.age
            /\ m.window \in {0, t.window}
<1>1. PICK low : low = IF h2 < t.low THEN h2 ELSE t.low
  OBVIOUS
<1>2. PICK high : high = IF h2 > t.high THEN h2 ELSE t.high
  OBVIOUS
<1>3. PICK wider : wider = [t EXCEPT !.low = low, !.high = high]
  OBVIOUS
<1>4. PICK w : w = Valve!Window(t, h2)
  OBVIOUS
<1>5. w = [t EXCEPT !.window = 0, !.low = h2, !.high = h2]
  BY <1>4 DEF Valve!Window
<1>6. Valve!Measured(t, h2) \in {[w EXCEPT !.dead = TRUE], t, w, wider}
  BY <1>1, <1>2, <1>3, <1>4 DEF Valve!Measured
<1>7. \A m \in {[w EXCEPT !.dead = TRUE], t, w, wider} :
        m.running = t.running /\ m.start = t.start /\ m.age = t.age /\ m.window \in {0, t.window}
  BY <1>3, <1>5 DEF Valve!Test
<1> QED BY <1>6, <1>7

LEMMA StepTestGoes ==
  ASSUME NEW t \in Valve!Test, NEW in, in.r \in Valve!Reading, NEW d, NEW starts
  PROVE  TestGoes(t, Valve!StepTest(t, in, d, starts), in, d, starts)
<1>1. in.r.h2 \in Int /\ in.r.h3 \in Int
  BY DEF Valve!Reading
<1>2. PICK m : m = Valve!Measured(t, in.r.h2)
  OBVIOUS
<1>3. PICK quiet : quiet = [t EXCEPT !.start = FALSE, !.cancel = FALSE]
  OBVIOUS
<1>4. /\ m \in Valve!Test /\ quiet \in Valve!Test
      /\ quiet.running = t.running /\ quiet.start = FALSE
      /\ m.running = t.running /\ m.start = t.start /\ m.age = t.age /\ m.window \in {0, t.window}
  BY <1>1, <1>2, <1>3, MeasuredFits, MeasuredGoes DEF Valve!Test
<1>5. \A o \in {"Aborted", "Result", "NoResponse"} :
        /\ Valve!End(t, o) \in Valve!Test /\ Valve!End(t, o).last = o
        /\ ~Valve!End(t, o).running /\ ~Valve!End(t, o).start
  BY NoTestFits DEF Valve!End, Valve!Test, Valve!NoTest
<1>6. PICK go : go = Valve!Go(t, in)
  OBVIOUS
<1>7. go \in Valve!Test /\ go.running /\ ~go.start /\ go.age = 0 /\ go.window = 0
  <2>1. PICK w : w = Valve!Window(Valve!NoTest, in.r.h2)
    OBVIOUS
  <2>2. w \in Valve!Test /\ w.start = FALSE /\ w.age = 0 /\ w.window = 0
    BY <1>1, <2>1, WindowFits, NoTestFits DEF Valve!Window, Valve!NoTest
  <2>3. go = [w EXCEPT !.running = TRUE, !.last = t.last, !.h2 = in.r.h2, !.h3 = in.r.h3]
    BY <1>6, <2>1 DEF Valve!Go
  <2> QED BY <1>1, <2>2, <2>3 DEF Valve!Test
<1>8. PICK over : over = (Valve!Settled(t, m) \/ t.age >= Observe)
  OBVIOUS
<1>9. PICK outcome : outcome = IF m.dead /\ in.r.h2 > t.h2 THEN "Result" ELSE "NoResponse"
  OBVIOUS
<1>10. PICK after : after = CASE t.running /\ Valve!MustAbort(t, in, d, starts) -> Valve!End(t, "Aborted")
                 [] t.running /\ ~Valve!MustAbort(t, in, d, starts) /\ over -> Valve!End(t, outcome)
                 [] t.running /\ ~Valve!MustAbort(t, in, d, starts) /\ ~over -> m
                 [] OTHER -> IF t.start /\ Valve!MayStart(t, in, d) THEN go ELSE quiet
  OBVIOUS
<1>11. over => t.window >= SettleTime \/ t.age >= Observe
  <2>1. t.window \in Nat /\ SettleTime \in Nat \ {0}
    BY TestConstants, ValveConstants DEF Valve!Test
  <2>2. Valve!Settled(t, m) => t.window >= SettleTime
    BY <1>4, <2>1 DEF Valve!Settled
  <2> QED BY <1>8, <2>2
<1>12. after \in Valve!Test /\ TestGoes(t, after, in, d, starts)
  <2>1. outcome \in {"Aborted", "Result", "NoResponse"}
    BY <1>9
  <2>2. CASE t.running /\ Valve!MustAbort(t, in, d, starts)
    <3>1. after = Valve!End(t, "Aborted")
      BY <1>10, <2>2
    <3> QED BY <1>5, <2>2, <3>1 DEF TestGoes
  <2>3. CASE t.running /\ ~Valve!MustAbort(t, in, d, starts) /\ over
    <3>1. after = Valve!End(t, outcome)
      BY <1>10, <2>3
    <3> QED BY <1>5, <1>11, <2>1, <2>3, <3>1 DEF TestGoes
  <2>4. CASE t.running /\ ~Valve!MustAbort(t, in, d, starts) /\ ~over
    <3>1. after = m
      BY <1>10, <2>4
    <3> QED BY <1>4, <2>4, <3>1 DEF TestGoes
  <2>5. CASE ~t.running
    <3>1. after = IF t.start /\ Valve!MayStart(t, in, d) THEN go ELSE quiet
      BY <1>10, <2>5
    <3> QED BY <1>4, <1>7, <2>5, <3>1 DEF TestGoes
  <2> QED BY <2>2, <2>3, <2>4, <2>5
<1>13. PICK may : may = Valve!MayStart(after, in, d)
  OBVIOUS
<1>14. PICK n : n = Valve!StepTest(t, in, d, starts)
  OBVIOUS
<1>15. n = [after EXCEPT !.cancel = FALSE, !.may = may]
  BY <1>2, <1>3, <1>6, <1>8, <1>9, <1>10, <1>13, <1>14, Zenon DEF Valve!StepTest
<1>16. /\ n.start = after.start /\ n.running = after.running /\ n.age = after.age
       /\ n.window = after.window /\ n.last = after.last
  BY <1>12, <1>15 DEF Valve!Test
<1> QED BY <1>12, <1>14, <1>16 DEF TestGoes

\* PulseFits, in these terms.
PulseStands(t, plant, stroke, k, did, relay, wants, held, pause, s) ==
  /\ t.start \/ t.running => plant = "tested"
  /\ plant = "tested" => stroke = "none"
  /\ t.running => \/ ~relay.on /\ relay.age <= s
                  \/ ~held /\ relay.on /\ wants /\ PulseGoes(k, did, t, pause)

LEMMA PulseFitsMeans ==
  Valve!PulseFits <=> PulseStands(v5, v1, v6, v2, v13, v8, v4.p4, v9, v11 = "pause", v12)
BY DEF Valve!PulseFits, PulseStands, PulseGoes, PulseDone, PulseWaits, PulseRuns, PulseInTime,
   Valve!Done, Valve!Waits, Valve!Runs, Valve!InTime

LEMMA PulseFitsThen ==
  Valve!PulseFits' <=> PulseStands(v5', v1', v6', v2', v13', v8', v4'.p4, v9', v11' = "pause", v12')
<1>1. (Valve!PulseFits <=> PulseStands(v5, v1, v6, v2, v13, v8, v4.p4, v9, v11 = "pause", v12))'
  BY PulseFitsMeans, PTL
<1> QED BY <1>1 DEF PulseStands, PulseGoes, PulseDone, PulseWaits, PulseRuns, PulseInTime, Valve!Due

\* A pulse in time is not over.
LEMMA PulseNotOver ==
  ASSUME NEW k, K1P!Sound(k), NEW did, NEW t \in Valve!Test, NEW pause, PulseGoes(k, did, t, pause),
         t.window >= SettleTime \/ t.age >= Observe
  PROVE  did = [open |-> StepPulse, close |-> 0]
<1>1. CASE PulseDone(k, did)
  BY <1>1 DEF PulseDone
<1>2. CASE (PulseWaits(k, did) \/ PulseRuns(k, did)) /\ PulseInTime(k, t, pause)
  <2>1. Valve!Due(k) >= 0
    BY <1>2, DriverTypes DEF PulseWaits, PulseRuns, Valve!Due
  <2>2. t.window \in Nat /\ t.age \in Nat /\ t.window <= t.age
        /\ t.age + Valve!Due(k) <= StepPulse + 2 * DeadTime
    BY <1>2 DEF Valve!Test, PulseInTime
  <2> QED BY <2>1, <2>2, DriverTypes, TestConstants
<1> QED BY <1>1, <1>2 DEF PulseGoes

\* A pass that leaves the window alone, or opens it anew, changes nothing of that.
LEMMA PulseInPass ==
  ASSUME NEW k, NEW did, NEW t \in Valve!Test, NEW n, n.age = t.age, n.window \in {0, t.window},
         PulseGoes(k, did, t, TRUE)
  PROVE  PulseGoes(k, did, n, FALSE)
<1>1. t.age \in Nat /\ t.window \in Nat
  BY DEF Valve!Test
<1> QED BY <1>1 DEF PulseGoes, PulseInTime

LEMMA PulseInits == Valve!Init => Valve!PulseFits
<1> SUFFICES ASSUME Valve!Init PROVE Valve!PulseFits
  OBVIOUS
<1>1. v5.start = FALSE /\ v5.running = FALSE /\ v6 = "none"
  BY DEF Valve!Init, Valve!NoTest
<1> QED BY <1>1 DEF Valve!PulseFits

\* The relay of the pump: once off in a test, a lock longer than a pass keeps it off.
LEMMA PulseFastPass ==
  ASSUME Lock > SlowPeriod, Valve!ValveFits, Valve!PulseFits, Valve!FastPass
  PROVE  Valve!PulseFits'
<1>1. TypesFit /\ K1P!Sound(v2)
  BY ValveFitsMeans
<1>2. PulseStands(v5, v1, v6, v2, v13, v8, v4.p4, v9, v11 = "pause", v12)
  BY PulseFitsMeans
<1>3. /\ v1' = v1 /\ v4' = v4 /\ v5' = v5 /\ v6' = v6 /\ v12' = v12 /\ v13' = v13
      /\ v11 = "fast" /\ v11' = "pause"
  BY DEF Valve!FastPass
<1>4. /\ v8 \in [on : BOOLEAN, age : Nat] /\ v9 \in BOOLEAN /\ v5 \in Valve!Test
      /\ v12 \in Nat /\ v12 < SlowPeriod /\ Lock \in Nat /\ SlowPeriod \in Nat \ {0}
  <2>1. Lock \in Nat
    BY HomeAssumption DEF HomeAssumption, Valve!MixingValveAssumption
  <2> QED BY <1>1, <1>3, <2>1, ValveConstants DEF TypesFit
<1>5. ASSUME v5.running
      PROVE  \/ ~v8'.on /\ v8'.age <= v12
             \/ ~v9' /\ v8'.on /\ v4.p4 /\ PulseGoes(v2', v13, v5, TRUE)
  <2>1. \A r \in [on : BOOLEAN, age : Nat] :
          ~r.on /\ r.age <= v12 => Valve!P4Followed(r, v4.p4) = r /\ Valve!Followed(r, v4.p4) = r
    BY <1>4 DEF Valve!P4Followed, Valve!Followed
  <2>2. PICK dropped : dropped = Valve!Dropped
    OBVIOUS
  <2>3. (~v8.on /\ v8.age <= v12) \/ v8.on
    BY <1>2, <1>5 DEF PulseStands
  <2>4. dropped \in [on : BOOLEAN, age : Nat] /\ ~dropped.on /\ dropped.age <= v12
    BY <1>4, <2>2, <2>3 DEF Valve!Dropped
  <2>5. CASE v2' = Valve!Plain(Valve!Ticked(v2)) /\ v8' = Valve!P4Followed(v8, v4.p4) /\ v9' = v9
    <3>1. CASE ~v8.on /\ v8.age <= v12
      BY <1>4, <2>1, <2>5, <3>1
    <3>2. CASE ~v9 /\ v8.on /\ v4.p4 /\ PulseGoes(v2, v13, v5, v11 = "pause")
      <4>1. v8' = v8
        BY <2>5, <3>2, <1>1 DEF Valve!P4Followed, Valve!Followed, TypesFit, Valve!Logic
      <4>2. PICK l : l = Valve!K1!Tick(v2)
        OBVIOUS
      <4>3. PulseGoes(l, v13, v5, TRUE) /\ K1P!Sound(l)
        <5>1. K1P!Sound(K1P!Tick(v2))
          BY <1>1, K1P!TickSound, ValveConstants
        <5> QED BY <1>1, <1>4, <3>2, <4>2, <5>1, PulseTicks, OneDriver
      <4>4. v2' = Valve!Plain(l)
        BY <2>5, <3>2, <4>2 DEF Valve!Ticked
      <4>5. SameRun(l, v2')
        BY <4>3, <4>4, TakenAndPlain
      <4>6. PulseGoes(v2', v13, v5, TRUE)
        BY <4>3, <4>5, SamePulse
      <4> QED BY <2>5, <3>2, <4>1, <4>6
    <3> QED BY <1>2, <1>5, <3>1, <3>2 DEF PulseStands
  <2>6. CASE v8' = dropped \/ v8' = Valve!P4Followed(dropped, v4.p4)
    BY <2>1, <2>4, <2>6
  <2>7. CASE v9 /\ v8' = Valve!Followed(v8, v4.p4)
    <3>1. ~v8.on /\ v8.age <= v12
      BY <1>2, <1>5, <2>7 DEF PulseStands
    <3> QED BY <1>4, <2>1, <2>7, <3>1
  <2> QED BY <2>2, <2>5, <2>6, <2>7 DEF Valve!FastPass
<1>6. PulseStands(v5', v1', v6', v2', v13', v8', v4'.p4, v9', v11' = "pause", v12')
  BY <1>2, <1>3, <1>5 DEF PulseStands
<1> QED BY <1>6, PulseFitsThen

LEMMA PulseElapse ==
  ASSUME Valve!ValveFits, Valve!PulseFits, Valve!Elapse
  PROVE  Valve!PulseFits'
<1>1. TypesFit /\ K1P!Sound(v2)
  BY ValveFitsMeans
<1>2. PulseStands(v5, v1, v6, v2, v13, v8, v4.p4, v9, v11 = "pause", v12)
  BY PulseFitsMeans
<1>3. /\ v1' = v1 /\ v6' = v6 /\ v9' = v9 /\ v12' = v12 + 1 /\ v11 = "pause" /\ v11' # "pause"
  BY DEF Valve!Elapse
<1>4. v4'.p4 = v4.p4
  <2>1. PICK s : s = IF v4.needEval THEN 0 ELSE Valve!Older(v4.sinceEval, 1, Period)
    OBVIOUS
  <2>2. v4' = [v4 EXCEPT !.sinceEval = s]
    BY <2>1 DEF Valve!Elapse
  <2> QED BY <1>1, <2>2 DEF TypesFit, Valve!Logic
<1>5. v8'.on = v8.on /\ (~v8.on /\ v8.age <= v12 => v8'.age <= v12')
  <2>1. v8 \in [on : BOOLEAN, age : Nat] /\ v12 \in Nat
    BY <1>1, ValveConstants DEF TypesFit
  <2>2. PICK age : age = Valve!Older(v8.age, 1, Lock)
    OBVIOUS
  <2>3. v8' = [v8 EXCEPT !.age = age]
    BY <2>2 DEF Valve!Elapse
  <2>4. Lock \in Nat
    BY HomeAssumption DEF HomeAssumption, Valve!MixingValveAssumption
  <2>5. age <= v8.age + 1 /\ age \in Nat
    BY <2>1, <2>2, <2>4 DEF Valve!Older
  <2> QED BY <1>3, <2>1, <2>3, <2>5
<1>6. v5 \in Valve!Test /\ v5'.start = v5.start /\ v5'.running = v5.running /\ v5' \in Valve!Test
  <2>1. v5 \in Valve!Test
    BY <1>1 DEF TypesFit
  <2>2. PICK age : age = Valve!Older(v5.age, 1, Observe)
    OBVIOUS
  <2>3. PICK window : window = IF v5.dead THEN Valve!Older(v5.window, 1, SettleTime) ELSE 0
    OBVIOUS
  <2>4. v5' = v5 \/ v5' = [v5 EXCEPT !.age = age, !.window = window]
    BY <2>2, <2>3 DEF Valve!Elapse
  <2>5. v5'.start = v5.start /\ v5'.running = v5.running
    BY <2>1, <2>4 DEF Valve!Test
  <2>6. Valve!ValveFits'
    BY ElapseFits
  <2>7. v5' \in Valve!Test
    BY <2>6, ValveFitsThen DEF TypesFit
  <2> QED BY <2>1, <2>5, <2>7
<1>7. ASSUME v5.running, PulseGoes(v2, v13, v5, TRUE)
      PROVE  PulseGoes(v2', v13', v5', FALSE)
  <2>1. PICK age : age = Valve!Older(v5.age, 1, Observe)
    OBVIOUS
  <2>2. PICK window : window = IF v5.dead THEN Valve!Older(v5.window, 1, SettleTime) ELSE 0
    OBVIOUS
  <2>3. v5' = [v5 EXCEPT !.age = age, !.window = window]
    BY <1>7, <2>1, <2>2 DEF Valve!Elapse
  <2>4. v5'.age = age /\ v5'.window = window
    BY <1>6, <2>3 DEF Valve!Test
  <2>5. PICK l : l = Valve!K1!Aged(v2, 1)
    OBVIOUS
  <2>6. PICK made : made = IF ~v2.power THEN v13
                           ELSE IF v2.dirOpen THEN [v13 EXCEPT !.open = @ + 1] ELSE [v13 EXCEPT !.close = @ + 1]
    OBVIOUS
  <2>7. PulseGoes(l, made, v5', FALSE)
    BY <1>1, <1>6, <1>7, <2>1, <2>2, <2>4, <2>5, <2>6, PulseAges
  <2>8. v2' = Valve!Plain(l) /\ v13' = made
    BY <1>7, <2>5, <2>6 DEF Valve!Elapse
  <2>9. K1P!Sound(l)
    <3>1. K1P!Aged(v2, 1) = l
      BY <2>5, OneDriver
    <3>2. K1P!Sound(K1P!Aged(v2, 1))
      BY <1>1, ValveConstants, K1P!AgedSound
    <3> QED BY <3>1, <3>2
  <2>10. SameRun(l, v2')
    BY <2>8, <2>9, TakenAndPlain
  <2> QED BY <2>7, <2>8, <2>10, SamePulse
<1>8. PulseStands(v5', v1', v6', v2', v13', v8', v4'.p4, v9', v11' = "pause", v12')
  BY <1>2, <1>3, <1>4, <1>5, <1>6, <1>7 DEF PulseStands
<1> QED BY <1>8, PulseFitsThen

\* A slow pass while nothing else may have the driver: the test is the only one to move the valve.
LEMMA PulseSlowPass ==
  ASSUME Lock > SlowPeriod, Valve!ValveFits, Valve!PulseFits, Valve!SlowPass
  PROVE  Valve!PulseFits' /\ Valve!ResultIsOfThePulse
<1>1. TypesFit /\ K1P!Sound(v2) /\ Taking(v2, v12) /\ Lies(v2, v4, v3)
  BY ValveFitsMeans
<1>2. /\ v7' \in ValveReadings[v1] /\ v7' \in Valve!Reading
      /\ v1' = v1 /\ v9' = v9 /\ v11 = "slow" /\ v11' = "fast"
  <2>1. v1 \in ValvePlants /\ v7' \in ValveReadings[v1]
    BY <1>1 DEF TypesFit, Valve!SlowPass
  <2>2. ValveReadings[v1] \subseteq Valve!Reading
    BY <2>1, HomeAssumption DEF HomeAssumption, Valve!MixingValveAssumption
  <2> QED BY <2>1, <2>2 DEF Valve!SlowPass
<1>3. /\ v4 \in Valve!Logic /\ v5 \in Valve!Test /\ v8 \in Relay /\ v9 \in BOOLEAN
      /\ v4.p4 \in BOOLEAN /\ v12 \in 0..SlowPeriod /\ Lock \in Nat /\ SlowPeriod \in Nat
  <2>1. Lock \in Nat
    BY HomeAssumption DEF HomeAssumption, Valve!MixingValveAssumption
  <2>2. v12 \in 0..SlowPeriod /\ SlowPeriod \in Nat
    BY <1>1, <1>2, ValveConstants DEF TypesFit
  <2> QED BY <1>1, <2>1, <2>2 DEF TypesFit, Relay, Valve!Logic
<1>4. PulseStands(v5, v1, v6, v2, v13, v8, v4.p4, v9, FALSE, v12)
  BY <1>2, PulseFitsMeans
<1>5. PICK due, hw, k, relay, in, d, t : PassDoes(due, hw, k, relay, in, d, t)
  BY PassDoesSo
<1>6. /\ in.r = v7' /\ in.motion = k.motion /\ (in.busy <=> k.pending \/ k.running)
      /\ in.held = v9 /\ in.hold = v5.running /\ in.p4Running = (v7'.p4 /\ relay.on)
  BY <1>5 DEF PassDoes, Valve!Inputs, Valve!K1!Busy
\* The stroke and the tick.
<1>7. v1 = "tested" => hw.stroke = "none" /\ (~v9 => hw.k1 = v2)
  <2> SUFFICES ASSUME v1 = "tested" PROVE hw.stroke = "none" /\ (~v9 => hw.k1 = v2)
    OBVIOUS
  <2>1. due = FALSE /\ v6 = "none"
    BY <1>4, <1>5 DEF PulseStands, PassDoes
  <2>2. Valve!StrokeStep(v6, v2, due) = [stroke |-> v6, k1 |-> v2]
    BY <2>1 DEF Valve!StrokeStep
  <2>3. hw = IF v9 THEN [stroke |-> v6, k1 |-> v2] ELSE Valve!StrokeStep(v6, v2, due)
    BY <1>5 DEF PassDoes, PassLeaves
  <2> QED BY <2>1, <2>2, <2>3
<1>8. K1P!Sound(k) /\ \E from : Placed(v4, from)
  <2>1. Single(v2) /\ Harmless(v2, v2)
    BY <1>1, TakingIsSingle DEF Harmless
  <2>2. v6 \in {"none", "open", "close"}
    BY <1>1 DEF TypesFit
  <2>3. Harmless(v2, hw.k1) /\ Single(hw.k1)
    <3>1. CASE v9
      BY <1>5, <2>1, <3>1 DEF PassDoes, PassLeaves
    <3>2. CASE ~v9
      BY <1>1, <1>5, <2>1, <2>2, <3>2, StrokeFits DEF PassDoes, PassLeaves
    <3> QED BY <3>1, <3>2
  <2>4. K1P!Sound(k)
    BY <1>5, <2>3, TickedHarmless DEF Harmless, PassDoes
  <2> QED BY <1>1, <2>4 DEF Lies
\* What the controller decides, and what the test makes of that.
<1>9. /\ in.r \in Valve!Reading /\ in.held \in BOOLEAN /\ in.hold \in BOOLEAN
      /\ in.motion \in [{"open", "close"} -> Nat]
  <2>1. k.motion \in [{"open", "close"} -> Nat]
    BY <1>8 DEF K1P!Sound, K1P!Driver, K1P!Dir
  <2> QED BY <1>2, <1>3, <1>6, <2>1 DEF Valve!Test
<1>10. /\ d.logic.p4 = in.r.p4 /\ d.logic \in Valve!Logic
       /\ in.hold /\ d.logic.mode = "Normal" => d.cmd.ms = 0
  <2>1. PICK from : Placed(v4, from)
    BY <1>8
  <2>2. d = Valve!Decide(v4, in)
    BY <1>5 DEF PassDoes, PassLeaves
  <2> QED BY <1>3, <1>9, <2>1, <2>2, HeldDecide, DecideFits
<1>11. /\ t \in Valve!Test /\ TestGoes(v5, t, in, d, Valve!RecalStarts(v4, in))
       /\ v5' = t
  <2>1. t = Valve!StepTest(v5, in, d, Valve!RecalStarts(v4, in)) /\ v5' = t
    BY <1>5 DEF PassDoes, PassLeaves
  <2> QED BY <1>3, <1>9, <2>1, StepTestGoes, StepTestFits
<1>12. ~Valve!MustAbort(v5, in, d, Valve!RecalStarts(v4, in)) =>
         in.r.p4 /\ in.p4Running /\ d.logic.mode = "Normal"
  BY DEF Valve!MustAbort
\* A test that goes on: its pulse does, unless the pump is off, and then it is aborted.
<1>13. ASSUME v5.running, ~Valve!MustAbort(v5, in, d, Valve!RecalStarts(v4, in))
       PROVE  /\ ~v9 /\ relay.on /\ v4'.p4 /\ PulseGoes(k, v13, v5, TRUE)
              /\ k = Valve!K1!Tick(v2) /\ v13' = v13
              /\ v2' = Valve!Plain(Valve!K1!TakeMotion(k))
  <2>1. relay.on /\ relay = Valve!P4Followed(v8, v4.p4)
    BY <1>5, <1>6, <1>12, <1>13 DEF PassDoes, PassLeaves
  <2>2. ~(~v8.on /\ v8.age <= v12)
    <3> SUFFICES ASSUME ~v8.on, v8.age <= v12 PROVE FALSE
      OBVIOUS
    <3>1. v8.age < Lock /\ v8.age \in Nat
      BY <1>3 DEF Relay
    <3>2. relay = v8
      BY <1>3, <2>1, <3>1 DEF Valve!P4Followed, Valve!Followed
    <3> QED BY <2>1, <3>2
  <2>3. ~v9 /\ v8.on /\ v4.p4 /\ PulseGoes(v2, v13, v5, FALSE)
    BY <1>4, <1>13, <2>2 DEF PulseStands
  <2>4. hw.k1 = v2
    BY <1>4, <1>7, <1>13, <2>3 DEF PulseStands
  <2>5. k = Valve!K1!Tick(v2)
    BY <1>5, <2>3, <2>4 DEF PassDoes, Valve!Ticked
  <2>6. PulseGoes(k, v13, v5, TRUE)
    BY <1>1, <1>3, <2>3, <2>5, PulseTicks
  <2>7. v4'.p4
    BY <1>5, <1>10, <1>12, <1>13 DEF PassDoes, PassLeaves
  <2>8. d.cmd.ms = 0
    BY <1>6, <1>10, <1>12, <1>13
  <2>9. \A m, c : c.ms = 0 => Valve!Pulsed(m, c) = m
    <3>1. ~Valve!K1!Accepted(0)
      BY ValveConstants DEF Valve!K1!Accepted
    <3> QED BY <3>1 DEF Valve!Pulsed, Valve!K1!RequestPulse
  <2>10. PICK m : m = Valve!K1!TakeMotion(k)
    OBVIOUS
  <2>11. v2' = Valve!Plain(Valve!Pulsed(Valve!Pulsed(m, d.cmd), Valve!NoMove)) /\ v13' = v13
    BY <1>5, <1>13, <2>10 DEF PassDoes, PassLeaves
  <2>12. Valve!Pulsed(m, d.cmd) = m /\ Valve!Pulsed(m, Valve!NoMove) = m
    <3>1. Valve!NoMove.ms = 0
      BY DEF Valve!NoMove
    <3> QED BY <2>8, <2>9, <3>1
  <2>13. v2' = Valve!Plain(m)
    BY <2>11, <2>12
  <2> QED BY <2>1, <2>3, <2>5, <2>6, <2>7, <2>10, <2>11, <2>13
<1>14. ASSUME v5.running, t.running
       PROVE  ~v9' /\ v8'.on /\ v4'.p4 /\ PulseGoes(v2', v13', v5', FALSE)
  <2>1. ~Valve!MustAbort(v5, in, d, Valve!RecalStarts(v4, in)) /\ t.age = v5.age /\ t.window \in {0, v5.window}
    BY <1>11, <1>14 DEF TestGoes
  <2>2. PulseGoes(k, v13, t, FALSE)
    BY <1>3, <1>13, <1>14, <2>1, PulseInPass
  <2>3. PICK m : m = Valve!K1!TakeMotion(k)
    OBVIOUS
  <2>4. K1P!Sound(m) /\ SameRun(k, m)
    <3>1. K1P!TakeMotion(k) = m
      BY <2>3, OneDriver
    <3> QED BY <1>8, <2>3, <3>1, ValveConstants, K1P!TakeMotionSound, TakenAndPlain
  <2>5. PulseGoes(m, v13, t, FALSE)
    BY <2>2, <2>4, SamePulse
  <2>6. v2' = Valve!Plain(m) /\ SameRun(m, Valve!Plain(m))
    BY <1>13, <1>14, <2>1, <2>3, <2>4, TakenAndPlain
  <2>7. PulseGoes(v2', v13, t, FALSE)
    BY <2>5, <2>6, SamePulse
  <2>8. v8' = relay
    BY <1>5 DEF PassDoes, PassLeaves
  <2> QED BY <1>2, <1>11, <1>13, <1>14, <2>1, <2>7, <2>8
\* A test that starts.
<1>15. ASSUME ~v5.running, t.running
       PROVE  ~v9' /\ v8'.on /\ v4'.p4 /\ PulseGoes(v2', v13', v5', FALSE)
  <2>1. Valve!MayStart(v5, in, d) /\ t.age = 0 /\ t.window = 0
    BY <1>11, <1>15 DEF TestGoes
  <2>2. ~v9 /\ relay.on /\ in.r.p4 /\ ~k.pending /\ ~k.running /\ d.cmd.ms = 0
    BY <1>6, <2>1 DEF Valve!MayStart
  <2>3. StepPulse < Travel
    <3>1. d.logic.pct + StepPulse < Travel /\ d.logic.pct \in 0..Travel
      BY <1>10, <2>1 DEF Valve!MayStart, Valve!Logic
    <3> QED BY <3>1, ValveConstants, TestConstants
  <2>4. PICK m : m = Valve!K1!TakeMotion(k)
    OBVIOUS
  <2>5. K1P!Sound(m) /\ ~m.running /\ ~m.pending
    <3>1. K1P!TakeMotion(k) = m
      BY <2>4, OneDriver
    <3>2. SameRun(k, m)
      BY <1>8, <2>4, TakenAndPlain
    <3> QED BY <1>8, <2>2, <3>1, <3>2, ValveConstants, K1P!TakeMotionSound DEF SameRun
  <2>6. Valve!Pulsed(m, d.cmd) = m
    <3>1. ~Valve!K1!Accepted(0)
      BY ValveConstants DEF Valve!K1!Accepted
    <3> QED BY <2>2, <3>1 DEF Valve!Pulsed, Valve!K1!RequestPulse
  <2>7. PICK l : l = Valve!Pulsed(m, Valve!Open(StepPulse))
    OBVIOUS
  <2>8. v2' = Valve!Plain(l) /\ v13' = [open |-> 0, close |-> 0] /\ v8' = relay /\ v4' = d.logic
    BY <1>5, <1>15, <2>4, <2>6, <2>7 DEF PassDoes, PassLeaves
  <2>9. PulseGoes(l, v13', t, FALSE)
    BY <2>1, <2>3, <2>5, <2>7, <2>8, PulseStarts
  <2>10. K1P!Sound(l)
    <3>1. l = Valve!K1!RequestPulse(m, "open", StepPulse, "Control")
      BY <2>7 DEF Valve!Pulsed, Valve!Open
    <3> QED BY <2>5, <3>1, RequestHarmless DEF Harmless, Single
  <2>11. PulseGoes(v2', v13', t, FALSE)
    BY <2>8, <2>9, <2>10, TakenAndPlain, SamePulse
  <2> QED BY <1>2, <1>10, <1>11, <2>2, <2>8, <2>11
<1>16. Valve!PulseFits'
  <2>1. t.start \/ t.running => v1 = "tested"
    BY <1>4, <1>11 DEF PulseStands, TestGoes
  <2>2. v1 = "tested" => v6' = "none"
    BY <1>5, <1>7 DEF PassDoes, PassLeaves
  <2>3. PulseStands(v5', v1', v6', v2', v13', v8', v4'.p4, v9', v11' = "pause", v12')
    BY <1>2, <1>11, <1>14, <1>15, <2>1, <2>2 DEF PulseStands
  <2> QED BY <2>3, PulseFitsThen
<1>17. Valve!ResultIsOfThePulse
  <2> SUFFICES ASSUME v5.running, ~v5'.running, v5'.last = "Result"
               PROVE  v13 = [open |-> StepPulse, close |-> 0]
    BY DEF Valve!ResultIsOfThePulse
  <2>1. /\ ~Valve!MustAbort(v5, in, d, Valve!RecalStarts(v4, in))
        /\ v5.window >= SettleTime \/ v5.age >= Observe
    BY <1>11 DEF TestGoes
  <2> QED BY <1>3, <1>8, <1>13, <2>1, PulseNotOver
<1> QED BY <1>16, <1>17

\* The two commands of the page, and a restart.
LEMMA PulseCommands ==
  ASSUME Valve!ValveFits, Valve!PulseFits, Valve!StartTest \/ Valve!CancelTest
  PROVE  Valve!PulseFits' /\ v5'.running = v5.running
<1>1. PulseStands(v5, v1, v6, v2, v13, v8, v4.p4, v9, v11 = "pause", v12)
  BY PulseFitsMeans
<1>2. /\ v1' = v1 /\ v2' = v2 /\ v4' = v4 /\ v6' = v6 /\ v8' = v8
      /\ v9' = v9 /\ v11' = v11 /\ v12' = v12 /\ v13' = v13
  BY DEF Valve!StartTest, Valve!CancelTest
<1>3. v5 \in Valve!Test
  BY ValveFitsMeans DEF TypesFit
<1>4. /\ v5'.running = v5.running /\ v5'.age = v5.age /\ v5'.window = v5.window
      /\ v5'.start => v1 = "tested"
  <2>1. CASE Valve!StartTest
    BY <1>3, <2>1 DEF Valve!StartTest, Valve!Test
  <2>2. CASE Valve!CancelTest
    <3>1. v5' = [v5 EXCEPT !.cancel = v5.running, !.start = FALSE]
      BY <2>2 DEF Valve!CancelTest
    <3> QED BY <1>3, <3>1 DEF Valve!Test
  <2> QED BY <2>1, <2>2
<1>5. PulseStands(v5', v1', v6', v2', v13', v8', v4'.p4, v9', v11' = "pause", v12')
  BY <1>1, <1>2, <1>4 DEF PulseStands, PulseGoes, PulseInTime
<1> QED BY <1>4, <1>5, PulseFitsThen

LEMMA PulseRestarts == Valve!Restart => Valve!PulseFits' /\ v5'.last # "Result"
<1> SUFFICES ASSUME Valve!Restart PROVE Valve!PulseFits' /\ v5'.last # "Result"
  OBVIOUS
<1>1. v5' = Valve!NoTest /\ v6' = "none"
  BY DEF Valve!Restart, Valve!Fresh
<1>2. v5'.start = FALSE /\ v5'.running = FALSE /\ v5'.last = "None"
  BY <1>1 DEF Valve!NoTest
<1>3. PulseStands(v5', v1', v6', v2', v13', v8', v4'.p4, v9', v11' = "pause", v12')
  BY <1>1, <1>2 DEF PulseStands
<1> QED BY <1>2, <1>3, PulseFitsThen

LEMMA PulseKeeps ==
  ASSUME Lock > SlowPeriod, Valve!ValveFits, Valve!PulseFits, [Valve!Next]_(Valve!vars)
  PROVE  Valve!PulseFits' /\ Valve!ResultIsOfThePulse
<1>1. CASE Valve!StartTest \/ Valve!CancelTest
  BY <1>1, PulseCommands DEF Valve!ResultIsOfThePulse
<1>2. CASE Valve!SlowPass
  BY <1>2, PulseSlowPass
<1>3. CASE Valve!FastPass
  <2>1. v5' = v5
    BY <1>3 DEF Valve!FastPass
  <2> QED BY <1>3, <2>1, PulseFastPass DEF Valve!ResultIsOfThePulse
<1>4. CASE Valve!Elapse
  <2>1. v5 \in Valve!Test
    BY ValveFitsMeans DEF TypesFit
  <2>2. PICK age, window : v5' = v5 \/ v5' = [v5 EXCEPT !.age = age, !.window = window]
    BY <1>4 DEF Valve!Elapse
  <2>3. v5'.running = v5.running
    BY <2>1, <2>2 DEF Valve!Test
  <2> QED BY <1>4, <2>3, PulseElapse DEF Valve!ResultIsOfThePulse
<1>5. CASE Valve!Restart
  BY <1>5, PulseRestarts DEF Valve!ResultIsOfThePulse
<1>6. CASE UNCHANGED Valve!vars
  <2>1. PulseStands(v5, v1, v6, v2, v13, v8, v4.p4, v9, v11 = "pause", v12)
    BY PulseFitsMeans
  <2>2. PulseStands(v5', v1', v6', v2', v13', v8', v4'.p4, v9', v11' = "pause", v12') /\ v5' = v5
    BY <1>6, <2>1 DEF Valve!vars
  <2> QED BY <2>2, PulseFitsThen DEF Valve!ResultIsOfThePulse
<1> QED BY <1>1, <1>2, <1>3, <1>4, <1>5, <1>6 DEF Valve!Next

PulseIsFit == part = "valve" => Valve!PulseFits

\* K1StepTest: a result is measured on the whole pulse of the test and on nothing else, for
\* any pulse, times, readings and firmware updates, when the lock of the pump's relay is
\* longer than a pass.
THEOREM ResultsAreMeasured ==
  ASSUME Lock > SlowPeriod
  PROVE  Spec => ResultIsOfThePulse
<1>1. Init => PulseIsFit
  BY PulseInits DEF Init, PulseIsFit
<1>2. ASSUME ValveIsFit, PulseIsFit, [Next]_vars, part' = "valve"
      PROVE  Valve!PulseFits' /\ Valve!ResultIsOfThePulse /\ part = "valve"
  <2>1. part = "valve" /\ [Valve!Next]_(Valve!vars)
    <3>1. CASE Next
      BY <1>2, <3>1 DEF Next
    <3>2. CASE UNCHANGED vars
      BY <1>2, <3>2 DEF vars, Valve!vars
    <3> QED BY <1>2, <3>1, <3>2
  <2> QED BY <1>2, <2>1, PulseKeeps DEF ValveIsFit, PulseIsFit
<1>3. ValveIsFit /\ PulseIsFit /\ [Next]_vars => PulseIsFit'
  BY <1>2 DEF PulseIsFit
<1>4. ValveIsFit /\ PulseIsFit /\ [Next]_vars => [part = "valve" => Valve!ResultIsOfThePulse]_vars
  <2> SUFFICES ASSUME ValveIsFit, PulseIsFit, [Next]_vars, part = "valve"
               PROVE  Valve!ResultIsOfThePulse
    OBVIOUS
  <2>1. part' = "valve"
    BY DEF Next, vars
  <2> QED BY <1>2, <2>1
<1> QED BY <1>1, <1>3, <1>4, ValveStaysFit, PTL DEF Spec, ResultIsOfThePulse

-----------------------------------------------------------------------------
(* The settings: values and keys.                                          *)

\* A setting's bounds are numbers, its default is within them; no setting is numbered 0.
LEMMA SchemaHolds ==
  ASSUME Config!ConfigStoreAssumption
  PROVE  /\ Len(Descriptor) \in Nat /\ Config!Setting = 1..Len(Descriptor)
         /\ \A s \in Config!Setting :
              /\ s \in Nat \ {0}
              /\ Descriptor[s].low \in Int /\ Descriptor[s].high \in Int /\ Descriptor[s].default \in Int
              /\ Descriptor[s].low <= Descriptor[s].default /\ Descriptor[s].default <= Descriptor[s].high
         /\ Version \in Nat \ {0}
         /\ Len(Renames) \in Nat
         /\ \A i \in 1..Len(Renames) : Renames[i].setting \in Config!Setting /\ Renames[i].to \in Int
         /\ Absent \notin Int /\ Odd \notin Int /\ NaN \notin Int /\ Absent # Odd
<1>1. Descriptor \in Seq([type : {"Number", "Text"}, low : Int, high : Int, default : Int])
  BY DEF Config!ConfigStoreAssumption, Config!ValidSchema
<1>2. Renames \in Seq([to : Int, setting : Config!Setting])
  BY DEF Config!ConfigStoreAssumption, Config!ValidSchema
<1>3. Len(Descriptor) \in Nat /\ Config!Setting = 1..Len(Descriptor)
  BY <1>1 DEF Config!Setting
<1>4. \A s \in Config!Setting : /\ Descriptor[s].low <= Descriptor[s].default
                                /\ Descriptor[s].default <= Descriptor[s].high
  BY DEF Config!ConfigStoreAssumption, Config!ValidSchema
<1>5. \A s \in Config!Setting :
        /\ s \in Nat \ {0}
        /\ Descriptor[s].low \in Int /\ Descriptor[s].high \in Int /\ Descriptor[s].default \in Int
  <2> SUFFICES ASSUME NEW s \in Config!Setting
               PROVE  /\ s \in Nat \ {0}
                      /\ Descriptor[s].low \in Int /\ Descriptor[s].high \in Int /\ Descriptor[s].default \in Int
    OBVIOUS
  <2>1. s \in 1..Len(Descriptor)
    BY <1>3
  <2>2. Descriptor[s] \in [type : {"Number", "Text"}, low : Int, high : Int, default : Int]
    <3> DEFINE Row == [type : {"Number", "Text"}, low : Int, high : Int, default : Int]
    <3>1. Descriptor \in Seq(Row)
      BY <1>1
    <3> HIDE DEF Row
    <3>2. Descriptor[s] \in Row
      BY <2>1, <3>1
    <3> QED BY <3>2 DEF Row
  <2> QED BY <1>3, <2>1, <2>2
<1>6. Len(Renames) \in Nat /\ \A i \in 1..Len(Renames) : Renames[i].setting \in Config!Setting /\ Renames[i].to \in Int
  <2>1. Len(Renames) \in Nat
    BY <1>2
  <2>2. ASSUME NEW i \in 1..Len(Renames) PROVE Renames[i] \in [to : Int, setting : Config!Setting]
    <3> DEFINE Row == [to : Int, setting : Config!Setting]
    <3>1. Renames \in Seq(Row)
      BY <1>2
    <3> HIDE DEF Row
    <3>2. Renames[i] \in Row
      BY <3>1
    <3> QED BY <3>2 DEF Row
  <2> QED BY <2>1, <2>2
<1>7. Version \in Nat \ {0} /\ Absent \notin Int /\ Odd \notin Int /\ NaN \notin Int /\ Absent # Odd
  BY DEF Config!ConfigStoreAssumption, Config!ValidSchema
<1> QED BY <1>3, <1>4, <1>5, <1>6, <1>7

\* A number within the bounds of a setting.
Proper(s, v) == v \in Int /\ Descriptor[s].low <= v /\ v <= Descriptor[s].high

\* It is used as it is.
LEMMA ProperFits ==
  ASSUME Config!ConfigStoreAssumption, NEW s \in Config!Setting, NEW v, Proper(s, v)
  PROVE  Config!Fit(s, v) = v
<1>1. /\ Descriptor[s].low \in Int /\ Descriptor[s].high \in Int
      /\ Absent \notin Int /\ Odd \notin Int /\ NaN \notin Int
  BY SchemaHolds
<1>2. v \in Int /\ Descriptor[s].low <= v /\ v <= Descriptor[s].high
  BY DEF Proper
<1>3. Config!Usable(s, v)
  BY <1>1, <1>2 DEF Config!Usable, Config!Refused, Config!Fits
<1>4. Config!Clamped(s, v) = v
  BY <1>1, <1>2 DEF Config!Clamped, Config!Lowest, Config!Highest
<1> QED BY <1>3, <1>4 DEF Config!Fit

\* A number that is clamped is within the bounds.
LEMMA ClampedIsProper ==
  ASSUME Config!ConfigStoreAssumption, NEW s \in Config!Setting, NEW v \in Int
  PROVE  Proper(s, Config!Clamped(s, v))
<1>1. /\ Descriptor[s].low \in Int /\ Descriptor[s].high \in Int /\ Descriptor[s].default \in Int
      /\ Descriptor[s].low <= Descriptor[s].default /\ Descriptor[s].default <= Descriptor[s].high
  BY SchemaHolds
<1> QED BY <1>1 DEF Proper, Config!Clamped, Config!Lowest, Config!Highest

\* So is what is made of a value that is found.
LEMMA FitIsProper ==
  ASSUME Config!ConfigStoreAssumption, NEW s \in Config!Setting, NEW v \in Int \cup {Absent, Odd}
  PROVE  Proper(s, Config!Fit(s, v))
<1>1. Proper(s, Descriptor[s].default)
  BY SchemaHolds DEF Proper
<1>2. CASE Config!Usable(s, v)
  <2>1. v \in Int
    BY <1>2 DEF Config!Usable
  <2> QED BY <1>2, <2>1, ClampedIsProper DEF Config!Fit
<1>3. CASE ~Config!Usable(s, v)
  BY <1>1, <1>3 DEF Config!Fit
<1> QED BY <1>2, <1>3

\* The keys are there, and they are different.
LEMMA KeysApart ==
  ASSUME Config!ConfigStoreAssumption
  PROVE  /\ Config!VersionKey \in Config!Key /\ Config!VersionKey[1] = 0 /\ Config!VersionKey[2] = "cfgVer"
         /\ \A s \in Config!Setting :
              /\ Config!Now(s) \in Config!Key /\ Config!Now(s)[1] = s /\ Config!Now(s)[2] = "now"
              /\ Config!Old(s) \in Config!Key /\ Config!Old(s)[1] = s /\ Config!Old(s)[2] = "old"
              /\ Config!Now(s) # Config!VersionKey /\ Config!Old(s) # Config!VersionKey
         /\ \A s, t \in Config!Setting :
              /\ Config!Now(s) # Config!Old(t)
              /\ s # t => Config!Now(s) # Config!Now(t) /\ Config!Old(s) # Config!Old(t)
         /\ \A k \in Config!Key :
              k = Config!VersionKey \/ \E s \in Config!Setting : k = Config!Now(s) \/ k = Config!Old(s)
<1>1. \A s \in Config!Setting : s # 0
  BY SchemaHolds
<1> QED BY <1>1 DEF Config!Key, Config!Now, Config!Old, Config!VersionKey

-----------------------------------------------------------------------------
(* What the next start makes of a flash.                                   *)

Migrates(f, s) == /\ f[Config!VersionKey] # Odd /\ Config!StoredVersion(f) < Version
                  /\ Config!Reached(f, s, Len(Renames))

\* The value that counts: the one under the old key, if it will be renamed.
Worth(f, s) == IF Migrates(f, s) /\ f[Config!Now(s)] = Absent /\ f[Config!Old(s)] # Odd
               THEN f[Config!Old(s)] ELSE f[Config!Now(s)]

\* The first n renames, key by key.
LEMMA MovedIs ==
  ASSUME Config!ConfigStoreAssumption, NEW f \in Config!Contents, NEW bad, NEW n \in 0..Len(Renames)
  PROVE  LET g == Config!Moved(f, bad, n)
         IN /\ g \in Config!Contents
            /\ g[Config!VersionKey] = f[Config!VersionKey]
            /\ \A s \in Config!Setting :
                 /\ g[Config!Now(s)] = IF Config!Reached(f, s, n) THEN Config!Copied(f, s, bad) ELSE f[Config!Now(s)]
                 /\ g[Config!Old(s)] = IF Config!Reached(f, s, n) /\ <<"remove", s>> \notin bad
                                       THEN Absent ELSE f[Config!Old(s)]
<1> DEFINE g == Config!Moved(f, bad, n)
<1>1. \A k \in Config!Key : f[k] \in Int \cup {Absent, Odd}
  BY DEF Config!Contents
<1>2. g = [k \in Config!Key |-> IF ~Config!Reached(f, k[1], n) THEN f[k]
             ELSE IF k[2] = "now" THEN Config!Copied(f, k[1], bad)
             ELSE IF <<"remove", k[1]>> \in bad THEN f[k] ELSE Absent]
  BY DEF Config!Moved
<1> HIDE DEF g
<1>3. ~Config!Reached(f, 0, n)
  BY SchemaHolds DEF Config!Reached
<1>4. g[Config!VersionKey] = f[Config!VersionKey]
  BY <1>2, <1>3, KeysApart
<1>5. ASSUME NEW s \in Config!Setting
      PROVE  /\ g[Config!Now(s)] = IF Config!Reached(f, s, n) THEN Config!Copied(f, s, bad) ELSE f[Config!Now(s)]
             /\ g[Config!Old(s)] = IF Config!Reached(f, s, n) /\ <<"remove", s>> \notin bad
                                   THEN Absent ELSE f[Config!Old(s)]
             /\ Config!Copied(f, s, bad) \in Int \cup {Absent, Odd}
  <2>1. /\ Config!Now(s) \in Config!Key /\ Config!Now(s)[1] = s /\ Config!Now(s)[2] = "now"
        /\ Config!Old(s) \in Config!Key /\ Config!Old(s)[1] = s /\ Config!Old(s)[2] = "old"
    BY KeysApart
  <2>2. Config!Copied(f, s, bad) \in Int \cup {Absent, Odd}
    BY <1>1, <2>1 DEF Config!Copied
  <2> QED BY <1>2, <2>1, <2>2
<1>6. ASSUME NEW k \in Config!Key PROVE g[k] \in Int \cup {Absent, Odd}
  <2>1. CASE k = Config!VersionKey
    BY <1>1, <1>4, <2>1
  <2>2. CASE \E s \in Config!Setting : k = Config!Now(s) \/ k = Config!Old(s)
    <3>1. PICK s \in Config!Setting : k = Config!Now(s) \/ k = Config!Old(s)
      BY <2>2
    <3>2. Config!Now(s) \in Config!Key /\ Config!Old(s) \in Config!Key
      BY KeysApart
    <3>3. g[Config!Now(s)] \in Int \cup {Absent, Odd}
      BY <1>1, <1>5, <3>2
    <3>4. g[Config!Old(s)] \in Int \cup {Absent, Odd}
      BY <1>1, <1>5, <3>2
    <3> QED BY <3>1, <3>3, <3>4
  <2> QED BY <2>1, <2>2, KeysApart
<1>7. g \in Config!Contents
  BY <1>2, <1>6 DEF Config!Contents
<1> QED BY <1>4, <1>5, <1>7 DEF g

\* What the first start makes of f is the value that counts, if it is fit.
LEMMA EffectiveIs ==
  ASSUME Config!ConfigStoreAssumption, NEW f \in Config!Contents, NEW s \in Config!Setting
  PROVE  Config!Effective(f)[s] = Config!Fit(s, Worth(f, s))
<1> DEFINE m == Len(Renames)
           g == Config!Moved(f, {}, m)
           mig == Config!Migrated(Config!Left(f), {})
<1>1. m \in 0..m
  BY SchemaHolds
<1>2. /\ g \in Config!Contents
      /\ g[Config!Now(s)] = IF Config!Reached(f, s, m) THEN Config!Copied(f, s, {}) ELSE f[Config!Now(s)]
  BY <1>1, MovedIs
<1>3. Config!Left(f).seen = f
  BY DEF Config!Left
<1>4. Config!VersionUnread(f, {}) <=> f[Config!VersionKey] = Odd
  BY DEF Config!VersionUnread
<1>5. Config!Effective(f)[s] = Config!Fit(s, mig.seen[Config!Now(s)])
  BY DEF Config!Effective, Config!Loaded
<1>6. Config!Copied(f, s, {}) = IF f[Config!Now(s)] = Absent /\ f[Config!Old(s)] # Odd
                                THEN f[Config!Old(s)] ELSE f[Config!Now(s)]
  BY DEF Config!Copied
<1>7. CASE f[Config!VersionKey] = Odd \/ Config!StoredVersion(f) >= Version
  <2>1. mig = Config!Left(f)
    BY <1>3, <1>4, <1>7 DEF Config!Migrated
  <2>2. ~Migrates(f, s)
    <3>1. Config!StoredVersion(f) \in Int /\ Version \in Int
      BY SchemaHolds, KeysApart DEF Config!StoredVersion, Config!Contents
    <3> QED BY <1>7, <3>1 DEF Migrates
  <2> QED BY <1>3, <1>5, <2>1, <2>2 DEF Worth
<1>8. CASE ~(f[Config!VersionKey] = Odd \/ Config!StoredVersion(f) >= Version)
  <2>1. mig.seen = [g EXCEPT ![Config!VersionKey] = Version]
    BY <1>3, <1>4, <1>8 DEF Config!Migrated, Config!Written, Config!Through
  <2>2. mig.seen[Config!Now(s)] = g[Config!Now(s)]
    <3> HIDE DEF g, mig
    <3>1. Config!Now(s) \in Config!Key /\ Config!Now(s) # Config!VersionKey
      BY KeysApart
    <3> QED BY <1>2, <2>1, <3>1 DEF Config!Contents
  <2>3. Migrates(f, s) <=> Config!Reached(f, s, m)
    <3>1. Config!StoredVersion(f) \in Int /\ Version \in Int
      BY SchemaHolds, KeysApart DEF Config!StoredVersion, Config!Contents
    <3> QED BY <1>8, <3>1 DEF Migrates
  <2>4. mig.seen[Config!Now(s)] = Worth(f, s)
    <3> HIDE DEF g, mig, m
    <3> QED BY <1>2, <1>6, <2>2, <2>3 DEF Worth
  <2> QED BY <1>5, <2>4
<1> QED BY <1>7, <1>8

\* Only the version and the renames tell whether one has come to a setting.
LEMMA ReachedByVersion ==
  ASSUME NEW f, NEW g, NEW s, NEW n, g[Config!VersionKey] = f[Config!VersionKey]
  PROVE  Config!Reached(g, s, n) <=> Config!Reached(f, s, n)
<1>1. Config!StoredVersion(g) = Config!StoredVersion(f)
  BY DEF Config!StoredVersion
<1> QED BY <1>1 DEF Config!Reached

\* The stored version is a number, and so is what may count of a setting, if it is there.
LEMMA WorthIsContent ==
  ASSUME Config!ConfigStoreAssumption, NEW f \in Config!Contents, NEW s \in Config!Setting
  PROVE  /\ Config!StoredVersion(f) \in Int
         /\ Worth(f, s) \in Int \cup {Absent, Odd}
         /\ Proper(s, Config!Effective(f)[s]) /\ Config!Effective(f)[s] \in Int
<1>1. \A k \in Config!Key : f[k] \in Int \cup {Absent, Odd}
  BY DEF Config!Contents
<1>2. Config!Now(s) \in Config!Key /\ Config!Old(s) \in Config!Key /\ Config!VersionKey \in Config!Key
  BY KeysApart
<1>3. Config!StoredVersion(f) \in Int
  BY <1>1, <1>2 DEF Config!StoredVersion
<1>4. Worth(f, s) \in Int \cup {Absent, Odd}
  BY <1>1, <1>2 DEF Worth
<1>5. Proper(s, Config!Effective(f)[s])
  BY <1>4, EffectiveIs, FitIsProper
<1> QED BY <1>3, <1>4, <1>5 DEF Proper

\* What is not there comes up with the default.
LEMMA AbsentIsDefault ==
  ASSUME NEW s
  PROVE  Config!Fit(s, Absent) = Descriptor[s].default
BY DEF Config!Fit, Config!Usable

\* What a flash may be, seen from f, while a start renames: the new key first, the old one
\* after it, the version last.
Between(f, g, s, bad) ==
  LET reached == Config!Reached(f, s, Len(Renames))
      copied  == g[Config!Now(s)] = Config!Copied(f, s, bad)
  IN /\ \/ g[Config!VersionKey] = f[Config!VersionKey]
        \/ g[Config!VersionKey] = Version /\ (reached => copied)
     /\ g[Config!Now(s)] = f[Config!Now(s)] \/ (reached /\ copied)
     /\ g[Config!Old(s)] = f[Config!Old(s)] \/ (reached /\ copied /\ g[Config!Old(s)] = Absent)

\* The renaming fails, and the value is lost with it.
Spoilt(f, s, bad) == s \in Config!LostIn(f, bad)

LEMMA NothingSpoilt ==
  ASSUME NEW f, NEW s
  PROVE  ~Spoilt(f, s, {})
BY DEF Spoilt, Config!LostIn, Config!Copied

\* All of these are worth the same, unless the renaming fails.
LEMMA BetweenKeepsWorth ==
  ASSUME Config!ConfigStoreAssumption, NEW f \in Config!Contents, NEW g \in Config!Contents,
         NEW s \in Config!Setting, NEW bad,
         ~Config!VersionUnread(f, bad), Config!StoredVersion(f) < Version, Between(f, g, s, bad)
  PROVE  Worth(g, s) = Worth(f, s) \/ (Worth(g, s) = Absent /\ Spoilt(f, s, bad))
<1> DEFINE reached == Config!Reached(f, s, Len(Renames))
           fn == f[Config!Now(s)]
           fo == f[Config!Old(s)]
           gn == g[Config!Now(s)]
           go == g[Config!Old(s)]
           cp == Config!Copied(f, s, bad)
<1>1. /\ cp = (IF fn = Absent /\ fo # Odd THEN fo ELSE fn) \/ (fn = Absent /\ cp = fn)
      /\ reached /\ fn = Absent /\ fo \notin {Absent, Odd} /\ cp = Absent => Spoilt(f, s, bad)
  BY DEF Config!Copied, Config!LostIn, Spoilt
<1>v. f[Config!VersionKey] # Odd
  BY DEF Config!VersionUnread
<1>2. Migrates(f, s) <=> reached
  BY <1>v DEF Migrates
<1>3. Worth(f, s) = IF reached /\ fn = Absent /\ fo # Odd THEN fo ELSE fn
  BY <1>2 DEF Worth
<1>4. /\ gn = fn \/ (reached /\ gn = cp)
      /\ go = fo \/ (reached /\ gn = cp /\ go = Absent)
  BY DEF Between
<1>5. Absent # Odd
  BY SchemaHolds
<1>6. CASE g[Config!VersionKey] = f[Config!VersionKey]
  <2>1. Migrates(g, s) <=> reached
    <3>1. Config!StoredVersion(g) = Config!StoredVersion(f)
      BY <1>6 DEF Config!StoredVersion
    <3>2. Config!Reached(g, s, Len(Renames)) <=> reached
      BY <1>6, ReachedByVersion
    <3> QED BY <1>6, <1>v, <3>1, <3>2 DEF Migrates
  <2>2. Worth(g, s) = IF reached /\ gn = Absent /\ go # Odd THEN go ELSE gn
    BY <2>1 DEF Worth
  <2> HIDE DEF reached, fn, fo, gn, go, cp
  <2> QED BY <1>1, <1>3, <1>4, <1>5, <2>2
<1>7. CASE g[Config!VersionKey] = Version /\ (reached => gn = cp)
  <2>1. ~Migrates(g, s)
    <3>1. Version \in Int /\ Absent \notin Int /\ Odd \notin Int
      BY SchemaHolds
    <3>2. Config!StoredVersion(g) = Version
      BY <1>7, <3>1 DEF Config!StoredVersion
    <3> QED BY <3>1, <3>2 DEF Migrates
  <2>2. Worth(g, s) = gn
    BY <2>1 DEF Worth
  <2> HIDE DEF reached, fn, fo, gn, go, cp
  <2> QED BY <1>1, <1>3, <1>4, <1>5, <1>7, <2>2
<1> QED BY <1>6, <1>7 DEF Between

\* Moved and Midway are such flashes.
LEMMA MovedIsBetween ==
  ASSUME Config!ConfigStoreAssumption, NEW f \in Config!Contents, NEW bad, NEW n \in 0..Len(Renames),
         NEW s \in Config!Setting
  PROVE  Between(f, Config!Moved(f, bad, n), s, bad)
<1> DEFINE g == Config!Moved(f, bad, n)
<1>1. /\ g[Config!VersionKey] = f[Config!VersionKey]
      /\ g[Config!Now(s)] = IF Config!Reached(f, s, n) THEN Config!Copied(f, s, bad) ELSE f[Config!Now(s)]
      /\ g[Config!Old(s)] = IF Config!Reached(f, s, n) /\ <<"remove", s>> \notin bad
                            THEN Absent ELSE f[Config!Old(s)]
  BY MovedIs
<1>2. Config!Reached(f, s, n) => Config!Reached(f, s, Len(Renames))
  BY SchemaHolds DEF Config!Reached
<1> HIDE DEF g
<1>3. Between(f, g, s, bad)
  BY <1>1, <1>2 DEF Between
<1> QED BY <1>3 DEF g

LEMMA MidwayIsBetween ==
  ASSUME Config!ConfigStoreAssumption, NEW f \in Config!Contents, NEW bad, NEW n \in 1..Len(Renames)
  PROVE  /\ Config!Midway(f, bad, n) \in Config!Contents
         /\ \A s \in Config!Setting : Between(f, Config!Midway(f, bad, n), s, bad)
<1> DEFINE a == Config!Moved(f, bad, n - 1)
           b == Config!Moved(f, bad, n)
           g == Config!Midway(f, bad, n)
           r == Renames[n].setting
<1>1. r \in Config!Setting /\ n - 1 \in 0..Len(Renames) /\ n \in 0..Len(Renames)
  BY SchemaHolds
<1>2. /\ a \in Config!Contents /\ a[Config!VersionKey] = f[Config!VersionKey]
      /\ \A s \in Config!Setting :
           /\ a[Config!Now(s)] = IF Config!Reached(f, s, n - 1) THEN Config!Copied(f, s, bad) ELSE f[Config!Now(s)]
           /\ a[Config!Old(s)] = IF Config!Reached(f, s, n - 1) /\ <<"remove", s>> \notin bad
                                 THEN Absent ELSE f[Config!Old(s)]
  BY <1>1, MovedIs
<1>3. /\ b \in Config!Contents
      /\ \A s \in Config!Setting :
           b[Config!Now(s)] = IF Config!Reached(f, s, n) THEN Config!Copied(f, s, bad) ELSE f[Config!Now(s)]
  BY <1>1, MovedIs
<1>4. g = [a EXCEPT ![Config!Now(r)] = b[Config!Now(r)]]
  BY DEF Config!Midway
<1> HIDE DEF a, b, g, r
<1>5. Config!Now(r) \in Config!Key
  BY <1>1, KeysApart
<1>6. b[Config!Now(r)] \in Int \cup {Absent, Odd}
  BY <1>3, <1>5 DEF Config!Contents
<1>7. g \in Config!Contents
  BY <1>2, <1>4, <1>6 DEF Config!Contents
<1>8. ASSUME NEW s \in Config!Setting PROVE Between(f, g, s, bad)
  <2>1. /\ Config!Now(s) \in Config!Key /\ Config!Old(s) \in Config!Key /\ Config!VersionKey \in Config!Key
        /\ Config!Now(r) # Config!VersionKey /\ Config!Now(r) # Config!Old(s)
        /\ Config!Now(s) = Config!Now(r) => s = r
    BY <1>1, KeysApart
  <2>2. /\ g[Config!VersionKey] = a[Config!VersionKey] /\ g[Config!Old(s)] = a[Config!Old(s)]
        /\ g[Config!Now(s)] = IF s = r THEN b[Config!Now(s)] ELSE a[Config!Now(s)]
    BY <1>2, <1>4, <2>1 DEF Config!Contents
  <2>3. /\ Config!Reached(f, s, n - 1) => Config!Reached(f, s, n)
        /\ Config!Reached(f, s, n) => Config!Reached(f, s, Len(Renames))
    BY SchemaHolds DEF Config!Reached
  <2> QED BY <1>2, <1>3, <2>2, <2>3 DEF Between
<1> QED BY <1>7, <1>8 DEF g

\* What a store is.
IsStore(st) == st \in [seen : Config!Contents, cuts : SUBSET Config!Contents] /\ st.seen \in st.cuts

\* A setting comes up the same from f and g, or with its default if its renaming fails.
Same(f, g, s, bad) ==
  \/ Config!Effective(g)[s] = Config!Effective(f)[s]
  \/ Spoilt(f, s, bad) /\ Config!Effective(g)[s] = Descriptor[s].default

LEMMA BetweenIsSame ==
  ASSUME Config!ConfigStoreAssumption, NEW f \in Config!Contents, NEW g \in Config!Contents,
         NEW s \in Config!Setting, NEW bad,
         ~Config!VersionUnread(f, bad), Config!StoredVersion(f) < Version, Between(f, g, s, bad)
  PROVE  Same(f, g, s, bad)
<1>1. Worth(g, s) = Worth(f, s) \/ (Worth(g, s) = Absent /\ Spoilt(f, s, bad))
  BY BetweenKeepsWorth
<1>2. /\ Config!Effective(f)[s] = Config!Fit(s, Worth(f, s))
      /\ Config!Effective(g)[s] = Config!Fit(s, Worth(g, s))
  BY EffectiveIs
<1>3. Config!Fit(s, Absent) = Descriptor[s].default
  BY AbsentIsDefault
<1> QED BY <1>1, <1>2, <1>3 DEF Same

\* The store with some writes more.
LEMMA ThroughIs ==
  ASSUME NEW st, IsStore(st), NEW f \in Config!Contents, NEW more \in SUBSET Config!Contents
  PROVE  /\ IsStore(Config!Through(st, f, more))
         /\ Config!Through(st, f, more).seen = f
         /\ Config!Through(st, f, more).cuts = st.cuts \cup more \cup {f}
BY DEF IsStore, Config!Through

LEMMA CommittedIs ==
  ASSUME NEW st, IsStore(st), NEW ok \in BOOLEAN
  PROVE  /\ IsStore(Config!Committed(st, ok))
         /\ Config!Committed(st, ok).seen = st.seen
         /\ ok => Config!Committed(st, ok).cuts = {st.seen}
         /\ ~ok => Config!Committed(st, ok).cuts = st.cuts
         /\ Config!Committed(st, ok).cuts \subseteq st.cuts
BY DEF IsStore, Config!Committed, Config!Left

\* One key more.
LEMMA VersionPut ==
  ASSUME Config!ConfigStoreAssumption, NEW f \in Config!Contents
  PROVE  LET g == [f EXCEPT ![Config!VersionKey] = Version]
         IN /\ g \in Config!Contents /\ g[Config!VersionKey] = Version
            /\ \A s \in Config!Setting : g[Config!Now(s)] = f[Config!Now(s)] /\ g[Config!Old(s)] = f[Config!Old(s)]
<1>1. Version \in Int
  BY SchemaHolds
<1> QED BY <1>1, KeysApart DEF Config!Contents

LEMMA MovedToTheEnd ==
  ASSUME Config!ConfigStoreAssumption, NEW f \in Config!Contents, NEW bad, NEW s \in Config!Setting
  PROVE  Between(f, [Config!Moved(f, bad, Len(Renames)) EXCEPT ![Config!VersionKey] = Version], s, bad)
<1> DEFINE m == Len(Renames)
           g == Config!Moved(f, bad, m)
           h == [g EXCEPT ![Config!VersionKey] = Version]
<1>1. m \in 0..m
  BY SchemaHolds
<1>2. /\ g \in Config!Contents
      /\ g[Config!Now(s)] = IF Config!Reached(f, s, m) THEN Config!Copied(f, s, bad) ELSE f[Config!Now(s)]
      /\ g[Config!Old(s)] = IF Config!Reached(f, s, m) /\ <<"remove", s>> \notin bad
                            THEN Absent ELSE f[Config!Old(s)]
  BY <1>1, MovedIs
<1> HIDE DEF g
<1>3. h[Config!VersionKey] = Version /\ h[Config!Now(s)] = g[Config!Now(s)] /\ h[Config!Old(s)] = g[Config!Old(s)]
  BY <1>2, VersionPut
<1> HIDE DEF h
<1>4. Between(f, h, s, bad)
  BY <1>2, <1>3 DEF Between
<1> QED BY <1>4 DEF h, g

\* Whatever a restart finds of a migration, no setting is lost, except where the renaming fails.
LEMMA MigratedKeeps ==
  ASSUME Config!ConfigStoreAssumption, NEW st, IsStore(st), NEW bad
  PROVE  /\ IsStore(Config!Migrated(st, bad))
         /\ \A g \in Config!Migrated(st, bad).cuts :
              g \in st.cuts \/ \A s \in Config!Setting : Same(st.seen, g, s, bad)
<1> DEFINE f == st.seen
           m == Len(Renames)
           more == {Config!Moved(f, bad, n) : n \in 0..m} \cup {Config!Midway(f, bad, n) : n \in 1..m}
           g1 == Config!Moved(f, bad, m)
           t1 == Config!Through(st, g1, more)
           g2 == [g1 EXCEPT ![Config!VersionKey] = Version]
           t2 == Config!Through(t1, g2, {})
<1>1. f \in Config!Contents /\ m \in Nat /\ m \in 0..m
  BY SchemaHolds DEF IsStore
<1>2. CASE Config!VersionUnread(f, bad) \/ Config!StoredVersion(f) >= Version
  <2>1. Config!Migrated(st, bad) = st
    BY <1>2 DEF Config!Migrated
  <2> QED BY <2>1
<1>3. CASE ~(Config!VersionUnread(f, bad) \/ Config!StoredVersion(f) >= Version)
  <2>1. ~Config!VersionUnread(f, bad)
    BY <1>3
  <2>2. Config!StoredVersion(f) < Version
    <3>1. Config!StoredVersion(f) \in Int /\ Version \in Int
      BY <1>1, SchemaHolds, KeysApart DEF Config!StoredVersion, Config!Contents
    <3> QED BY <1>3, <3>1
  <2>3. \A g \in more : g \in Config!Contents /\ \A s \in Config!Setting : Between(f, g, s, bad)
    <3>1. ASSUME NEW n \in 0..m
          PROVE  /\ Config!Moved(f, bad, n) \in Config!Contents
                 /\ \A s \in Config!Setting : Between(f, Config!Moved(f, bad, n), s, bad)
      BY <1>1, MovedIs, MovedIsBetween
    <3>2. ASSUME NEW n \in 1..m
          PROVE  /\ Config!Midway(f, bad, n) \in Config!Contents
                 /\ \A s \in Config!Setting : Between(f, Config!Midway(f, bad, n), s, bad)
      BY <1>1, MidwayIsBetween
    <3> HIDE DEF f, m
    <3> QED BY <3>1, <3>2
  <2>4. g1 \in Config!Contents /\ \A s \in Config!Setting : Between(f, g1, s, bad)
    BY <1>1, <2>3
  <2>5. g2 \in Config!Contents /\ \A s \in Config!Setting : Between(f, g2, s, bad)
    <3>1. g2 \in Config!Contents
      BY <2>4, VersionPut
    <3> QED BY <1>1, <3>1, MovedToTheEnd
  <2>6. Config!Migrated(st, bad) = IF <<"write", 0>> \notin bad THEN t2 ELSE t1
    BY <1>3 DEF Config!Migrated, Config!Written, Config!Through
  <2> HIDE DEF more, g1, g2
  <2>7. more \in SUBSET Config!Contents
    BY <2>3
  <2>8. IsStore(t1) /\ t1.cuts = st.cuts \cup more \cup {g1}
    BY <2>4, <2>7, ThroughIs
  <2> HIDE DEF t1
  <2>9. IsStore(t2) /\ t2.cuts = t1.cuts \cup {} \cup {g2}
    BY <2>5, <2>8, ThroughIs
  <2> HIDE DEF t2
  <2>10. \A g \in more \cup {g1, g2} : \A s \in Config!Setting : Same(f, g, s, bad)
    BY <1>1, <2>1, <2>2, <2>3, <2>4, <2>5, BetweenIsSame
  <2> HIDE DEF f
  <2> QED BY <2>6, <2>8, <2>9, <2>10 DEF f
<1> QED BY <1>2, <1>3

\* What is there under the new key counts.
LEMMA PresentCounts ==
  ASSUME Config!ConfigStoreAssumption, NEW g \in Config!Contents, NEW s \in Config!Setting,
         g[Config!Now(s)] # Absent
  PROVE  Config!Effective(g)[s] = Config!Fit(s, g[Config!Now(s)])
BY EffectiveIs DEF Worth

\* After the migration the next start has nothing more to rename, where nothing failed.
LEMMA MigratedCounts ==
  ASSUME Config!ConfigStoreAssumption, NEW st, IsStore(st), NEW bad, NEW s \in Config!Setting,
         ~Spoilt(st.seen, s, bad), Config!VersionUnread(st.seen, bad) => s \notin Config!RenamedSettings
  PROVE  Config!Effective(Config!Migrated(st, bad).seen)[s]
           = Config!Fit(s, Config!Migrated(st, bad).seen[Config!Now(s)])
<1> DEFINE f == st.seen
           m == Len(Renames)
           g == Config!Moved(f, bad, m)
           h == Config!Migrated(st, bad).seen
<1>1. f \in Config!Contents /\ m \in Nat /\ m \in 0..m
  BY SchemaHolds DEF IsStore
<1>2. h \in Config!Contents
  BY MigratedKeeps DEF IsStore
<1>3. SUFFICES Worth(h, s) = h[Config!Now(s)]
  BY <1>2, EffectiveIs
<1>4. Absent \notin Int /\ Odd \notin Int /\ Absent # Odd /\ Version \in Int
  BY SchemaHolds
<1>5. CASE Config!VersionUnread(f, bad) \/ Config!StoredVersion(f) >= Version
  <2>1. h = f
    BY <1>5 DEF Config!Migrated
  <2>2. ~Migrates(f, s)
    <3>1. CASE Config!VersionUnread(f, bad)
      <4>1. s \notin Config!RenamedSettings
        BY <3>1
      <4>2. ~Config!Reached(f, s, Len(Renames))
        <5>1. DOMAIN Renames = 1..Len(Renames)
          BY DEF Config!ConfigStoreAssumption, Config!ValidSchema
        <5> QED BY <4>1, <5>1 DEF Config!RenamedSettings, Config!Reached
      <4> QED BY <4>2 DEF Migrates
    <3>2. CASE Config!StoredVersion(f) >= Version
      <4>1. Config!StoredVersion(f) \in Int
        BY <1>1, KeysApart DEF Config!StoredVersion, Config!Contents
      <4> QED BY <1>4, <3>2, <4>1 DEF Migrates
    <3> QED BY <1>5, <3>1, <3>2
  <2> QED BY <2>1, <2>2 DEF Worth
<1>6. CASE ~(Config!VersionUnread(f, bad) \/ Config!StoredVersion(f) >= Version)
  <2>1. /\ g \in Config!Contents /\ g[Config!VersionKey] = f[Config!VersionKey]
        /\ g[Config!Now(s)] = IF Config!Reached(f, s, m) THEN Config!Copied(f, s, bad) ELSE f[Config!Now(s)]
        /\ g[Config!Old(s)] = IF Config!Reached(f, s, m) /\ <<"remove", s>> \notin bad
                              THEN Absent ELSE f[Config!Old(s)]
    BY <1>1, MovedIs
  <2>2. h = g \/ h = [g EXCEPT ![Config!VersionKey] = Version]
    BY <1>6 DEF Config!Migrated, Config!Written, Config!Through
  <2> HIDE DEF g
  <2>3. /\ h[Config!VersionKey] = f[Config!VersionKey] \/ h[Config!VersionKey] = Version
        /\ h[Config!Now(s)] = g[Config!Now(s)] /\ h[Config!Old(s)] = g[Config!Old(s)]
    BY <2>1, <2>2, VersionPut
  <2>4. Migrates(h, s) => Config!Reached(f, s, m)
    <3>1. CASE h[Config!VersionKey] = f[Config!VersionKey]
      BY <3>1, ReachedByVersion DEF Migrates
    <3>2. CASE h[Config!VersionKey] = Version
      <4>1. Config!StoredVersion(h) = Version
        BY <1>4, <3>2 DEF Config!StoredVersion
      <4> QED BY <1>4, <4>1 DEF Migrates
    <3> QED BY <2>3, <3>1, <3>2
  <2>5. Config!Reached(f, s, m) =>
          Config!Copied(f, s, bad) = IF f[Config!Now(s)] = Absent /\ f[Config!Old(s)] # Odd
                                     THEN f[Config!Old(s)] ELSE f[Config!Now(s)]
    BY <1>6 DEF Config!Copied, Config!LostIn, Spoilt
  <2> HIDE DEF h, f, m
  <2> QED BY <1>4, <2>1, <2>3, <2>4, <2>5 DEF Worth
<1> QED BY <1>5, <1>6

-----------------------------------------------------------------------------
(* Saves.                                                                  *)

\* Values the program may use.
AreValues(values) == values \in [Config!Setting -> Int] /\ \A s \in Config!Setting : Proper(s, values[s])

\* The saved settings come up with what is saved, the others as before.
LEMMA SavedCounts ==
  ASSUME Config!ConfigStoreAssumption, NEW f \in Config!Contents, NEW values, AreValues(values),
         NEW ds \in SUBSET Config!Setting, NEW n
  PROVE  /\ Config!SavedTo(f, values, ds, n) \in Config!Contents
         /\ \A s \in Config!Setting :
              Config!Effective(Config!SavedTo(f, values, ds, n))[s]
                = IF s \in ds /\ s <= n THEN values[s] ELSE Config!Effective(f)[s]
<1> DEFINE g == Config!SavedTo(f, values, ds, n)
<1>1. g = [k \in Config!Key |-> IF k[2] = "now" /\ k[1] \in ds /\ k[1] <= n THEN values[k[1]] ELSE f[k]]
  BY DEF Config!SavedTo
<1> HIDE DEF g
<1>2. \A k \in Config!Key : f[k] \in Int \cup {Absent, Odd}
  BY DEF Config!Contents
<1>3. \A s \in ds : values[s] \in Int
  BY DEF AreValues
<1>4. g \in Config!Contents
  BY <1>1, <1>2, <1>3 DEF Config!Contents
<1>5. g[Config!VersionKey] = f[Config!VersionKey]
  BY <1>1, KeysApart
<1>6. ASSUME NEW s \in Config!Setting
      PROVE  Config!Effective(g)[s] = IF s \in ds /\ s <= n THEN values[s] ELSE Config!Effective(f)[s]
  <2>1. /\ Config!Now(s) \in Config!Key /\ Config!Now(s)[1] = s /\ Config!Now(s)[2] = "now"
        /\ Config!Old(s) \in Config!Key /\ Config!Old(s)[2] = "old"
    BY KeysApart
  <2>2. /\ g[Config!Now(s)] = IF s \in ds /\ s <= n THEN values[s] ELSE f[Config!Now(s)]
        /\ g[Config!Old(s)] = f[Config!Old(s)]
    BY <1>1, <2>1
  <2>3. CASE s \in ds /\ s <= n
    <3>1. g[Config!Now(s)] = values[s] /\ values[s] # Absent
      BY <1>3, <2>2, <2>3, SchemaHolds
    <3>2. Config!Effective(g)[s] = Config!Fit(s, values[s])
      BY <1>4, <3>1, PresentCounts
    <3>3. Config!Fit(s, values[s]) = values[s]
      BY ProperFits DEF AreValues
    <3> QED BY <2>3, <3>2, <3>3
  <2>4. CASE ~(s \in ds /\ s <= n)
    <3>1. Migrates(g, s) <=> Migrates(f, s)
      <4>1. Config!StoredVersion(g) = Config!StoredVersion(f)
        BY <1>5 DEF Config!StoredVersion
      <4> QED BY <1>5, <4>1, ReachedByVersion DEF Migrates
    <3>2. Worth(g, s) = Worth(f, s)
      BY <2>2, <2>4, <3>1 DEF Worth
    <3> QED BY <1>4, <2>4, <3>2, EffectiveIs
  <2> QED BY <2>3, <2>4
<1> QED BY <1>4, <1>6 DEF g

\* So with a save, whatever a restart cuts off of it.
Extends(st, st2, values, ds, bad) ==
  /\ IsStore(st2)
  /\ \A s \in Config!Setting :
       Config!Effective(st2.seen)[s]
         = IF s \in ds /\ <<"write", s>> \notin bad THEN values[s] ELSE Config!Effective(st.seen)[s]
  /\ \A g \in st2.cuts :
       g \in st.cuts \/ \A s \in Config!Setting :
                          \/ Config!Effective(g)[s] = Config!Effective(st.seen)[s]
                          \/ s \in ds /\ Config!Effective(g)[s] = values[s]

LEMMA SavingKeeps ==
  ASSUME Config!ConfigStoreAssumption, NEW st, IsStore(st), NEW values, AreValues(values),
         NEW ds \in SUBSET Config!Setting, NEW bad
  PROVE  Extends(st, Config!Saving(st, values, ds, bad), values, ds, bad)
<1> DEFINE done == {s \in ds : <<"write", s>> \notin bad}
           size == Len(Descriptor)
           f == st.seen
           last == Config!SavedTo(f, values, done, size)
           more == {Config!SavedTo(f, values, done, n) : n \in 0..size}
           st2 == Config!Saving(st, values, ds, bad)
<1>1. f \in Config!Contents /\ done \in SUBSET Config!Setting
  BY DEF IsStore
<1>2. st2 = Config!Through(st, last, more)
  BY DEF Config!Saving
<1>3. size \in Nat /\ Config!Setting = 1..size
  BY SchemaHolds
<1> HIDE DEF done, size, f, st2
<1>4. ASSUME NEW n
      PROVE  /\ Config!SavedTo(f, values, done, n) \in Config!Contents
             /\ \A s \in Config!Setting :
                  Config!Effective(Config!SavedTo(f, values, done, n))[s]
                    = IF s \in done /\ s <= n THEN values[s] ELSE Config!Effective(f)[s]
  BY <1>1, SavedCounts
<1>5. last \in Config!Contents /\ more \in SUBSET Config!Contents
  BY <1>4
<1>6. \A g \in more \cup {last} : \A s \in Config!Setting :
        \/ Config!Effective(g)[s] = Config!Effective(f)[s]
        \/ s \in done /\ Config!Effective(g)[s] = values[s]
  BY <1>4
<1>7. \A s \in Config!Setting :
        Config!Effective(last)[s] = IF s \in done THEN values[s] ELSE Config!Effective(f)[s]
  BY <1>3, <1>4
<1> HIDE DEF last, more
<1>8. IsStore(st2) /\ st2.seen = last /\ st2.cuts = st.cuts \cup more \cup {last}
  BY <1>2, <1>5, ThroughIs
<1>9. Extends(st, st2, values, ds, bad)
  BY <1>6, <1>7, <1>8 DEF f, done, Extends
<1> QED BY <1>9 DEF st2

\* What a start, a save or a reset leaves, of what the next start makes what it is due.
Agrees(st, values, ds, ok, promised, sure) ==
  /\ IsStore(st)
  /\ promised \in [Config!Setting -> SUBSET Int]
  /\ \A s \in Config!Setting, g \in st.cuts : Config!Effective(g)[s] \in promised[s]
  /\ \A s \in Config!Setting :
       values[s] \in promised[s] \/ (s \notin ds \cup sure /\ values[s] = Descriptor[s].default)
  /\ \A s \in sure \ ds :
       /\ Config!Effective(st.seen)[s] = values[s]
       /\ ok => \A g \in st.cuts : Config!Effective(g)[s] = values[s]

\* What a save makes of what is promised.
AfterSave(values, ds, bad) ==
  IF Config!SaveOps(ds) \cap bad = {}
  THEN [s \in Config!Setting |-> IF s \in v11 \ ds THEN Config!Promised[s] ELSE {values[s]}]
  ELSE [s \in Config!Setting |-> Config!Promised[s] \cup {values[s]}]

PromisedOf(promise, gone) ==
  [s \in Config!Setting |-> promise[s] \cup (IF s \in gone THEN {Descriptor[s].default} ELSE {})]

LEMMA SavePromises ==
  ASSUME NEW values, NEW ds, NEW bad,
         v10' = IF Config!SaveOps(ds) \cap bad = {}
                THEN [s \in Config!Setting |-> IF s \in v11 \ ds THEN v10[s] ELSE {values[s]}]
                ELSE Config!Found(values),
         v13' = IF Config!SaveOps(ds) \cap bad = {} THEN v13 \cap (v11 \ ds) ELSE v13
  PROVE  Config!Promised' = AfterSave(values, ds, bad)
<1>1. /\ Config!Promised = PromisedOf(v10, v13) /\ Config!Promised' = PromisedOf(v10', v13')
  BY DEF Config!Promised, PromisedOf
<1>2. ASSUME NEW s \in Config!Setting
      PROVE  PromisedOf(v10', v13')[s] = AfterSave(values, ds, bad)[s]
  <2>1. CASE Config!SaveOps(ds) \cap bad = {}
    BY <1>1, <2>1 DEF PromisedOf, AfterSave
  <2>2. CASE Config!SaveOps(ds) \cap bad # {}
    BY <1>1, <2>2 DEF PromisedOf, AfterSave, Config!Found
  <2> QED BY <2>1, <2>2
<1> QED BY <1>1, <1>2 DEF PromisedOf, AfterSave

\* After a save what is not marked any more is in the flash.
LEMMA SaveAgrees ==
  ASSUME Config!ConfigStoreAssumption, Config!ConfigFits, v8 # "boot",
         NEW values, AreValues(values), NEW ds \in SUBSET Config!Setting, v4 \subseteq ds,
         \A s \in Config!Setting \ ds : values[s] = v3[s], NEW bad
  PROVE  Agrees(Config!Committed(Config!Saving(v1, values, ds, bad), <<"commit", 0>> \notin bad),
                values, Config!StillDirty(ds, bad), Config!SaveOk(bad, ds),
                AfterSave(values, ds, bad), Config!Setting \ (v11 \ (ds \ Config!StillDirty(ds, bad))))
<1> DEFINE st2 == Config!Saving(v1, values, ds, bad)
           ok == <<"commit", 0>> \notin bad
           st == Config!Committed(st2, ok)
           still == Config!StillDirty(ds, bad)
           good == Config!SaveOps(ds) \cap bad = {}
           promised == AfterSave(values, ds, bad)
           old == Config!Promised
           sure == Config!Setting \ (v11 \ (ds \ still))
<1>1. /\ IsStore(v1) /\ v11 \subseteq Config!Setting /\ old \in [Config!Setting -> SUBSET Int]
      /\ \A s \in Config!Setting, g \in v1.cuts : Config!Effective(g)[s] \in old[s]
      /\ \A s \in Config!Setting : v3[s] \in old[s] \/ (s \in v11 \ v4 /\ v3[s] = Descriptor[s].default)
      /\ \A s \in Config!Setting \ (v4 \cup v11) : Config!Effective(v1.seen)[s] = v3[s]
  BY DEF Config!ConfigFits, IsStore
<1>o. promised = IF good THEN [s \in Config!Setting |-> IF s \in v11 \ ds THEN old[s] ELSE {values[s]}]
                 ELSE [s \in Config!Setting |-> old[s] \cup {values[s]}]
  BY DEF AfterSave
<1> HIDE DEF old, promised
<1>2. /\ IsStore(st2)
      /\ \A s \in Config!Setting :
           Config!Effective(st2.seen)[s]
             = IF s \in ds /\ <<"write", s>> \notin bad THEN values[s] ELSE Config!Effective(v1.seen)[s]
      /\ \A g \in st2.cuts :
           g \in v1.cuts \/ \A s \in Config!Setting :
                              \/ Config!Effective(g)[s] = Config!Effective(v1.seen)[s]
                              \/ s \in ds /\ Config!Effective(g)[s] = values[s]
  <2>1. Extends(v1, st2, values, ds, bad)
    BY <1>1, SavingKeeps
  <2> HIDE DEF st2
  <2> QED BY <2>1 DEF Extends
<1> HIDE DEF st2
<1>3. /\ IsStore(st) /\ st.seen = st2.seen
      /\ ok => st.cuts = {st.seen}
      /\ st.cuts \subseteq st2.cuts
  BY <1>2, CommittedIs
<1>4. still = {s \in ds : <<"write", s>> \in bad}
  BY DEF Config!StillDirty
<1>5. good <=> (still = {} /\ ok)
  BY <1>4 DEF Config!SaveOps, Config!Writing
<1>7. \A s \in Config!Setting : values[s] \in Int
  BY DEF AreValues
<1> HIDE DEF st, still
<1>8. promised \in [Config!Setting -> SUBSET Int]
  BY <1>1, <1>o, <1>7
<1>9. v1.seen \in v1.cuts /\ \A s \in Config!Setting : Config!Effective(v1.seen)[s] \in old[s]
  BY <1>1 DEF IsStore
<1>10. \A s \in sure \ still : Config!Effective(st.seen)[s] = values[s]
  <2> SUFFICES ASSUME NEW s \in sure \ still PROVE Config!Effective(st.seen)[s] = values[s]
    OBVIOUS
  <2>1. CASE s \in ds
    BY <1>2, <1>3, <1>4, <2>1
  <2>2. CASE s \notin ds
    <3>1. s \in Config!Setting \ (v4 \cup v11) /\ values[s] = v3[s]
      BY <2>2
    <3> QED BY <1>1, <1>2, <1>3, <2>2, <3>1
  <2> QED BY <2>1, <2>2
<1>11. \A s \in Config!Setting, g \in st.cuts : Config!Effective(g)[s] \in promised[s]
  <2> SUFFICES ASSUME NEW s \in Config!Setting, NEW g \in st.cuts PROVE Config!Effective(g)[s] \in promised[s]
    OBVIOUS
  <2>1. CASE good
    <3>1. g = st.seen /\ still = {}
      BY <1>3, <1>5, <2>1
    <3>2. CASE s \in v11 \ ds
      <4>1. Config!Effective(g)[s] = Config!Effective(v1.seen)[s]
        BY <1>2, <1>3, <3>1, <3>2
      <4> QED BY <1>9, <1>o, <2>1, <3>2, <4>1
    <3>3. CASE s \notin v11 \ ds
      <4>1. s \in sure \ still
        BY <3>1, <3>3
      <4> QED BY <1>10, <1>o, <2>1, <3>1, <3>3, <4>1
    <3> QED BY <3>2, <3>3
  <2>2. CASE ~good
    <3>1. promised[s] = old[s] \cup {values[s]}
      BY <1>o, <2>2
    <3>2. g \in v1.cuts \/ Config!Effective(g)[s] = Config!Effective(v1.seen)[s] \/ Config!Effective(g)[s] = values[s]
      BY <1>2, <1>3
    <3> QED BY <1>1, <1>9, <3>1, <3>2
  <2> QED BY <2>1, <2>2
<1>12. ASSUME NEW s \in Config!Setting
       PROVE  values[s] \in promised[s] \/ (s \notin still \cup sure /\ values[s] = Descriptor[s].default)
  <2>1. CASE good /\ s \in v11 \ ds
    <3>1. promised[s] = old[s] /\ values[s] = v3[s] /\ s \notin still \cup sure
      BY <1>o, <1>4, <2>1
    <3> QED BY <1>1, <3>1
  <2>2. CASE ~(good /\ s \in v11 \ ds)
    BY <1>o, <2>2
  <2> QED BY <2>1, <2>2
<1>13. Config!SaveOk(bad, ds) => st.cuts = {st.seen}
  BY <1>3 DEF Config!SaveOk, Config!SaveOps
<1> HIDE DEF sure
<1>14. Agrees(st, values, still, Config!SaveOk(bad, ds), promised, sure)
  BY <1>3, <1>8, <1>10, <1>11, <1>12, <1>13 DEF Agrees
<1> QED BY <1>14 DEF st, st2, still, promised, sure

-----------------------------------------------------------------------------
(* The factory reset.                                                      *)

\* Of an erased flash, in whole or in part, a setting comes up as before, with its default or
\* with the value under its old name.
Sound(f, g, s) ==
  \/ Config!Effective(g)[s] \in {Config!Effective(f)[s], Descriptor[s].default}
  \/ /\ s \in Config!RenamedSettings
     /\ Config!Effective(g)[s] = Config!Fit(s, f[Config!Old(s)])

LEMMA EmptiedIsContent ==
  ASSUME NEW f \in Config!Contents, NEW gone
  PROVE  Config!Without(f, gone) \in Config!Contents
BY DEF Config!Without, Config!Contents

LEMMA ErasedCounts ==
  ASSUME Config!ConfigStoreAssumption, NEW f \in Config!Contents, NEW gone, NEW s \in Config!Setting
  PROVE  Sound(f, Config!Without(f, gone), s)
<1> DEFINE g == Config!Without(f, gone)
<1>1. g = [k \in Config!Key |-> IF k \in gone THEN Absent ELSE f[k]]
  BY DEF Config!Without
<1> HIDE DEF g
<1>2. g \in Config!Contents
  BY EmptiedIsContent DEF g
<1>3. g[Config!Now(s)] \in {f[Config!Now(s)], Absent} /\ g[Config!Old(s)] \in {f[Config!Old(s)], Absent}
  BY <1>1, KeysApart
<1>4. Config!Effective(g)[s] = Config!Fit(s, Worth(g, s))
  BY <1>2, EffectiveIs
<1>5. Config!Fit(s, Absent) = Descriptor[s].default
  BY AbsentIsDefault
<1>6. Migrates(g, s) => s \in Config!RenamedSettings
  <2>1. DOMAIN Renames = 1..Len(Renames)
    BY DEF Config!ConfigStoreAssumption, Config!ValidSchema
  <2> QED BY <2>1 DEF Migrates, Config!Reached, Config!RenamedSettings
<1>7. Worth(g, s) = g[Config!Now(s)] \/ (s \in Config!RenamedSettings /\ Worth(g, s) = g[Config!Old(s)])
  BY <1>6 DEF Worth
<1>8. CASE Worth(g, s) = Absent
  BY <1>4, <1>5, <1>8 DEF g, Sound
<1>9. CASE Worth(g, s) # Absent /\ Worth(g, s) = g[Config!Now(s)]
  <2>1. f[Config!Now(s)] # Absent /\ Worth(g, s) = f[Config!Now(s)]
    BY <1>3, <1>9
  <2>2. Config!Effective(f)[s] = Config!Fit(s, f[Config!Now(s)])
    BY <2>1, PresentCounts
  <2> QED BY <1>4, <2>1, <2>2 DEF g, Sound
<1>10. CASE Worth(g, s) # Absent /\ s \in Config!RenamedSettings /\ Worth(g, s) = g[Config!Old(s)]
  BY <1>3, <1>4, <1>10 DEF g, Sound
<1> QED BY <1>7, <1>8, <1>9, <1>10

\* With everything gone every setting has its default.
LEMMA AllGoneIsDefault ==
  ASSUME Config!ConfigStoreAssumption, NEW g \in Config!Contents, NEW s \in Config!Setting,
         g[Config!Now(s)] = Absent, g[Config!Old(s)] = Absent
  PROVE  Config!Effective(g)[s] = Descriptor[s].default
BY EffectiveIs, AbsentIsDefault DEF Worth

\* A version that is written too early makes a setting come up with its default at worst.
LEMMA VersionCounts ==
  ASSUME Config!ConfigStoreAssumption, NEW f \in Config!Contents, NEW s \in Config!Setting
  PROVE  Config!Effective([f EXCEPT ![Config!VersionKey] = Version])[s]
           \in {Config!Effective(f)[s], Descriptor[s].default}
<1> DEFINE g == [f EXCEPT ![Config!VersionKey] = Version]
<1>1. /\ g \in Config!Contents /\ g[Config!VersionKey] = Version
      /\ g[Config!Now(s)] = f[Config!Now(s)]
  BY VersionPut
<1> HIDE DEF g
<1>2. ~Migrates(g, s)
  <2>1. Version \in Int /\ Absent \notin Int /\ Odd \notin Int
    BY SchemaHolds
  <2>2. Config!StoredVersion(g) = Version
    BY <1>1, <2>1 DEF Config!StoredVersion
  <2> QED BY <2>1, <2>2 DEF Migrates
<1>3. Config!Effective(g)[s] = Config!Fit(s, f[Config!Now(s)])
  BY <1>1, <1>2, EffectiveIs DEF Worth
<1>4. CASE f[Config!Now(s)] = Absent
  BY <1>3, <1>4, AbsentIsDefault DEF g
<1>5. CASE f[Config!Now(s)] # Absent
  BY <1>3, <1>5, PresentCounts DEF g
<1> QED BY <1>4, <1>5

\* The erase and the version after it, each perhaps failing.
LEMMA ErasedIs ==
  ASSUME Config!ConfigStoreAssumption, NEW st, IsStore(st), NEW eok \in BOOLEAN, NEW wok \in BOOLEAN
  PROVE  LET st2 == Config!Written(Config!Erased(st, eok), Config!VersionKey, Version, wok)
         IN /\ IsStore(st2)
            /\ \A s \in Config!Setting, g \in st2.cuts : g \in st.cuts \/ Sound(st.seen, g, s)
            /\ eok => \A s \in Config!Setting : Config!Effective(st2.seen)[s] = Descriptor[s].default
<1> DEFINE f == st.seen
           g1 == Config!Without(f, Config!Key)
           more == {Config!Without(f, gone) : gone \in SUBSET Config!Key}
           st1 == Config!Erased(st, eok)
           g2 == [st1.seen EXCEPT ![Config!VersionKey] = Version]
           st2 == Config!Written(st1, Config!VersionKey, Version, wok)
<1>1. f \in Config!Contents
  BY DEF IsStore
<1>2. st1 = IF eok THEN Config!Through(st, g1, more) ELSE st
  BY DEF Config!Erased
<1>3. st2 = IF wok THEN Config!Through(st1, g2, {}) ELSE st1
  BY DEF Config!Written
<1>4. \A g \in more \cup {g1} : g \in Config!Contents /\ \A s \in Config!Setting : Sound(f, g, s)
  <2>1. ASSUME NEW gone
        PROVE  Config!Without(f, gone) \in Config!Contents /\ \A s \in Config!Setting : Sound(f, Config!Without(f, gone), s)
    <3> HIDE DEF f
    <3>1. ASSUME NEW s \in Config!Setting PROVE Sound(f, Config!Without(f, gone), s)
      BY <1>1, ErasedCounts
    <3> QED BY <1>1, <3>1, EmptiedIsContent
  <2> QED BY <2>1
<1>5. \A s \in Config!Setting : g1[Config!Now(s)] = Absent /\ g1[Config!Old(s)] = Absent
  BY KeysApart DEF Config!Without
<1> HIDE DEF f, g1, more, st1
<1>6. /\ IsStore(st1)
      /\ eok => st1.seen = g1 /\ st1.cuts = st.cuts \cup more \cup {g1}
      /\ ~eok => st1 = st
  BY <1>2, <1>4, ThroughIs
<1>7. /\ g2 \in Config!Contents
      /\ \A s \in Config!Setting : /\ g2[Config!Now(s)] = st1.seen[Config!Now(s)]
                                   /\ g2[Config!Old(s)] = st1.seen[Config!Old(s)]
  BY <1>6, VersionPut DEF IsStore
<1>8. \A s \in Config!Setting : Sound(f, g2, s)
  <2> SUFFICES ASSUME NEW s \in Config!Setting PROVE Sound(f, g2, s)
    OBVIOUS
  <2>1. CASE eok
    <3>1. Config!Effective(g2)[s] = Descriptor[s].default
      BY <1>5, <1>6, <1>7, <2>1, AllGoneIsDefault
    <3> QED BY <3>1 DEF Sound
  <2>2. CASE ~eok
    <3>1. Config!Effective(g2)[s] \in {Config!Effective(f)[s], Descriptor[s].default}
      BY <1>1, <1>6, <2>2, VersionCounts DEF f
    <3> HIDE DEF g2
    <3> QED BY <3>1 DEF Sound
  <2> QED BY <2>1, <2>2
<1> HIDE DEF g2, st2
<1>9. /\ IsStore(st2)
      /\ wok => st2.seen = g2 /\ st2.cuts = st1.cuts \cup {} \cup {g2}
      /\ ~wok => st2 = st1
  BY <1>3, <1>6, <1>7, ThroughIs
<1>10. eok => \A s \in Config!Setting : Config!Effective(st2.seen)[s] = Descriptor[s].default
  <2> SUFFICES ASSUME eok, NEW s \in Config!Setting PROVE Config!Effective(st2.seen)[s] = Descriptor[s].default
    OBVIOUS
  <2>1. st2.seen[Config!Now(s)] = Absent /\ st2.seen[Config!Old(s)] = Absent /\ st2.seen \in Config!Contents
    BY <1>5, <1>6, <1>7, <1>9 DEF IsStore
  <2> QED BY <2>1, AllGoneIsDefault
<1>11. \A s \in Config!Setting, g \in st2.cuts : g \in st.cuts \/ Sound(f, g, s)
  BY <1>4, <1>6, <1>8, <1>9
<1> QED BY <1>9, <1>10, <1>11 DEF f, st1, st2

\* What the reset leaves agrees with the defaults it puts into the RAM.
LEMMA ResetAgrees ==
  ASSUME Config!ConfigStoreAssumption, Config!ConfigFits, Config!ResetSettings
  PROVE  /\ v3' = Config!Defaults /\ v4' = {} /\ v11' \in SUBSET Config!Setting
         /\ Agrees(v1', v3', {}, v5', Config!Promised', Config!Setting \ v11')
<1>1. PICK bad \in Config!Failing(Config!ResetOps) :
        /\ v1' = Config!Committed(Config!Written(Config!Erased(v1, <<"erase", 0>> \notin bad), Config!VersionKey, Version,
                                  <<"write", 0>> \notin bad), <<"commit", 0>> \notin bad)
        /\ v3' = Config!Defaults /\ v4' = Config!LeftDirty
        /\ v5' = (bad = {})
        /\ v10' = [s \in Config!Setting |->
                     IF {<<"erase", 0>>, <<"commit", 0>>} \cap bad = {} THEN {Descriptor[s].default}
                     ELSE v10[s] \cup {Descriptor[s].default} \cup Config!Revived(s)]
        /\ v13' = IF {<<"erase", 0>>, <<"commit", 0>>} \cap bad = {} THEN {} ELSE v13
        /\ v11' = IF <<"erase", 0>> \in bad THEN Config!Setting ELSE {}
  BY DEF Config!ResetSettings
<1> DEFINE eok == <<"erase", 0>> \notin bad
           cok == <<"commit", 0>> \notin bad
           old == Config!Promised
           new == Config!Promised'
           st2 == Config!Written(Config!Erased(v1, eok), Config!VersionKey, Version, <<"write", 0>> \notin bad)
<1>2. /\ IsStore(v1) /\ old \in [Config!Setting -> SUBSET Int]
      /\ \A s \in Config!Setting, g \in v1.cuts : Config!Effective(g)[s] \in old[s]
  BY DEF Config!ConfigFits, IsStore
<1>p. /\ DOMAIN new = Config!Setting
      /\ \A s \in Config!Setting :
           new[s] = IF eok /\ cok THEN {Descriptor[s].default}
                    ELSE old[s] \cup {Descriptor[s].default} \cup Config!Revived(s)
  <2>1. old = PromisedOf(v10, v13) /\ new = PromisedOf(v10', v13')
    BY DEF Config!Promised, PromisedOf
  <2> HIDE DEF old, new
  <2>2. CASE eok /\ cok
    BY <1>1, <2>1, <2>2 DEF PromisedOf
  <2>3. CASE ~(eok /\ cok)
    BY <1>1, <2>1, <2>3 DEF PromisedOf
  <2> QED BY <2>1, <2>2, <2>3 DEF PromisedOf
<1> HIDE DEF old, new
<1>3. v1.seen \in v1.cuts /\ v1.seen \in Config!Contents
  BY <1>2 DEF IsStore
<1>4. /\ IsStore(st2)
      /\ \A s \in Config!Setting, g \in st2.cuts : g \in v1.cuts \/ Sound(v1.seen, g, s)
      /\ eok => \A s \in Config!Setting : Config!Effective(st2.seen)[s] = Descriptor[s].default
  BY <1>2, ErasedIs
<1>5. v1' = Config!Committed(st2, cok)
  BY <1>1
<1> HIDE DEF st2
<1>6. /\ IsStore(v1') /\ v1'.seen = st2.seen /\ v1'.cuts \subseteq st2.cuts
      /\ cok => v1'.cuts = {st2.seen}
  BY <1>4, <1>5, CommittedIs
<1>7. \A s \in Config!Setting : v3'[s] = Descriptor[s].default /\ Descriptor[s].default \in Int
  BY <1>1, SchemaHolds DEF Config!Defaults
<1>8. \A s \in Config!Setting :
        Config!Revived(s) = IF s \in Config!RenamedSettings THEN {Config!Fit(s, v1.seen[Config!Old(s)])} ELSE {}
  BY DEF Config!Revived
<1>9. \A s \in Config!Setting : Config!Revived(s) \subseteq Int
  <2> SUFFICES ASSUME NEW s \in Config!Setting PROVE Config!Revived(s) \subseteq Int
    OBVIOUS
  <2>1. v1.seen[Config!Old(s)] \in Int \cup {Absent, Odd}
    BY <1>3, KeysApart DEF Config!Contents
  <2>2. Config!Fit(s, v1.seen[Config!Old(s)]) \in Int
    BY <2>1, FitIsProper DEF Proper
  <2> QED BY <1>8, <2>2
<1>10. new \in [Config!Setting -> SUBSET Int]
  <2>1. \A s \in Config!Setting : new[s] \in SUBSET Int
    BY <1>2, <1>7, <1>9, <1>p
  <2>2. new = [s \in Config!Setting |-> new[s]]
    BY DEF new, Config!Promised
  <2> QED BY <2>1, <2>2
<1>11. \A s \in Config!Setting : Descriptor[s].default \in new[s]
  BY <1>p
<1>12. \A s \in Config!Setting, g \in v1'.cuts : Config!Effective(g)[s] \in new[s]
  <2> SUFFICES ASSUME NEW s \in Config!Setting, NEW g \in v1'.cuts PROVE Config!Effective(g)[s] \in new[s]
    OBVIOUS
  <2>1. CASE eok /\ cok
    BY <1>4, <1>6, <1>11, <2>1
  <2>2. CASE ~(eok /\ cok)
    <3>1. new[s] = old[s] \cup {Descriptor[s].default} \cup Config!Revived(s)
      BY <1>p, <2>2
    <3>2. g \in v1.cuts \/ Sound(v1.seen, g, s)
      BY <1>4, <1>6
    <3>3. Config!Effective(v1.seen)[s] \in old[s]
      BY <1>2, <1>3
    <3> QED BY <1>2, <1>8, <3>1, <3>2, <3>3 DEF Sound
  <2> QED BY <2>1, <2>2
<1>13. \A s \in Config!Setting \ v11' :
         /\ Config!Effective(v1'.seen)[s] = v3'[s]
         /\ v5' => \A g \in v1'.cuts : Config!Effective(g)[s] = v3'[s]
  <2>1. v5' => cok
    BY <1>1
  <2>2. \A s \in Config!Setting \ v11' : eok
    BY <1>1
  <2> QED BY <1>4, <1>6, <1>7, <2>1, <2>2
<1>14. Agrees(v1', v3', {}, v5', new, Config!Setting \ v11')
  BY <1>6, <1>7, <1>10, <1>11, <1>12, <1>13 DEF Agrees
<1> QED BY <1>1, <1>14 DEF Config!LeftDirty, new

-----------------------------------------------------------------------------
(* A start.                                                                *)

\* What is loaded may be used; what is clamped is what the next start would make of it.
LEMMA LoadedIs ==
  ASSUME Config!ConfigStoreAssumption, NEW h \in Config!Contents, NEW bad
  PROVE  /\ AreValues(Config!Loaded(h, bad))
         /\ Config!ClampedOnLoad(h, bad) \in SUBSET Config!Setting
         /\ \A s \in Config!Setting :
              /\ <<"read", s>> \notin bad => Config!Loaded(h, bad)[s] = Config!Fit(s, h[Config!Now(s)])
              /\ s \in Config!ClampedOnLoad(h, bad) => Config!Loaded(h, bad)[s] = Config!Effective(h)[s]
<1> DEFINE values == Config!Loaded(h, bad)
<1>1. values = [s \in Config!Setting |->
                  IF <<"read", s>> \in bad THEN Descriptor[s].default ELSE Config!Fit(s, h[Config!Now(s)])]
  BY DEF Config!Loaded
<1> HIDE DEF values
<1>2. ASSUME NEW s \in Config!Setting PROVE Proper(s, values[s]) /\ values[s] \in Int
  <2>1. h[Config!Now(s)] \in Int \cup {Absent, Odd}
    BY KeysApart DEF Config!Contents
  <2>2. Proper(s, Config!Fit(s, h[Config!Now(s)]))
    BY <2>1, FitIsProper
  <2>3. Proper(s, Descriptor[s].default)
    BY SchemaHolds DEF Proper
  <2>4. Proper(s, values[s])
    BY <1>1, <2>2, <2>3
  <2> QED BY <2>4 DEF Proper
<1>3. AreValues(values)
  BY <1>1, <1>2 DEF AreValues
<1>4. ASSUME NEW s \in Config!ClampedOnLoad(h, bad) PROVE s \in Config!Setting /\ values[s] = Config!Effective(h)[s]
  <2>1. s \in Config!Setting /\ <<"read", s>> \notin bad /\ Config!Usable(s, h[Config!Now(s)])
    BY DEF Config!ClampedOnLoad
  <2>2. h[Config!Now(s)] # Absent
    BY <2>1 DEF Config!Usable
  <2> QED BY <1>1, <2>1, <2>2, PresentCounts
<1> QED BY <1>1, <1>3, <1>4 DEF values

\* Writing back what was clamped changes nothing of what the next start makes of the flash.
Rewrites(mig, st2) ==
  /\ IsStore(st2)
  /\ \A s \in Config!Setting : Config!Effective(st2.seen)[s] = Config!Effective(mig.seen)[s]
  /\ \A g \in st2.cuts :
       g \in mig.cuts \/ \A s \in Config!Setting : Config!Effective(g)[s] = Config!Effective(mig.seen)[s]

LEMMA ClampedSavesKeep ==
  ASSUME Config!ConfigStoreAssumption, NEW mig, IsStore(mig), NEW bad, NEW worse
  PROVE  Rewrites(mig, Config!Saving(mig, Config!Loaded(mig.seen, bad), Config!ClampedOnLoad(mig.seen, bad), worse))
<1> DEFINE values == Config!Loaded(mig.seen, bad)
           ds == Config!ClampedOnLoad(mig.seen, bad)
           st2 == Config!Saving(mig, values, ds, worse)
<1>1. mig.seen \in Config!Contents
  BY DEF IsStore
<1>2. /\ AreValues(values) /\ ds \in SUBSET Config!Setting
      /\ \A s \in ds : values[s] = Config!Effective(mig.seen)[s]
  BY <1>1, LoadedIs
<1> HIDE DEF values, ds
<1>3. Extends(mig, st2, values, ds, worse)
  BY <1>2, SavingKeeps
<1> HIDE DEF st2
<1>4. Rewrites(mig, st2)
  BY <1>2, <1>3 DEF Extends, Rewrites
<1> QED BY <1>4 DEF st2, values, ds

\* A start leaves the settings as they were due, and loads them so.
LEMMA BeginAgrees ==
  ASSUME Config!ConfigStoreAssumption, Config!ConfigFits, Config!Begin
  PROVE  /\ AreValues(v3') /\ v4' \in SUBSET Config!Setting /\ v11' \in SUBSET Config!Setting
         /\ Agrees(v1', v3', v4', v5', Config!Promised', Config!Setting \ v11')
<1>1. PICK bad \in Config!Failing({<<"read", 0>>} \cup Config!Reading(Config!Setting) \cup Config!MigrationOps) :
        \E mig \in {Config!Committed(Config!Migrated(v1, bad), <<"commit", 0>> \notin bad)} :
        \E ds \in {Config!ClampedOnLoad(mig.seen, bad)}, values \in {Config!Loaded(mig.seen, bad)} :
        \E worse \in IF ds = {} THEN {{}} ELSE Config!Failing(Config!SaveOps(ds)) :
          /\ v2 => v12 + Config!Cardinality(bad) + Config!Cardinality(worse) <= MaxMishaps
          /\ v12' = IF v2 THEN v12 + Config!Cardinality(bad) + Config!Cardinality(worse) ELSE v12
          /\ v1' = IF ds = {} THEN mig
                   ELSE Config!Committed(Config!Saving(mig, values, ds, worse), <<"commit", 0>> \notin worse)
          /\ v3' = values
          /\ v4' = IF ds = {} THEN {} ELSE Config!StillDirty(ds, worse)
          /\ v5' = /\ ~Config!VersionUnread(v1.seen, bad)
                   /\ Config!Fresh(v1.seen) => bad \cap {<<"write", 0>>, <<"commit", 0>>} = {}
                   /\ ds # {} => Config!SaveOk(worse, ds)
          /\ v13' = v13 \cup Config!LostIn(v1.seen, bad)
          /\ v11' = {s \in Config!Setting : <<"read", s>> \in bad} \cup Config!LostIn(v1.seen, bad)
                      \cup (IF Config!VersionUnread(v1.seen, bad) THEN Config!RenamedSettings ELSE {})
          /\ v10' = v10
  <2>1. Config!Begin
    OBVIOUS
  <2> QED BY <2>1, Zenon DEF Config!Begin, Config!Cardinality
<1> DEFINE mig0 == Config!Migrated(v1, bad)
           mig == Config!Committed(mig0, <<"commit", 0>> \notin bad)
           ds == Config!ClampedOnLoad(mig.seen, bad)
           values == Config!Loaded(mig.seen, bad)
<1>w. PICK worse :
        /\ v1' = IF ds = {} THEN mig
                 ELSE Config!Committed(Config!Saving(mig, values, ds, worse), <<"commit", 0>> \notin worse)
        /\ v3' = values
        /\ v4' = IF ds = {} THEN {} ELSE Config!StillDirty(ds, worse)
  <2> HIDE DEF mig0
  <2>1. mig \in {mig}
    OBVIOUS
  <2> QED BY <1>1 DEF mig0
<1> DEFINE st2 == Config!Saving(mig, values, ds, worse)
           old == Config!Promised
           new == Config!Promised'
<1>2. v8 = "boot" /\ v1.cuts = {v1.seen} /\ IsStore(v1) /\ old \in [Config!Setting -> SUBSET Int]
  BY DEF Config!ConfigFits, Config!Begin, IsStore
<1>3. \A s \in Config!Setting : Config!Effective(v1.seen)[s] \in old[s]
  BY <1>2 DEF Config!ConfigFits
<1>4. /\ v1' = IF ds = {} THEN mig ELSE Config!Committed(st2, <<"commit", 0>> \notin worse)
      /\ v3' = values
      /\ v4' = IF ds = {} THEN {} ELSE Config!StillDirty(ds, worse)
  BY <1>w
<1>5. v11' = {s \in Config!Setting : <<"read", s>> \in bad} \cup Config!LostIn(v1.seen, bad)
                       \cup (IF Config!VersionUnread(v1.seen, bad) THEN Config!RenamedSettings ELSE {})
  BY <1>1
<1>6. new = [s \in Config!Setting |->
               IF ~Spoilt(v1.seen, s, bad) THEN old[s] ELSE old[s] \cup {Descriptor[s].default}]
  <2>1. v10' = v10 /\ v13' = v13 \cup Config!LostIn(v1.seen, bad)
    BY <1>1
  <2>2. old = PromisedOf(v10, v13) /\ new = PromisedOf(v10', v13')
    BY DEF Config!Promised, PromisedOf
  <2> HIDE DEF old, new
  <2>3. \A s \in Config!Setting :
          PromisedOf(v10', v13')[s]
            = IF ~Spoilt(v1.seen, s, bad) THEN old[s] ELSE old[s] \cup {Descriptor[s].default}
    BY <2>1, <2>2 DEF PromisedOf, Spoilt
  <2> QED BY <2>2, <2>3 DEF PromisedOf
<1> HIDE DEF old, new
<1>7. /\ IsStore(mig0)
      /\ \A g \in mig0.cuts : \A s \in Config!Setting : Same(v1.seen, g, s, bad)
  <2>1. /\ IsStore(mig0)
        /\ \A g \in mig0.cuts : g \in v1.cuts \/ \A s \in Config!Setting : Same(v1.seen, g, s, bad)
    BY <1>2, MigratedKeeps
  <2>2. \A s \in Config!Setting : Same(v1.seen, v1.seen, s, bad)
    BY DEF Same
  <2> HIDE DEF mig0
  <2> QED BY <1>2, <2>1, <2>2
<1>8. ASSUME NEW s \in Config!Setting, ~Spoilt(v1.seen, s, bad),
             Config!VersionUnread(v1.seen, bad) => s \notin Config!RenamedSettings
      PROVE  Config!Effective(mig0.seen)[s] = Config!Fit(s, mig0.seen[Config!Now(s)])
  BY <1>2, <1>8, MigratedCounts
<1> HIDE DEF mig0
<1>9. IsStore(mig) /\ mig.seen = mig0.seen /\ mig.cuts \subseteq mig0.cuts
  BY <1>7, CommittedIs
<1>10. mig.seen \in Config!Contents /\ mig.seen \in mig.cuts
  BY <1>9 DEF IsStore
<1> HIDE DEF mig
<1>11. /\ AreValues(values) /\ ds \in SUBSET Config!Setting
       /\ \A s \in Config!Setting :
            /\ <<"read", s>> \notin bad => values[s] = Config!Fit(s, mig.seen[Config!Now(s)])
            /\ s \in ds => values[s] = Config!Effective(mig.seen)[s]
  BY <1>10, LoadedIs
<1>12. /\ IsStore(st2)
       /\ \A s \in Config!Setting : Config!Effective(st2.seen)[s] = Config!Effective(mig.seen)[s]
       /\ \A g \in st2.cuts :
            g \in mig.cuts \/ \A s \in Config!Setting : Config!Effective(g)[s] = Config!Effective(mig.seen)[s]
  <2>1. Rewrites(mig, st2)
    BY <1>9, ClampedSavesKeep
  <2> HIDE DEF st2
  <2> QED BY <2>1 DEF Rewrites
<1> HIDE DEF st2, values, ds
<1>13. /\ IsStore(Config!Committed(st2, <<"commit", 0>> \notin worse))
       /\ Config!Committed(st2, <<"commit", 0>> \notin worse).seen = st2.seen
       /\ Config!Committed(st2, <<"commit", 0>> \notin worse).cuts \subseteq st2.cuts
  BY <1>12, CommittedIs
<1>14. /\ IsStore(v1')
       /\ \A s \in Config!Setting : Config!Effective(v1'.seen)[s] = Config!Effective(mig.seen)[s]
       /\ \A g \in v1'.cuts :
            g \in mig.cuts \/ \A s \in Config!Setting : Config!Effective(g)[s] = Config!Effective(mig.seen)[s]
  <2>1. CASE ds = {}
    BY <1>4, <1>9, <2>1
  <2>2. CASE ds # {}
    BY <1>4, <1>12, <1>13, <2>2
  <2> QED BY <2>1, <2>2
<1>15. \A s \in Config!Setting : \A g \in v1'.cuts \cup {mig.seen, v1'.seen} : Same(v1.seen, g, s, bad)
  <2>1. \A s \in Config!Setting : \A g \in mig.cuts : Same(v1.seen, g, s, bad)
    BY <1>7, <1>9
  <2>2. \A s \in Config!Setting : Same(v1.seen, mig.seen, s, bad)
    BY <1>10, <2>1
  <2> QED BY <1>14, <2>1, <2>2 DEF Same
<1>16. \A s \in Config!Setting : Descriptor[s].default \in Int
  BY SchemaHolds
<1>17. new \in [Config!Setting -> SUBSET Int]
  BY <1>2, <1>6, <1>16
<1>18. \A s \in Config!Setting : \A g \in v1'.cuts \cup {mig.seen} : Config!Effective(g)[s] \in new[s]
  <2> SUFFICES ASSUME NEW s \in Config!Setting, NEW g \in v1'.cuts \cup {mig.seen}
               PROVE  Config!Effective(g)[s] \in new[s]
    OBVIOUS
  <2>1. Same(v1.seen, g, s, bad)
    BY <1>15
  <2> QED BY <1>3, <1>6, <2>1 DEF Same
<1>19. v4' \subseteq ds /\ v11' \subseteq Config!Setting
  <2>1. Config!RenamedSettings \subseteq Config!Setting
    <3>1. DOMAIN Renames = 1..Len(Renames)
      BY DEF Config!ConfigStoreAssumption, Config!ValidSchema
    <3> QED BY <3>1, SchemaHolds DEF Config!RenamedSettings
  <2>2. Config!LostIn(v1.seen, bad) \subseteq Config!Setting
    BY DEF Config!LostIn
  <2> QED BY <1>4, <1>5, <2>1, <2>2 DEF Config!StillDirty
<1>20. ASSUME NEW s \in Config!Setting \ v11'
       PROVE  ~Spoilt(v1.seen, s, bad) /\ values[s] = Config!Effective(mig.seen)[s]
  <2>1. /\ <<"read", s>> \notin bad /\ ~Spoilt(v1.seen, s, bad)
        /\ Config!VersionUnread(v1.seen, bad) => s \notin Config!RenamedSettings
    BY <1>5, <1>20 DEF Spoilt
  <2> QED BY <1>8, <1>9, <1>11, <2>1
<1>21. ASSUME NEW s \in Config!Setting
       PROVE  \/ values[s] \in new[s]
              \/ s \notin v4' \cup (Config!Setting \ v11') /\ values[s] = Descriptor[s].default
  <2>1. Config!Effective(mig.seen)[s] \in new[s]
    BY <1>18
  <2>2. CASE s \in v4' \cup (Config!Setting \ v11')
    BY <1>11, <1>19, <1>20, <2>1, <2>2
  <2>3. CASE <<"read", s>> \in bad
    BY <2>2, <2>3, <1>4 DEF values, Config!Loaded
  <2>4. CASE <<"read", s>> \notin bad /\ mig.seen[Config!Now(s)] # Absent
    BY <1>10, <1>11, <2>1, <2>4, PresentCounts
  <2>5. CASE <<"read", s>> \notin bad /\ mig.seen[Config!Now(s)] = Absent
    BY <1>11, <2>2, <2>5, AbsentIsDefault
  <2> QED BY <2>2, <2>3, <2>4, <2>5
<1>22. \A s \in Config!Setting \ v11' :
         /\ Config!Effective(v1'.seen)[s] = values[s]
         /\ \A g \in v1'.cuts : Config!Effective(g)[s] = values[s]
  BY <1>14, <1>15, <1>20 DEF Same
<1>23. Agrees(v1', v3', v4', v5', new, Config!Setting \ v11')
  BY <1>4, <1>14, <1>17, <1>18, <1>21, <1>22 DEF Agrees
<1> QED BY <1>4, <1>11, <1>19, <1>23 DEF new

-----------------------------------------------------------------------------
(* The invariant.                                                          *)

LEMMA DefaultsAreValues ==
  ASSUME Config!ConfigStoreAssumption
  PROVE  AreValues(Config!Defaults)
BY SchemaHolds DEF AreValues, Proper, Config!Defaults

\* Between a start and the next restart the invariant is that store and RAM agree.
LEMMA FitsAgree ==
  ASSUME Config!ConfigStoreAssumption, Config!ConfigFits
  PROVE  /\ AreValues(v3) /\ IsStore(v1)
         /\ v8 # "boot" => Agrees(v1, v3, v4, v5, Config!Promised, Config!Setting \ v11)
<1>1. \A s \in Config!Setting : v3[s] \in Int /\ Config!Fit(s, v3[s]) = v3[s]
  BY DEF Config!ConfigFits
<1>2. \A s \in Config!Setting : Proper(s, v3[s])
  BY <1>1, FitIsProper
<1>3. AreValues(v3)
  BY <1>2 DEF AreValues, Config!ConfigFits
<1>4. v8 # "boot" => Agrees(v1, v3, v4, v5, Config!Promised, Config!Setting \ v11)
  BY DEF Config!ConfigFits, Agrees, IsStore
<1> QED BY <1>3, <1>4 DEF Config!ConfigFits, IsStore

LEMMA AgreesClean ==
  ASSUME NEW st, NEW values, NEW ds, NEW ok, NEW promised, NEW sure,
         Agrees(st, values, ds, ok, promised, sure)
  PROVE  \A s \in sure \ ds : /\ Config!Effective(st.seen)[s] = values[s]
                              /\ ok => \A g \in st.cuts : Config!Effective(g)[s] = values[s]
BY Zenon DEF Agrees

LEMMA AgreesFits ==
  ASSUME Config!ConfigStoreAssumption, AreValues(v3'), v4' \in SUBSET Config!Setting, v11' \in SUBSET Config!Setting,
         Agrees(v1', v3', v4', v5', Config!Promised', Config!Setting \ v11'), v8' # "boot"
  PROVE  Config!ConfigFits'
<1>1. v3' \in [Config!Setting -> Int] /\ \A s \in Config!Setting : Config!Fit(s, v3'[s]) = v3'[s]
  BY ProperFits DEF AreValues
<1>2. /\ v1' \in [seen : Config!Contents, cuts : SUBSET Config!Contents] /\ v1'.seen \in v1'.cuts
      /\ Config!Promised' \in [Config!Setting -> SUBSET Int]
      /\ \A s \in Config!Setting, g \in v1'.cuts : Config!Effective(g)[s] \in Config!Promised'[s]
  BY DEF Agrees, IsStore
<1>3. \A s \in Config!Setting :
        v3'[s] \in Config!Promised'[s] \/ (s \in v11' \ v4' /\ v3'[s] = Descriptor[s].default)
  BY DEF Agrees
<1>4. \A s \in Config!Setting \ (v4' \cup v11') :
        /\ Config!Effective(v1'.seen)[s] = v3'[s]
        /\ v5' => \A g \in v1'.cuts : Config!Effective(g)[s] = v3'[s]
  <2>1. \A s \in (Config!Setting \ v11') \ v4' :
          /\ Config!Effective(v1'.seen)[s] = v3'[s]
          /\ v5' => \A g \in v1'.cuts : Config!Effective(g)[s] = v3'[s]
    <3>1. Agrees(v1', v3', v4', v5', Config!Promised', Config!Setting \ v11')
      OBVIOUS
    <3> QED BY <3>1, AgreesClean
  <2>2. (Config!Setting \ v11') \ v4' = Config!Setting \ (v4' \cup v11')
    OBVIOUS
  <2> QED BY <2>1, <2>2, Zenon
<1> QED BY <1>1, <1>2, <1>3, <1>4 DEF Config!ConfigFits

LEMMA BootFits ==
  ASSUME Config!ConfigStoreAssumption, NEW flash \in Config!Contents, v1' = Config!Left(flash), Config!Down,
         Config!Promised' \in [Config!Setting -> SUBSET Int],
         \A s \in Config!Setting : Config!Effective(flash)[s] \in Config!Promised'[s]
  PROVE  Config!ConfigFits'
<1>1. v3' = Config!Defaults /\ v4' = {} /\ v11' = {} /\ v8' = "boot"
  BY DEF Config!Down
<1>2. v3' \in [Config!Setting -> Int] /\ \A s \in Config!Setting : Config!Fit(s, v3'[s]) = v3'[s]
  BY <1>1, DefaultsAreValues, ProperFits DEF AreValues
<1>3. v1' = [seen |-> flash, cuts |-> {flash}]
  BY DEF Config!Left
<1> QED BY <1>1, <1>2, <1>3 DEF Config!ConfigFits

\* Nothing that the invariant is about changes.
LEMMA SameFits ==
  ASSUME Config!ConfigFits, UNCHANGED <<v1, v3, v4, v5, v10, v11, v13>>, (v8' = "boot") <=> (v8 = "boot")
  PROVE  Config!ConfigFits'
BY DEF Config!ConfigFits, Config!Promised

\* What a command leaves in the RAM.
LEMMA TakenIs ==
  ASSUME Config!ConfigStoreAssumption, AreValues(v3), NEW values,
         \A s \in DOMAIN values : s \in Config!Setting /\ ~Config!Refused(s, values[s]) => values[s] \in Int
  PROVE  /\ AreValues(Config!Taken(values)) /\ Config!ChangedBy(values) \in SUBSET Config!Setting
         /\ \A s \in Config!Setting \ Config!ChangedBy(values) : Config!Taken(values)[s] = v3[s]
<1> DEFINE t == Config!Taken(values)
<1>1. t = [s \in Config!Setting |-> IF s \in DOMAIN values /\ ~Config!Refused(s, values[s])
                                   THEN Config!Clamped(s, values[s]) ELSE v3[s]]
  BY DEF Config!Taken
<1>2. Config!ChangedBy(values) = {s \in Config!Setting : t[s] # v3[s]}
  BY DEF Config!ChangedBy
<1> HIDE DEF t
<1>3. ASSUME NEW s \in Config!Setting PROVE Proper(s, t[s]) /\ t[s] \in Int
  <2>1. CASE s \in DOMAIN values /\ ~Config!Refused(s, values[s])
    <3>1. Proper(s, Config!Clamped(s, values[s]))
      BY <2>1, ClampedIsProper
    <3> QED BY <1>1, <2>1, <3>1 DEF Proper
  <2>2. CASE ~(s \in DOMAIN values /\ ~Config!Refused(s, values[s]))
    BY <1>1, <2>2 DEF AreValues
  <2> QED BY <2>1, <2>2
<1>4. AreValues(t)
  BY <1>1, <1>3 DEF AreValues
<1> QED BY <1>2, <1>4 DEF t

\* A save.
LEMMA FlushFits ==
  ASSUME Config!ConfigStoreAssumption, Config!ConfigFits, v8 # "boot", v8' # "boot",
         NEW values, AreValues(values), NEW ds \in SUBSET Config!Setting, v4 \subseteq ds,
         \A s \in Config!Setting \ ds : values[s] = v3[s], NEW lately,
         Config!Flush(values, ds, lately), v3' = values
  PROVE  Config!ConfigFits'
<1>1. PICK bad \in Config!Failing(Config!SaveOps(ds)) :
        /\ v1' = Config!Committed(Config!Saving(v1, values, ds, bad), <<"commit", 0>> \notin bad)
        /\ v4' = Config!StillDirty(ds, bad)
        /\ v5' = Config!SaveOk(bad, ds)
        /\ Config!Saved(values, ds, bad)
  BY Zenon DEF Config!Flush
<1>2. v11' = v11 \ (ds \ Config!StillDirty(ds, bad))
  BY <1>1 DEF Config!Saved
<1>3. Config!Promised' = AfterSave(values, ds, bad)
  BY <1>1, SavePromises DEF Config!Saved
<1>4. Agrees(Config!Committed(Config!Saving(v1, values, ds, bad), <<"commit", 0>> \notin bad),
             values, Config!StillDirty(ds, bad), Config!SaveOk(bad, ds),
             AfterSave(values, ds, bad), Config!Setting \ (v11 \ (ds \ Config!StillDirty(ds, bad))))
  BY SaveAgrees
<1>5. Agrees(v1', v3', v4', v5', Config!Promised', Config!Setting \ v11')
  BY <1>1, <1>2, <1>3, <1>4, Zenon
<1>6. v4' \in SUBSET Config!Setting /\ v11' \in SUBSET Config!Setting
  <2>1. v11 \subseteq Config!Setting
    BY DEF Config!ConfigFits
  <2> QED BY <1>1, <1>2, <2>1 DEF Config!StillDirty
<1> QED BY <1>5, <1>6, AgreesFits

LEMMA ConfigInit ==
  ASSUME Config!ConfigStoreAssumption, Config!Init
  PROVE  Config!ConfigFits
<1>1. PICK flash \in Stored : v1 = Config!Left(flash)
  BY DEF Config!Init
<1>2. flash \in Config!Contents /\ v1 = [seen |-> flash, cuts |-> {flash}]
  BY <1>1 DEF Config!ConfigStoreAssumption, Config!Left
<1>3. /\ v3 = Config!Defaults /\ v4 = {} /\ v11 = {} /\ v13 = {} /\ v8 = "boot"
      /\ v10 = [s \in Config!Setting |-> {Config!Effective(flash)[s]}]
  BY <1>2 DEF Config!Init
<1>4. v3 \in [Config!Setting -> Int] /\ \A s \in Config!Setting : Config!Fit(s, v3[s]) = v3[s]
  BY <1>3, DefaultsAreValues, ProperFits DEF AreValues
<1>5. \A s \in Config!Setting : Config!Effective(flash)[s] \in Int
  BY <1>2, WorthIsContent
<1>6. /\ Config!Promised \in [Config!Setting -> SUBSET Int]
      /\ \A s \in Config!Setting : Config!Effective(flash)[s] \in Config!Promised[s]
  BY <1>3, <1>5 DEF Config!Promised
<1> QED BY <1>2, <1>3, <1>4, <1>6 DEF Config!ConfigFits

\* A reset, at the button or by command.
LEMMA ResetFits ==
  ASSUME Config!ConfigStoreAssumption, Config!ConfigFits, Config!ResetSettings, v8' # "boot"
  PROVE  Config!ConfigFits'
<1>1. /\ v3' = Config!Defaults /\ v4' = {} /\ v11' \in SUBSET Config!Setting
      /\ Agrees(v1', v3', {}, v5', Config!Promised', Config!Setting \ v11')
  BY ResetAgrees
<1>2. AreValues(v3')
  BY <1>1, DefaultsAreValues
<1>3. Agrees(v1', v3', v4', v5', Config!Promised', Config!Setting \ v11') /\ v4' \in SUBSET Config!Setting
  BY <1>1
<1> QED BY <1>1, <1>2, <1>3, AgreesFits

\* One setting is changed.
LEMMA SetFits ==
  ASSUME Config!ConfigStoreAssumption, Config!ConfigFits, Config!Set
  PROVE  Config!ConfigFits'
<1>1. PICK s0 \in Config!Setting : \E entry \in [{s0} -> Entered[s0]] :
        /\ v3' = Config!Taken(entry) /\ v4' = v4 \cup Config!ChangedBy(entry)
        /\ v10' = Config!Found(Config!Taken(entry))
  BY DEF Config!Set
<1>2. PICK entry \in [{s0} -> Entered[s0]] :
        /\ v3' = Config!Taken(entry) /\ v4' = v4 \cup Config!ChangedBy(entry)
        /\ v10' = Config!Found(Config!Taken(entry))
  BY <1>1
<1>3. /\ v3' = Config!Taken(entry) /\ v4' = v4 \cup Config!ChangedBy(entry)
      /\ v10' = [s \in Config!Setting |-> v10[s] \cup {Config!Taken(entry)[s]}]
  BY <1>2 DEF Config!Found
<1>4. v8 # "boot" /\ v8' # "boot" /\ v1' = v1 /\ v5' = v5 /\ v11' = v11 /\ v13' = v13
  BY DEF Config!Set
<1>5. \A s \in DOMAIN entry : s \in Config!Setting /\ ~Config!Refused(s, entry[s]) => entry[s] \in Int
  <2>1. DOMAIN entry = {s0} /\ entry[s0] \in Entered[s0]
    OBVIOUS
  <2>2. entry[s0] \in Config!Enterable(s0)
    BY <2>1 DEF Config!ConfigStoreAssumption
  <2> QED BY <2>1, <2>2 DEF Config!Enterable, Config!Refused
<1>6. AreValues(v3) /\ Agrees(v1, v3, v4, v5, Config!Promised, Config!Setting \ v11)
  BY <1>4, FitsAgree
<1>7. /\ AreValues(v3') /\ Config!ChangedBy(entry) \in SUBSET Config!Setting
      /\ \A s \in Config!Setting \ Config!ChangedBy(entry) : v3'[s] = v3[s]
  BY <1>3, <1>5, <1>6, TakenIs
<1>8. Config!Promised' = [s \in Config!Setting |-> Config!Promised[s] \cup {v3'[s]}]
  <2>1. Config!Promised = PromisedOf(v10, v13) /\ Config!Promised' = PromisedOf(v10', v13')
    BY DEF Config!Promised, PromisedOf
  <2>2. \A s \in Config!Setting : PromisedOf(v10', v13')[s] = PromisedOf(v10, v13)[s] \cup {v3'[s]}
    BY <1>3, <1>4 DEF PromisedOf
  <2> QED BY <2>1, <2>2 DEF PromisedOf
<1>9. v4 \subseteq Config!Setting /\ v11 \subseteq Config!Setting
  BY DEF Config!ConfigFits
<1>10. Config!Promised' \in [Config!Setting -> SUBSET Int]
  <2>1. Config!Promised \in [Config!Setting -> SUBSET Int]
    BY <1>6 DEF Agrees
  <2>2. \A s \in Config!Setting : v3'[s] \in Int
    BY <1>7 DEF AreValues
  <2> QED BY <1>8, <2>1, <2>2
<1>11. Agrees(v1', v3', v4', v5', Config!Promised', Config!Setting \ v11')
  BY <1>3, <1>4, <1>6, <1>7, <1>8, <1>9, <1>10 DEF Agrees
<1> QED BY <1>3, <1>4, <1>7, <1>9, <1>11, AgreesFits

\* A backup is imported.
LEMMA ImportFits ==
  ASSUME Config!ConfigStoreAssumption, Config!ConfigFits, Config!Import
  PROVE  Config!ConfigFits'
<1>1. PICK file \in {f \in Files : Config!Acceptable(f)} :
        \E ds \in {v4 \cup Config!ChangedBy(file.entries)}, values \in {Config!Taken(file.entries)} :
          /\ v3' = values
          /\ Config!Flush(values, ds, IF Config!ChangedBy(file.entries) = {} THEN v6 ELSE 0)
  BY DEF Config!Import
<1> DEFINE entries == file.entries
           values == Config!Taken(entries)
           ds == v4 \cup Config!ChangedBy(entries)
           lately == IF Config!ChangedBy(entries) = {} THEN v6 ELSE 0
<1>2. v3' = values /\ Config!Flush(values, ds, lately)
  BY <1>1
<1>3. v8 # "boot" /\ v8' # "boot"
  BY DEF Config!Import
<1>4. \A s \in DOMAIN entries : s \in Config!Setting /\ ~Config!Refused(s, entries[s]) => entries[s] \in Int
  <2> SUFFICES ASSUME NEW s \in DOMAIN entries, ~Config!Refused(s, entries[s]) PROVE entries[s] \in Int
    OBVIOUS
  <2>1. s \in Config!Setting /\ entries[s] \in Config!Enterable(s) \cup {Odd} /\ entries[s] # Odd
    BY DEF Config!ConfigStoreAssumption, Config!Acceptable
  <2> QED BY <2>1 DEF Config!Enterable, Config!Refused
<1> HIDE DEF entries
<1>5. AreValues(v3) /\ v4 \subseteq Config!Setting
  BY FitsAgree DEF Config!ConfigFits
<1>6. /\ AreValues(values) /\ Config!ChangedBy(entries) \in SUBSET Config!Setting
      /\ \A s \in Config!Setting \ Config!ChangedBy(entries) : values[s] = v3[s]
  BY <1>4, <1>5, TakenIs
<1> HIDE DEF values, lately
<1> QED BY <1>2, <1>3, <1>5, <1>6, FlushFits

\* The end of a pass.
LEMMA PassFits ==
  ASSUME Config!ConfigStoreAssumption, Config!ConfigFits, Config!Pass
  PROVE  Config!ConfigFits'
<1>1. v8 = "up" /\ v8' = v8 /\ v3' = v3
  BY DEF Config!Pass
<1>2. CASE Config!SaveIsDue
  <2>1. Config!Flush(v3, v4, Config!Older(v6, 1, Debounce))
    BY <1>2 DEF Config!Pass
  <2>2. AreValues(v3) /\ v4 \in SUBSET Config!Setting
    BY FitsAgree DEF Config!ConfigFits
  <2> QED BY <1>1, <2>1, <2>2, FlushFits
<1>3. CASE ~Config!SaveIsDue
  <2>1. UNCHANGED <<v1, v3, v4, v5, v8, v10, v11, v13>>
    BY <1>1, <1>3 DEF Config!Pass
  <2> QED BY <2>1, SameFits
<1> QED BY <1>2, <1>3

\* The restart that was asked for.
LEMMA RebootFits ==
  ASSUME Config!ConfigStoreAssumption, Config!ConfigFits, Config!Reboot
  PROVE  Config!ConfigFits'
<1>1. PICK bad \in Config!Failing(Config!SaveOps(v4)) :
        /\ \E flash \in Config!Committed(Config!Saving(v1, v3, v4, bad), <<"commit", 0>> \notin bad).cuts :
             v1' = Config!Left(flash)
        /\ v10' = IF Config!SaveOps(v4) \cap bad = {}
                  THEN [s \in Config!Setting |-> IF s \in v11 \ v4 THEN v10[s] ELSE {v3[s]}]
                  ELSE Config!Found(v3)
        /\ v13' = IF Config!SaveOps(v4) \cap bad = {} THEN v13 \cap (v11 \ v4) ELSE v13
  BY Zenon DEF Config!Reboot
<1> DEFINE st == Config!Committed(Config!Saving(v1, v3, v4, bad), <<"commit", 0>> \notin bad)
<1>2. v8 # "boot" /\ Config!Down
  BY DEF Config!Reboot
<1>3. AreValues(v3) /\ v4 \in SUBSET Config!Setting
  BY FitsAgree DEF Config!ConfigFits
<1>4. Agrees(st, v3, Config!StillDirty(v4, bad), Config!SaveOk(bad, v4),
             AfterSave(v3, v4, bad), Config!Setting \ (v11 \ (v4 \ Config!StillDirty(v4, bad))))
  BY <1>2, <1>3, SaveAgrees
<1> HIDE DEF st
<1>p. Config!Promised' = AfterSave(v3, v4, bad)
  BY <1>1, SavePromises
<1>5. /\ IsStore(st) /\ Config!Promised' \in [Config!Setting -> SUBSET Int]
      /\ \A s \in Config!Setting, g \in st.cuts : Config!Effective(g)[s] \in Config!Promised'[s]
  BY <1>4, <1>p DEF Agrees
<1>6. PICK flash \in st.cuts : v1' = Config!Left(flash)
  BY <1>1 DEF st
<1>7. flash \in Config!Contents
  BY <1>5 DEF IsStore
<1> QED BY <1>2, <1>5, <1>6, <1>7, BootFits

\* A power failure, perhaps in the middle of a start or of a save.
LEMMA CrashFits ==
  ASSUME Config!ConfigStoreAssumption, Config!ConfigFits, Config!Crash
  PROVE  Config!ConfigFits'
<1>1. /\ v10' = v10 /\ v13' = v13 /\ Config!Down
      /\ \E flash \in Config!Underway.cuts : v1' = Config!Left(flash)
  BY DEF Config!Crash
<1>2. /\ AreValues(v3) /\ IsStore(v1) /\ v4 \in SUBSET Config!Setting
      /\ Config!Promised \in [Config!Setting -> SUBSET Int]
      /\ \A s \in Config!Setting, g \in v1.cuts : Config!Effective(g)[s] \in Config!Promised[s]
      /\ v8 # "boot" => \A s \in v4 : v3[s] \in Config!Promised[s]
      /\ v8 = "boot" => v1.cuts = {v1.seen}
  BY FitsAgree DEF Config!ConfigFits
<1>3. \A s \in Config!Setting : Config!Effective(v1.seen)[s] \in Config!Promised[s]
  BY <1>2 DEF IsStore
<1>4. /\ Config!Underway.cuts \subseteq Config!Contents
      /\ \A s \in Config!Setting, g \in Config!Underway.cuts : Config!Effective(g)[s] \in Config!Promised[s]
  <2>1. CASE v2 /\ v8 = "boot"
    <3> DEFINE mig == Config!Migrated(v1, {})
               st2 == Config!Saving(mig, Config!Loaded(mig.seen, {}), Config!ClampedOnLoad(mig.seen, {}), {})
    <3>1. Config!Underway = st2
      BY <2>1 DEF Config!Underway
    <3>2. /\ IsStore(mig)
          /\ \A g \in mig.cuts : g \in v1.cuts \/ \A s \in Config!Setting : Same(v1.seen, g, s, {})
      BY <1>2, MigratedKeeps
    <3> HIDE DEF mig
    <3>3. Rewrites(mig, st2)
      BY <3>2, ClampedSavesKeep
    <3> HIDE DEF st2
    <3>4. \A s \in Config!Setting, g \in mig.cuts : Config!Effective(g)[s] \in Config!Promised[s]
      BY <1>2, <1>3, <3>2, NothingSpoilt DEF Same
    <3>5. \A s \in Config!Setting : Config!Effective(mig.seen)[s] \in Config!Promised[s]
      BY <3>2, <3>4 DEF IsStore
    <3>6. \A s \in Config!Setting, g \in st2.cuts : Config!Effective(g)[s] \in Config!Promised[s]
      BY <3>3, <3>4, <3>5 DEF Rewrites
    <3> QED BY <3>1, <3>3, <3>6 DEF Rewrites, IsStore
  <2>2. CASE v2 /\ v8 = "up" /\ Config!SaveIsDue
    <3> DEFINE st2 == Config!Saving(v1, v3, v4, {})
    <3>1. Config!Underway = st2
      BY <2>2 DEF Config!Underway
    <3>2. Extends(v1, st2, v3, v4, {})
      BY <1>2, SavingKeeps
    <3> HIDE DEF st2
    <3>3. \A s \in Config!Setting, g \in st2.cuts : Config!Effective(g)[s] \in Config!Promised[s]
      BY <1>2, <1>3, <2>2, <3>2 DEF Extends
    <3> QED BY <3>1, <3>2, <3>3 DEF Extends, IsStore
  <2>3. CASE ~(v2 /\ v8 = "boot") /\ ~(v2 /\ v8 = "up" /\ Config!SaveIsDue)
    <3>1. Config!Underway = v1
      BY <2>3 DEF Config!Underway
    <3> QED BY <1>2, <3>1 DEF IsStore
  <2> QED BY <2>1, <2>2, <2>3
<1>5. PICK flash \in Config!Underway.cuts : v1' = Config!Left(flash)
  BY <1>1
<1>6. Config!Promised' = Config!Promised
  BY <1>1 DEF Config!Promised
<1> QED BY <1>1, <1>2, <1>4, <1>5, <1>6, BootFits

LEMMA ConfigNext ==
  ASSUME Config!ConfigStoreAssumption, Config!ConfigFits, Config!Next
  PROVE  Config!ConfigFits'
<1>1. CASE Config!Begin
  <2>1. /\ AreValues(v3') /\ v4' \in SUBSET Config!Setting /\ v11' \in SUBSET Config!Setting
        /\ Agrees(v1', v3', v4', v5', Config!Promised', Config!Setting \ v11')
    BY <1>1, BeginAgrees
  <2>2. v8' # "boot"
    BY <1>1 DEF Config!Begin
  <2> QED BY <2>1, <2>2, AgreesFits
<1>2. CASE Config!PollButton \/ Config!AskReboot
  <2>1. UNCHANGED <<v1, v3, v4, v5, v8, v10, v11, v13>>
    BY <1>2 DEF Config!PollButton, Config!AskReboot
  <2> QED BY <2>1, SameFits
<1>3. CASE Config!Start
  <2>1. v8 # "boot" /\ v8' # "boot"
    BY <1>3 DEF Config!Start
  <2>2. CASE v9.phase = "Confirmed"
    <3>1. Config!ResetSettings
      BY <1>3, <2>2 DEF Config!Start
    <3> QED BY <2>1, <3>1, ResetFits
  <2>3. CASE v9.phase # "Confirmed"
    <3>1. UNCHANGED <<v1, v3, v4, v5, v10, v11, v13>>
      BY <1>3, <2>3 DEF Config!Start
    <3>2. (v8' = "boot") <=> (v8 = "boot")
      BY <2>1
    <3> QED BY <3>1, <3>2, SameFits
  <2> QED BY <2>2, <2>3
<1>4. CASE Config!Set
  BY <1>4, SetFits
<1>5. CASE Config!Import
  BY <1>5, ImportFits
<1>6. CASE Config!FactoryReset
  <2>1. Config!ResetSettings /\ v8' # "boot"
    BY <1>6 DEF Config!FactoryReset
  <2> QED BY <2>1, ResetFits
<1>7. CASE Config!Pass
  BY <1>7, PassFits
<1>8. CASE Config!Reboot
  BY <1>8, RebootFits
<1>9. CASE Config!Crash
  BY <1>9, CrashFits
<1> QED BY <1>1, <1>2, <1>3, <1>4, <1>5, <1>6, <1>7, <1>8, <1>9 DEF Config!Next

\* The two properties follow.
LEMMA ConfigSafe ==
  ASSUME Config!ConfigFits
  PROVE  Config!RestartKeepsSettings /\ Config!CleanIsSaved
BY DEF Config!ConfigFits, Config!Promised, Config!RestartKeepsSettings, Config!CleanIsSaved

-----------------------------------------------------------------------------
(* The settings within the composition.                                    *)

ConfigIsFit == part = "config" => Config!ConfigFits

\* ConfigEngine: ConfigFits holds wherever the settings are the part looked at.
LEMMA ConfigStaysFit == Spec => []ConfigIsFit
<1>1. Init => ConfigIsFit
  BY ConfigInit, HomeAssumption DEF Init, ConfigIsFit, HomeAssumption
<1>2. ConfigIsFit /\ [Next]_vars => ConfigIsFit'
  <2> SUFFICES ASSUME ConfigIsFit, [Next]_vars, part' = "config" PROVE Config!ConfigFits'
    BY DEF ConfigIsFit
  <2>1. CASE part = "config" /\ Config!Next
    BY <2>1, ConfigNext, HomeAssumption DEF ConfigIsFit, HomeAssumption
  <2>2. CASE UNCHANGED vars
    <3>1. part = "config" /\ UNCHANGED <<v1, v3, v4, v5, v8, v10, v11, v13>>
      BY <2>2 DEF vars
    <3> QED BY <3>1, SameFits DEF ConfigIsFit
  <2> QED BY <2>1, <2>2 DEF Next
<1> QED BY <1>1, <1>2, PTL DEF Spec

\* ConfigEngine::flushNow, applyRename, loadFromStore, factoryReset: a setting comes up with
\* what was last saved or was on its way, or with its default if a rename that failed removed it
\* or it cannot be read; and while no failure is reported what is not marked for saving is in
\* the flash, for any schema, values, backups and first contents of the flash.
THEOREM SettingsDoSurvive == Spec => []SettingsSurvive
<1>1. ConfigIsFit => SettingsSurvive
  BY ConfigSafe DEF ConfigIsFit, SettingsSurvive
<1> QED BY <1>1, ConfigStaysFit, PTL

=============================================================================
