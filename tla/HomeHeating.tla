----------------------------- MODULE HomeHeating -----------------------------
(***************************************************************************)
(* The heating controller of the house without its mixing valve            *)
(* (home-heating/lib/HomeHeatingEngine): the radiator pump P4 with its     *)
(* off-delay and fail-safes, the diverter K2 that charges the hot-water    *)
(* tank (relay on: tank; off: bypass), the "no need" flag the boiler room  *)
(* is sent, the alarms and the check of P4's flow, over the relay bank.    *)
(*                                                                         *)
(* All of it runs in the loop task.  A slow pass applies the commands that *)
(* wait, ticks the hardware, decides, and ends like a fast pass with a     *)
(* change of the inhibit and an update of the bank.  Temperatures are half *)
(* degrees and times are ages.  A plant is a choice of what sensors,       *)
(* settings and exercises may do; one behaviour is about one plant.        *)
(* Left out: the readiness of the settings (fixed when the firmware is     *)
(* built), the event log, and the status slice, which copies the decisions.*)
(***************************************************************************)
EXTENDS Integers, FiniteSets, Ages

CONSTANTS Plant,        \* names of plants, and for each of them
          Readings,     \* what its sensors and the valve may show in a pass
          Choices,      \* the settings it may be given
          Exercises,    \* the outputs its anti-seize exercises
          Updated,      \* the plants whose outputs firmware updates hold off
          AgeCap,       \* no period is longer
          Steps         \* how long it may be from one slow pass to the next

VARIABLES plant,        \* never changes
          settings,     \* those of the last slow pass
          pump,         \* P4Logic: the request and the age of _lastDemandMs
          diverter,     \* K2Logic
          noNeed, alarms,
          flow,         \* P4FlowCheck
          bank,         \* RelayBank
          read, calm    \* history: see below

vars == <<plant, settings, pump, diverter, noNeed, alarms, flow, bank,
          read, calm>>

Output == {"P4", "K2"}
Probe == {"H1", "H2", "H3", "H4"}
Age == 0..AgeCap

Reading == [health : {"Ok", "Failed", "Pending"}, c : Int]
Sensors == [H1 : Reading, H2 : Reading, H3 : Reading, H4 : Reading,
            valveKnown : BOOLEAN, valveOpen : BOOLEAN]

\* k2Delta and k2H4MaxHyst are at least one degree, by the settings table.
Settings == [heating : BOOLEAN, h2Set : Int, offDelay : Age, lock : Age,
             k2Delta : Nat \ {0}, k2DeltaHyst : Int, k2H3Min : Int, k2H3MinHyst : Int,
             k2H4Max : Int, k2H4MaxHyst : Nat \ {0},
             checking : BOOLEAN, minOn : Age, delta : Int, minDiff : Int]

\* A pass is shorter than the days after which an idle output is exercised.
HomeHeatingAssumption ==
  /\ AgeCap \in Nat /\ Steps \subseteq 1..(AgeCap - 1)
  /\ \A p \in Plant : /\ Readings[p] \subseteq Sensors /\ Choices[p] \subseteq Settings
                      /\ Exercises[p] \subseteq Output

Bank == INSTANCE RelayBank WITH
          Channel <- Output, Lockable <- Output, Logged <- Output, Emergency <- {},
          Exercised <- Output, LockValues <- Age, log <- {}, noticed <- {}

Failed(r, h) == r[h].health = "Failed"
Pending(r, h) == r[h].health = "Pending"

\* computeFailMode(), as far as the pump is concerned.
FailedOf(r) == {h \in {"H1", "H2", "H3"} : Failed(r, h)}
Multi(r) == Cardinality(FailedOf(r)) >= 2

Lower(a, b) == IF a < b THEN a ELSE b

\* Mistake: a hysteresis as wide as the differential goes through.
UnguardedSettings(s) == s

\* guardHomeHeatingSettings().
Guarded(s) == [s EXCEPT !.k2DeltaHyst = Lower(@, s.k2Delta - 1)]

-----------------------------------------------------------------------------
(* P4Logic. *)

Demand(s, r) == \/ Failed(r, "H3") /\ ~Multi(r)
                \/ r.H3.health = "Ok" /\ (Multi(r) \/ r.H3.c >= s.h2Set)

\* Rules 6 and 7: no demand from a settled H3.
Delays(p, s, r) == r.H3.health = "Ok" /\ p.on /\ p.since < s.offDelay

Pump(p, s, r) ==
  [on |-> s.heating /\ (Demand(s, r) \/ Delays(p, s, r)),
   since |-> IF s.heating /\ Demand(s, r) THEN 0 ELSE p.since]

OffDelayElapsed(p, s) == ~s.heating \/ (~p.on /\ p.since >= s.offDelay)

-----------------------------------------------------------------------------
(* K2Logic. *)

Reset == [bypass |-> FALSE, valid |-> FALSE, deltaOk |-> FALSE, h3Ok |-> FALSE, h4Ok |-> FALSE]

Latched(ok, sets, clears) == IF ok THEN ~clears ELSE sets

Waiting(k) == [Reset EXCEPT !.bypass = k.bypass]

Divert(k, s, r) ==
  LET h3 == r.H3.c
      h4 == r.H4.c
      \* Without a history there is no hysteresis: h4Ok starts as "not full".
      was == IF k.valid THEN k ELSE [Reset EXCEPT !.h4Ok = TRUE]
      deltaOk == Latched(was.deltaOk, h3 > h4 + s.k2Delta, h3 <= h4 + s.k2Delta - s.k2DeltaHyst)
      h3Ok == Latched(was.h3Ok, h3 >= s.k2H3Min, h3 < s.k2H3Min - s.k2H3MinHyst)
      h4Ok == Latched(was.h4Ok, h4 <= s.k2H4Max - s.k2H4MaxHyst, h4 >= s.k2H4Max)
  IN IF Failed(r, "H4") \/ Failed(r, "H3") THEN [Reset EXCEPT !.bypass = TRUE]
     ELSE IF Pending(r, "H3") \/ Pending(r, "H4") THEN Waiting(k)
     ELSE [bypass |-> ~(deltaOk /\ h3Ok /\ h4Ok), valid |-> TRUE,
           deltaOk |-> deltaOk, h3Ok |-> h3Ok, h4Ok |-> h4Ok]

-----------------------------------------------------------------------------
(* "No need", from the requests and the relays as they stand in bank b.  An *)
(* exercise does not count as a need.                                       *)

Exercising(b, o) == b.exercise[o] # "unset"

\* Mistake: the relay of a pump held on by its lock is not looked at.
PumpStopped(p, b) == ~p.on
PumpIsOff(p, b) == ~p.on /\ (Exercising(b, "P4") \/ "P4" \notin b.actual)
Bypassed(k, b) == k.bypass /\ (Exercising(b, "K2") \/ "K2" \notin b.actual)

NoNeed(p, k, s, r, b) ==
  /\ \A h \in Probe : ~Pending(r, h)
  /\ ~(s.heating /\ Failed(r, "H3"))
  /\ Bypassed(k, b) /\ PumpIsOff(p, b) /\ OffDelayElapsed(p, s)

\* computeAlarmMask(): fail-safes of single sensors, or of the house.  The bit that
\* each faulty or unassigned sensor has besides is left out.
Alarms(r) ==
  (IF Multi(r) THEN {"multi"} ELSE FailedOf(r)) \cup {h \in {"H4"} : Failed(r, h)}

-----------------------------------------------------------------------------
(* P4FlowCheck: the pump has run long enough, the valve is open, the supply *)
(* is hot, and yet the radiators do not warm up.                            *)

Untracked == [tracking |-> FALSE, ran |-> 0, warns |-> FALSE]

Tracking(r, b) == /\ "P4" \in b.actual /\ r.valveKnown
                  /\ \A h \in {"H1", "H2", "H3"} : r[h].health = "Ok"

Checked(f, s, r, b) ==
  IF ~Tracking(r, b) THEN Untracked
  ELSE [tracking |-> TRUE, ran |-> f.ran,
        warns |-> /\ s.checking /\ f.ran >= s.minOn /\ r.valveOpen
                  /\ r.H3.c > r.H1.c + s.delta /\ r.H2.c - r.H1.c < s.minDiff]

-----------------------------------------------------------------------------
(* The passes.  History: `read`, what the last settled readings say of the  *)
(* tank; `calm`, how long no pass has found H3 at the setpoint (or a       *)
(* failure that forces the pump) with the heating on.                      *)

\* AntiSeizeScheduler, of an output that has long been idle: the pump is
\* exercised on, the diverter to the other side.
Idle(b, o) == b.since[o] = AgeCap /\ (o = "P4" => o \notin b.actual)
Exercise(b, os) ==
  [b EXCEPT !.exercise = [o \in Output |->
      IF o \notin os THEN "unset"
      ELSE IF b.exercise[o] # "unset" THEN b.exercise[o]
      ELSE IF ~Idle(b, o) THEN "unset"
      ELSE IF o \in b.actual THEN "off" ELSE "on"]]

\* What nobody reads here of a bank.
Plain(b) == [b EXCEPT !.reason = [o \in Output |-> "Boot"], !.delayed = {},
                      !.delayLogged = {}, !.hasBeenOn = {}, !.sinceOn = [o \in Output |-> 0]]

\* hw.tick().
HwTick(b, lock, os) ==
  LET locked == Bank!SetLockMs(b, lock)
  IN Bank!Update(IF b.inhibited THEN locked ELSE Exercise(locked, os))

\* requestControl() of both outputs; the relay of K2 is on for the tank.
Requested(b, p, k) ==
  [b EXCEPT !.control = {o \in Output : IF o = "P4" THEN p.on ELSE ~k.bypass}]

\* net.fastTick() and hw.fastTick().
FastTicks(b, off) == Plain(Bank!Update(Bank!SetInhibited(b, off)))

OutputsOff == IF plant \in Updated THEN BOOLEAN ELSE {FALSE}

Begin(s) ==
  /\ settings' = s
  /\ pump' = [on |-> FALSE, since |-> 0] /\ diverter' = Reset
  /\ noNeed' = FALSE /\ alarms' = {} /\ flow' = Untracked
  /\ bank' = Bank!Configured(s.lock)
  /\ read' = "nothing" /\ calm' = 0

Init ==
  /\ plant \in Plant /\ settings \in Choices[plant]
  /\ pump = [on |-> FALSE, since |-> 0] /\ diverter = Reset
  /\ noNeed = FALSE /\ alarms = {} /\ flow = Untracked
  /\ bank = Bank!Configured(settings.lock)
  /\ read = "nothing" /\ calm = 0

\* What a reading says of the tank, if it says anything.
Told(s, r) ==
  CASE Failed(r, "H3") \/ Failed(r, "H4") -> "unsafe"
    [] ~Failed(r, "H3") /\ ~Failed(r, "H4") /\ (Pending(r, "H3") \/ Pending(r, "H4")) -> read
    [] OTHER -> IF r.H4.c >= s.k2H4Max \/ r.H3.c <= r.H4.c THEN "unsafe" ELSE "safe"

\* Heat is wanted, by the fail-safe table of the README.
Wanted(s, r) ==
  \/ FailedOf(r) = {"H3"}
  \/ "H3" \notin FailedOf(r) /\ ~Pending(r, "H3") /\ Cardinality(FailedOf(r)) = 2
  \/ r.H3.health = "Ok" /\ r.H3.c >= s.h2Set

SlowPass(d) ==
  \E s \in Choices[plant], os \in SUBSET Exercises[plant] :
  \E b \in {HwTick(Bank!Aged(bank, d), s.lock, os)},
     was \in {[pump EXCEPT !.since = Older(@, d, AgeCap)]}, r \in Readings[plant] :
  \E p \in {Pump(was, Guarded(s), r)}, k \in {Divert(diverter, Guarded(s), r)},
     off \in OutputsOff :
    /\ settings' = s
    /\ pump' = p /\ diverter' = k
    /\ noNeed' = NoNeed(p, k, s, r, b)
    /\ alarms' = Alarms(r)
    /\ flow' = Checked([flow EXCEPT !.ran = IF flow.tracking THEN Older(@, d, AgeCap) ELSE 0],
                       s, r, b)
    /\ bank' = FastTicks(Requested(b, p, k), off)
    /\ read' = Told(s, r)
    /\ calm' = IF s.heating /\ Wanted(s, r) THEN 0 ELSE Older(calm, d, AgeCap)
    /\ UNCHANGED plant

FastPass == /\ \E off \in OutputsOff : bank' = FastTicks(bank, off)
            /\ UNCHANGED <<plant, settings, pump, diverter, noNeed, alarms, flow,
                           read, calm>>

Restart == /\ \E s \in Choices[plant] : Begin(s)
           /\ UNCHANGED plant

Next == (\E d \in Steps : SlowPass(d)) \/ FastPass \/ Restart

Spec == Init /\ [][Next]_vars

-----------------------------------------------------------------------------
(* Properties. *)

\* NoNeed.h, P4FlowCheck.h: what the house tells is so.  It says "no need" only
\* while the pump stands still and the diverter in bypass, but for an exercise,
\* and no demand has been seen for the off-delay; and it warns only of a pump
\* that has really run for minOn (an update's hold-off may hide a stop).
HouseTellsTheTruth ==
  /\ noNeed => /\ "P4" \notin bank.actual \/ Exercising(bank, "P4")
               /\ "K2" \notin bank.actual \/ Exercising(bank, "K2")
               /\ settings.heating => calm >= settings.offDelay
  /\ flow.warns /\ "P4" \in bank.actual =>
       bank.since["P4"] >= settings.minOn \/ plant \in Updated

\* K2Logic: the diverter is not turned to the tank on what the last settled
\* readings say, once its lock and any exercise are over: never with a tank
\* that is full, a supply that is colder than it, or a failed sensor.
TankIsSpared ==
  read = "unsafe" /\ ~Exercising(bank, "K2") =>
    "K2" \notin bank.actual \/ bank.since["K2"] < bank.lock

-----------------------------------------------------------------------------
(* The inductive invariant behind both.                                    *)

TypeFits ==
  /\ plant \in Plant /\ settings \in Choices[plant]
  /\ pump \in [on : BOOLEAN, since : Age] /\ calm \in Age
  /\ diverter \in [bypass : BOOLEAN, valid : BOOLEAN, deltaOk : BOOLEAN, h3Ok : BOOLEAN, h4Ok : BOOLEAN]
  /\ flow \in [tracking : BOOLEAN, ran : Age, warns : BOOLEAN]
  /\ bank \in Bank!Bank

\* The safety slots have no user, P4 is only ever exercised on, and what is held off is off.
SlotsFit ==
  /\ \A o \in Output : bank.safety[o] = "unset"
  /\ bank.exercise["P4"] # "off"
  /\ bank.inhibited => bank.actual = {} /\ plant \in Updated

\* "No need" outlives its pass because nothing is asked of the outputs meanwhile; P4Logic
\* remembers the demand for no longer than it has been calm.
NoNeedFits ==
  /\ pump.since <= calm
  /\ noNeed => /\ bank.control = {}
               /\ \A o \in Output : o \in bank.actual => Exercising(bank, o)
               /\ settings.heating => calm >= settings.offDelay

\* An unsafe tank is bypassed, and the relay is on its way.
TankFits ==
  read = "unsafe" =>
    /\ diverter.bypass /\ "K2" \notin bank.control
    /\ "K2" \in bank.actual /\ ~Exercising(bank, "K2") => bank.since["K2"] < bank.lock

\* A pump under check has run as long as the check says, or it was just stopped with
\* nobody to start it again, and the next pass will find it off.
FlowFits ==
  /\ flow.warns => flow.tracking /\ flow.ran >= settings.minOn
  /\ flow.tracking /\ plant \notin Updated =>
       IF "P4" \in bank.actual THEN bank.since["P4"] >= flow.ran
       ELSE bank.since["P4"] = 0 /\ ~Bank!Wants(bank, "P4")

HouseFits == TypeFits /\ SlotsFit /\ NoNeedFits /\ TankFits /\ FlowFits
=============================================================================
