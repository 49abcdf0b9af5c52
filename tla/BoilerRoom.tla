----------------------------- MODULE BoilerRoom -----------------------------
(***************************************************************************)
(* The boiler-room controller (boiler-room/lib/BoilerRoomEngine): the      *)
(* loops of P1 and P2 with the overheat and burning latches, the NORMAL /  *)
(* OFF / OFFER machine of P3 with its anti-freeze runs, the alarms, the    *)
(* checks of the pumps' effect, and the relay bank that turns requests     *)
(* into pumps.                                                             *)
(*                                                                         *)
(* All of it runs in the loop task, so a pass is one step.  A slow pass    *)
(* reads the sensors, decides and updates the bank twice (before and after *)
(* the controller); a fast pass updates it once.  Commands are applied at  *)
(* the start of a slow pass, the link is refreshed at its end: both are    *)
(* steps between passes here.                                              *)
(*                                                                         *)
(* Temperatures are half degrees, times are ages (module Ages).  A plant   *)
(* is a choice of what its sensors, settings and surroundings may do; one  *)
(* behaviour is about one plant.  Left out: the readiness of the settings  *)
(* (fixed when the firmware is built), stored energy, the event log, T4,   *)
(* T5, and the status slice, which copies the decisions; the three checks  *)
(* share one set of settings.                                              *)
(***************************************************************************)
EXTENDS Integers, Ages

CONSTANTS Plant,        \* names of plants, and for each of them
          Readings,     \* what its sensors may show in a pass
          Choices,      \* the settings it may be given
          Exercises,    \* the pumps its anti-seize exercises
          Remote,       \* the plants whose link and flag come and go
          Updated,      \* the plants whose outputs firmware updates hold off
          Diagnosed,    \* the plants whose firmware has the pump checks
          AgeCap,       \* no period is longer
          Steps         \* how long it may be from one slow pass to the next

VARIABLES plant,        \* never changes
          settings,     \* the controller's settings and the relay lock
          noNeed,       \* "Home: no need", as saved
          link,         \* CommonState.network.mqttConnected
          loop,         \* BoilerLoopLogic
          supply,       \* SupplyLogic
          alarms,       \* bits 0..4 of CommonState.alarms.activeMask
          checks,       \* BoilerRoomDiagnostics
          bank,         \* RelayBank
          hot, open, word, heard, steady, lastOffer, span   \* history: see below

history == <<hot, open, word, heard, steady, lastOffer, span>>
vars == <<plant, settings, noNeed, link, loop, supply, alarms, checks, bank, history>>

Pump   == {"P1", "P2", "P3"}
Health == {"Ok", "Failed", "Pending"}
Age    == 0..AgeCap
Locks  == {s.lock : s \in UNION {Choices[p] : p \in Plant}}

Bank == INSTANCE RelayBank WITH
          Channel <- Pump, Lockable <- Pump, Logged <- Pump, Emergency <- Pump,
          Exercised <- Pump, LockValues <- Locks, log <- {}, noticed <- {}

Probe == {"T1", "T2", "T3", "T6"}
Sensors == [Probe -> [health : Health, c : Int]]

Settings == [p1DeltaOn : Nat, p1DeltaOff : Nat, p1T1Min : Nat, p1Hyst : Nat,
             ohOn : Nat, ohClear : Nat, p2T2Off : Nat, p2Hyst : Nat,
             p2T1Burn : Nat, p3T3Offer : Nat, window : Age, wait : Age,
             afEnable : BOOLEAN, afInterval : Age \ {0}, afDuration : Age,
             lock : Age, checking : BOOLEAN, minOn : Age, delta : Nat, minRise : Nat]

ASSUME BoilerRoomAssumption ==
  /\ Plant # {} /\ AgeCap \in Nat /\ Steps \subseteq Age \ {0}
  /\ \A p \in Plant : /\ Readings[p] \subseteq Sensors
                      /\ Choices[p] # {} /\ Choices[p] \subseteq Settings
                      /\ Exercises[p] \subseteq Pump
  /\ Remote \cup Updated \cup Diagnosed \subseteq Plant

-----------------------------------------------------------------------------
(* The two loops of the boiler. *)

Latched(on, sets, clears) == IF on THEN ~clears ELSE sets

Lower(a, b) == IF a < b THEN a ELSE b

\* The orderings that keep each hysteresis open, whatever was entered.
Guarded(s) == [s EXCEPT !.p1DeltaOff = Lower(@, s.p1DeltaOn - 1),
                        !.ohClear = Lower(@, s.ohOn - 2)]

\* Mistake: an unsettled T1 ends an overheat as a failed one does.
OverheatForgotten(l, s, r) ==
  r.T1.health = "Ok" /\ Latched(l.overheat, r.T1.c > s.ohOn, r.T1.c < s.ohClear)

Overheat(l, s, r) ==
  IF r.T1.health = "Pending" THEN l.overheat
  ELSE r.T1.health = "Ok" /\ Latched(l.overheat, r.T1.c > s.ohOn, r.T1.c < s.ohClear)

Burning(l, s, r) ==
  /\ r.T1.health = "Ok"
  /\ Latched(l.burning, r.T1.c > s.p2T1Burn, r.T1.c < s.p2T1Burn - s.p2Hyst)

\* By the differential to T3, or by T1 alone if T3 has failed.
Charging(l, s, r) ==
  LET alone == r.T3.health = "Failed"
      hotter(delta) == alone \/ r.T1.c > r.T3.c + delta
      cooler(delta) == ~alone /\ r.T1.c < r.T3.c + delta
  IN /\ r.T1.health = "Ok" /\ r.T3.health # "Pending"
     /\ Latched(l.charging, hotter(s.p1DeltaOn) /\ r.T1.c > s.p1T1Min,
                            cooler(s.p1DeltaOff) \/ r.T1.c < s.p1T1Min - s.p1Hyst)

\* By T2 while the boiler burns; a failed T1 counts as burning.
Returning(l, s, r, burning) ==
  LET fire == burning \/ r.T1.health = "Failed"
  IN /\ r.T2.health = "Ok" /\ r.T1.health # "Pending"
     /\ Latched(l.returning, r.T2.c < s.p2T2Off - s.p2Hyst /\ fire,
                             r.T2.c >= s.p2T2Off \/ ~fire)

Cold == [overheat |-> FALSE, burning |-> FALSE, charging |-> FALSE, returning |-> FALSE]

Loop(l, s, r) ==
  [overheat |-> Overheat(l, s, r), burning |-> Burning(l, s, r),
   charging |-> Charging(l, s, r), returning |-> Returning(l, s, r, Burning(l, s, r))]

Failed(r, t) == r[t].health = "Failed"

Alarms(l, r) ==
  {a \in {"overheat", "t1_failsafe", "t1t2_failsafe", "t2_failsafe", "t3_failsafe"} :
     CASE a = "overheat"      -> l.overheat
       [] a = "t1_failsafe"   -> Failed(r, "T1")
       [] a = "t1t2_failsafe" -> Failed(r, "T1") /\ Failed(r, "T2")
       [] a = "t2_failsafe"   -> Failed(r, "T2") /\ ~Failed(r, "T1")
       [] a = "t3_failsafe"   -> Failed(r, "T3")}

-----------------------------------------------------------------------------
(* The supply of the home. *)

Normal == [mode |-> "Normal", offered |-> 0, waiting |-> FALSE, waited |-> 0,
           running |-> FALSE, ran |-> 0]

\* Mistake: a pump that is off stays off when T3 fails.
ModeSticky(u, s, gate, flag, t3C, overheat) ==
  IF ~gate THEN IF flag THEN u.mode ELSE "Normal"
  ELSE CASE u.mode = "Normal" -> IF flag THEN "Off" ELSE "Normal"
         [] u.mode = "Off" -> IF flag THEN "Off" ELSE "Normal"
         [] u.mode = "Offer" -> IF u.offered < s.window THEN "Offer"
                                ELSE IF flag THEN "Off" ELSE "Normal"

\* At most one transition in a pass; `gate` is that of link and T3.
Mode(u, s, gate, flag, t3C, overheat) ==
  LET rested == ~u.waiting \/ s.wait = 0 \/ u.waited >= s.wait
      offers == flag /\ ~overheat /\ t3C >= s.p3T3Offer /\ rested
      stops  == flag /\ ~offers
  IN IF ~gate THEN "Normal"
     ELSE CASE u.mode = "Normal" -> IF flag THEN "Off" ELSE "Normal"
            [] u.mode = "Off" -> IF offers THEN "Offer"
                                 ELSE IF stops THEN "Off" ELSE "Normal"
            [] u.mode = "Offer" -> IF u.offered < s.window THEN "Offer"
                                   ELSE IF flag THEN "Off" ELSE "Normal"

Due(u, s, relayOn, idle) == s.afEnable /\ ~relayOn /\ idle >= s.afInterval

Supply(u, s, gate, flag, t3C, overheat, relayOn, idle) ==
  LET mode    == Mode(u, s, gate, flag, t3C, overheat)
      refused == u.mode = "Offer" /\ mode = "Off"
      running == IF u.running THEN s.afEnable /\ u.ran < s.afDuration
                 ELSE Due(u, s, relayOn, idle)
  IN [mode    |-> mode,
      offered |-> IF mode = u.mode /\ mode = "Offer" THEN u.offered ELSE 0,
      waiting |-> u.waiting \/ refused,
      waited  |-> IF refused THEN 0 ELSE u.waited,
      running |-> running,
      ran     |-> IF u.running /\ running THEN u.ran ELSE 0]

\* d time units pass.
Later(u, d) ==
  [u EXCEPT !.offered = IF u.mode = "Offer" THEN Older(@, d, AgeCap) ELSE 0,
            !.waited = IF u.waiting THEN Older(@, d, AgeCap) ELSE 0,
            !.ran = IF u.running THEN Older(@, d, AgeCap) ELSE 0]

-----------------------------------------------------------------------------
(* The pump checks: is the cold side of a running pump warming up? *)

Check == {"B1", "B3", "B6"}
PumpOf == [B1 |-> "P3", B3 |-> "P1", B6 |-> "P2"]
HotOf  == [B1 |-> "T3", B3 |-> "T1", B6 |-> "T1"]
ColdOf == [B1 |-> "T6", B3 |-> "T3", B6 |-> "T2"]

NotTracking == [tracking |-> FALSE, ran |-> 0, baseline |-> 0, warns |-> FALSE]

Watching(w, r, actual) ==
  PumpOf[w] \in actual /\ \A t \in {HotOf[w], ColdOf[w]} : r[t].health = "Ok"

\* The timer and the baseline start with the first pass that watches.
Checked(w, k, s, r, actual) ==
  LET cold == r[ColdOf[w]].c
      base == IF k.tracking THEN k.baseline ELSE cold
      poor == r[HotOf[w]].c - cold > s.delta /\ cold - base < s.minRise
  IN IF Watching(w, r, actual)
     THEN [tracking |-> TRUE, ran |-> k.ran, baseline |-> base,
           warns |-> s.checking /\ k.ran >= s.minOn /\ poor]
     ELSE NotTracking

\* d time units pass.
Running(k, d) == [k EXCEPT !.ran = IF k.tracking THEN Older(@, d, AgeCap) ELSE 0]

-----------------------------------------------------------------------------
(* Requests.  A safety request bypasses the relay lock; underneath it the  *)
(* control slot holds what the rules ask for.                              *)

Forced(l, r, u) ==
  {p \in Pump : CASE p = "P1" -> l.overheat \/ Failed(r, "T1")
                  [] p = "P2" -> Failed(r, "T1") /\ Failed(r, "T2")
                  [] p = "P3" -> l.overheat \/ u.running}

\* P2, should T2 have failed, runs while the boiler burns.
Asked(l, r, u) ==
  {p \in Pump : CASE p = "P1" -> l.charging
                  [] p = "P2" -> l.returning \/ (Failed(r, "T2") /\ l.burning)
                  [] p = "P3" -> u.mode # "Off"}

Slots(b, forced, asked) ==
  [b EXCEPT !.safety = [p \in Pump |-> IF p \in forced THEN "on" ELSE "unset"],
            !.control = asked]

\* hw.tick(): anti-seize rests while the outputs are held off.
HwTick(b, exercised) ==
  LET locked == Bank!SetLockMs(b, settings.lock)
  IN Bank!Update(IF b.inhibited THEN locked
                 ELSE [locked EXCEPT !.exercise =
                         [p \in Pump |-> IF p \in exercised THEN "on" ELSE "unset"]])

\* A run of anti-seize, and what may become one: a pump that has been off for days.
Exercisable == {p \in Exercises[plant] : \/ bank.exercise[p] = "on"
                                         \/ p \notin bank.actual /\ bank.since[p] > 0}

\* net.fastTick() and hw.fastTick(), which end every pass.
FastTicks(b, off) == Bank!Update(Bank!SetInhibited(b, off))

OutputsOff == IF plant \in Updated THEN BOOLEAN ELSE {FALSE}

-----------------------------------------------------------------------------
(* The steps.  History: `hot` is whether the last good T1 was an overheat  *)
(* and T1 has not failed since; `open`, whether the link was up and T3 Ok  *)
(* in the last slow pass; `word`, the home's last word since it was last   *)
(* offered heat, TRUE for no need; `heard`, whether it said anything since *)
(* the last restart; `steady`, that nothing was commanded                  *)
(* and the outputs were not held off since the last slow pass began;       *)
(* `lastOffer`, how the last offer to last its window ended and when;      *)
(* `span`, for diagnosed plants, how long each probe has been read Ok and  *)
(* the outputs have not been held off.                                     *)

NoOffer == [how |-> "none", age |-> AgeCap]

Flags == IF plant \in Remote THEN BOOLEAN ELSE {FALSE}

Init ==
  /\ plant \in Plant /\ settings \in Choices[plant] /\ noNeed \in Flags
  /\ loop = Cold /\ supply = Normal /\ alarms = {} /\ link = FALSE
  /\ bank = Bank!Configured(settings.lock)
  /\ hot = FALSE /\ open = FALSE /\ word = noNeed /\ heard = FALSE /\ steady = FALSE
  /\ lastOffer = NoOffer
  /\ checks = [w \in Check |-> NotTracking]
  /\ span = [i \in Probe \cup {"outputs"} |-> 0]

\* Mistake: the flag is cleared for as long as the offer stands.
FlagLeftCleared(before, after) == noNeed /\ after # "Offer"

FlagLeft(before, after) == noNeed /\ ~(after = "Offer" /\ before # "Offer")

SlowPass(d) ==
  \E r \in Readings[plant], off \in OutputsOff,
     b \in {HwTick(Bank!Aged(bank, d), x) : x \in SUBSET Exercisable} :
    LET g    == Guarded(settings)
        l    == Loop(loop, g, r)
        gate == link /\ r.T3.health = "Ok"
        u    == Supply(Later(supply, d), g, gate, noNeed /\ link, r.T3.c,
                       l.overheat, "P3" \in b.actual, b.sinceOn["P3"])
        ends == supply.mode = "Offer" /\ u.mode # "Offer"
    IN /\ loop' = l /\ supply' = u /\ alarms' = Alarms(l, r)
       /\ noNeed' = FlagLeft(supply.mode, u.mode)
       /\ bank' = FastTicks(Slots(b, Forced(l, r, u), Asked(l, r, u)), off)
       /\ hot' = IF r.T1.health = "Pending" THEN hot
                 ELSE r.T1.health = "Ok" /\ r.T1.c > settings.ohOn
       /\ open' = gate
       /\ word' = (word /\ ~(u.mode = "Offer" /\ supply.mode # "Offer"))
       /\ steady' = (~bank.inhibited /\ ~off)
       /\ lastOffer' = IF ends /\ gate
                       THEN [how |-> IF u.mode = "Off" THEN "refused" ELSE "accepted",
                             age |-> 0]
                       ELSE [lastOffer EXCEPT !.age = Older(@, d, AgeCap)]
       /\ IF plant \in Diagnosed
          THEN /\ checks' = [w \in Check |->
                               Checked(w, Running(checks[w], d), settings, r, b.actual)]
               /\ span' = [i \in DOMAIN span |->
                             IF (IF i = "outputs" THEN off ELSE r[i].health # "Ok")
                             THEN 0 ELSE Older(span[i], d, AgeCap)]
          ELSE UNCHANGED <<checks, span>>
       /\ UNCHANGED <<plant, settings, link, heard>>

FastPass ==
  /\ \E off \in OutputsOff :
       /\ bank' = FastTicks(bank, off)
       /\ steady' = (steady /\ ~off)
       /\ span' = IF off THEN [span EXCEPT !["outputs"] = 0] ELSE span
  /\ UNCHANGED <<plant, settings, noNeed, link, loop, supply, alarms, checks,
                 hot, open, word, heard, lastOffer>>

\* The home, or anybody at a page, sets or clears the flag.
SetFlag ==
  /\ plant \in Remote
  /\ noNeed' \in BOOLEAN /\ word' = noNeed' /\ heard' = TRUE /\ steady' = FALSE
  /\ UNCHANGED <<plant, settings, link, loop, supply, alarms, checks, bank,
                 hot, open, lastOffer, span>>

ChangeSettings ==
  /\ settings' \in Choices[plant] /\ steady' = FALSE
  /\ UNCHANGED <<plant, noNeed, link, loop, supply, alarms, checks, bank,
                 hot, open, word, heard, lastOffer, span>>

LinkChanges ==
  /\ plant \in Remote
  /\ link' = ~link
  /\ UNCHANGED <<plant, settings, noNeed, loop, supply, alarms, checks, bank, history>>

\* A restart; what was saved may be older than what was in force.
Reboot ==
  /\ plant' = plant /\ settings' \in Choices[plant] /\ noNeed' \in Flags
  /\ loop' = Cold /\ supply' = Normal /\ alarms' = {} /\ link' = FALSE
  /\ bank' = Bank!Configured(settings'.lock)
  /\ hot' = FALSE /\ open' = FALSE /\ word' = noNeed' /\ heard' = FALSE /\ steady' = FALSE
  /\ lastOffer' = NoOffer
  /\ checks' = [w \in Check |-> NotTracking]
  /\ span' = [i \in Probe \cup {"outputs"} |-> 0]

Next == \/ \E d \in Steps : SlowPass(d)
        \/ FastPass \/ SetFlag \/ ChangeSettings \/ LinkChanges \/ Reboot

Spec == Init /\ [][Next]_vars

-----------------------------------------------------------------------------
(* Properties. *)

\* The variables have their types.
TypeOK ==
  /\ plant \in Plant /\ settings \in Choices[plant]
  /\ {noNeed, link, hot, open, word, heard, steady} \subseteq BOOLEAN
  /\ loop \in [{"overheat", "burning", "charging", "returning"} -> BOOLEAN]
  /\ supply \in [mode : {"Normal", "Off", "Offer"}, offered : Age, waiting : BOOLEAN,
                 waited : Age, running : BOOLEAN, ran : Age]
  /\ alarms \subseteq {"overheat", "t1_failsafe", "t1t2_failsafe", "t2_failsafe",
                       "t3_failsafe"}
  /\ checks \in [Check -> [tracking : BOOLEAN, ran : Age, baseline : Int, warns : BOOLEAN]]
  /\ bank \in Bank!Bank
  /\ lastOffer \in [how : {"none", "refused", "accepted"}, age : Age]
  /\ span \in [Probe \cup {"outputs"} -> Age]

\* README, "P1" and "overheat": from the pass that reads T1 above ohOn, and through
\* a T1 that is not settled, the pump of the boiler and the pump that dumps its
\* heat really run, whatever the relay lock, the flag or an exercise say; only a
\* firmware update holds them off, and no longer than until its end.
HotBoilerIsCooled == hot /\ ~bank.inhibited => {"P1", "P3"} \subseteq bank.actual

\* README, fail-safes: without T1 the boiler's pump runs, without T1 and T2 the
\* return pump too, at once; the alarm that says so is never alone.
FailSafesRun ==
  ~bank.inhibited => /\ "t1_failsafe" \in alarms => "P1" \in bank.actual
                     /\ "t1t2_failsafe" \in alarms => "P2" \in bank.actual

\* README, "Anti-freeze": P3 is not off for afInterval, whatever stopped it and
\* whatever the machine, the lock and exercises do; updates and commands excepted.
AntiFreezeKeepsP3Moving ==
  steady /\ settings.afEnable =>
    "P3" \in bank.actual \/ bank.since["P3"] < settings.afInterval

\* BRIEF 3.5, "Flag expiry": the home is supplied.  P3 is off, beyond the relay's
\* minimum off time, only if the home has said so and the controller still hears
\* it and sees its own supply; a lost link or T3, a restart, or a need supply it.
HomeIsSupplied ==
  steady /\ "P3" \notin bank.actual =>
    (open /\ word) \/ bank.since["P3"] < bank.lock

\* README, "P3 supply": what the home says after an offer is made, whenever in the
\* window and however often, decides how the offer ends; what it had said before
\* does not count.
AnswerDecides ==
  [][supply.mode = "Offer" /\ supply'.mode # "Offer" /\ open'
       => (supply'.mode = "Off" <=> word)]_vars

\* README, "P3 supply": a home that refused an offer is not offered heat again
\* before p3OfferWait, though the link, T3 or the mode come and go meanwhile.
Offers == supply.mode # "Offer" /\ supply'.mode = "Offer"
RefusalIsRespected ==
  [][Offers /\ lastOffer.how = "refused" => lastOffer'.age >= settings.wait]_vars

\* BRIEF 3.5, "Flag expiry": after a restart the saved flag stops nobody's heat
\* until it has been sent again.
SavedFlagWaits == supply.mode = "Off" => heard

\* PumpRiseCheck.h: a warning is about a pump that really ran, and probes that were
\* read, for minOn without a break; only a firmware update's hold-off may hide one.
\* (A pump that stops in a pass takes its warning with it in the next.)
WarningsAreEarned ==
  \A w \in Check : checks[w].warns =>
    /\ \A t \in {HotOf[w], ColdOf[w]} : span[t] >= settings.minOn \/ ~steady
    /\ \/ PumpOf[w] \notin bank.actual
       \/ bank.since[PumpOf[w]] >= settings.minOn
       \/ span["outputs"] <= checks[w].ran \/ ~steady

\* Readings that stay the same never make a pump start and stop: the two loops are
\* settled after one pass, in every state they get into and for every reading and
\* every order in which the thresholds were entered.
LoopSettles ==
  \A r \in Readings[plant] :
    LET g == Guarded(settings)
        once == Loop(loop, g, r)
    IN Loop(once, g, r) = once

\* The boiler room does its part: P3 supplies the home and never freezes, and no
\* warning is spurious.
RoomDoesItsPart == TypeOK /\ HomeIsSupplied /\ AntiFreezeKeepsP3Moving /\ WarningsAreEarned

\* What the home answers to an offer counts, and is not asked again too soon.
AnswersCount == AnswerDecides /\ RefusalIsRespected
=============================================================================
