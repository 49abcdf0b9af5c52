---------------------------- MODULE MCBoilerRoom ----------------------------
(* The boiler room in six plants.  In "charge" T1 and T3, in "return" T1 and *)
(* T2 fail, settle and move across the thresholds; in "offers" T3, the link   *)
(* and the flag come and go; in "dump" the boiler overheats meanwhile; in     *)
(* "frost" exercises and firmware updates get in the way of anti-freeze runs; *)
(* in "checks" the pump checks of P1 are at work.                             *)
EXTENDS BoilerRoom

Plants == {"charge", "return", "offers", "dump", "frost", "checks"}

Ok(t) == [health |-> "Ok", c |-> 2 * t]
Faulty   == [health |-> "Failed", c |-> 0]
Settling == [health |-> "Pending", c |-> 0]
Bad == {Faulty, Settling}
Show(t1, t2, t3) == {[T1 |-> a, T2 |-> b, T3 |-> c, T6 |-> Ok(25)] : a \in t1, b \in t2, c \in t3}

PlantReadings ==
  [p \in Plants |->
     CASE p = "charge" -> Show({Ok(30), Ok(59), Ok(89), Ok(92)} \cup Bad, {Ok(61)},
                               {Ok(50), Ok(86)} \cup Bad)
       [] p = "return" -> Show({Ok(30), Ok(39), Ok(92)} \cup Bad,
                               {Ok(50), Ok(58), Ok(61)} \cup Bad, {Ok(50)})
       [] p = "offers" -> Show({Ok(30)}, {Ok(50)}, {Ok(50), Ok(65)} \cup Bad)
       [] p = "dump"   -> Show({Ok(30), Ok(92)}, {Ok(61)}, {Ok(65)})
       [] p = "frost"  -> Show({Ok(30)}, {Ok(50)}, {Ok(50)})
       [] p = "checks" -> Show({Ok(30), Ok(70), Faulty}, {Ok(50)}, {Ok(50), Ok(52), Settling})]

Default == [p1DeltaOn |-> 10, p1DeltaOff |-> 4, p1T1Min |-> 120, p1Hyst |-> 4,
            ohOn |-> 180, ohClear |-> 174, p2T2Off |-> 120, p2Hyst |-> 6,
            p2T1Burn |-> 80, p3T3Offer |-> 120, window |-> 2, wait |-> 3,
            afEnable |-> TRUE, afInterval |-> 3, afDuration |-> 2, lock |-> 2,
            checking |-> TRUE, minOn |-> 2, delta |-> 20, minRise |-> 2]

\* Thresholds in the wrong order, and close to each other.
Crossed == [Default EXCEPT !.ohOn = 170, !.ohClear = 188,
                           !.p1DeltaOn = 4, !.p1DeltaOff = 30]

PlantChoices ==
  [p \in Plants |->
     CASE p = "charge" -> {Default, Crossed}
       [] p = "return" -> {Default}
       [] p = "offers" -> {Default, [Default EXCEPT !.wait = 0]}
       [] p = "dump"   -> {Default}
       [] p = "checks" -> {Default}
       [] p = "frost"  -> {Default, [Default EXCEPT !.afEnable = FALSE, !.lock = 0]}]

PlantExercises ==
  [p \in Plants |-> CASE p \in {"charge", "checks"} -> {"P1"}
                      [] p = "frost"  -> {"P3"}
                      [] OTHER        -> {}]

\* Everything but what only the event log, the reasons shown and SavedFlagWaits
\* depend on; a run of that property takes the states as they are.
Shown == <<plant, settings, noNeed, link, loop, supply, alarms, checks,
           hot, open, word, steady, lastOffer, span,
           bank.control, bank.safety, bank.exercise, bank.actual, bank.since,
           bank.sinceOn["P3"], bank.lock, bank.inhibited>>
=============================================================================
