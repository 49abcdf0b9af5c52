-------------------------------- MODULE Home --------------------------------
(***************************************************************************)
(* The heating controller of the house: its settings, its mixing valve,    *)
(* and the rest of its control.  They do not share state here: a behaviour *)
(* is about one of them, which `part` names, and their variables share the *)
(* names v1 to v13.                                                        *)
(***************************************************************************)
EXTENDS Integers, Sequences

CONSTANTS
  Descriptor, Version, Renames, Absent, Odd, NaN, Entered, Files, Stored,  \* ConfigStore
  Debounce, RebootDelay, Hold, Release, MaxMishaps,
  DeadTime, MaxPulse, SlowPeriod, Lock, Travel, Overdrive, RecalSlack,     \* MixingValve
  MinPulse, MaxFeedback, Gain, Deadband, Period, FailPos, FfStep, SmallDiff, H2Set,
  StepPulse, MoveBand, SettleBand, H3Band, SettleTime, Observe,
  ValveReadings, MaxUpdates, ValvePlants,
  HousePlants, HouseReadings, HouseChoices, Exercises, Updated,            \* HomeHeating
  AgeCap, Steps

VARIABLES part, v1, v2, v3, v4, v5, v6, v7, v8, v9, v10, v11, v12, v13

vars == <<part, v1, v2, v3, v4, v5, v6, v7, v8, v9, v10, v11, v12, v13>>

Config == INSTANCE ConfigStore WITH
            store <- v1, opened <- v2, ram <- v3, dirty <- v4, storeOk <- v5, since <- v6,
            reboot <- v7, at <- v8, gate <- v9, due <- v10, unsure <- v11, mishaps <- v12, lost <- v13

Valve == INSTANCE MixingValve WITH
           Readings <- ValveReadings, Plants <- ValvePlants, plant <- v1, k1 <- v2,
           valve <- v3, logic <- v4, test <- v5, stroke <- v6, seen <- v7, p4 <- v8,
           held <- v9, updates <- v10, at <- v11, since <- v12, drive <- v13

House == INSTANCE HomeHeating WITH
           Plant <- HousePlants, Readings <- HouseReadings, Choices <- HouseChoices,
           plant <- v1, settings <- v2, pump <- v3, diverter <- v4, noNeed <- v5,
           alarms <- v6, flow <- v7, bank <- v8, read <- v9, calm <- v10

ASSUME HomeAssumption ==
  /\ Config!ConfigStoreAssumption /\ Valve!MixingValveAssumption
  /\ House!HomeHeatingAssumption

-----------------------------------------------------------------------------

\* The variables House does not use.
After10 == <<v11, v12, v13>>

Init ==
  \/ part = "config" /\ Config!Init
  \/ part = "valve" /\ Valve!Init
  \/ part = "house" /\ House!Init /\ v11 = 0 /\ v12 = 0 /\ v13 = 0

Next ==
  \/ part = "config" /\ Config!Next /\ UNCHANGED part
  \/ part = "valve" /\ Valve!Next /\ UNCHANGED part
  \/ part = "house" /\ House!Next /\ UNCHANGED <<part, After10>>

\* The loop task never stops.
Passes == part = "config" /\ (Config!Pass \/ Config!Reboot) /\ UNCHANGED part
Spec == Init /\ [][Next]_vars /\ WF_vars(Passes) /\ WF_v11(part = "valve" /\ Valve!Moves)

-----------------------------------------------------------------------------
(* Properties; the definitions they are made of say more. *)

\* ConfigEngine::flushNow, applyRename: a setting comes up with what was last saved or
\* was on its way (but with its default if it could not be read, or if a rename that failed
\* removed it), and while no failure is reported what is not marked for saving is in the flash.
SettingsSurvive == part = "config" => Config!RestartKeepsSettings /\ Config!CleanIsSaved

\* ConfigEngine::tick: what is marked for saving does not stay so.
ChangesAreWritten == []<>(part = "config" => Config!Settled)

\* K1Logic: a known position of the valve is its true one.
EstimateIsTrue == part = "valve" => Valve!EstimateIsTrue

\* K1StepTest: a result is measured on the whole pulse and on nothing else.
ResultIsOfThePulse == [][part = "valve" => Valve!ResultIsOfThePulse]_vars

\* K1Logic: while its surroundings stand still the valve comes to rest.
ValveComesToRest ==
  <>[](part = "valve" => Valve!Quiet) /\ <>[][part = "valve" => Valve!Steady]_vars
    => <>[](part = "valve" => Valve!Rests)

\* NoNeed, P4FlowCheck: what the house tells is so.
HouseTellsTheTruth == part = "house" => House!HouseTellsTheTruth

\* K2Logic: the diverter is not turned to a tank that would be overheated or cooled.
TankIsSpared == part = "house" => House!TankIsSpared
=============================================================================
