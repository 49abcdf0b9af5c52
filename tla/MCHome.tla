------------------------------- MODULE MCHome -------------------------------
(***************************************************************************)
(* The house, each part of it on a small instance.                         *)
(***************************************************************************)
EXTENDS Home, TLC

-----------------------------------------------------------------------------
(* The settings: a number whose key was renamed in version 2 and a text.   *)

MCDescriptor == <<[type |-> "Number", low |-> 0, high |-> 2, default |-> 1],
                  [type |-> "Text", low |-> 1, high |-> 2, default |-> 1]>>

MCFiles == {[ok |-> TRUE, entries |-> (1 :> 2 @@ 2 :> 2)],
            [ok |-> TRUE, entries |-> (1 :> 2 @@ 2 :> 0)],
            [ok |-> FALSE, entries |-> (1 :> 2)]}

Flash(version, number, old, text) ==
  (<<0, "cfgVer">> :> version @@ <<1, "now">> :> number @@ <<1, "old">> :> old
     @@ <<2, "now">> :> text @@ <<2, "old">> :> Absent)

MCStored == {Flash(Absent, Absent, Absent, Absent), Flash(1, Absent, 5, 2), Flash(1, 0, 2, 0),
          Flash(Absent, Absent, 0, 2), Flash(3, 2, Absent, Odd)}

MCRenames == <<[to |-> 2, setting |-> 1]>>
MCEntered == <<{5, NaN}, {0, 2}>>

-----------------------------------------------------------------------------
(* The valve: readings that reach every mode.                              *)

Health(h1, h2, h3) == [h1 |-> h1, h2 |-> h2, h3 |-> h3]
Reading(heating, want, health, h2, h3) ==
  [heating |-> heating, p4 |-> want, health |-> health,
   h1 |-> 0, h2 |-> h2, h3 |-> h3, steady |-> TRUE]
Ok == Health("Ok", "Ok", "Ok")
Cold == Reading(TRUE, TRUE, Ok, 2, 10)
Hot  == Reading(TRUE, TRUE, Ok, 7, 10)

MCValveReadings == [p \in {"exercised", "tested"} |->
  {Cold, Hot, Reading(TRUE, FALSE, Ok, 4, 5)} \cup
  IF p = "tested" THEN {Reading(TRUE, TRUE, Ok, 4, 13)}
  ELSE {Reading(TRUE, TRUE, Health("Ok", "Failed", "Ok"), 4, 5),
        Reading(TRUE, TRUE, Health("Ok", "Ok", "Failed"), 2, 5),
        Reading(TRUE, TRUE, Health("Failed", "Ok", "Failed"), 4, 5),
        Reading(FALSE, FALSE, Ok, 4, 5)}]

-----------------------------------------------------------------------------
(* The rest of the house, in three plants: the pump, the tank, and the     *)
(* check of its flow.                                                      *)

MCHousePlants == {"pump", "tank", "flow"}

At(t) == [health |-> "Ok", c |-> 2 * t]
Faulty   == [health |-> "Failed", c |-> 0]
Settling == [health |-> "Pending", c |-> 0]
Shown(ones, twos, threes, fours, valve) ==
  {[H1 |-> a, H2 |-> b, H3 |-> c, H4 |-> d, valveKnown |-> v, valveOpen |-> v] :
     a \in ones, b \in twos, c \in threes, d \in fours, v \in valve}

MCHouseReadings ==
  [p \in MCHousePlants |->
     CASE p = "pump" -> Shown({At(20), Faulty}, {At(20)},
                              {At(30), At(40), Faulty, Settling}, {At(70)}, {FALSE})
       [] p = "tank" -> Shown({At(20)}, {At(20)}, {At(30), At(66), At(72), Faulty, Settling},
                              {At(65), At(68), At(70), Faulty, Settling}, {FALSE})
       [] p = "flow" -> Shown({At(20)}, {At(21), Settling}, {At(30), At(50)}, {At(70)}, BOOLEAN)]

Default == [heating |-> TRUE, h2Set |-> 80, offDelay |-> 2, lock |-> 1,
            k2Delta |-> 6, k2DeltaHyst |-> 4, k2H3Min |-> 130, k2H3MinHyst |-> 6,
            k2H4Max |-> 140, k2H4MaxHyst |-> 6,
            checking |-> TRUE, minOn |-> 2, delta |-> 20, minDiff |-> 4]
Wide == [Default EXCEPT !.k2Delta = 2, !.k2DeltaHyst = 8, !.k2H3Min = 80]

MCHouseChoices ==
  [p \in MCHousePlants |->
     CASE p = "pump" -> {Default, [Default EXCEPT !.heating = FALSE],
                         [Default EXCEPT !.offDelay = 0, !.lock = 2]}
       [] p = "tank" -> {Default, Wide}
       [] p = "flow" -> {Default, [Default EXCEPT !.checking = FALSE]}]

MCExercises == [p \in MCHousePlants |-> IF p = "tank" THEN {"K2"} ELSE {"P4"}]
=============================================================================
