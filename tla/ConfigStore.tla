----------------------------- MODULE ConfigStore -----------------------------
(***************************************************************************)
(* The settings (CoreEngine/ConfigEngine) between the RAM the program      *)
(* reads and the flash that survives: batched saves, clamping, the rename  *)
(* of keys when the schema's version grows, backup import, factory reset   *)
(* by the button at power-on or by command, and the requested restart.     *)
(*                                                                         *)
(* Writes to the flash are seen by reads at once, survive for certain once *)
(* committed, and a restart in between keeps some first part of them, of   *)
(* an erase any part.  Every access may fail.  All of the code runs in the *)
(* loop task; a restart may come at any moment, in the middle of a save or *)
(* of a migration too.                                                     *)
(*                                                                         *)
(* A value is a number; a text is represented by a number as well, within  *)
(* the bounds if its length is.  The event log, secrets and the hook that  *)
(* tells the time service of a change are left out.                        *)
(***************************************************************************)
EXTENDS Integers, FiniteSets, Sequences, Ages

CONSTANTS Descriptor,   \* the schema: a sequence of [type, low, high, default]
          Version,      \* configVersion
          Renames,      \* the migrations: a sequence of [to, setting]
          Absent, Odd,  \* what a key holds that is not there, or of another type
          NaN,          \* a number that is not finite
          Entered,      \* for each setting, what a command may carry
          Files,        \* backups: [ok, entries]
          Stored,       \* what the flash may hold before the first start
          Debounce,     \* CONFIG_SAVE_DEBOUNCE_MS, in passes
          RebootDelay,  \* REBOOT_DELAY_MS, in passes
          Hold, Release,\* HOLD_MS and RELEASE_DEBOUNCE_MS, in polls of DI1
          MaxMishaps    \* bound of the model: failing accesses and restarts

VARIABLES store,        \* what reads see in the flash; what a restart may find in it
          opened,       \* NvsKvStore._open
          ram,          \* _numbers and _stringPool
          dirty,        \* _dirty
          storeOk,      \* _lastStoreOk
          since,        \* age of _lastChangeMs
          reboot,       \* how long ago a restart was requested, or NoReboot
          at,           \* "boot", "button" or "up"
          gate,         \* FactoryResetGate
          due, lost, unsure, mishaps   \* history: see Init

vars == <<store, opened, ram, dirty, storeOk, since, reboot, at, gate, due, lost, unsure, mishaps>>

Setting == DOMAIN Descriptor
Key == (Setting \X {"now", "old"}) \cup {<<0, "cfgVer">>}
Now(s) == <<s, "now">>
Old(s) == <<s, "old">>
VersionKey == <<0, "cfgVer">>
NoReboot == -1

\* What a flash may hold.
Contents == [Key -> Int \cup {Absent, Odd}]

\* What validateSchema demands of a schema, besides unique and short keys.
ValidSchema ==
  /\ Version \in Nat \ {0} /\ Descriptor # <<>>
  /\ Descriptor \in Seq([type : {"Number", "Text"}, low : Int, high : Int, default : Int])
  /\ Renames \in Seq([to : Int, setting : Setting])
  /\ \A s \in Setting : /\ Descriptor[s].low <= Descriptor[s].default
                        /\ Descriptor[s].default <= Descriptor[s].high
  /\ \A i \in DOMAIN Renames : /\ Renames[i].to <= Version
                               /\ i > 1 => Renames[i - 1].to <= Renames[i].to

Enterable(s) == IF Descriptor[s].type = "Text" THEN Int ELSE Int \cup {NaN}

ConfigStoreAssumption ==
  /\ ValidSchema
  /\ Absent \notin Int /\ Odd \notin Int /\ NaN \notin Int /\ Absent # Odd
  /\ Stored \subseteq Contents
  /\ \A s \in Setting : Entered[s] \subseteq Enterable(s)
  /\ \A f \in Files : /\ DOMAIN f.entries \subseteq Setting
                      /\ \A s \in DOMAIN f.entries : f.entries[s] \in Enterable(s) \cup {Odd}
  /\ {Debounce, RebootDelay, Hold, Release, MaxMishaps} \subseteq Nat

-----------------------------------------------------------------------------
(* The store. *)

Left(flash) == [seen |-> flash, cuts |-> {flash}]

\* Some writes, of which a restart may cut off the last ones.
Through(st, flash, cuts) == [seen |-> flash, cuts |-> st.cuts \cup cuts \cup {flash}]

Written(st, k, v, ok) == IF ok THEN Through(st, [st.seen EXCEPT ![k] = v], {}) ELSE st

Committed(st, ok) == IF ok THEN Left(st.seen) ELSE st

\* An erase goes through the keys in no order that the code knows of.
Without(flash, gone) == [k \in Key |-> IF k \in gone THEN Absent ELSE flash[k]]

Erased(st, ok) == IF ok THEN Through(st, Without(st.seen, Key), {Without(st.seen, gone) : gone \in SUBSET Key})
                  ELSE st

\* The sets of accesses that may fail: all of them if the store is not open.
Failing(ops) ==
  IF opened THEN {bad \in SUBSET ops : mishaps + Cardinality(bad) <= MaxMishaps} ELSE {ops}

Fail(bad) == mishaps' = IF opened THEN mishaps + Cardinality(bad) ELSE mishaps

Reading(S) == {<<"read", s>> : s \in S}
Writing(S) == {<<"write", s>> : s \in S}

-----------------------------------------------------------------------------
(* Values. *)

Fits(s, v) == Descriptor[s].low <= v /\ v <= Descriptor[s].high

Refused(s, v) == IF Descriptor[s].type = "Text" THEN ~Fits(s, v) ELSE v = NaN

Lowest(a, b)  == IF a < b THEN a ELSE b
Highest(a, b) == IF a < b THEN b ELSE a

Clamped(s, v) == Lowest(Highest(v, Descriptor[s].low), Descriptor[s].high)

Defaults == [s \in Setting |-> Descriptor[s].default]

\* A value found in the flash counts if it is of the type and not refused.
Usable(s, v) == v \notin {Absent, Odd} /\ ~Refused(s, v)

-----------------------------------------------------------------------------
(* Starting: migration and load. *)

StoredVersion(flash) == LET v == flash[VersionKey] IN IF v \in {Absent, Odd} THEN 0 ELSE v

Fresh(flash) == \A k \in Key : flash[k] = Absent

VersionUnread(flash, bad) == <<"read", 0>> \in bad \/ flash[VersionKey] = Odd

\* The first n renames have come to setting s.
Reached(flash, s, n) ==
  \E i \in 1..n : Renames[i].setting = s /\ Renames[i].to > StoredVersion(flash)

\* Only to a key that is not there.
Copied(flash, s, bad) ==
  IF flash[Now(s)] = Absent /\ flash[Old(s)] # Odd /\ {<<"rename", s>>, <<"write", s>>} \cap bad = {}
  THEN flash[Old(s)] ELSE flash[Now(s)]

\* The old key is removed whatever happened.
Moved(flash, bad, n) ==
  [k \in Key |-> IF ~Reached(flash, k[1], n) THEN flash[k]
                 ELSE IF k[2] = "now" THEN Copied(flash, k[1], bad)
                 ELSE IF <<"remove", k[1]>> \in bad THEN flash[k] ELSE Absent]

\* Mistake: the old key is removed first, in Midway.
MidwayEarly(flash, bad, n) ==
  [Moved(flash, bad, n - 1) EXCEPT ![Old(Renames[n].setting)] = Moved(flash, bad, n)[Old(Renames[n].setting)]]

\* Between the two writes of the n-th rename: the new key is there, the old one still too.
Midway(flash, bad, n) ==
  [Moved(flash, bad, n - 1) EXCEPT ![Now(Renames[n].setting)] = Moved(flash, bad, n)[Now(Renames[n].setting)]]

\* The writes of a start, before they are committed.
Migrated(st, bad) ==
  IF VersionUnread(st.seen, bad) \/ StoredVersion(st.seen) >= Version THEN st
  ELSE Written(Through(st, Moved(st.seen, bad, Len(Renames)),
                       {Moved(st.seen, bad, n) : n \in 0..Len(Renames)}
                         \cup {Midway(st.seen, bad, n) : n \in 1..Len(Renames)}),
               VersionKey, Version, <<"write", 0>> \notin bad)

\* What is found under a key, made fit for use.
Fit(s, v) == IF Usable(s, v) THEN Clamped(s, v) ELSE Descriptor[s].default

Loaded(flash, bad) ==
  [s \in Setting |-> IF <<"read", s>> \in bad THEN Descriptor[s].default ELSE Fit(s, flash[Now(s)])]

ClampedOnLoad(flash, bad) ==
  {s \in Setting : LET v == flash[Now(s)]
                   IN <<"read", s>> \notin bad /\ Usable(s, v) /\ v # Clamped(s, v)}

\* What the next start will make of a flash, if nothing fails.
Effective(flash) == Loaded(Migrated(Left(flash), {}).seen, {})

\* The first n settings of the table, if among ds, are written.
SavedTo(flash, values, ds, n) ==
  [k \in Key |-> IF k[2] = "now" /\ k[1] \in ds /\ k[1] <= n THEN values[k[1]] ELSE flash[k]]

\* flushNow(): writes what is dirty, in the order of the table.
Saving(st, values, ds, bad) ==
  LET done == {s \in ds : <<"write", s>> \notin bad}
      size == Len(Descriptor)
  IN Through(st, SavedTo(st.seen, values, done, size), {SavedTo(st.seen, values, done, n) : n \in 0..size})

StillDirty(ds, bad) == {s \in ds : <<"write", s>> \in bad}

SaveOps(ds) == Writing(ds) \cup {<<"commit", 0>>}

SaveOk(bad, ds) == bad \cap SaveOps(ds) = {}

-----------------------------------------------------------------------------
(* History: `due' are the values that were saved or on their way, `lost'    *)
(* the settings a failed rename has taken from the flash since they were    *)
(* last saved, `unsure' those whose RAM the code cannot know to agree with  *)
(* what is there.                                                           *)

Init ==
  /\ \E flash \in Stored : store = Left(flash)
  /\ opened = TRUE /\ at = "boot"
  /\ ram = Defaults /\ dirty = {} /\ storeOk = TRUE /\ since = 0
  /\ reboot = NoReboot
  /\ gate = [phase |-> "Inactive", held |-> 0, open |-> 0, opening |-> FALSE]
  /\ due = [s \in Setting |-> {Effective(store.seen)[s]}] /\ lost = {} /\ unsure = {} /\ mishaps = 0

RenamedSettings == {Renames[i].setting : i \in DOMAIN Renames}

MigrationOps ==
  IF StoredVersion(store.seen) >= Version THEN {}
  ELSE {<<"write", 0>>, <<"commit", 0>>}
         \cup {<<op, s>> : op \in {"rename", "write", "remove"},
                          s \in {q \in RenamedSettings : store.seen[Old(q)] # Absent}}

\* History: there was a value under the old name only, and it was not written under the new one.
LostIn(flash, bad) ==
  {s \in Setting : /\ ~VersionUnread(flash, bad) /\ Reached(flash, s, Len(Renames))
                   /\ flash[Now(s)] = Absent /\ flash[Old(s)] \notin {Absent, Odd}
                   /\ Copied(flash, s, bad) = Absent}

\* A start: begin() and loadFromStore(), up to the countdown of the button.
Begin ==
  /\ at = "boot" /\ at' = "button" /\ since' = 0
  /\ \E closed \in BOOLEAN :
       gate' = [phase |-> IF closed THEN "Countdown" ELSE "Inactive",
                held |-> 0, open |-> 0, opening |-> FALSE]
  /\ UNCHANGED <<opened, reboot>>
  /\ \E bad \in Failing({<<"read", 0>>} \cup Reading(Setting) \cup MigrationOps) :
       \E mig \in {Committed(Migrated(store, bad), <<"commit", 0>> \notin bad)} :
       \E ds \in {ClampedOnLoad(mig.seen, bad)}, values \in {Loaded(mig.seen, bad)} :
       \E worse \in IF ds = {} THEN {{}} ELSE Failing(SaveOps(ds)) :
         /\ opened => mishaps + Cardinality(bad) + Cardinality(worse) <= MaxMishaps
         /\ mishaps' = IF opened THEN mishaps + Cardinality(bad) + Cardinality(worse) ELSE mishaps
         /\ store' = IF ds = {} THEN mig
                     ELSE Committed(Saving(mig, values, ds, worse), <<"commit", 0>> \notin worse)
         /\ ram' = values
         /\ dirty' = IF ds = {} THEN {} ELSE StillDirty(ds, worse)
         /\ storeOk' = /\ ~VersionUnread(store.seen, bad)
                       /\ Fresh(store.seen) => bad \cap {<<"write", 0>>, <<"commit", 0>>} = {}
                       /\ ds # {} => SaveOk(worse, ds)
         /\ lost' = lost \cup LostIn(store.seen, bad)
         /\ unsure' = {s \in Setting : <<"read", s>> \in bad} \cup LostIn(store.seen, bad)
                        \cup (IF VersionUnread(store.seen, bad) THEN RenamedSettings ELSE {})
         /\ due' = due

-----------------------------------------------------------------------------
(* Factory reset. *)

GateRead(closed, d) ==
  LET held == Older(gate.held, d, Hold)
      open == IF gate.opening THEN Older(gate.open, d, Release) ELSE 0
  IN IF closed THEN [gate EXCEPT !.held = held, !.opening = FALSE,
                                 !.phase = IF held >= Hold THEN "Confirmed" ELSE "Countdown"]
     ELSE [gate EXCEPT !.held = held, !.opening = TRUE, !.open = open,
                       !.phase = IF open >= Release THEN "Aborted" ELSE "Countdown"]

\* DI1 is read again; a failing read counts as open.
PollButton ==
  /\ at = "button" /\ gate.phase = "Countdown"
  /\ \E closed \in BOOLEAN, d \in 1..2 : gate' = GateRead(closed, d)
  /\ UNCHANGED <<store, opened, ram, dirty, storeOk, since, reboot, at, due, lost, unsure, mishaps>>

ResetOps == {<<"erase", 0>>, <<"write", 0>>, <<"commit", 0>>}

LeftDirty == {}

\* History: with the version gone and the old key not, the next start renames it once more.
Revived(s) == IF s \in RenamedSettings THEN {Fit(s, store.seen[Old(s)])} ELSE {}

\* ConfigEngine::factoryReset().
ResetSettings ==
  \E bad \in Failing(ResetOps) :
    /\ Fail(bad)
    /\ store' = Committed(Written(Erased(store, <<"erase", 0>> \notin bad), VersionKey, Version,
                                  <<"write", 0>> \notin bad), <<"commit", 0>> \notin bad)
    /\ ram' = Defaults /\ dirty' = LeftDirty
    /\ storeOk' = (bad = {})
    /\ due' = [s \in Setting |-> IF {<<"erase", 0>>, <<"commit", 0>>} \cap bad = {} THEN {Descriptor[s].default}
                                 ELSE due[s] \cup {Descriptor[s].default} \cup Revived(s)]
    /\ lost' = IF {<<"erase", 0>>, <<"commit", 0>>} \cap bad = {} THEN {} ELSE lost
    /\ unsure' = IF <<"erase", 0>> \in bad THEN Setting ELSE {}

\* The end of begin(): the reset if the button was held, without a restart.
Start ==
  /\ at = "button" /\ gate.phase # "Countdown"
  /\ at' = "up"
  /\ IF gate.phase = "Confirmed" THEN ResetSettings
     ELSE UNCHANGED <<store, ram, dirty, storeOk, due, lost, unsure, mishaps>>
  /\ gate' = [gate EXCEPT !.phase = "Inactive", !.held = 0, !.open = 0, !.opening = FALSE]
  /\ UNCHANGED <<opened, since, reboot>>

-----------------------------------------------------------------------------
(* Commands. *)

\* setNumber and setText for a set of values: what they leave in the RAM.
Taken(values) ==
  [s \in Setting |-> IF s \in DOMAIN values /\ ~Refused(s, values[s])
                     THEN Clamped(s, values[s]) ELSE ram[s]]

ChangedBy(values) == {s \in Setting : Taken(values)[s] # ram[s]}

Found(values) == [s \in Setting |-> due[s] \cup {values[s]}]

Set ==
  /\ at = "up"
  /\ \E s \in Setting : \E entry \in [{s} -> Entered[s]] :
       /\ ram' = Taken(entry)
       /\ dirty' = dirty \cup ChangedBy(entry)
       /\ since' = IF ChangedBy(entry) = {} THEN since ELSE 0
       /\ due' = Found(Taken(entry))
  /\ UNCHANGED <<store, opened, storeOk, reboot, at, gate, lost, unsure, mishaps>>

\* A history step of every save: what was saved is the only thing to be found.
Saved(values, ds, bad) ==
  /\ unsure' = unsure \ (ds \ StillDirty(ds, bad))
  /\ due' = IF SaveOps(ds) \cap bad = {}
            THEN [s \in Setting |-> IF s \in unsure \ ds THEN due[s] ELSE {values[s]}]
            ELSE Found(values)
  /\ lost' = IF SaveOps(ds) \cap bad = {} THEN lost \cap (unsure \ ds) ELSE lost

Flush(values, ds, lately) ==
  \E bad \in Failing(SaveOps(ds)) :
    /\ Fail(bad)
    /\ store' = Committed(Saving(store, values, ds, bad), <<"commit", 0>> \notin bad)
    /\ dirty' = StillDirty(ds, bad)
    /\ storeOk' = SaveOk(bad, ds)
    /\ since' = lately
    /\ Saved(values, ds, bad)

\* The whole file, or nothing of it.
Acceptable(file) ==
  /\ file.ok
  /\ \A s \in DOMAIN file.entries :
       /\ file.entries[s] # Odd
       /\ Descriptor[s].type = "Text" => Fits(s, file.entries[s])

Import ==
  /\ at = "up"
  /\ \E file \in {f \in Files : Acceptable(f)} :
       \E ds \in {dirty \cup ChangedBy(file.entries)}, values \in {Taken(file.entries)} :
         /\ ram' = values
         /\ Flush(values, ds, IF ChangedBy(file.entries) = {} THEN since ELSE 0)
  /\ UNCHANGED <<opened, reboot, at, gate>>

FactoryReset ==
  /\ at = "up"
  /\ ResetSettings
  /\ reboot' = 0
  /\ UNCHANGED <<opened, since, at, gate>>

\* Other parts ask for a restart too (firmware updates).
AskReboot ==
  /\ at = "up" /\ reboot = NoReboot
  /\ reboot' = 0
  /\ UNCHANGED <<store, opened, ram, dirty, storeOk, since, at, gate, due, lost, unsure, mishaps>>

-----------------------------------------------------------------------------
(* The end of a pass: the debounced save and the restart that is due. *)

\* Mistake: a save that failed is not tried again.
SaveIsDueOnce == dirty # {} /\ since >= Debounce /\ storeOk

SaveIsDue == dirty # {} /\ since >= Debounce

RebootIsDue == reboot # NoReboot /\ reboot >= RebootDelay

Pass ==
  /\ at = "up" /\ ~RebootIsDue
  /\ UNCHANGED <<opened, ram, at, gate>>
  /\ reboot' = IF reboot = NoReboot THEN NoReboot ELSE Older(reboot, 1, RebootDelay)
  /\ IF SaveIsDue THEN Flush(ram, dirty, Older(since, 1, Debounce))
     ELSE /\ since' = Older(since, 1, Debounce)
          /\ UNCHANGED <<store, dirty, storeOk, due, lost, unsure, mishaps>>

Down ==
  /\ at' = "boot" /\ reboot' = NoReboot
  /\ ram' = Defaults /\ dirty' = {} /\ storeOk' = TRUE /\ since' = 0 /\ unsure' = {}
  /\ gate' = [phase |-> "Inactive", held |-> 0, open |-> 0, opening |-> FALSE]

\* flushNow() and ESP.restart(); what could not be committed is cut.
Reboot ==
  /\ at = "up" /\ RebootIsDue
  /\ opened' = TRUE /\ Down
  /\ \E bad \in Failing(SaveOps(dirty)) :
       /\ Fail(bad)
       /\ \E flash \in Committed(Saving(store, ram, dirty, bad), <<"commit", 0>> \notin bad).cuts :
            store' = Left(flash)
       /\ due' = IF SaveOps(dirty) \cap bad = {}
                 THEN [s \in Setting |-> IF s \in unsure \ dirty THEN due[s] ELSE {ram[s]}]
                 ELSE Found(ram)
       /\ lost' = IF SaveOps(dirty) \cap bad = {} THEN lost \cap (unsure \ dirty) ELSE lost

\* The writes a start or a save has made when the power fails in the middle of it.
Underway ==
  CASE opened /\ at = "boot" ->
         LET mig == Migrated(store, {})
         IN Saving(mig, Loaded(mig.seen, {}), ClampedOnLoad(mig.seen, {}), {})
    [] opened /\ at = "up" /\ SaveIsDue -> Saving(store, ram, dirty, {})
    [] OTHER -> store

\* The power fails; the store may not open afterwards.
Crash ==
  /\ mishaps < MaxMishaps
  /\ \E flash \in Underway.cuts : store' = Left(flash)
  /\ opened' \in BOOLEAN
  /\ mishaps' = mishaps + 1
  /\ UNCHANGED <<due, lost>>
  /\ Down

Next == \/ Begin \/ PollButton \/ Start \/ Set \/ Import \/ FactoryReset \/ AskReboot
        \/ Pass \/ Reboot \/ Crash

\* The loop task never stops.
Spec == Init /\ [][Next]_vars /\ WF_vars(Pass \/ Reboot)

-----------------------------------------------------------------------------
(* Properties. *)

(* While the store reports no failure, a setting that is not marked for     *)
(* saving is in the flash: the next start reads what the program uses now,  *)
(* however the save, the import, the migration or the reset went, and       *)
(* whatever a restart leaves of their writes (ConfigEngine::flushNow,       *)
(* loadFromStore, factoryReset).  Not for a setting that could not be read  *)
(* or renamed at this start, and not after an erase that failed: the code   *)
(* keeps none of these in mind.                                             *)
CleanIsSaved ==
  at = "up" /\ storeOk =>
    \A s \in Setting \ (dirty \cup unsure), flash \in store.cuts : Effective(flash)[s] = ram[s]

(* Whatever happens between two starts - a power failure in the middle of   *)
(* a save or of a migration, a failing save, a reset - a setting comes up   *)
(* with the value last saved for certain or with one that was on its way    *)
(* (the order of writes in applyRename and flushNow).  Two exceptions are   *)
(* the code's, both to the setting's default: applyRename removes the old   *)
(* key even though the value under it could not be read or written under    *)
(* the new one, and the setting is lost (ConfigEngine.cpp:511-536); and a   *)
(* setting that cannot be read at a start, or is not renamed because the    *)
(* version cannot be read, has its default until the next.  A reset that    *)
(* fails or is cut short may bring back the value under an old name, where  *)
(* that is still in the flash.                                              *)
RestartKeepsSettings ==
  at # "boot" => \A s \in Setting :
                   ram[s] \in due[s] \/ (s \in lost \cup unsure /\ ram[s] = Descriptor[s].default)

\* The values a setting may come up with.
Promised == [s \in Setting |-> due[s] \cup (IF s \in lost THEN {Descriptor[s].default} ELSE {})]

\* What the two rest on.
ConfigFits ==
  /\ store \in [seen : Contents, cuts : SUBSET Contents] /\ store.seen \in store.cuts
  /\ ram \in [Setting -> Int] /\ \A s \in Setting : Fit(s, ram[s]) = ram[s]
  /\ dirty \subseteq Setting /\ unsure \subseteq Setting
  /\ Promised \in [Setting -> SUBSET Int]
  /\ \A s \in Setting, flash \in store.cuts : Effective(flash)[s] \in Promised[s]
  /\ at = "boot" => store.cuts = {store.seen}
  /\ at # "boot" =>
       /\ \A s \in Setting :
            ram[s] \in Promised[s] \/ (s \in unsure \ dirty /\ ram[s] = Descriptor[s].default)
       /\ \A s \in Setting \ (dirty \cup unsure) :
            /\ Effective(store.seen)[s] = ram[s]
            /\ storeOk => \A flash \in store.cuts : Effective(flash)[s] = ram[s]

(* What is marked for saving does not stay so: either it is written or the  *)
(* settings keep changing, which puts the save off again and again          *)
(* (ConfigEngine::tick).  A store that did not open at the start stays so.  *)
Settled == dirty = {} \/ since < Debounce \/ ~opened
ChangesAreWritten == []<>Settled
=============================================================================
