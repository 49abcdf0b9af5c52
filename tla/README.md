# Verification of the heater-system controllers

Two ESP32 controllers drive one heating plant: the *boiler room* (pumps P1, P2
and the supply pump P3) and the *home heating* (pump P4, diverter K2, mixing
valve K1). They share a common library and differ in their control engine. This
directory holds TLA+ models of that code, the TLC configurations that check
them and TLAPS proofs about them. Paths below are relative to the repository.

## 1. The system

### Scheduling

One loop task per controller (`boiler-room/src/main.cpp`,
`home-heating/src/main.cpp`). Every 100 ms a *fast pass* runs
`net.fastTick` (drains the firmware-update signals, applies the output
inhibit), `web.fastTick`, `hw.fastTick` (K1 driver, relay arbitration,
expander write), `display.fastTick`. Every second a *slow pass* first runs
`core.tick` (commands, configuration, time), `hw.tick` (sensors, anti-seize),
`ctl.tick` (the control engine), `net.tick`, `web.tick`. AsyncTCP (web) and the
MQTT client run in other tasks; they only post commands to a queue, exchange
atomics and copy snapshots under a mutex. A watchdog restarts a loop that does
not return. `setup()` switches all relays off (RelayBoot) before anything else.

### Components

| Component | State it keeps | Operations | Talks to | What makes it correct |
|---|---|---|---|---|
| RelayBank (HwEngine) | three request slots per channel, actual level, lock and inhibit | request*, setExercise, setLockMs, update, setInhibited | callers: control engines, anti-seize, HwRuntime | dwell times, absolute inhibit, complete and non-repeating event records |
| K1Driver (HwEngine) | power, direction, run, pending request, motion done | requestPulse, cancel, tick, takeMotion | K1Logic, anti-seize, HwRuntime | dead-time interlock, exact motion, bounded pulses |
| AntiSeizeScheduler (HwEngine) | idle time, pending/running runs, phases | configure, tick | relay bank, K1 driver, local time | every run ends and releases what it took; what is idle is exercised; K1 only while P4 is OFF |
| HwRuntime (HwEngine) | the objects above, last written byte, inhibit | begin, tick, fastTick, setOutputsInhibited | loop, net, PCF8574 | the byte follows the objects, the latch follows the byte |
| SensorService, SensorDebounce, SensorHistory (HwEngine) | OneWire bus cycle, per-sensor phases, min/max history | tick, setOverride, scan | control engines (phases, temperatures), alarms | a bad read never becomes a temperature; Failed only after consecutive misses; recovery needs good reads |
| CoreRuntime, command queue (CoreEngine) | pending commands, factory reset | enqueue, tick | every task -> loop | bounded, in order, results reported |
| ConfigEngine (CoreEngine) | settings cache, dirty groups, debounce | set, apply, tick, flushNow, migrate, factoryReset | NVS | nothing reported saved is lost, clamped values, migration |
| EventLog, EventRateLimiter (CoreEngine) | ring of slots in NVS, head, sequence | append, load, clear | everybody | order kept, seq unique, crash loses at most the entry being written |
| TimeKeeper, CivilTime, FactoryResetGate, BackupCodec, SettingClamp (CoreEngine) | clock source and resync, button hold | tick, ... | RTC, NTP | clock never wrongly valid; reset needs a hold |
| BoilerRoomEngine | supply mode, flag, overheat and anti-freeze latches, alarms | tick, commands | relay bank, sensors, MQTT/HA | safety loops override economy; the supply flag follows offers |
| HomeHeatingEngine | P4 off delay, K2 position, K1 estimator, step test | tick, commands | relay bank, K1 driver, sensors | pump run-on, no K1 movement without need, estimator within 0..100 % |
| WifiSupervisor, WifiCredsMailbox (NetEngine) | STA/AP state, retry timers, credentials in flight | tick, connect, offer/take | WiFi driver | always reachable: AP or STA; credentials applied once |
| MqttSession, MqttPublisher, MqttInbound, HaLinkGate, AtomicIndexSet | connection attempt, outbox, dirty sets | tick, enqueue, onConnected/onDisconnected | MQTT task | one attempt at a time, states republished after a reconnect |
| OtaGuard, OtaBoot, ConnectivityRuntime | begin/end signals, stall clock, reboot pending, boot health | post*, tick | AsyncTCP task, espota, HwRuntime (inhibit), boot loader | outputs off while an update runs and released when it fails; a bad image is rolled back |
| SessionStore, LoginThrottle, CommandResultBoard, ExportSlot, SharedJsonBuffer (WebEngine/WebEsp32) | sessions, failures, results, export | login, validate, publish, take | AsyncTCP task, loop | no session outlives its login pair, guesses are rationed, results are told truly, exported memory has one owner |
| WebServices, WebServerHost (WebEsp32) | gates of uploads and static files, documents | tick, handlers | AsyncTCP task, loop, firmware update | no file is served from a partition under update |
| DisplayEngine, DisplayServices | page rotation, alarm holds, tile diffs, health of the panel | fastTick, update | status snapshots, I2C | the panel shows the frame, every alarm comes round |

### Behaviours that are hard to test

Requests, locks, inhibits and restarts in any order on one channel; two users of
the K1 driver; an inhibit that cuts a pulse between two passes; writes to the
expander that fail halfway; runs that must let go in every way they can end;
begin/end signals of an update that arrive together or late; storage that fails
between two steps; flags set over MQTT that race with their own reset; a handler of the AsyncTCP
task that looks at something under one lock and acts on it under another; memory
that passes from one task to the other and either may give up; a publish that
fails and must be made up for; a probe reassigned while its conversion runs.
Each is listed with its line in `PROJECT.json`, "hazards".

## 2. The modules

| Module | Models | Used by |
|---|---|---|
| `Ages` | how a timestamp is abstracted: by its age, saturating | the modules with timers |
| `DwellContacts` | abstract: contacts that keep a minimum dwell, except on demand or when cut off | `RelayBank` |
| `InterlockedDrive` | abstract: a drive whose direction moves only when it has been off, and stays still before power | `K1Driver`, `HwRuntime` |
| `RelayBank` | `RelayBank.cpp`: the object as a record, one operator per method, and a bank with free callers | `AntiSeize`, `HwRuntime`, `BoilerRoom`, `HomeHeating` |
| `K1Driver` | `K1Driver.cpp`, in the same form | `AntiSeize`, `HwRuntime`, `MixingValve` |
| `AntiSeize` | `AntiSeizeScheduler.cpp`: one tick as a chain of operators on the three objects | `HwRuntime` |
| `HwRuntime` | the loop: which operation happens in which pass, the output byte and the expander, restarts, the inhibit; any controller that obeys the rules both real ones obey | `MCHwRuntime` |
| `FirmwareUpdate` | `NetSignals`, `OtaGuard`, `OtaBoot`, espota and ElegantOTA callbacks, the update parts of `ConnectivityRuntime` and `ConnectivityServices`; external: `Update`, boot loader, AsyncTCP | `MCFirmwareUpdate` |
| `BoilerRoom` | `BoilerLoopLogic`, `SupplyLogic`, `PumpRiseCheck`, the alarms and the settings guard, in the slow and fast passes of `boiler-room/src/main.cpp`, over the relay bank | `MCBoilerRoom` |
| `HomeHeating` | `P4Logic`, `K2Logic`, `NoNeed`, `P4FlowCheck`, alarms and settings guard of the home controller, over the relay bank | `Home` |
| `MixingValve` | `K1Logic`, `K1Math`, `K1StepTest` and the slow pass that ties them to the driver of `K1Driver`; the true valve is outside the code | `Home` |
| `ConfigStore` | `ConfigEngine`, the import of `BackupCodec`, `FactoryResetGate`, `FactoryResetInput`, the restart of `CoreServices`, over a flash of which a restart keeps any first part of what was not committed, of an erase any part | `Home` |
| `CommandPath` | write handlers, command queue, `CoreRuntime::apply`, `CommandResultBoard`, the buffer of an imported backup | `Services` |
| `EventLog` | `EventLog`, `EventRateLimiter`, their slots in the flash | `Services` |
| `TimeKeeping` | `TimeKeeper`, `TimeService`, the RTC as a third clock | `Services` |
| `Calendar` | `CivilTime`, `Ds1307Codec`: pure functions, against the Gregorian rule | `Services` |
| `WebSessions` | `SessionStore`, `LoginThrottle`, `SessionGate`, `AdminAuth`, upload gate | `Services` |
| `StaticFiles` | who may serve LittleFS while updates start, fail and end (`WebServices`, `NetSignals`, `OtaGuard`) | `Services` |
| `WebDocuments` | `SharedJsonBuffer` with `/api/log`, `ExportSlot` with its builder and its sender | `Services` |
| `WifiLink` | `WifiSupervisor`, `WifiCredsMailbox`, `applyWifiActions` | `Services`, `MCWifiLink` |
| `Mqtt` | `MqttSession`, `MqttPublisher`, echoes of `MqttInbound`, broker and transport outside | `Services` |
| `Sensors` | `SensorService`, `SensorDebounce`, outcomes of the DS18B20 codec | `Services` |
| `DisplayPanel` | `DisplayServices`, `TileScheduler`, `Ssd1306Panel` | `Services` |
| `DisplayScreens` | `DisplayScheduler`, alarms page | `Services` |
| `Services` | the twelve parts both controllers share, side by side, for any constants; the properties | `MCServices`, `DeviceServicesProofs`, `WebServicesProofs` |
| `Home` | the three parts of the home controller above, side by side, for any constants; the properties | `MCHome`, `HomeProofs` |
| `RelayBankProofs`, `K1DriverProofs`, `HwRuntimeProofs`, `FirmwareUpdateProofs`, `BoilerRoomProofs` | theorems about the module of that name | |
| `DeviceServicesProofs`, `WebServicesProofs` | theorems about the parts of `Services`: Wi-Fi, MQTT, sensors, panel, screens and clock; sessions, files, documents, commands, log and calendar | |
| `HomeProofs` | theorems about the parts of `Home` | |
| `MC*` | constants for TLC | |

How state and actions correspond to the code:

* A C++ object is one variable holding a record; a method is an operator from a
  record to a record, so that `HwRuntime` can run several of them in one pass in
  the order the code does (`HwTick`: settings, anti-seize, driver tick, replay,
  update, write). `RelayBank` and `K1Driver` are also specifications of their
  own, whose `Next` lets callers do anything between two ticks; `BoilerRoom`,
  `HomeHeating` and `MixingValve` call the same operators.
* Timestamps are ages that grow with `Elapse` and saturate at `AgeCap`, above
  every threshold they are compared with. Equality of "age >= threshold" is what
  the code computes (`nowMs - stamp >= threshold`); the clock is 64 bits wide
  and does not wrap.
* A flag and the level it guards are one value ("unset", "off", "on").
* Where two tasks meet, a step is what happens under one lock or between two
  atomics: a handler is a variable that says how far it has come
  (`handler.step`, `web.at`), and the other task runs in between. The AsyncTCP
  task runs one handler at a time.
* What is outside the code has variables of its own (`store` and its journal, the
  true `valve`, `radio`, `said` by the broker, `ram` of the panel, the RTC
  `chip`), moved by the environment's actions and the code's calls; calls may
  fail, and where the hardware allows it a failing call has had an effect.
* Where a property needs what the object does not remember, a history variable
  holds it (`noticed`, `travelled`, `wire`, `due`, `fate`, `guesses`, `drive`,
  `owed`, `run`, ...), computed only from what is seen outside the object.
* Some operations are followed or preceded by a variant called a *mistake* (a
  dropped guard, a missing stamp). They are used nowhere in the specifications;
  putting one in the place of its operation makes the property named for it in
  `PROJECT.json`, "mutants", fail, which shows that the property looks at that
  code.

`Services` and `Home` put several specifications into one run. A behaviour is
about one of them, which the variable `part` names; the parts share no state, so
their variables share the names `v1`, `v2`, ... and every property has the form
`part = "x" => X!Property`. Both leave the constants of their parts open, so that
the theorems about them hold for all of them; `MCServices` and `MCHome` are one
instance each. The parts that do interact are composed elsewhere: bank,
driver and anti-seize in `HwRuntime`, control and bank in `BoilerRoom` and
`HomeHeating`, control and driver in `MixingValve`, the update's signals and the
file server in `StaticFiles`.

## 3. The runs and their bounds

| Run | Question | Bounds, and why they are enough |
|---|---|---|
| `relay_bank` | does the bank keep dwells and its records of delays, whatever its callers do; is a standing request served | one locked and logged pump, one free channel: channels do not interact; lock 0 or 2 units, raised and lowered in flight; ages up to 2 |
| `k1_driver` | interlock, motion; a standing request starts, an idle drive comes to rest | dead time 2, pulses shorter (1) and longer (3) than it and both refused lengths (0, 4), passes up to 2 late, counter modulo 2, motion up to 12 between two reports |
| `hw_outputs` | inhibit, byte and latch in the loop with failures and restarts | K1's two channels, late passes, a re-assert period longer than a pass, writes that fail with and without effect |
| `hw_seize_valve` | exercises and the stroke against everything else that uses a relay or the driver; liveness; interlock of the byte | pump and valve; a lock of 3, longer than a slow pass, that does not change; local time before, after or without the daily minute; overheats, updates of any length, exercises switched on and off: a run ends because it is done, switched off, overridden, held off or timed out, and TLC reaches a time-out that is the only cause. No restart, no lock change and no refused stroke length: those `StrokesStayOrderly` covers for `StrokesAreOrderly`, and nothing does for `ExercisesComeAndGo` |
| `firmware_update` | are relays off while anything is written and do sessions keep apart, as long as no post overtakes another; is a trial always watched, does every hold end | two web clients and espota, three sessions, one unrequested restart: enough for an update, its trial and a session that disturbs either; the times keep their order (begin check < receive timeout < stall, confirmation < deadline) |
| `boiler_room` | is the boiler cooled and the home supplied, does P3 keep moving, do the home's answer and refusal count, does a latch or a warning come up unearned | six plants, one per behaviour: in each only the sensors, settings and surroundings vary that its question is about; temperatures in half degrees on both sides of every threshold and inside every band, plus failed and settling probes; ages up to 3, above every period (lock 2, offer window 2, wait 3 or 0, anti-freeze interval 3 and duration 2, a check's 2); passes 1 or 2 apart |
| `services` | the twelve parts both controllers share | next table |
| `home` | settings, mixing valve, and the rest of the home controller | next table |
| `boiler_saved_flag`, `hw_ota_power`, `setup_ap`, `update_overtaken` | documented rules the code does not keep (section 6) | the smallest instance that shows it |

The parts of `services` and `home`:

| Part | Question (property) | Bounds |
|---|---|---|
| command | who polls for a result is told the truth; the memory of an imported file has one owner and is freed once (`CommandsAreAccountedFor`) | board of 2, queue of 1, two file buffers: a full queue, a slot reused while polled, and a command applied before its handler has handed the buffer over all occur |
| log | the log is one across restarts (`LogIsOne`) | ring of 3 entries wrapped twice by 6 events, three sources for two limiter slots, window 2, 4 failed or torn writes, unreadable slots and restarts |
| time | the clock and the chip agree; the clock is tended while there is a network (`TimeIsKept`) | resync 4, retry 2, answers up to one pass late, drift 1, a chip written half, two mishaps |
| calendar | every date, written to the chip and read back (`DatesAreTrue`) | all 49,709 days that 32-bit seconds reach, four times of day around noon and midnight. No bound to enlarge |
| sessions | sessions and grants against changes of the login pair, guesses, uploads (`SessionsBelongToThePair`, `GuessesAreRationed`, `WrittenIsReported`) | two browsers, one slot (so it is evicted), 2 free failures, two changes of the pair, which may fall between a handler's two locks |
| files | a file system under update is not served (`TouchedIsNotServed`) | three starts of web updates: one acknowledged, one counted, one in between |
| documents | `/api/log` never freezes or mixes two documents; a backup's memory has one owner (`DocumentsArriveWhole`) | three buffers, periods of 2, three log events; mutex timeouts on either side |
| wifi | name and password stay a pair; a lost network is pursued (`PairIsWhole`, `LinkIsPursued`) | two networks, three offers, pauses 1 and 2, scans, windows 1 and 3 |
| mqtt | what the broker shows is so or about to be; an attempt does not hang (`BrokerIsTold`, `NoAttemptHangs`) | two entities with two values, two brokers and one change of endpoint, pauses 1 to 4 and timeout 3, publishes that fail at any point of the sequence |
| sensors | a temperature is the sensor's own; the missing alarm tells the truth (`TemperatureIsOfItsProbe`, `MissingIsTold`) | two probes, two sensors that can be swapped or assigned in any pass, 2 failures, 1 recovery |
| panel | the panel shows the frame but for the rows to be sent (`PanelShowsTheFrame`) | two rows, two images and garbage, fail limit 3, transfers that fail with and without effect |
| screens | every alarm comes round (`AlarmsComeRound`) | three alarms on three sub-pages, two pages, a hold of 5 (longer than a lap of the sub-pages), three screens with precedence |
| config | what is reported saved survives; what changed is written (`SettingsSurvive`, `ChangesAreWritten`) | a number with a renamed key and a text; five flashes a controller may start with (empty, without a version, two of an older schema, one of a newer); 3 mishaps, each a failing call or a restart, which keeps any first part of the writes and any part of an erase |
| valve | the estimate is the valve's position; a step test measures its own pulse; the valve comes to rest (`EstimateIsTrue`, `ResultIsOfThePulse`, `ValveComesToRest`) | travel 4 with overdrive 2; readings that reach every mode; anti-seize strokes or step tests; one firmware update |
| house | what the house tells the boiler room is so; the tank is spared (`HouseTellsTheTruth`, `TankIsSpared`) | three plants (pump, tank, flow) as in `boiler_room` |

Several properties have parts that have names of their own:
`OutputsAreRight` (`TypeOK`, `HeldOff`, `ByteFollowsDriver`, `LatchIsCurrent`),
`StrokesAreOrderly` (`StrokeIsOwned`, `ExerciseIsOwned`, `StrokeYieldsToPump`,
`ByteIsInterlocked`), `ExercisesComeAndGo` (`RunsEnd`, `IsExercised`),
`RequestsSettle` (`PendingStarts`, `IdleComesToRest`), `ImageIsAccountedFor`
(`TypeOK`, `SuccessIsCommitted`, `RollbackHoldsOff`, `TrialIsWatched`),
`UpdatesEnd` (`HoldEnds`, `CommitIsRestarted`, `RollbackIsReported`),
`RoomDoesItsPart` (`TypeOK`, `HomeIsSupplied`, `AntiFreezeKeepsP3Moving`,
`WarningsAreEarned`), `AnswersCount` (`AnswerDecides`, `RefusalIsRespected`),
`CommandsAreAccountedFor` (`BoardTellsTheTruth`, `BufferHasOneOwner`),
`TimeIsKept` (`ClocksAgree`, `ClockIsTended`), `DatesAreTrue`
(`CalendarIsGregorian`, `ChipKeepsTheTime`), `DocumentsArriveWhole`
(`LogIsServed`, `ExportHasOneOwner`), `SettingsSurvive` (`CleanIsSaved`,
`RestartKeepsSettings`).

A unit of time is one fast pass (100 ms) in `HwRuntime` and `MixingValve`, one
slow pass in `WifiLink`, `Mqtt` and `Sensors`, one `update()` in
`DisplayScreens`; the real numbers keep their order (dead time = slow period,
pulse limit above it, timeout above the duration, interval above everything a
relay age tells apart) and not their size.

Fairness. `RelayBank!FairSpec`: the loop keeps calling `update()` and time
passes. `K1Driver!FairSpec`: the same for `tick()` and `takeMotion()`, which the
slow tick of the home controller calls unconditionally. `HwRuntime!FairSpec`: the
loop's position changes again and again, which the watchdog guarantees; nothing
is assumed of the order of callers' requests. `FirmwareUpdate!FairSpec`: the
loop's steps happen, a request handler returns, an upload has finitely many
chunks and an espota session ends (ArduinoOTA has its own timeouts); a web
client may fall silent or disappear at any point. `Home!Spec`: the loop comes
round, which is a pass or the start after a restart for the settings and a move of
the loop's position for the valve; the watchdog restarts a loop that does not.
`ValveComesToRest` is about behaviours in which the readings, the pump and the
inhibit stand still from some moment on: it says that the controller by itself
neither hunts nor recalibrates for ever. `ChangesAreWritten` allows what the
code allows: settings that keep changing put the save off again and again.
`services` needs no fairness: what must happen in time is stated by ages
(`ClockIsTended`, `LinkIsPursued`, `NoAttemptHangs`, `AlarmsComeRound`).

The run `hw_seize_valve` has a VIEW (`Shown` in `MCHwRuntime`): it leaves out the
latch of the expander, the counters, marks and reasons of the log and the motion
report, none of which a guard of the scheduler, the bank or the driver reads in a
way that its two properties see, and takes ages that are only compared with the
dead time as equal once they are beyond it. States it identifies have the same
future as far as both properties look.

Assumptions of `FirmwareUpdate`, each stated at its definition: the one AsyncTCP
task runs handlers one after another, and none lasts as long as a pause of the
loop; the web server closes a silent connection before the guard's minute is over;
nothing is committed during a trial (what the boot loader makes of a second new
image is not in this repository); removing the marker and confirming an image
succeed. Sessions start whenever the gate lets them, also before the loop has taken
the last session's end: both are then taken together and the wrong session is given up
(`update_overtaken`, section 6). The history `misled` is set by just such a post - a
start or an end posted over an end not yet taken, or an upload that ends after another
client's start has reset the count of its bytes - and cleared when no session is left.
`OffWhileUpdating`, `SessionsExclude` and `CommitIsRestarted` say what the code keeps
of the documents' promises: they hold until a post overtakes another one, whatever
else happens. `ImageIsAccountedFor`, the end of every hold and
`RollbackIsReported` hold without that exception.

`BoilerRoom` is one module for loops, supply, checks and bank, because its
properties are about pumps and not about decisions. Its plants are one
configuration: a behaviour belongs to one plant and never leaves it. The run's
VIEW drops the bank's log marks, reasons and the ages only records depend on
(`Shown` in `MCBoilerRoom`). Three things its properties say need care.
`steady` excuses what a command or a firmware update does between two slow
passes; the next slow pass must be right again. `HomeIsSupplied` excuses the relay
lock's minimum off time. `WarningsAreEarned` excuses a firmware update's hold-off
that began and ended between two samples of a check: the pump stopped, the check
did not see it; the property bounds how long such a hold-off may be hidden.
An exercise starts only on a pump that has been off since before this pass
(`Exercisable`), as the scheduler requires: with an exercise of a pump that has
just been switched off a check would go on over the gap, which is how the missing
guard was found when the property turned out not to be inductive.
Nothing of `BoilerRoom` needs fairness: it has no liveness property, what must
happen in time is stated by ages. Left out: stored energy, T4 and T5, the event
records, the status slice and the state without resolved settings (P1 forced on
until the firmware is rebuilt). `HomeHeating` is built the same way and leaves
out the same.

Assumptions of the other parts. `ConfigStore`: what is committed stays, and a
restart keeps some first part of what was not, and of an erase any part;
`CleanIsSaved` speaks of every content a restart may find, but says nothing of a
setting that could not be read or renamed at this start, nor after an erase that failed,
none of which the code keeps in mind. `RestartKeepsSettings` names what the code loses:
a setting whose rename failed in its read or its write (the history `lost`, set by
`LostIn` for exactly the settings whose value was under the old name only and is not
under the new one) may come up with its default, from then until it is saved again, and
so may one that could not be read at this start, until the next. A failing write of
anything else is no excuse. A reset that fails or is cut short may bring
back the value under an old name (section 6). `MixingValve`: the motor moves at a constant
speed, the settings are constants, and the relay lock is longer than a slow pass
(section 6 says what a shorter one does). `TimeKeeping`: the chip drifts by a
bounded amount between two synchronisations. `Calendar`: a time has 32 bits of seconds, which end in 2106; the chip's year byte has
two digits, so a date before 2000 may be read back as one of this century;
`ChipKeepsTheTime` asks for a refusal only from 2000 on. `CommandPath`: ids are not
used again while somebody still holds one (they have 31 bits). `Mqtt`: the minute of
the full refresh may come at any pass. `StaticFiles`: espota and a file that is
already being sent are left out, and the property is stated between two ticks
(section 6).

The inhibit of a network update is drained by `net.fastTick`. The other way an
update starts (`espota`) blocks the loop inside `net.fastTick` with the inhibit
applied and one `fastTick` called by hand; that is a behaviour of the model too,
in which passes of the loop find nothing to do while inhibited.

## 4. Proofs

The theorems hold for every value of the constants that the `ASSUME`s of the
modules allow: any channels, times, readings, thresholds, clients, queue
lengths. Where a theorem states what a run checks, the run shows it on a small
instance; a theorem without a run states what a small instance adds nothing to.

| Module | Theorem | Property |
|---|---|---|
| `RelayBankProofs` | `TypeCorrect`, `InhibitIsAbsolute`, `DelaysAreRecorded`, `DelaysAreRecordedOnce`, `SwitchingsAreRecorded`, `ShortDwellsAreExplained` | of the bank alone |
| | `BankKeepsDwells` | `DwellContract`: the bank implements `DwellContacts` |
| `K1DriverProofs` | `TypeCorrect`, `MotionIsExact`, `PulsesAreBounded`, `StartsAreCounted` | `MotionIsAccounted` |
| | `K1IsInterlocked` | `DriveIsInterlocked`: the driver implements `InterlockedDrive` |
| `HwRuntimeProofs` | `OutputsStayRight`, `LossesAreRepaired` | `OutputsAreRight`, `LossIsRepaired` |
| | `StrokesStayOrderly` | `StrokesAreOrderly` |
| `FirmwareUpdateProofs` | `UpdatesAreSafe` | `OffWhileUpdating`, `SessionsExclude`, `ImageIsAccountedFor` |
| | `RollbacksAreReported` | `RollbackIsReported` |
| `BoilerRoomProofs` | `BoilerIsCooled`, `FailSafesAreRun`, `LoopsSettle` | `HotBoilerIsCooled` |
| | `RoomServes` | `RoomDoesItsPart` |
| | `AnswersAreCounted` | `AnswersCount` |
| `DeviceServicesProofs` | `PairsAreWhole`, `LinksArePursued` | `PairIsWhole`, `LinkIsPursued` |
| | `BrokersAreTold`, `NoAttemptHoldsOn` | `BrokerIsTold`, `NoAttemptHangs` |
| | `ProbesAreTheirOwn`, `MissingIsKnown` | `TemperatureIsOfItsProbe`, `MissingIsTold` |
| | `PanelIsTrue`, `AlarmsDoComeRound`, `ClocksAreKept` | `PanelShowsTheFrame`, `AlarmsComeRound`, `TimeIsKept` |
| `WebServicesProofs` | `NoSessionOutlivesThePair`, `GuessesAreFew`, `UploadsAreReported` | `SessionsBelongToThePair`, `GuessesAreRationed`, `WrittenIsReported` |
| | `NoFileOfTheTouched`, `DocumentsAreWhole` | `TouchedIsNotServed`, `DocumentsArriveWhole` |
| | `CommandsStayAccountedFor`, `LogStaysOne`, `DatesStayTrue` | `CommandsAreAccountedFor`, `LogIsOne`, `DatesAreTrue` |
| `HomeProofs` | `HouseIsTruthful`, `TanksAreSpared` | `HouseTellsTheTruth`, `TankIsSpared` |
| | `EstimatesAreTrue` | `EstimateIsTrue` |
| | `ResultsAreMeasured` | `ResultIsOfThePulse`, for a relay lock longer than a slow pass |
| | `SettingsDoSurvive` | `SettingsSurvive` |

### The arguments

Hardly one of these properties is inductive as it stands. What each needed:

* **Relay bank.** The object's own mark `delayLogged` agrees with what an observer
  of the log has seen: without it "once per episode" is not inductive, because the
  code decides on its mark and the property on the log (`Invariance`).
* **K1 driver.** Power is on exactly while a run goes on, the direction contact is
  the run's, and what is left of a run is at least minus the time since the last
  tick (`Sound`).
* **Hardware loop.** The byte follows the objects and the latch the byte
  (`IInv`): a configured bank knows of the inhibit (`InhibitIsKnown`), slots
  without a user are never set (`UsersOnly`), the driver keeps its own rules
  (`Sound`, by the lemmas of `K1DriverProofs`), the last write that did not fail is
  in the latch unless it was lost since (`WriteIsKept`), and the latch is never
  astray for longer than the re-assert has been waited for (`LossIsTimed`). For
  strokes and exercises `OInv` adds that every slot and every stroke has its run,
  and that the ages of the byte's contacts are at least the driver's (`Wired`):
  the interlock of the byte then follows step by step from the driver's, except in the
  steps the property leaves out, those of a hold-off and of the dead time after
  it (`cut`, which is what `hw_ota_power` is about). The
  scheduler's tick folds over the outputs by a recursive function; that the
  function exists (`WalkExists`) and what it preserves is proved by induction on
  the outputs (`Induct`, from the least element of a set of numbers).
* **Firmware update.** As long as no post has overtaken another (`misled \/ Orderly`):
  who owns the Update object (`ClientsFit`, `UpdateIsOwned`), that an upload is never
  given up by the guard before the server gives up its client (`UploadsAreHeard`). Always: the way a success takes to the guard
  (`SuccessIsTrue`), and the state of both slots and of the marker (`FlashFits`).
* **Boiler room.** What the last slow pass decided is in the safety slots
  (`ForcedAsk`), and a bank that is not held off runs what its safety slots ask for
  (`ForcedRun`): neither property is inductive without the slots between decision
  and pump. The home's supply needs that the flag is the home's word and that P3 is
  off only by decision, by its lock or for a while (`SupplyFits`), that the machine
  and the history count the same time since a refusal (`RefusalFits`), and that a
  pump under check has run as long as its check says, or was held off since, or was
  just stopped by its rule and will be found off by the next pass (`ChecksFit`).
  `LoopsSettle` is a fact about the operators: what sets a latch never clears it
  once the settings are guarded.
* **House.** "No need" outlives the pass that said it because from then on nothing
  asks for an output, so that an update only ever switches off (`NoNeedFits`); the
  controller forgets a demand no sooner than it has been calm. An unsafe tank is
  bypassed in the controller and in the request, and a relay still on is younger
  than its lock (`TankFits`): that no latch of K2 holds against such readings needs
  the settings guarded. A pump under check has run as long as the check says, or was
  just stopped with nobody to start it again within a pass (`FlowFits`).
* **Mixing valve.** The property speaks of a position that is known; the invariant also of
  one that is not. There was a place where the motion was last taken, and the valve is
  where the motion not yet taken and the run under way lead from it, each clipped at
  the ends (`PlaceFits`); that place is the estimate when the estimate is known, and
  while a recalibration lasts it is at the stop or as far from the other one as has
  been closed, which is why a recalibration may end at `Recal - RecalSlack`. Clipping is
  not additive, so two runs in one interval would break it: a run that is stopped by a
  reversal is taken before the next one starts, because that needs two dead times
  (`TakingFits`). What the driver does is taken from the lemmas of `K1DriverProofs`
  (`RequestTells`, `CancelTells`, `TickTells`), and every operation is shown to leave
  the valve where it is (`Harmless`).
* **Step test.** The property is about the step that ends a test, the invariant about
  its pulse (`PulseFits`): it waits in the driver, runs or is done, the motor has done
  just that much of it, and the age of the test and what is left until the pulse is
  over (`Due`) together never exceed the pulse and the two dead times of a reversal,
  which are less than the time to settle or to observe. Or a firmware update has
  cancelled it: then the pump was switched off with it, no longer ago than the last
  slow pass, its lock keeps it off, and the next pass aborts the test. That is why the
  theorem has a relay lock longer than a pass as its hypothesis: with a shorter one
  the property is false (section 6). As in the model, no stroke is under way while
  tests are made: a stroke needs the pump off.
* **Settings.** What reads see and every content that a restart may find come up, setting by
  setting, with a value that is due; for what is neither dirty nor unsure that value
  is the one in RAM, for what reads see always and for the other contents while no
  failure is reported (`ConfigFits`). The theorem has to follow each start, save, import and
  reset through all the places where it may be cut: a rename writes the new key
  first and removes the old one after it, and the version comes last, so that each place
  comes up with the same values, or with the default of a setting whose rename fails
  (`Promised`, which is `due` and the default of what is in `lost`).
* **Wi-Fi.** A pair is entered, taken and applied part by part, and until its last
  part is there nobody else touches the mailbox (`MailFits`); without a link the
  last attempt lies no further back than the pause that is left tells, and a scan
  holds the next one off for as long as it lasts (`PursuitFits`).
* **MQTT.** `PublisherFits` says `BrokerIsTold` in a session and out of it.
  `SessionFits` tells how long the connection may have been opening by the pause
  after which the next attempt comes.
* **Sensors.** A sensor that is believed was read at the probe it has now, and its
  counters lag behind no run of answers or silences (`SensorsFit`). **Panel**: what
  was sent is drawn and shown, and the rows that differ wait (`PanelFits`).
  **Screens**: how long an alarm has been waiting is told by how long its page has been up
  or away, by its sub-page being before or after the one shown, and by the rest of the
  round (`ScreensFit`). A round of the pages and two laps of the sub-pages are exactly what
  it takes: with one step less TLC finds an alarm that waits longer.
  **Time**: an answer is no older than the pass it waits for, and the last pass with
  a network left a recent time or a recent request (`TimeFits`).
* **Sessions.** Each session and its grant are good for the generation it was
  opened in, also when that one is gone (`SessionsFit`); while no lock lasts every
  wrong guess that counts has been counted, while one lasts those before it have
  aged with it (`GuessesFit`). **Files**: an image served although an update has
  begun is one the loop still has to acknowledge or knows of (`FilesFit`).
  **Documents**: whose turn the mutex says it is, what the copied half was built
  from, where each task keeps its buffer (`DocumentsFit`).
* **Commands.** The board's ring and its places fit the newest ids, and an id not
  yet posted is nowhere else (`BoardFits`); connections, queue and loop are the
  owners of buffers, no two own one, and together they own all that is allocated
  (`BuffersFit`).
* **Event log.** Numbers say where an entry lies in the flash and, but for entries a start could
  not read, in which order things happened, across ring and flash together; what
  the ring shows of the last numbers is in the flash or known as lost (`LogFits`). The
  ring index is a remainder: two numbers that share a slot are a capacity apart.
* **Calendar.** The invariant is the span of days; the work is in the operators. Every day of
  an era is some centuries, some times four years, some years and a day of a year
  that begins in March (`EraIsCovered`), `yearOfEra` finds that year (`EraTells`), the
  months are found by their starts (`MonthOfDay`), and the next day is the next of the year or
  the first of the next one, a leap year being one whose last day has the number 365
  (`DayAfter`, `LeapOfYear`). From that the Gregorian walk (`DaysWalk`), the way
  back (`DaysReturn`) and the chip (`Decoding`, `ChipReturns`).

### What they assume

The assumptions on constants are named beside the declarations and TLC evaluates
them on every run. Those that are more than types:

* `HwRuntimeAssumption`: the re-assert period is not zero; a stroke is an output of a
  board with K1 and on its power channel, which `HwConfig.cpp:111-114` checks before
  it accepts a table.
* `StrokesStayOrderly` is about a board with K1 and a table in which each channel is
  exercised by one output; updates, restarts and changes of the lock are in it. `validateAntiSeize` does not check the last one; the tables of both
  controllers satisfy it.
* `MqttAssumption`: the fourth pause is longer than an attempt may last and no longer
  than the longest pause, with 5 s, 15 s and 60 s (`MqttSession.h:37,43`).
* `FirmwareUpdateAssumption`: the server's receive timeout and the begin check are no
  longer than the guard's minute; confirmation comes before the deadline.
* `ScreensAssumption`: a hold lasts for a lap of all the sub-pages, 30 s against at most
  three times 2.5 s (`DisplayScheduler.h:9-10`, `DisplayPages.h:39`); a shorter one
  could end before it has shown every alarm, which the bound does not allow for.
* `ConfigStoreAssumption`: the schema passes `validateSchema`, and the flash of the first
  start may hold anything of the types a key may have.
* `CalendarAssumption`: the days are those that 32 bits of seconds reach. The property
  would be false from 2184 on, whose year the register's digits show as 2024.
* `TimeAssumption`: a half written chip is further off than drift and a late pass
  explain; it is what makes the property worth stating.
* `HomeHeatingAssumption`: `k2Delta` and `k2H4MaxHyst` are at least one degree
  (`HomeHeatingControlSettings.h:70-81`); a pass is shorter than the days after which an
  idle output is exercised.
* `MixingValveAssumption`: a slow pass is no further from the next than two dead times
  of the driver (both are a second, `K1Driver.h:24` and `CoreServices.h:25`; the
  model's loop is never late); a test settles and observes for longer than its pulse and
  two dead times take (`K1StepTest.h`: minutes against at most 30 s); the settings have
  their ranges.
* `ResultsAreMeasured` has `Lock > SlowPeriod` as a hypothesis: a relay lock longer than
  the second of a slow pass; the default is 60 s (`HwSettings.h:23`).
* `WebDocumentsAssumption`, `CommandPathAssumption`: "none" is not a buffer.

### Only model-checked

Every liveness property (`RequestIsServed`, `RequestsSettle`, `ExercisesComeAndGo`,
`UpdatesEnd`, `ChangesAreWritten`, `ValveComesToRest`): the prover has no rule for
fairness over these actions. Every safety property that a passing run checks is
proved, `StrokesAreOrderly` under the two hypotheses named above and
`ResultIsOfThePulse` under one. No module uses recursive
operators; recursion over the outputs and over the enumerations is by recursive
functions.

## 5. Plan

Done: (1) relay bank, K1 driver, anti-seize, hardware loop; (2) firmware update;
(3) configuration store and event log under storage failures and restarts,
command queue and results; (4) boiler room; (5) home: P4, K2, K1 control and
estimator, step test; (6) sensor service and debounce; (7) Wi-Fi supervisor,
credentials mailbox, MQTT session and publisher; (8) sessions, throttle, exports,
static files, display; (9) theorems about the bank, the driver, the loop, firmware
updates, the boiler room, all the shared services, and of the house the pump, the
diverter, the valve's estimate, the step test and the settings.

Models that would add something: espota next to the file server; the
sample history, whose ring is read while it is written; a composition of the two
controllers over the MQTT link.

## 6. Where code and documents disagree

* `hw_ota_power`. README.md:143-144 promises a second between a change of the
  K1 direction and power ON. An inhibit clears the direction bit of the byte but
  not the driver's idea of it; when it is released early the replay moves the
  bit again and a pulse may follow at once.
* `boiler_saved_flag`. docs/BRIEF.md:153 says that after a reboot the saved
  "Home: no need" is not applied until MQTT reconnects and Home Assistant sends
  the current value. The code waits for the connection only: the saved flag turns
  P3 off in the first slow pass after it, and a stale one is corrected when the
  automation next writes (README.md:1118-1120 relies on that).
* `setup_ap`. README.md:388 says of the set-up access point that it "goes away
  after 120 s and never comes back". `WifiSupervisor.cpp:166-181` decides the retry
  of a start that failed and the end of the access point independently; when both
  fall into one tick, `ConnectivityRuntime.cpp:32-37` stops it first and starts it
  then, and in mode Station nothing stops it again.

* `update_overtaken`. README.md:344 says "Relays are OFF during any update".
  `/ota/start` is admitted by the gate and by `espotaActive` alone
  (`WebServerHost.cpp:146-156`); the end of the last session may still wait in
  `NetSignals`. `takeOtaSignals()` then hands over the start and that end
  together, and `OtaGuard::update()` (47-59) opens the new session and ends it with
  the other's failure: the outputs are released and `Update.begin()` opens an image
  with the relays free. Two more things follow from the same confusion:
  `ConnectivityRuntime.cpp:325-332` may abort the Update object under a client that
  is uploading, so that espota can open it and get the client's next chunk; and a
  success posted after it finds no active session, so that a committed image is not
  restarted into until the next restart. An end over an end not yet taken does the
  same. The window is a pass of the loop, and the second session must begin in it.

Seen while modelling and not made into runs, because no document says otherwise or
the effect is small:

* docs/BRIEF.md:342 allows the K1 stroke only while P4 is OFF.
  `AntiSeizeScheduler.cpp:280-289` judges every output by what the relays did before
  the tick: when the pump's own exercise and the stroke are due in the same tick
  both are started. The stroke is cancelled a tick later, before the motor is powered,
  which `StrokesAreOrderly` confirms.
* `ConfigEngine.cpp:511-536`: `applyRename()` removes the old key whether or not the
  value could be read from it and written under the new one. When one of the two fails
  the setting is lost and comes up with its default, at this start and at every later
  one, without an event of its own. `RestartKeepsSettings` allows it for these settings
  (`lost`); without that exception TLC finds it violated two starts later.
* `K2Logic.h:8` says that the de-energised relay of the diverter is TANK, and
  README.md:1030 that without settings K2 is at "TANK (relay OFF)". The code
  (`HomeHeatingTypes.h:15-21`) and docs/BRIEF.md:237 have it the other way
  round: de-energised is BYPASS. The model follows the code.
* `ConfigEngine.cpp:233-234` and `261-262` say that the one NvsError event at the
  end of `loadFromStore()` covers a setting that could not be read. That event
  depends on the read of the version alone (273-276): a failing read of a setting
  leaves its default and `lastStoreOk` true.
* `DisplayServices.cpp:245-248`: the panel is considered switched on before
  `setPowerSave(0)` is known to have arrived. When that one transfer fails the
  failure is counted and the call is not repeated: the panel stays dark until it
  is next given up and found.
* `WebServices.cpp:145` and `201`: `otaBusyNow()` reads three values while the slow
  pass stores two of them, so that an update that began in exactly that
  moment may be missed by one request; between two ticks it is not.
* `MqttSession.cpp:56-60`: an attempt under way when the endpoint changes is
  aborted, but if the transport has connected in the meantime a session with the
  old broker may open and is closed a tick later.
* `WifiSupervisor.cpp:69-76`: a network name cleared while the link is up does not
  tell the time service that the link is down.
* `ConfigEngine.cpp:446-466` with `200-205`: a factory reset whose commit fails or is cut
  short can leave an old key without the version key, so that the next start migrates
  again and brings back the value stored under the old name. `RestartKeepsSettings`
  allows it.
* `EventLog.cpp:63-72`: a slot that a start cannot read may hold the highest number, which
  is then given again; when it can be read at a later start it comes up above younger
  entries. `LogIsOne` excepts such entries.
* A relay lock of 0 (`HwSettings.h:23` allows 0 to 600 s): a firmware update that
  begins and fails between two slow passes cancels the pulse of a step test and
  gives the pump back unseen by `abortReason()`; the test then reports a result
  measured on no pulse. With `Lock <- 0` TLC finds `ResultIsOfThePulse` violated.

## 7. Not modelled

Listed per component in `PROJECT.json`. Out of reach or out of interest for a
model checker: JSON and HTML rendering, page layout and other formatting, the
parsers of request bodies and topics, the registers of DS18B20 and PCF8574, HTTP
plumbing, the captive portal, JavaScript front ends and build scripts, Home
Assistant discovery and identity (strings built from constant tables), time zone
rules. Left out of components that are modelled otherwise: the sample history of
the sensors, stored energy, the daily count of K1 pulses and the tuning a step
test suggests, the texts of events, and of the house's alarm mask the bit of each faulty or
unassigned sensor. MQTT messages in several packets and messages that
are too long are dropped by `onMessage` and never reach the modelled part. The
numerical control laws are modelled only as far as a property tells values
apart.
