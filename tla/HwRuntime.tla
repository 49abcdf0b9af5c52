------------------------------ MODULE HwRuntime ------------------------------
(***************************************************************************)
(* HwRuntime (common/lib/HwEngine) in the main loop of a controller: it    *)
(* owns the relay bank, the K1 driver and the anti-seize scheduler,        *)
(* replays the driver into the bank on every fast tick, and writes the     *)
(* bank's output byte to the PCF8574 expander.                             *)
(*                                                                         *)
(* `at` is the place of the loop task: a slow pass runs core, hw, ctl and  *)
(* then, as every pass does, net and fast; time passes only between two    *)
(* passes.  The controller (ctl) is any controller that keeps to the rules *)
(* the two real ones keep: control slots every tick, safety slots at will, *)
(* K1 pulses only while the outputs are not inhibited and anti-seize does  *)
(* not own K1.                                                             *)
(*                                                                         *)
(* The expander is outside the code: a write that fails may or may not     *)
(* have reached its latch, and a brown-out clears the latch.               *)
(***************************************************************************)
EXTENDS Integers, Sequences, Ages

CONSTANTS Channel, Lockable, Logged, Emergency, Exercised, LockValues, AgeCap,
          DeadTime, MaxPulse, Durations, MaxGap, StartsMod, MaxTravel,
          Outputs, Strokes, Interval, Slack, SafetyNet, Duration, Timeout,
          K1Present,    \* the controller has a mixing valve
          PowerCh,      \* its two relay channels
          DirCh,
          K1Requests,   \* the <<direction, duration>> pulses it asks for
          Recal,        \* the length of its recalibrating close pulse
          Steps,        \* how long a pass of the loop may take
          SlowPeriod,   \* CORE_LOOP_PERIOD_MS
          Reassert,     \* RELAY_REASSERT_MS
          OtaUsed,      \* model switches: firmware updates happen,
          PortFails,    \* writes fail and the expander browns out,
          Reboots,      \* the controller restarts,
          Clock         \* the local times a tick may see

VARIABLES bank, k1, seize,      \* the three objects
          settings,             \* the lock and the enabled anti-seize outputs
          ready,                \* begin() has succeeded
          inhibited,            \* _outputsInhibited
          port,                 \* write policy, and the expander's latch
          at, sinceSlow,        \* the loop task
          wire, failed, astray, lost   \* history: see below

vars == <<bank, k1, seize, settings, ready, inhibited, port, at, sinceSlow,
          wire, failed, astray, lost>>

Bank == INSTANCE RelayBank WITH log <- {}, noticed <- {}
K1 == INSTANCE K1Driver WITH sinceTick <- 0, travelled <- <<>>
Seizer == INSTANCE AntiSeize

ASSUME HwRuntimeAssumption ==
  /\ Bank!RelayBankAssumption
  /\ K1!K1DriverAssumption
  /\ Seizer!AntiSeizeAssumption
  /\ K1Present \in BOOLEAN
  /\ K1Present => {PowerCh, DirCh} \subseteq Channel \ (Emergency \cup Exercised \cup Lockable)
  /\ PowerCh # DirCh
  /\ \A i \in Seizer!Out : Outputs[i].kind = "ValveStroke" =>
                            K1Present /\ Outputs[i].channel = PowerCh
  /\ K1Requests \subseteq K1!Dir \X Durations
  /\ Recal \in Durations
  /\ Steps \subseteq 1..MaxGap
  /\ SlowPeriod \in Nat \ {0}
  /\ Reassert \in Nat \ {0}
  /\ {OtaUsed, PortFails, Reboots} \subseteq BOOLEAN
  /\ Clock \subseteq Seizer!LocalTime

Place == {"core", "hw", "ctl", "net", "fast", "pause"}

Settings == [lock : LockValues, enabled : SUBSET Seizer!Out]

MaxAstray == Reassert + MaxGap

Port == [latch : SUBSET Channel,        \* what the expander drives
         written : SUBSET Channel,      \* _lastWritten
         hasWritten : BOOLEAN,
         sinceWrite : 0..Reassert,      \* age of _lastWriteMs
         ioError : BOOLEAN]

-----------------------------------------------------------------------------
(* History: how long the power bit of the output byte has been off and its *)
(* direction bit still, and whether a hold-off has cut in and those two    *)
(* times have not both been a dead time since; whether the write of the    *)
(* last pass failed; how long the latch has silently differed from the     *)
(* byte; whether it was lost since the last write.                         *)

Drop(b) == PowerCh \in bank.actual /\ PowerCh \notin b.actual
Swing(b) == (DirCh \in bank.actual) # (DirCh \in b.actual)

Watch(b, cut) == wire' = [offFor |-> IF Drop(b) THEN 0 ELSE wire.offFor,
                          stillFor |-> IF Swing(b) THEN 0 ELSE wire.stillFor,
                          cut |-> cut]

\* Both bits have been at rest for a dead time, d passes from now.
Settled(d) == wire.offFor + d >= DeadTime /\ wire.stillFor + d >= DeadTime

Stroking(k) == K1!OwnerOf(k) = "AntiSeize"

Byte(b) == IF ready THEN b.actual ELSE {}

-----------------------------------------------------------------------------
(* fastTick(). *)

\* Mistake: the two channels are swapped.
DrivenSwapped(b, k) ==
  Bank!RequestControl(Bank!RequestControl(b, DirCh, k.power), PowerCh, k.dirOpen)

Driven(b, k) ==
  Bank!RequestControl(Bank!RequestControl(b, PowerCh, k.power), DirCh, k.dirOpen)

TickK1(k) == IF ~ready \/ ~K1Present THEN k
             ELSE IF ~inhibited THEN K1!Tick(k)
             ELSE IF K1!Busy(k) THEN K1!Cancel(k) ELSE k

TickBank(b, k) == IF ~ready THEN b
                  ELSE Bank!Update(IF K1Present /\ ~inhibited THEN Driven(b, k) ELSE b)

\* Mistake: nothing is ever re-asserted.
WriteDueOnChange(byte) == ~port.hasWritten \/ byte # port.written \/ port.ioError

WriteDue(byte) == \/ ~port.hasWritten
                  \/ byte # port.written
                  \/ port.sinceWrite >= Reassert
                  \/ port.ioError

Write(byte) ==
  \/ /\ WriteDue(byte)
     /\ port' = [latch |-> byte, written |-> byte, hasWritten |-> TRUE,
                 sinceWrite |-> 0, ioError |-> FALSE]
     /\ failed' = FALSE /\ lost' = FALSE /\ astray' = 0
  \/ /\ WriteDue(byte) /\ PortFails
     /\ \E latch \in {port.latch, byte} :
           port' = [port EXCEPT !.latch = latch, !.ioError = TRUE]
     /\ failed' = TRUE
     /\ UNCHANGED <<astray, lost>>
  \/ /\ ~WriteDue(byte)
     /\ failed' = FALSE
     /\ UNCHANGED <<port, astray, lost>>

\* From objects b and k: tick the driver, replay it, update the bank, write.
FastTick(b, k) ==
  /\ k1' = TickK1(k)
  /\ bank' = TickBank(b, TickK1(k))
  /\ Write(Byte(TickBank(b, TickK1(k))))
  /\ Watch(TickBank(b, TickK1(k)), wire.cut)
  /\ UNCHANGED <<ready, inhibited>>

-----------------------------------------------------------------------------
(* The loop. *)

\* core.tick(): commands change the settings.
CoreTick == /\ at = "core"
            /\ settings' \in Settings
            /\ at' = "hw"
            /\ UNCHANGED <<bank, k1, seize, ready, inhibited, port, sinceSlow,
                           wire, failed, astray, lost>>

\* hw.tick(): settings, anti-seize, fastTick(); nothing at all if not ready.
HwTick ==
  /\ at = "hw"
  /\ at' = "ctl"
  /\ IF ready
     THEN LET pushed == [bank |-> Bank!SetLockMs(bank, settings.lock), k1 |-> k1,
                         seize |-> [seize EXCEPT !.enabled = settings.enabled]]
          IN \E local \in Clock :
               LET w == IF inhibited THEN pushed ELSE Seizer!Tick(pushed, local)
               IN seize' = w.seize /\ FastTick(w.bank, w.k1)
     ELSE UNCHANGED <<bank, k1, seize, ready, inhibited, port, wire, failed, astray, lost>>
  /\ UNCHANGED <<settings, sinceSlow>>

\* Mistake: the inhibit is not asked about.
MayDriveHeldOff == ready /\ K1Present /\ ~Stroking(k1)

\* ctl.tick(): the controller writes its slots, takes the motion done and asks
\* for at most one pulse.  K1Logic waits for a free driver, except that it
\* starts a recalibration over a pulse of its own; a running close is extended
\* by at most one of them (the recalibration ends with the run), which is the
\* bound MaxTravel here.
MayDrive == ready /\ K1Present /\ ~bank.inhibited /\ ~Stroking(k1)

Pulses == IF ~MayDrive THEN {}
          ELSE (IF K1!Busy(k1) THEN {} ELSE K1Requests)
                 \cup (IF k1.ran + Recal + MaxGap <= MaxTravel
                       THEN {<<"close", Recal>>} ELSE {})

Asked(k) == {k} \cup {K1!RequestPulse(k, p[1], p[2], "Control") : p \in Pulses}

CtlTick ==
  /\ at = "ctl"
  /\ at' = "net"
  /\ IF ready
     THEN \E control \in SUBSET Lockable, demand \in [Emergency -> {"unset", "on"}] :
            bank' = [bank EXCEPT
                       !.control = control \cup (@ \ Lockable),
                       !.safety = [c \in Channel |-> IF c \in Emergency
                                                       THEN demand[c] ELSE @[c]]]
     ELSE UNCHANGED bank
  /\ k1' \in Asked(K1!TakeMotion(k1))
  /\ \E stroke \in Strokes : seize' = [seize EXCEPT !.stroke = stroke]
  /\ UNCHANGED <<settings, ready, inhibited, port, sinceSlow, wire, failed, astray, lost>>

\* net.fastTick(): setOutputsInhibited(), or nothing.
SetOutputsInhibited(on) ==
  /\ inhibited' = on
  /\ IF ready /\ inhibited # on
     THEN /\ k1' = IF on /\ K1Present THEN K1!Cancel(k1) ELSE k1
          /\ bank' = Bank!SetInhibited(bank, on)
          /\ Watch(bank', TRUE)
     ELSE UNCHANGED <<k1, bank, wire>>

NetFastTick ==
  /\ at = "net"
  /\ at' = "fast"
  /\ \E on \in BOOLEAN : /\ on => OtaUsed
                         /\ SetOutputsInhibited(on)
  /\ UNCHANGED <<seize, settings, ready, port, sinceSlow, failed, astray, lost>>

HwFastTick == /\ at = "fast"
              /\ at' = "pause"
              /\ FastTick(bank, k1)
              /\ UNCHANGED <<seize, settings, sinceSlow>>

\* delay() until the next pass; a slow one when it is due.
Elapse == /\ at = "pause"
          /\ \E d \in Steps :
               LET slow == sinceSlow + d >= SlowPeriod IN
               /\ at' = IF slow THEN "core" ELSE "net"
               /\ sinceSlow' = IF slow THEN 0 ELSE sinceSlow + d
               /\ bank' = Bank!Aged(bank, d)
               /\ k1' = K1!Aged(k1, d)
               /\ seize' = Seizer!Aged(seize, d)
               /\ port' = [port EXCEPT !.sinceWrite = Older(@, d, Reassert)]
               /\ wire' = [offFor |-> Older(wire.offFor, d, AgeCap),
                           stillFor |-> Older(wire.stillFor, d, AgeCap),
                           cut |-> wire.cut /\ (inhibited \/ ~Settled(d))]
               /\ astray' = IF port.latch # Byte(bank) /\ ~failed
                              THEN Older(astray, d, MaxAstray) ELSE 0
          /\ UNCHANGED <<settings, ready, inhibited, failed, lost>>

-----------------------------------------------------------------------------
(* setup(), and what happens from outside. *)

\* What hw.begin() leaves: the objects configured at rest, `ready` being what
\* it makes of the stored configuration.
Booted(s, isReady, stroke, up) ==
  [bank |-> Bank!Configured(s.lock), k1 |-> K1!AtRest(up),
   seize |-> [Seizer!Configured(stroke) EXCEPT !.enabled = s.enabled],
   settings |-> s, ready |-> isReady, wire |-> [offFor |-> 0, stillFor |-> up, cut |-> FALSE]]

Boots == {Booted(s, isReady, stroke, up) : s \in Settings, isReady \in BOOLEAN,
                                          stroke \in Strokes, up \in {0, DeadTime}}

Unwritten(latch) == [latch |-> latch, written |-> {}, hasWritten |-> FALSE,
                     sinceWrite |-> 0, ioError |-> FALSE]

Init == /\ \E boot \in Boots :
             /\ bank = boot.bank /\ k1 = boot.k1 /\ seize = boot.seize
             /\ settings = boot.settings /\ ready = boot.ready
             /\ wire = boot.wire
        /\ inhibited = FALSE
        /\ port = Unwritten({})
        /\ at = "core" /\ sinceSlow = 0
        /\ failed = FALSE /\ astray = 0 /\ lost = FALSE

\* A restart at any point of the loop.  RelayBoot::forceAllOff() comes before
\* anything else; the latch keeps what it held if both its attempts fail.
Reboot == /\ Reboots
          /\ \E boot \in Boots :
               /\ bank' = boot.bank /\ k1' = boot.k1 /\ seize' = boot.seize
               /\ settings' = boot.settings /\ ready' = boot.ready
               /\ wire' = boot.wire
          /\ inhibited' = FALSE
          /\ \E latch \in {{}} \cup (IF PortFails THEN {port.latch} ELSE {}) :
               port' = Unwritten(latch)
          /\ at' = "core" /\ sinceSlow' = 0
          /\ failed' = FALSE /\ astray' = 0 /\ lost' = FALSE

\* The expander loses its supply for a moment: its latch goes to all OFF.
BrownOut == /\ PortFails
            /\ port' = [port EXCEPT !.latch = {}]
            /\ lost' = TRUE
            /\ UNCHANGED <<bank, k1, seize, settings, ready, inhibited, at,
                           sinceSlow, wire, failed, astray>>

\* The next local day begins.
NewDay == /\ seize.checked
          /\ seize' = [seize EXCEPT !.checked = FALSE]
          /\ UNCHANGED <<bank, k1, settings, ready, inhibited, port, at,
                         sinceSlow, wire, failed, astray, lost>>

Loop == CoreTick \/ HwTick \/ CtlTick \/ NetFastTick \/ HwFastTick \/ Elapse

Next == Loop \/ Reboot \/ BrownOut \/ NewDay

Spec == Init /\ [][Next]_vars

\* The loop task always gets on (the watchdog restarts one that does not); a
\* step of Loop is the only one that moves it, restarts apart.
GetsOn == at' \in Place \ {at}
FairSpec == Spec /\ WF_at(GetsOn)

-----------------------------------------------------------------------------
(* Properties of the outputs. *)

\* The variables have their types.
TypeOK == /\ bank \in Bank!Bank /\ k1 \in K1!Driver /\ seize \in Seizer!Seize
          /\ settings \in Settings
          /\ ready \in BOOLEAN /\ inhibited \in BOOLEAN
          /\ port \in Port
          /\ at \in Place /\ sinceSlow \in 0..SlowPeriod
          /\ wire \in [offFor : 0..AgeCap, stillFor : 0..AgeCap, cut : BOOLEAN]
          /\ {failed, lost} \subseteq BOOLEAN /\ astray \in 0..MaxAstray

\* HwRuntime.h, "OTA output inhibit": while a firmware update holds the
\* outputs, the bank is inhibited and all OFF and K1 has nothing running or
\* pending that could resume at the release.
HeldOff == inhibited /\ ready =>
             bank.inhibited /\ bank.actual = {} /\ ~K1!Busy(k1)

\* Between two passes the K1 bits of the byte are what the driver says.
ByteFollowsDriver ==
  at = "pause" /\ ready /\ K1Present /\ ~inhibited =>
    /\ (PowerCh \in bank.actual) = k1.power
    /\ (DirCh \in bank.actual) = k1.dirOpen

\* A pass whose write does not fail leaves the byte in the latch, whatever
\* failed before it (brown-outs apart).
LatchIsCurrent == at = "pause" /\ ~failed /\ ~lost => port.latch = Byte(bank)

\* Between two passes the outputs are what the parts want: held off, else driven,
\* and written.
OutputsAreRight == TypeOK /\ HeldOff /\ ByteFollowsDriver /\ LatchIsCurrent

\* RELAY_REASSERT_MS: a latch that lost its contents unnoticed is put right by
\* the first pass after one re-assert period.
LossIsRepaired == at = "pause" /\ ~failed => astray < Reassert

\* K1Driver.h: the interlock holds at the relay-output-byte level too.  A hold-off
\* cuts in whatever K1 is doing, and its release puts the bits back at once: the
\* interlock holds up to it, and again once both bits have rested for a dead time.
ByteWiring == INSTANCE InterlockedDrive WITH
                power <- PowerCh \in bank.actual, open <- DirCh \in bank.actual,
                offFor <- wire.offFor, stillFor <- wire.stillFor
ByteIsInterlocked ==
  ByteWiring!Init /\ [][wire'.cut \/ ByteWiring!Next]_(ByteWiring!vars)

\* README, "K1 motor-valve driver": direction change, >= 1 s, power ON.
PowerWaitsForDirection ==
  [][(PowerCh \in bank'.actual \ bank.actual) => wire.stillFor >= DeadTime]_vars

-----------------------------------------------------------------------------
(* Properties of the anti-seize runs. *)

Seized == {i \in seize.running : Seizer!Kind(i) # "ValveStroke"}

\* An exercise slot is set exactly while a run stands behind it: every way a
\* run can end (done, aborted, timed out, disabled, safety) clears the slot,
\* and no output is left forced ON or OFF by a run that is over.
ExerciseIsOwned ==
  {c \in Channel : bank.exercise[c] # "unset"} = {Seizer!Ch(i) : i \in Seized}

\* K1 never moves on behalf of an anti-seize run that has ended.
StrokeIsOwned == Stroking(k1) => \E i \in seize.running : Seizer!Kind(i) = "ValveStroke"

\* BRIEF 5, Anti-seize: "only while P4 is OFF".  No tick of the scheduler that
\* finds the pump ON leaves a stroke behind it.
StrokeYieldsToPump ==
  [][HwTick /\ ready /\ ~inhibited /\ Stroking(k1') =>
       \A i \in seize'.running : Seizer!Kind(i) = "ValveStroke" =>
            Outputs[i].blockers \cap bank.actual = {}]_vars

\* A run that has begun comes to an end, whatever the controller asks and however
\* often an update holds the outputs off, if not for ever: meanwhile no run is looked at.
RunsEnd == []<>(at = "hw" /\ ~inhibited) =>
             \A i \in Seizer!Out : i \in seize.running ~> i \notin seize.running

\* An enabled output that nothing keeps from it is switched ON again and again,
\* a stroke that lost against its pump's own exercise included.
Undisturbed(i) ==
  /\ ready /\ ~inhibited /\ i \in settings.enabled
  /\ bank.control \cap Lockable = {}
  /\ bank.safety = [c \in Channel |-> "unset"]
  /\ K1!Accepted(seize.stroke)
  /\ Stroking(k1) \/ ~K1!Busy(k1)
IsExercised == \A i \in Seizer!Out : <>[]Undisturbed(i) =>
                   []<>(Seizer!Ch(i) \in bank.actual)

\* Strokes and exercises have their place: each belongs to a run that is on, yields to
\* the pump, and keeps the interlock of the outputs.
StrokesAreOrderly ==
  []StrokeIsOwned /\ []ExerciseIsOwned /\ StrokeYieldsToPump /\ ByteIsInterlocked

\* Exercises come and go: every run ends, and another follows.
ExercisesComeAndGo == RunsEnd /\ IsExercised
=============================================================================
