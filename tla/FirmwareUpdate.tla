--------------------------- MODULE FirmwareUpdate ---------------------------
(***************************************************************************)
(* A firmware update over the network, from the first request to the trial *)
(* of the new image: NetSignals, OtaGuard, OtaBoot and the parts of        *)
(* ConnectivityRuntime and ConnectivityServices that drive them.           *)
(*                                                                         *)
(* Three parties act.  Web clients, on the AsyncTCP task, start, upload    *)
(* and end sessions and post signals at any time.  The loop task polls     *)
(* espota, whose whole session runs inside one pass, drains the signals    *)
(* into the guard and tells the hardware runtime to hold its outputs off.  *)
(* And the controller restarts, on request or not at all on request.       *)
(*                                                                         *)
(* External, modelled from how the code uses it: the Update object shared  *)
(* by both ways in, the boot loader with its two slots, and the web        *)
(* server, which closes a connection that stays silent (RxTimeout) long    *)
(* before the guard gives its session up (Stall).                          *)
(*                                                                         *)
(* Abstracted: otaProgress and the counter last seen are one flag, and     *)
(* takeOtaSignals() is one step: a post that falls between two of its      *)
(* exchanges has the effect of one before or after them.  Writes of the    *)
(* marker may fail, removing it and confirming an image do not.            *)
(***************************************************************************)
EXTENDS Integers, Ages

CONSTANTS Client,       \* web clients
          SlowPeriod,   \* CORE_LOOP_PERIOD_MS, in passes
          BeginCheck,   \* OTA_WEB_BEGIN_CHECK_MS
          RxTimeout,    \* the web server's
          Stall,        \* STALL_TIMEOUT_MS
          RebootDelay,  \* OTA_REBOOT_DELAY_MS
          ConfirmAfter, \* CONFIRM_AFTER_MS
          Deadline,     \* DEADLINE_MS
          MinTicks,     \* MIN_TICKS
          MinCycles,    \* MIN_SENSOR_CYCLES
          MaxCrashes,   \* bounds of the model: unrequested restarts,
          MaxUpdates    \* and sessions begun

ASSUME FirmwareUpdateAssumption ==
  /\ {SlowPeriod, BeginCheck, RxTimeout, RebootDelay, MinTicks} \subseteq Nat \ {0}
  /\ {MinCycles, MaxCrashes, MaxUpdates} \subseteq Nat
  /\ RxTimeout <= Stall /\ BeginCheck <= Stall /\ Stall \in Nat
  /\ ConfirmAfter \in Nat /\ Deadline \in Nat /\ ConfirmAfter < Deadline

VARIABLES sig,          \* NetSignals
          update,       \* the Update object: who opened it and who wrote, and if anything
          client,       \* the web clients
          espota,       \* the espota session inside handle()
          guard,        \* OtaGuard
          check,        \* the web begin check of ConnectivityRuntime
          inhibited,    \* HwRuntime's outputs are held off
          reboot,       \* time to the requested restart, or NoReboot
          flash,        \* the slots, the boot choice and the marker in NVS
          health,       \* OtaHealthMonitor
          rollback,     \* _rollbackPending
          reported,     \* the boot classification made OtaRollback of it
          at, sinceSlow,                \* the loop task
          written,      \* history: an image was committed since boot,
          misled,       \* and posts that overtook one another have misled the guard
          crashes, updates

vars == <<sig, update, client, espota, guard, check, inhibited, reboot, flash,
          health, rollback, reported, at, sinceSlow, written, misled, crashes, updates>>

bootVars == <<flash, health, rollback, reported, written, crashes>>

NoReboot == -1

Source == {"None", "Web", "Espota"}
Ended  == {"none", "success", "failure"}
Slot   == {"app0", "app1"}
Other(s) == IF s = "app0" THEN "app1" ELSE "app0"
Image  == {"valid", "new", "pending", "aborted", "erased"}

-----------------------------------------------------------------------------
(* The web clients (AsyncTCP task). *)

\* The one AsyncTCP task runs the requests' handlers one after another, and a
\* handler is over in a moment: no transfer and no pause of the loop fits into it.
HandlersDone == \A c \in Client : client[c].phase \in {"idle", "uploading"}

\* The code answers 409 to all of /ota/* while espota has Update.
Admitted == ~sig.espotaActive

\* A start or an end posted while the last end still waits for the loop's drain: the
\* two are taken as one session's.
Overtakes == sig.ended # "none"

\* ElegantOTA onStart: posted before Update.begin() is tried.
WebStart(c) ==
  /\ client[c].phase = "idle" /\ HandlersDone /\ Admitted
  /\ updates < MaxUpdates
  /\ client' = [client EXCEPT ![c] = [phase |-> "starting", silent |-> 0]]
  /\ sig' = [sig EXCEPT !.started = "Web", !.bytes = FALSE]
  /\ updates' = updates + 1
  /\ misled' = (misled \/ Overtakes)
  /\ UNCHANGED <<update, espota, guard, check, inhibited, reboot, at, sinceSlow, bootVars>>

\* Update.begin(), refused while a session is open; no onEnd follows then.
WebBegin(c) ==
  /\ client[c].phase = "starting"
  /\ \/ /\ update = {}
        /\ update' = {"Web"}
        /\ client' = [client EXCEPT ![c].phase = "uploading"]
     \/ /\ client' = [client EXCEPT ![c].phase = "idle"]
        /\ UNCHANGED update
  /\ UNCHANGED <<sig, espota, guard, check, inhibited, reboot, at, sinceSlow, updates,
                 misled, bootVars>>

\* What Update writes goes to the slot that is not running, or, for an image of the
\* file system, to none.
Erased == [flash EXCEPT !.image[Other(flash.running)] = "erased"]

\* onProgress, for a chunk that Update took, whoever has it open.
WebChunk(c) ==
  /\ client[c].phase = "uploading" /\ HandlersDone /\ update # {}
  /\ update' = update \cup {"Web", "Bytes"}
  /\ flash' \in {flash, Erased}
  /\ sig' = [sig EXCEPT !.bytes = TRUE, !.progressed = TRUE]
  /\ client' = [client EXCEPT ![c].silent = 0]
  /\ UNCHANGED <<espota, guard, check, inhibited, reboot, at, sinceSlow, updates,
                 health, rollback, reported, written, misled, crashes>>

\* Update.end(); nothing is committed during a trial (a bound of the model).
Committed(filesystem) ==
  /\ flash.image[flash.running] # "pending"
  /\ flash' = IF filesystem THEN flash
              ELSE [flash EXCEPT !.boot = Other(flash.running),
                                 !.image[Other(flash.running)] = "new"]
  /\ written' = TRUE

\* The request is complete: Update.end() commits what Update has got, and has an error
\* for a client whose bytes it has not.  Another client's start may have reset the count
\* of the bytes meanwhile.
WebFinish(c) ==
  /\ client[c].phase = "uploading" /\ HandlersDone
  /\ \/ /\ sig.bytes => "Bytes" \in update
        /\ client' = [client EXCEPT ![c] = [phase |-> "ended", silent |-> 0]]
        /\ IF "Bytes" \in update
           THEN /\ \E filesystem \in BOOLEAN : Committed(filesystem)
                /\ misled' = (misled \/ ~sig.bytes)
           ELSE UNCHANGED <<flash, written, misled>>
     \/ /\ client' = [client EXCEPT ![c] = [phase |-> "failed", silent |-> 0]]
        /\ UNCHANGED <<flash, written, misled>>
  /\ update' = {}
  /\ UNCHANGED <<sig, espota, guard, check, inhibited, reboot, at, sinceSlow,
                 updates, health, rollback, reported, crashes>>

\* Mistake: an upload that wrote nothing is taken for a success.
WebOtaEndCodeUnwritten(ok, bytes) == IF ok THEN "success" ELSE "failure"

WebOtaEndCode(ok, bytes) == IF ok /\ bytes THEN "success" ELSE "failure"

\* onEnd.
WebEnd(c) ==
  /\ client[c].phase \in {"ended", "failed"}
  /\ sig' = [sig EXCEPT !.ended = WebOtaEndCode(client[c].phase = "ended", sig.bytes)]
  /\ client' = [client EXCEPT ![c] = [phase |-> "idle", silent |-> 0]]
  /\ UNCHANGED <<update, espota, guard, check, inhibited, reboot, at, sinceSlow, updates,
                 misled, bootVars>>

\* The connection is lost: nothing is posted and Update stays open.
WebLost(c) ==
  /\ client[c].phase = "uploading" /\ HandlersDone
  /\ client' = [client EXCEPT ![c] = [phase |-> "idle", silent |-> 0]]
  /\ UNCHANGED <<sig, update, espota, guard, check, inhibited, reboot, at, sinceSlow, updates,
                 misled, bootVars>>

Web(c) == WebStart(c) \/ WebBegin(c) \/ WebChunk(c) \/ WebFinish(c) \/ WebEnd(c) \/ WebLost(c)

-----------------------------------------------------------------------------
(* espota: EspotaService.handle(), inside the loop's pass.                 *)

\* handle() is not called while a web session is active.  A session begins only
\* if its own Update.begin() succeeds, and only then reports anything.
Poll ==
  /\ at = "poll"
  /\ \/ /\ at' = "drain"
        /\ UNCHANGED <<update, espota, updates>>
     \/ /\ ~(guard.active /\ guard.source = "Web")
        /\ update = {}
        /\ updates < MaxUpdates
        /\ update' = {"Espota"} /\ espota' = "begun" /\ at' = "espota"
        /\ updates' = updates + 1
  /\ UNCHANGED <<sig, client, guard, check, inhibited, reboot, sinceSlow, misled, bootVars>>

\* onStart, with the hook that switches the relays off before the transfer.
EspotaStart ==
  /\ at = "espota" /\ espota = "begun"
  /\ espota' = "open"
  /\ sig' = [sig EXCEPT !.espotaActive = TRUE, !.started = "Espota"]
  /\ inhibited' = TRUE
  /\ UNCHANGED <<update, client, guard, check, reboot, at, sinceSlow, updates,
                 misled, bootVars>>

EspotaProgress ==
  /\ at = "espota" /\ espota = "open" /\ update # {}
  /\ update' = update \cup {"Espota", "Bytes"}
  /\ sig' = [sig EXCEPT !.progressed = TRUE]
  /\ flash' \in {flash, Erased}
  /\ UNCHANGED <<client, espota, guard, check, inhibited, reboot, at, sinceSlow,
                 updates, health, rollback, reported, written, misled, crashes>>

\* onEnd or onError; Update is closed by then.
EspotaEnd ==
  /\ at = "espota" /\ espota = "open" /\ HandlersDone
  /\ espota' = "ended" /\ update' = {}
  /\ \/ /\ "Bytes" \in update /\ Committed(FALSE)
        /\ sig' = [sig EXCEPT !.ended = "success"]
     \/ /\ sig' = [sig EXCEPT !.ended = "failure"]
        /\ UNCHANGED <<flash, written>>
  /\ misled' = (misled \/ Overtakes)
  /\ UNCHANGED <<client, guard, check, inhibited, reboot, at, sinceSlow, updates,
                 health, rollback, reported, crashes>>

EspotaReturn ==
  /\ at = "espota" /\ espota = "ended"
  /\ espota' = "none" /\ at' = "drain"
  /\ sig' = [sig EXCEPT !.espotaActive = FALSE]
  /\ UNCHANGED <<update, client, guard, check, inhibited, reboot, sinceSlow, updates,
                 misled, bootVars>>

Espota == EspotaStart \/ EspotaProgress \/ EspotaEnd \/ EspotaReturn

-----------------------------------------------------------------------------
(* ConnectivityRuntime.fastTick(). *)

Taken == [sig EXCEPT !.started = "None", !.ended = "none", !.progressed = FALSE]

Idle == [active |-> FALSE, succeeded |-> FALSE, source |-> "None", silent |-> 0]

\* The begin check of a silent web start, once, after its grace period.
Checking == IF sig.progressed \/ sig.ended # "none" THEN FALSE
            ELSE IF sig.started # "None" THEN sig.started = "Web" ELSE check.pending
Age      == IF sig.started # "None" THEN 0 ELSE check.age

\* Mistake: the check does not ask Update.
UnbegunBlind == Checking /\ Age >= BeginCheck /\ guard.active /\ guard.source = "Web"

Unbegun == /\ Checking /\ Age >= BeginCheck
           /\ guard.active /\ guard.source = "Web" /\ update = {}
EndSeen == IF Unbegun THEN "failure" ELSE sig.ended

\* OtaGuard.update(): the start first, then progress, then the end or a stall.
Started(g) == IF sig.started = "None" THEN g
              ELSE [active |-> TRUE, succeeded |-> FALSE, source |-> sig.started, silent |-> 0]
Heard(g) == IF g.active /\ sig.progressed THEN [g EXCEPT !.silent = 0] ELSE g

\* Mistake: a session that never ends is never given up.
FailsNever(g) == g.active /\ EndSeen = "failure"

Fails(g) == /\ g.active
            /\ \/ EndSeen = "failure"
               \/ EndSeen = "none" /\ ~g.succeeded /\ g.silent >= Stall
Succeeds(g) == g.active /\ EndSeen = "success"

\* Mistake: a failed session leaves Update open.
AbortedNot(g) == update

Aborted(g) == IF Fails(g) /\ g.source = "Web" THEN {} ELSE update

\* The marker names the slot the next boot will try, if that is another one;
\* a save that fails is ignored.
Marked == \/ /\ flash.boot # flash.running
             /\ flash' = [flash EXCEPT !.marker = flash.boot]
          \/ UNCHANGED flash

HoldOutputs(g) == g.active \/ rollback

\* Nothing is left of any session: whatever misled the guard is over.
Over == /\ ~guard.active /\ update = {} /\ ~written
        /\ \A c \in Client : client[c].phase = "idle"

Drain ==
  /\ at = "drain"
  /\ at' = "pause"
  /\ sig' = Taken
  /\ LET g == Heard(Started(guard)) IN
     /\ guard' = IF Fails(g) THEN Idle ELSE [g EXCEPT !.succeeded = @ \/ Succeeds(g)]
     /\ check' = [pending |-> Checking /\ Age < BeginCheck /\ ~(Fails(g) /\ g.source = "Web"),
                  age |-> IF Checking THEN Age ELSE 0]
     /\ update' = Aborted(g)
     /\ IF Succeeds(g) THEN Marked /\ reboot' = RebootDelay
                       ELSE UNCHANGED <<flash, reboot>>
     /\ inhibited' = HoldOutputs(guard')
  /\ UNCHANGED <<client, espota, sinceSlow, updates, health, rollback, reported, written, crashes>>
  /\ misled' = (misled /\ ~Over')

-----------------------------------------------------------------------------
(* The rest of the loop. *)

\* The boot loader gives an image that was still on trial up.  It starts the slot
\* chosen, or else the other one, if they are good, or else one that is whole.
Loaded ==
  LET image == [flash.image EXCEPT ![flash.running] = IF @ = "pending" THEN "aborted" ELSE @]
      Good(s) == image[s] \notin {"aborted", "erased"}
      slot == CHOOSE s \in Slot :
                IF \E t \in Slot : Good(t) THEN Good(s) /\ (Good(flash.boot) => s = flash.boot)
                                          ELSE image[s] # "erased"
  IN [running |-> slot, boot |-> slot, marker |-> flash.marker,
      image |-> [image EXCEPT ![slot] = IF @ = "new" THEN "pending" ELSE @]]

\* classifyOtaBoot().
Outcome(f) == IF f.marker = f.running
              THEN IF f.image[f.running] = "pending" THEN "Trial" ELSE "UpdatedNoRollback"
              ELSE IF f.marker # "none" THEN "RolledBack"
              ELSE IF f.image[f.running] = "pending" THEN "Trial" ELSE "Normal"

NoSignal == [started |-> "None", ended |-> "none", progressed |-> FALSE,
             bytes |-> FALSE, espotaActive |-> FALSE]
NoHealth == [pending |-> FALSE, age |-> 0, ticks |-> 0, cycles |-> 0]

\* A restart: everything but the flash is gone, and connections with it.
Restart ==
  /\ sig' = NoSignal /\ update' = {} /\ espota' = "none" /\ guard' = Idle
  /\ client' = [c \in Client |-> [phase |-> "idle", silent |-> 0]]
  /\ check' = [pending |-> FALSE, age |-> 0]
  /\ inhibited' = FALSE /\ reboot' = NoReboot /\ rollback' = FALSE
  /\ LET outcome == Outcome(Loaded) IN
     /\ flash' = [Loaded EXCEPT !.marker = IF outcome \in {"RolledBack", "UpdatedNoRollback"}
                                             THEN "none" ELSE @]
     /\ health' = [NoHealth EXCEPT !.pending = outcome = "Trial"]
     /\ reported' = (outcome = "RolledBack")
  /\ at' = "core" /\ sinceSlow' = 0
  /\ written' = FALSE /\ misled' = FALSE
  /\ UNCHANGED updates

Crash == crashes < MaxCrashes /\ crashes' = crashes + 1 /\ Restart

\* CoreServices.tick(): the requested restart.
CoreTick ==
  /\ at = "core"
  /\ IF reboot = 0 THEN Restart /\ UNCHANGED crashes
     ELSE /\ at' = "net"
          /\ UNCHANGED <<sig, update, client, espota, guard, check, inhibited, reboot,
                         sinceSlow, updates, misled, bootVars>>

Healthy(h) == h.age >= ConfirmAfter /\ h.ticks >= MinTicks /\ h.cycles >= MinCycles

\* ConnectivityRuntime.tick(): the rollback, or the health of a trial image.
\* rollbackAndReboot() does not return, or restart() follows it.
NetTick ==
  /\ at = "net"
  /\ IF rollback THEN Restart /\ UNCHANGED crashes
     ELSE LET h == [health EXCEPT !.ticks = IF health.pending THEN Older(@, 1, MinTicks) ELSE @]
              confirm == h.pending /\ Healthy(h)
              expired == h.pending /\ ~Healthy(h) /\ h.age >= Deadline
          IN /\ health' = IF confirm \/ expired THEN NoHealth ELSE h
             /\ rollback' = expired
             /\ flash' = IF confirm THEN [flash EXCEPT !.image[flash.running] = "valid",
                                                       !.marker = "none"]
                         ELSE flash
             /\ at' = "poll"
             /\ UNCHANGED <<sig, update, client, espota, guard, check, inhibited, reboot,
                            reported, sinceSlow, written, misled, crashes, updates>>

\* The next pass; a sensor read cycle may have been completed meanwhile.
Elapse ==
  /\ at = "pause" /\ HandlersDone
  /\ LET slow == sinceSlow + 1 >= SlowPeriod IN
     /\ at' = IF slow THEN "core" ELSE "poll"
     /\ sinceSlow' = IF slow THEN 0 ELSE sinceSlow + 1
  /\ client' = [c \in Client |->
       IF client[c].phase # "uploading" THEN client[c]
       ELSE IF client[c].silent + 1 >= RxTimeout THEN [phase |-> "idle", silent |-> 0]
       ELSE [client[c] EXCEPT !.silent = @ + 1]]
  /\ guard' = [guard EXCEPT !.silent = IF guard.active THEN Older(@, 1, Stall) ELSE 0]
  /\ check' = [check EXCEPT !.age = IF check.pending THEN Older(@, 1, BeginCheck) ELSE 0]
  /\ reboot' = IF reboot \in {NoReboot, 0} THEN reboot ELSE reboot - 1
  /\ \E cycled \in {0, 1} :
       health' = IF health.pending
                 THEN [health EXCEPT !.age = Older(@, 1, Deadline),
                                     !.cycles = Older(@, cycled, MinCycles)]
                 ELSE health
  /\ UNCHANGED <<sig, update, espota, inhibited, flash, rollback, reported, written, misled,
                 crashes, updates>>

Init ==
  /\ sig = NoSignal /\ update = {} /\ espota = "none" /\ guard = Idle
  /\ client = [c \in Client |-> [phase |-> "idle", silent |-> 0]]
  /\ check = [pending |-> FALSE, age |-> 0]
  /\ inhibited = FALSE /\ reboot = NoReboot
  /\ flash = [running |-> "app0", boot |-> "app0", marker |-> "none",
              image |-> [s \in Slot |-> IF s = "app0" THEN "valid" ELSE "aborted"]]
  /\ health = NoHealth /\ rollback = FALSE /\ reported = FALSE
  /\ at = "core" /\ sinceSlow = 0
  /\ written = FALSE /\ misled = FALSE /\ crashes = 0 /\ updates = 0

Loop == CoreTick \/ NetTick \/ Poll \/ Espota \/ Drain \/ Elapse
Next == (\E c \in Client : Web(c)) \/ Loop \/ Crash

Spec == Init /\ [][Next]_vars

\* The loop task gets on, a handler returns, an upload has finitely many chunks,
\* and an espota session ends, by itself or by its timeout.
FairSpec == /\ Spec /\ WF_vars(CoreTick) /\ WF_vars(NetTick) /\ WF_vars(Poll)
            /\ WF_vars(EspotaStart) /\ WF_vars(EspotaEnd) /\ WF_vars(EspotaReturn)
            /\ WF_vars(Drain) /\ WF_vars(Elapse)
            /\ \A c \in Client : /\ WF_vars(WebBegin(c)) /\ WF_vars(WebEnd(c))
                                 /\ <>[][~WebChunk(c)]_vars

-----------------------------------------------------------------------------
(* Properties. *)

\* The variables have their types.
TypeOK ==
  /\ sig \in [started : Source, ended : Ended, progressed : BOOLEAN,
              bytes : BOOLEAN, espotaActive : BOOLEAN]
  /\ update \subseteq {"Web", "Espota", "Bytes"}
  /\ client \in [Client -> [phase : {"idle", "starting", "uploading", "ended", "failed"},
                           silent : 0..RxTimeout]]
  /\ espota \in {"none", "begun", "open", "ended"}
  /\ guard \in [active : BOOLEAN, succeeded : BOOLEAN, source : Source, silent : 0..Stall]
  /\ guard.active = (guard.source # "None") /\ (guard.succeeded => guard.active)
  /\ check \in [pending : BOOLEAN, age : 0..BeginCheck]
  /\ inhibited \in BOOLEAN /\ rollback \in BOOLEAN /\ reported \in BOOLEAN
  /\ reboot \in NoReboot..RebootDelay
  /\ flash \in [running : Slot, boot : Slot, marker : Slot \cup {"none"},
                image : [Slot -> Image]]
  /\ health \in [pending : BOOLEAN, age : 0..Deadline, ticks : 0..MinTicks, cycles : 0..MinCycles]
  /\ at \in {"core", "net", "poll", "espota", "drain", "pause"}
  /\ sinceSlow \in 0..SlowPeriod
  /\ written \in BOOLEAN /\ misled \in BOOLEAN /\ crashes \in 0..MaxCrashes /\ updates \in 0..MaxUpdates

\* README, "OTA": relays are OFF during any update.  Between two passes an open
\* Update session has its outputs held off, unless its start has only just been
\* posted; espota's are off for the whole of the transfer.
RelaysOffDuringUpdates ==
  /\ at = "pause" /\ update # {} /\ sig.started = "None" => inhibited
  /\ espota \in {"open", "ended"} => inhibited

\* What the code keeps of it: a client's open session has its outputs held off as long
\* as no start or end was posted over an end that the loop had not taken yet, which
\* gives up the wrong session; espota's are off whatever was posted.
OffWhileUpdating ==
  /\ at = "pause" /\ update # {} /\ sig.started = "None" => inhibited \/ misled
  /\ espota \in {"open", "ended"} => inhibited

\* README, "OTA": web and espota sessions exclude each other: no session takes
\* what the other one writes, as long as the guard was not misled into giving one
\* up under its client.
SessionsExclude == {"Web", "Espota"} \subseteq update => misled

\* A success that is reported and rebooted for has committed an image.
SuccessIsCommitted == guard.succeeded => written

\* README, "OTA": the rollback forces relays OFF until the device restarts,
\* whatever update session begins or fails meanwhile.
RollbackHoldsOff == at = "pause" /\ rollback => inhibited

\* D15: an image on trial is always watched: its verdict is still to come.
TrialIsWatched == flash.image[flash.running] = "pending" => health.pending \/ rollback

\* OtaRollback is reported only by a boot that finds the marked image given up by
\* the boot loader, or ruined by a session begun before the restart.
RollbackIsReported ==
  [][reported' /\ ~reported =>
       flash'.image[Other(flash'.running)] \in {"aborted", "erased"}]_vars

\* README, "OTA": on failure, or 60 s without progress, control resumes; on
\* success, and after a rollback, it is a restart that ends the hold.
HoldEnds == inhibited ~> ~inhibited

\* A committed image is restarted into: nothing but an end that was overtaken, or
\* counted for no bytes after another client's start, leaves it lying.
CommitIsRestarted == written ~> ~written \/ misled

\* An image is accounted for from its commit to its verdict.
ImageIsAccountedFor == TypeOK /\ SuccessIsCommitted /\ RollbackHoldsOff /\ TrialIsWatched

\* Every update comes to an end: the hold, the restart, and a true report.
UpdatesEnd == HoldEnds /\ CommitIsRestarted /\ RollbackIsReported
=============================================================================
