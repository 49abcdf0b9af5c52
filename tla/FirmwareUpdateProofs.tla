------------------------ MODULE FirmwareUpdateProofs ------------------------
(***************************************************************************)
(* What FirmwareUpdate promises, for any number of clients and any times.  *)
(*                                                                         *)
(* None of the three invariants is inductive.  That outputs are off while  *)
(* Update writes depends on whom Update belongs to and on what the loop    *)
(* has been told of it (ClientsFit, UpdateIsOwned), and that an upload is  *)
(* not given up under its client on their two silences (UploadsAreHeard);  *)
(* that a success has an image depends on the way the success takes to the *)
(* guard (SuccessIsTrue), and what a restart starts on the state of both   *)
(* slots and of the marker of the slot to be tried (FlashFits).  The first *)
(* three hold until a post overtakes an end that the loop has not taken    *)
(* yet (misled); the rest always.                                          *)
(***************************************************************************)
EXTENDS FirmwareUpdate, TLAPS

(* The inductive invariant.                                                *)

\* One handler runs at a time.
OneHandler ==
  \A c \in Client : client[c].phase \in {"starting", "ended", "failed"} =>
    \A d \in Client \ {c} : client[d].phase \in {"idle", "uploading"}

\* What the clients are at.  An upload under way has the Update object to itself; a start
\* is known to the loop before its session opens; no client is at anything while an end
\* waits to be taken.
ClientsFit ==
  /\ \A c \in Client : client[c].phase = "uploading" =>
       /\ "Web" \in update /\ "Espota" \notin update
       /\ \A d \in Client \ {c} : client[d].phase # "uploading"
  /\ \A c \in Client : client[c].phase \in {"ended", "failed"} =>
       /\ "Web" \notin update
       /\ \A d \in Client \ {c} : client[d].phase = "idle"
  /\ \A c \in Client : client[c].phase = "starting" =>
       \/ espota \in {"begun", "open"}
       \/ sig.started = "Web"
       \/ at = "pause" /\ guard.active /\ guard.source = "Web"
  /\ sig.ended # "none" => \A c \in Client : client[c].phase = "idle"

\* Nobody waits longer than the guard: an upload that goes on is not given up.
UploadsAreHeard ==
  \A c \in Client : client[c].phase \in {"starting", "uploading"} =>
    /\ client[c].silent < RxTimeout
    /\ guard.active /\ ~sig.progressed /\ sig.started = "None" =>
         guard.silent <= client[c].silent

\* An espota session is inside its pass, and its outputs are off.
EspotaIsInside ==
  /\ at = "espota" <=> espota # "none"
  /\ espota \in {"open", "ended"} => inhibited /\ sig.espotaActive

\* An espota session has Update to itself; an open web session is one the guard knows of.
UpdateIsOwned ==
  /\ update # {} => "Web" \in update \/ "Espota" \in update
  /\ "Web" \notin update \/ "Espota" \notin update
  /\ espota \in {"begun", "open"} <=> "Espota" \in update
  /\ espota = "ended" => sig.ended # "none"
  /\ sig.started = "Espota" =>
       /\ espota \in {"open", "ended"} \/ (at = "drain" /\ sig.ended # "none")
       /\ "Web" \notin update
  /\ "Web" \in update => sig.started = "Web" \/ (guard.active /\ guard.source = "Web")

\* What holds as long as the guard has not been misled.
Orderly == ClientsFit /\ UploadsAreHeard /\ UpdateIsOwned

\* Between two passes the outputs are held off exactly when the guard or a rollback says.
HoldIsTold == at = "pause" => inhibited = HoldOutputs(guard)

\* A success, wherever it has got to, has committed an image.
SuccessIsTrue ==
  /\ \A c \in Client : client[c].phase = "ended" /\ sig.bytes => written
  /\ sig.ended = "success" => written
  /\ guard.succeeded => written

\* The slots: the running image is whole; only it may be on trial, and then nothing is
\* committed; the marker names the slot that is to be tried.
FlashFits ==
  LET running == flash.running
      other == Other(flash.running)
      trial == flash.image[flash.running] = "pending"
  IN /\ flash.image[running] \notin {"new", "erased"}
     /\ flash.image[other] # "pending"
     /\ trial => /\ ~written /\ flash.image[other] # "new" /\ flash.marker # other
                 /\ health.pending \/ rollback
     /\ flash.marker = running => trial
     /\ flash.marker = other => flash.boot = other

IInv == /\ TypeOK /\ OneHandler /\ EspotaIsInside /\ HoldIsTold /\ SuccessIsTrue /\ FlashFits
        /\ misled \/ Orderly

-----------------------------------------------------------------------------
(* Types. *)

\* The types of the records.
Signals == [started : Source, ended : Ended, progressed : BOOLEAN, bytes : BOOLEAN,
            espotaActive : BOOLEAN]
Clients == [Client -> [phase : {"idle", "starting", "uploading", "ended", "failed"},
                       silent : 0..RxTimeout]]
Guards == [active : BOOLEAN, succeeded : BOOLEAN, source : Source, silent : 0..Stall]
Flashes == [running : Slot, boot : Slot, marker : Slot \cup {"none"}, image : [Slot -> Image]]
Healths == [pending : BOOLEAN, age : 0..Deadline, ticks : 0..MinTicks, cycles : 0..MinCycles]

\* The sets a signal, an end and a slot are taken from, element by element; two different
\* slots are each other's other.
LEMMA Members ==
  /\ {"None", "Web", "Espota"} = Source
  /\ {"none", "success", "failure"} = Ended
  /\ \A s \in Slot : Other(s) \in Slot /\ s # Other(s)
  /\ \A s, r \in Slot : s # r => s = Other(r) /\ Other(s) = r
BY DEF Source, Ended, Slot, Other

\* An age stays below its cap.
LEMMA OlderInRange ==
  ASSUME NEW cap \in Nat, NEW d \in Nat, NEW age \in 0..cap
  PROVE  Older(age, d, cap) \in 0..cap
BY DEF Older

\* What the guard and the health record are reset to has their type.
LEMMA Blanks ==
  /\ Idle \in Guards /\ Idle.active = (Idle.source # "None") /\ ~Idle.succeeded
  /\ NoHealth \in Healths
<1>1. 0 \in 0..Stall /\ 0 \in 0..Deadline /\ 0 \in 0..MinTicks /\ 0 \in 0..MinCycles
  BY FirmwareUpdateAssumption
<1> QED BY <1>1 DEF Idle, Guards, Source, NoHealth, Healths

\* An upload that starts keeps the types.
LEMMA WebStartType ==
  ASSUME TypeOK, NEW c \in Client, WebStart(c) PROVE TypeOK'
<1> USE DEF TypeOK, WebStart, bootVars
<1>1. client' \in Clients
  BY FirmwareUpdateAssumption DEF Clients
<1>2. sig' \in Signals
  BY DEF Signals, Source
<1>3. updates' \in 0..MaxUpdates
  BY FirmwareUpdateAssumption
<1> QED BY <1>1, <1>2, <1>3 DEF Clients, Signals

\* Update.begin() of an upload keeps the types.
LEMMA WebBeginType ==
  ASSUME TypeOK, NEW c \in Client, WebBegin(c) PROVE TypeOK'
  BY DEF TypeOK, WebBegin, bootVars

\* A first chunk leaves a flash of the right type.
LEMMA ErasedType ==
  ASSUME TypeOK PROVE Erased \in Flashes
  BY DEF TypeOK, Erased, Flashes, Slot, Other, Image

\* A chunk of an upload keeps the types.
LEMMA WebChunkType ==
  ASSUME TypeOK, NEW c \in Client, WebChunk(c) PROVE TypeOK'
<1> USE DEF TypeOK, WebChunk
<1>1. client' \in Clients
  BY FirmwareUpdateAssumption DEF Clients
<1>2. sig' \in Signals
  BY DEF Signals
<1>3. flash' \in Flashes
  BY ErasedType DEF Flashes
<1>4. update' \subseteq {"Web", "Espota", "Bytes"}
  OBVIOUS
<1> QED BY <1>1, <1>2, <1>3, <1>4 DEF Clients, Signals, Flashes

\* So does an Update.end() that commits.
LEMMA CommittedType ==
  ASSUME TypeOK, NEW fs \in BOOLEAN, Committed(fs) PROVE flash' \in Flashes /\ written' \in BOOLEAN
  BY DEF TypeOK, Committed, Flashes, Slot, Other, Image

\* The last chunk of an upload keeps the types.
LEMMA WebFinishType ==
  ASSUME TypeOK, NEW c \in Client, WebFinish(c) PROVE TypeOK'
<1> USE DEF TypeOK, WebFinish
<1>1. client' \in Clients
  BY FirmwareUpdateAssumption DEF Clients
<1>2. flash' \in Flashes /\ written' \in BOOLEAN
  BY CommittedType DEF Flashes
<1>3. misled' \in BOOLEAN
  OBVIOUS
<1> QED BY <1>1, <1>2, <1>3 DEF Clients, Flashes

\* The answer behind an upload keeps the types.
LEMMA WebEndType ==
  ASSUME TypeOK, NEW c \in Client, WebEnd(c) PROVE TypeOK'
<1> USE DEF TypeOK, WebEnd, bootVars
<1>1. client' \in Clients
  BY FirmwareUpdateAssumption DEF Clients
<1>2. sig' \in Signals
  BY DEF Signals, WebOtaEndCode, Ended
<1> QED BY <1>1, <1>2 DEF Clients, Signals

\* A connection that is lost keeps the types.
LEMMA WebLostType ==
  ASSUME TypeOK, NEW c \in Client, WebLost(c) PROVE TypeOK'
  BY FirmwareUpdateAssumption DEF TypeOK, WebLost, bootVars

\* Asking espota for a session keeps the types.
LEMMA PollType ==
  ASSUME TypeOK, Poll PROVE TypeOK'
<1> USE DEF TypeOK, Poll, bootVars
<1>1. /\ update' \subseteq {"Web", "Espota", "Bytes"}
      /\ espota' \in {"none", "begun", "open", "ended"}
      /\ at' \in {"core", "net", "poll", "espota", "drain", "pause"}
  OBVIOUS
<1>2. updates' \in 0..MaxUpdates
  BY FirmwareUpdateAssumption
<1> QED BY <1>1, <1>2

\* The steps of an espota session keep the types.
LEMMA EspotaType ==
  ASSUME TypeOK, Espota PROVE TypeOK'
<1> USE DEF TypeOK
<1>1. CASE EspotaStart
  <2>1. sig' \in Signals
    BY <1>1 DEF EspotaStart, Signals, Source
  <2> QED BY <1>1, <2>1 DEF EspotaStart, bootVars, Signals
<1>2. CASE EspotaProgress
  <2>1. sig' \in Signals
    BY <1>2 DEF EspotaProgress, Signals
  <2>2. flash' \in Flashes
    BY <1>2, ErasedType DEF EspotaProgress, Flashes
  <2> QED BY <1>2, <2>1, <2>2 DEF EspotaProgress, Signals, Flashes
<1>3. CASE EspotaEnd
  <2>1. sig' \in Signals
    BY <1>3 DEF EspotaEnd, Signals, Ended
  <2>2. flash' \in Flashes /\ written' \in BOOLEAN
    BY <1>3, CommittedType DEF EspotaEnd, Flashes
  <2> QED BY <1>3, <2>1, <2>2 DEF EspotaEnd, Signals, Flashes
<1>4. CASE EspotaReturn
  <2>1. sig' \in Signals
    BY <1>4 DEF EspotaReturn, Signals
  <2> QED BY <1>4, <2>1 DEF EspotaReturn, bootVars, Signals
<1> QED BY <1>1, <1>2, <1>3, <1>4 DEF Espota

\* OtaGuard's fast pass keeps the types: a start, progress, and an end in one go.
LEMMA DrainType ==
  ASSUME TypeOK, Drain PROVE TypeOK'
<1> DEFINE g == Heard(Started(guard))
<1> USE DEF TypeOK, Drain
<1>0. Stall \in Nat /\ 0 \in 0..Stall /\ 0 \in 0..BeginCheck /\ BeginCheck \in Nat
      /\ RebootDelay \in Nat
  BY FirmwareUpdateAssumption
<1>1. g \in Guards /\ g.active = (g.source # "None") /\ (g.succeeded => g.active)
  <2>1. /\ Started(guard) \in Guards
        /\ Started(guard).active = (Started(guard).source # "None")
        /\ Started(guard).succeeded => Started(guard).active
    BY <1>0 DEF Started, Guards
  <2> QED BY <1>0, <2>1 DEF Heard, Guards
<1>2. /\ guard' \in Guards /\ guard'.active = (guard'.source # "None")
      /\ guard'.succeeded => guard'.active
  <2>1. guard' = IF Fails(g) THEN Idle ELSE [g EXCEPT !.succeeded = @ \/ Succeeds(g)]
    OBVIOUS
  <2>2. Succeeds(g) \in BOOLEAN /\ (Succeeds(g) => g.active)
    BY <1>1 DEF Succeeds, Guards
  <2> HIDE DEF g, TypeOK, Drain
  <2>3. CASE Fails(g)
    BY <1>0, <2>1, <2>3 DEF Idle, Guards, Source
  <2>4. CASE ~Fails(g)
    <3>1. (g.succeeded \/ Succeeds(g)) \in BOOLEAN
      OBVIOUS
    <3> QED BY <1>1, <2>1, <2>2, <2>4, <3>1 DEF Guards
  <2> QED BY <2>3, <2>4
<1>3. sig' \in Signals
  BY DEF Taken, Signals, Source, Ended
<1>4. check' \in [pending : BOOLEAN, age : 0..BeginCheck]
  BY <1>0 DEF Age, Checking, Source
<1>5. update' \subseteq {"Web", "Espota", "Bytes"}
  BY DEF Aborted
<1>6. flash' \in Flashes /\ reboot' \in NoReboot..RebootDelay
  BY <1>0 DEF Marked, Flashes, NoReboot
<1>7. inhibited' \in BOOLEAN
  BY <1>2 DEF HoldOutputs, Guards
<1>8. at' = "pause" /\ UNCHANGED <<client, espota, sinceSlow, updates, health, rollback, reported,
                                  written, crashes>>
      /\ misled' \in BOOLEAN
  OBVIOUS
<1> HIDE DEF Drain
<1> QED BY <1>2, <1>3, <1>4, <1>5, <1>6, <1>7, <1>8 DEF Guards, Signals, Flashes

\* The slow pass of the boot health check keeps the types.
LEMMA NetTickType ==
  ASSUME TypeOK, NetTick, ~rollback PROVE TypeOK'
<1> USE DEF NetTick
<1> DEFINE h == [health EXCEPT !.ticks = IF health.pending THEN Older(@, 1, MinTicks) ELSE @]
<1>1. health' \in Healths
  <2>1. health \in Healths /\ NoHealth \in Healths
    BY FirmwareUpdateAssumption DEF TypeOK, Healths, NoHealth
  <2>2. h \in Healths
    BY <2>1, FirmwareUpdateAssumption DEF Healths, Older
  <2> HIDE DEF h
  <2>3. health' = NoHealth \/ health' = h
    BY DEF h
  <2> QED BY <2>1, <2>2, <2>3
<1>2. flash' \in Flashes
  <2>1. flash \in Flashes
    BY DEF TypeOK, Flashes
  <2>2. flash' \in {flash, [flash EXCEPT !.image[flash.running] = "valid", !.marker = "none"]}
    OBVIOUS
  <2>3. /\ "valid" \in Image /\ "none" \in Slot \cup {"none"} /\ flash.running \in Slot
        /\ flash.image \in [Slot -> Image]
    BY <2>1 DEF Flashes, Image
  <2>4. [flash.image EXCEPT ![flash.running] = "valid"] \in [Slot -> Image]
    BY <2>3
  <2> QED BY <2>1, <2>2, <2>3, <2>4 DEF Flashes
<1>4. rollback' \in BOOLEAN
  OBVIOUS
<1>3. at' = "poll" /\ UNCHANGED <<sig, update, client, espota, guard, check, inhibited, reboot,
                            reported, sinceSlow, written, misled, crashes, updates>>
  OBVIOUS
<1> HIDE DEF NetTick
<1> QED BY <1>1, <1>2, <1>3, <1>4 DEF TypeOK, Healths, Flashes

\* A countdown to a restart that is not over keeps the types.
LEMMA CoreTickType ==
  ASSUME TypeOK, CoreTick, reboot # 0 PROVE TypeOK'
<1>1. at' = "net" /\ UNCHANGED <<sig, update, client, espota, guard, check, inhibited, reboot,
                         sinceSlow, updates, misled, bootVars>>
  BY DEF CoreTick
<1> QED BY <1>1 DEF TypeOK, bootVars

\* Time that passes keeps the types.
LEMMA ElapseType ==
  ASSUME TypeOK, Elapse PROVE TypeOK'
<1> USE FirmwareUpdateAssumption
<1>1. client' \in Clients
  BY DEF Clients, TypeOK, Elapse
<1>2. guard' \in Guards /\ UNCHANGED <<guard.active, guard.source, guard.succeeded>>
  BY DEF Guards, Older, TypeOK, Elapse
<1>3. check' \in [pending : BOOLEAN, age : 0..BeginCheck]
  BY DEF Older, TypeOK, Elapse
<1>4. health' \in Healths
  <2>1. health \in Healths
    BY DEF TypeOK, Healths
  <2>2. PICK cycled \in {0, 1} :
          health' = IF health.pending
                    THEN [health EXCEPT !.age = Older(@, 1, Deadline),
                                        !.cycles = Older(@, cycled, MinCycles)]
                    ELSE health
    BY DEF Elapse
  <2>3. Older(health.age, 1, Deadline) \in 0..Deadline /\ Older(health.cycles, cycled, MinCycles) \in 0..MinCycles
    BY <2>1, OlderInRange DEF Healths
  <2> QED BY <2>1, <2>2, <2>3 DEF Healths
<1>5. reboot' \in NoReboot..RebootDelay
  <2>1. reboot \in NoReboot..RebootDelay
    BY DEF TypeOK
  <2>2. reboot' = IF reboot \in {NoReboot, 0} THEN reboot ELSE reboot - 1
    BY DEF Elapse
  <2> QED BY <2>1, <2>2 DEF NoReboot
<1>6. sinceSlow' \in 0..SlowPeriod /\ at' \in {"core", "poll"}
  BY DEF TypeOK, Elapse
<1>7. UNCHANGED <<sig, update, espota, inhibited, flash, rollback, reported, written, misled,
                crashes, updates>>
  BY DEF Elapse
<1> QED BY <1>1, <1>2, <1>3, <1>4, <1>5, <1>6, <1>7 DEF TypeOK, Clients, Guards, Healths

\* A restart keeps the types, given that the bootloader does.
LEMMA RestartType ==
  ASSUME TypeOK, Loaded \in Flashes, Restart, crashes' \in 0..MaxCrashes PROVE TypeOK'
<1> USE FirmwareUpdateAssumption
<1>1. client' \in Clients
  BY DEF Clients, Restart
<1>2. flash' \in Flashes
  BY DEF Flashes, Restart
<1>3. health' \in Healths
  <2>1. health' = [NoHealth EXCEPT !.pending = Outcome(Loaded) = "Trial"]
    BY DEF Restart
  <2>2. (Outcome(Loaded) = "Trial") \in BOOLEAN
    OBVIOUS
  <2> QED BY <2>1, <2>2, Blanks DEF Healths
<1>4. guard' \in Guards /\ guard'.active = (guard'.source # "None") /\ ~guard'.succeeded
  <2>1. guard' = Idle
    BY DEF Restart
  <2> QED BY <2>1, Blanks
<1>5. sig' \in Signals
  BY DEF NoSignal, Signals, Source, Ended, Restart
<1>6. /\ check' \in [pending : BOOLEAN, age : 0..BeginCheck]
      /\ reboot' \in NoReboot..RebootDelay
  BY DEF NoReboot, Restart
<1>7. /\ update' = {} /\ espota' = "none" /\ inhibited' = FALSE /\ rollback' = FALSE
      /\ at' = "core" /\ sinceSlow' = 0 /\ written' = FALSE /\ misled' = FALSE /\ updates' = updates
  BY DEF Restart
<1>8. reported' \in BOOLEAN
  BY DEF Restart
<1>9. update' \subseteq {"Web", "Espota", "Bytes"} /\ sinceSlow' \in 0..SlowPeriod /\ updates' \in 0..MaxUpdates
  BY <1>7 DEF TypeOK
<1> QED BY <1>1, <1>2, <1>3, <1>4, <1>5, <1>6, <1>7, <1>8, <1>9
           DEF TypeOK, Clients, Flashes, Healths, Guards, Signals

\* The types hold at power-up.
LEMMA InitType ==
  ASSUME Init PROVE TypeOK
<1> USE FirmwareUpdateAssumption
<1>1. client \in Clients /\ health \in Healths
  BY DEF Clients, Healths, NoHealth, Init
<1>2. flash \in Flashes
  BY DEF Flashes, Slot, Image, Init
<1>3. guard \in Guards /\ guard.active = (guard.source # "None") /\ ~guard.succeeded
  <2>1. guard = Idle
    BY DEF Init
  <2> QED BY <2>1, Blanks
<1>4. sig \in Signals
  BY DEF NoSignal, Signals, Source, Ended, Init
<1>5. /\ check \in [pending : BOOLEAN, age : 0..BeginCheck]
      /\ reboot \in NoReboot..RebootDelay
  BY DEF NoReboot, Init
<1>6. /\ update = {} /\ espota = "none" /\ inhibited = FALSE /\ rollback = FALSE
      /\ reported = FALSE /\ at = "core" /\ sinceSlow = 0 /\ written = FALSE /\ misled = FALSE
      /\ crashes = 0 /\ updates = 0
  BY DEF Init
<1>7. /\ update \subseteq {"Web", "Espota"}
      /\ sinceSlow \in 0..SlowPeriod /\ crashes \in 0..MaxCrashes /\ updates \in 0..MaxUpdates
  BY <1>6
<1> QED BY <1>1, <1>2, <1>3, <1>4, <1>5, <1>6, <1>7
           DEF TypeOK, Clients, Flashes, Healths, Guards, Signals

-----------------------------------------------------------------------------
(* The steps. *)

\* A commit keeps the slots in order: the new image goes to the slot that does not run.
LEMMA CommittedFits ==
  ASSUME TypeOK, FlashFits, NEW filesystem \in BOOLEAN, Committed(filesystem),
         UNCHANGED <<health, rollback>>
  PROVE  FlashFits'
<1>1. CASE filesystem
  BY <1>1 DEF Committed, FlashFits
<1>2. CASE ~filesystem
  <2> DEFINE o == Other(flash.running)
  <2>1. /\ flash'.running = flash.running /\ flash'.boot = o /\ flash'.marker = flash.marker
        /\ flash'.image = [flash.image EXCEPT ![o] = "new"]
    BY <1>2 DEF Committed, TypeOK
  <2>2. o \in Slot /\ o # flash.running /\ flash.running \in Slot /\ flash.image \in [Slot -> Image]
    BY Members DEF TypeOK
  <2> QED BY <2>1, <2>2, Members DEF FlashFits, Committed
<1> QED BY <1>1, <1>2

\* An upload that starts keeps the invariant.
LEMMA WebStartKeeps ==
  ASSUME IInv, NEW c \in Client, WebStart(c)
  PROVE  IInv'
<1> USE DEF IInv
<1>0. ASSUME ~misled' PROVE ClientsFit /\ UploadsAreHeard /\ UpdateIsOwned /\ sig.ended = "none"
  BY <1>0 DEF Orderly, WebStart, Overtakes, bootVars
<1>1. TypeOK'
  BY WebStartType
<1>2. ASSUME ~misled' PROVE ClientsFit'
  BY <1>0, <1>2 DEF WebStart, ClientsFit, HandlersDone, Admitted
<1>3. ASSUME ~misled' PROVE UploadsAreHeard'
  BY <1>0, <1>3, FirmwareUpdateAssumption, <1>1 DEF WebStart, UploadsAreHeard, bootVars, TypeOK
<1>4. ASSUME ~misled' PROVE UpdateIsOwned'
  BY <1>0, <1>1, <1>4 DEF WebStart, UpdateIsOwned, bootVars
<1>5. HoldIsTold'
  BY <1>1 DEF WebStart, HoldIsTold, bootVars, TypeOK, HoldOutputs
<1>6. SuccessIsTrue'
  BY <1>1 DEF WebStart, SuccessIsTrue, bootVars
<1>7. FlashFits'
  BY <1>1 DEF WebStart, FlashFits, bootVars
<1>8. OneHandler'
  BY <1>1 DEF WebStart, OneHandler, HandlersDone, TypeOK, bootVars
<1>9. EspotaIsInside'
  BY <1>1 DEF WebStart, EspotaIsInside, TypeOK, bootVars
<1> QED BY <1>1, <1>2, <1>3, <1>4, <1>5, <1>6, <1>7, <1>8, <1>9 DEF Orderly

\* Update.begin() of an upload keeps the invariant.
LEMMA WebBeginKeeps ==
  ASSUME IInv, NEW c \in Client, WebBegin(c)
  PROVE  IInv'
<1> USE DEF IInv
<1>0. ASSUME ~misled' PROVE ClientsFit /\ UploadsAreHeard /\ UpdateIsOwned
  BY <1>0 DEF Orderly, WebBegin, bootVars
<1>1. TypeOK'
  BY WebBeginType
<1>2. ASSUME ~misled' PROVE ClientsFit'
  <2>1. CASE update = {} /\ update' = {"Web"} /\ client' = [client EXCEPT ![c].phase = "uploading"]
    <3>1. \A d \in Client : client[d].phase # "uploading"
      BY <1>0, <1>2, <2>1 DEF ClientsFit
    <3>2. \A d \in Client \ {c} : client[d].phase = "idle"
      BY <1>0, <1>2, <3>1 DEF ClientsFit, OneHandler, WebBegin
    <3>3. sig.ended = "none"
      BY <1>0, <1>2 DEF ClientsFit, WebBegin
    <3> QED BY <2>1, <3>2, <3>3 DEF ClientsFit, TypeOK, WebBegin
  <2>2. CASE UNCHANGED update /\ client' = [client EXCEPT ![c].phase = "idle"]
    BY <1>0, <1>2, <2>2 DEF ClientsFit, OneHandler, TypeOK, WebBegin
  <2> QED BY <2>1, <2>2 DEF WebBegin
<1>3. ASSUME ~misled' PROVE UploadsAreHeard'
  BY <1>0, <1>1, <1>3 DEF WebBegin, UploadsAreHeard, bootVars, TypeOK
<1>4. ASSUME ~misled' PROVE UpdateIsOwned'
  <2>1. CASE update = {} /\ update' = {"Web"}
    <3>1. espota = "none" \/ espota = "ended"
      BY <1>0, <1>4, <2>1 DEF UpdateIsOwned, TypeOK
    <3>2. sig.started = "Web" \/ (guard.active /\ guard.source = "Web")
      BY <1>0, <1>4, <3>1 DEF ClientsFit, WebBegin
    <3>3. sig.started # "Espota"
      BY <1>0, <1>4, <3>1 DEF ClientsFit, UpdateIsOwned, EspotaIsInside, WebBegin
    <3> QED BY <1>0, <1>4, <2>1, <3>1, <3>2, <3>3 DEF UpdateIsOwned, WebBegin
  <2>2. CASE UNCHANGED update
    BY <1>0, <1>4, <2>2 DEF UpdateIsOwned, WebBegin
  <2> QED BY <2>1, <2>2 DEF WebBegin
<1>5. HoldIsTold'
  BY <1>1 DEF WebBegin, HoldIsTold, bootVars, TypeOK, HoldOutputs
<1>6. SuccessIsTrue'
  BY <1>1 DEF WebBegin, SuccessIsTrue, bootVars, TypeOK
<1>7. FlashFits'
  BY <1>1 DEF WebBegin, FlashFits, bootVars
<1>8. OneHandler'
  BY <1>1 DEF WebBegin, OneHandler, HandlersDone, TypeOK, bootVars
<1>9. EspotaIsInside'
  BY <1>1 DEF WebBegin, EspotaIsInside, TypeOK, bootVars
<1> QED BY <1>1, <1>2, <1>3, <1>4, <1>5, <1>6, <1>7, <1>8, <1>9 DEF Orderly

\* A chunk of an upload keeps the invariant.
LEMMA WebChunkKeeps ==
  ASSUME IInv, NEW c \in Client, WebChunk(c)
  PROVE  IInv'
<1> USE DEF IInv
<1>0. ASSUME ~misled' PROVE ClientsFit /\ UploadsAreHeard /\ UpdateIsOwned
  BY <1>0 DEF Orderly, WebChunk, bootVars
<1>1. TypeOK'
  BY WebChunkType
<1>2. ASSUME ~misled' PROVE ClientsFit'
  BY <1>0, <1>1, <1>2 DEF WebChunk, ClientsFit
<1>3. ASSUME ~misled' PROVE UploadsAreHeard'
  BY <1>0, <1>3, FirmwareUpdateAssumption, <1>1 DEF WebChunk, UploadsAreHeard, TypeOK, Erased
<1>4. ASSUME ~misled' PROVE UpdateIsOwned'
  BY <1>0, <1>1, <1>4 DEF WebChunk, UpdateIsOwned, TypeOK, ClientsFit
<1>5. HoldIsTold'
  BY <1>1 DEF WebChunk, HoldIsTold, TypeOK, Erased, HoldOutputs
<1>6. SuccessIsTrue'
  BY <1>1 DEF WebChunk, SuccessIsTrue, TypeOK, HandlersDone
<1>7. FlashFits'
  BY DEF WebChunk, TypeOK, FlashFits, Erased, Other
<1>8. OneHandler'
  BY <1>1 DEF WebChunk, OneHandler, HandlersDone, TypeOK, bootVars
<1>9. EspotaIsInside'
  BY <1>1 DEF WebChunk, EspotaIsInside, TypeOK, bootVars
<1> QED BY <1>1, <1>2, <1>3, <1>4, <1>5, <1>6, <1>7, <1>8, <1>9 DEF Orderly

\* The last chunk of an upload keeps the invariant.
LEMMA WebFinishKeeps ==
  ASSUME IInv, NEW c \in Client, WebFinish(c)
  PROVE  IInv'
<1> USE DEF IInv
<1>0. ASSUME ~misled' PROVE ClientsFit /\ UploadsAreHeard /\ UpdateIsOwned
  <2>1. misled' = misled \/ misled'
    BY <1>0 DEF WebFinish, TypeOK
  <2> QED BY <1>0, <2>1 DEF Orderly
<1>1. TypeOK'
  BY WebFinishType
<1>2. ASSUME ~misled' PROVE ClientsFit'
  BY <1>0, <1>1, <1>2 DEF WebFinish, ClientsFit, TypeOK, HandlersDone
<1>3. ASSUME ~misled' PROVE UploadsAreHeard'
  BY <1>0, <1>1, <1>3 DEF WebFinish, UploadsAreHeard, TypeOK
<1>4. ASSUME ~misled' PROVE UpdateIsOwned'
  BY <1>0, <1>1, <1>4 DEF WebFinish, UpdateIsOwned, TypeOK, ClientsFit
<1>5. HoldIsTold'
  BY <1>1 DEF WebFinish, HoldIsTold, TypeOK, Committed, HoldOutputs
<1>6. SuccessIsTrue'
  <2>1. \A d \in Client \ {c} : client'[d].phase # "ended"
    BY DEF WebFinish, HandlersDone, TypeOK
  <2>2. client'[c].phase \in {"ended", "failed"} /\ UNCHANGED <<sig, guard>>
    BY DEF WebFinish, TypeOK
  <2>3. CASE client'[c].phase = "ended" /\ sig.bytes
    <3>1. "Bytes" \in update
      BY <2>3 DEF WebFinish, TypeOK
    <3>2. written'
      BY <2>2, <2>3, <3>1 DEF WebFinish, Committed, TypeOK
    <3> QED BY <2>2, <3>2 DEF SuccessIsTrue
  <2>4. CASE ~(client'[c].phase = "ended" /\ sig.bytes)
    <3>1. written' = written \/ written'
      BY DEF WebFinish, Committed
    <3> QED BY <2>1, <2>2, <2>4, <3>1 DEF SuccessIsTrue
  <2> QED BY <2>3, <2>4
<1>7. FlashFits'
  <2>1. CASE \E filesystem \in BOOLEAN : Committed(filesystem)
    BY <2>1, CommittedFits DEF WebFinish
  <2>2. CASE UNCHANGED <<flash, written>>
    BY <2>2 DEF WebFinish, FlashFits
  <2> QED BY <2>1, <2>2 DEF WebFinish
<1>8. OneHandler'
  BY <1>1 DEF WebFinish, OneHandler, HandlersDone, TypeOK, bootVars
<1>9. EspotaIsInside'
  BY <1>1 DEF WebFinish, EspotaIsInside, TypeOK, bootVars
<1> QED BY <1>1, <1>2, <1>3, <1>4, <1>5, <1>6, <1>7, <1>8, <1>9 DEF Orderly

\* The answer behind an upload keeps the invariant.
LEMMA WebEndKeeps ==
  ASSUME IInv, NEW c \in Client, WebEnd(c)
  PROVE  IInv'
<1> USE DEF IInv
<1>0. ASSUME ~misled' PROVE ClientsFit /\ UploadsAreHeard /\ UpdateIsOwned
  BY <1>0 DEF Orderly, WebEnd, bootVars
<1>1. TypeOK'
  BY WebEndType
<1>2. ASSUME ~misled' PROVE ClientsFit'
  BY <1>0, <1>1, <1>2 DEF WebEnd, ClientsFit, bootVars, TypeOK
<1>3. ASSUME ~misled' PROVE UploadsAreHeard'
  BY <1>0, <1>1, <1>3 DEF WebEnd, UploadsAreHeard, bootVars
<1>4. ASSUME ~misled' PROVE UpdateIsOwned'
  BY <1>0, <1>1, <1>4 DEF WebEnd, UpdateIsOwned, bootVars, TypeOK, ClientsFit
<1>5. HoldIsTold'
  BY <1>1 DEF WebEnd, HoldIsTold, bootVars, TypeOK, WebOtaEndCode, HoldOutputs
<1>6. SuccessIsTrue'
  BY <1>1 DEF WebEnd, SuccessIsTrue, bootVars, TypeOK, WebOtaEndCode
<1>7. FlashFits'
  BY <1>1 DEF WebEnd, FlashFits, bootVars
<1>8. OneHandler'
  BY <1>1 DEF WebEnd, OneHandler, HandlersDone, TypeOK, bootVars
<1>9. EspotaIsInside'
  BY <1>1 DEF WebEnd, EspotaIsInside, TypeOK, bootVars
<1> QED BY <1>1, <1>2, <1>3, <1>4, <1>5, <1>6, <1>7, <1>8, <1>9 DEF Orderly

\* A lost connection keeps the invariant.
LEMMA WebLostKeeps ==
  ASSUME IInv, NEW c \in Client, WebLost(c)
  PROVE  IInv'
<1> USE DEF IInv
<1>0. ASSUME ~misled' PROVE ClientsFit /\ UploadsAreHeard /\ UpdateIsOwned
  BY <1>0 DEF Orderly, WebLost, bootVars
<1>1. TypeOK'
  BY WebLostType
<1>2. ASSUME ~misled' PROVE ClientsFit'
  BY <1>0, <1>1, <1>2 DEF WebLost, ClientsFit, bootVars
<1>3. ASSUME ~misled' PROVE UploadsAreHeard'
  BY <1>0, <1>1, <1>3 DEF WebLost, UploadsAreHeard, bootVars
<1>4. ASSUME ~misled' PROVE UpdateIsOwned'
  BY <1>0, <1>1, <1>4 DEF WebLost, UpdateIsOwned, bootVars
<1>5. HoldIsTold'
  BY <1>1 DEF WebLost, HoldIsTold, bootVars, TypeOK, HoldOutputs
<1>6. SuccessIsTrue'
  BY <1>1 DEF WebLost, SuccessIsTrue, bootVars
<1>7. FlashFits'
  BY <1>1 DEF WebLost, FlashFits, bootVars
<1>8. OneHandler'
  BY <1>1 DEF WebLost, OneHandler, HandlersDone, TypeOK, bootVars
<1>9. EspotaIsInside'
  BY <1>1 DEF WebLost, EspotaIsInside, TypeOK, bootVars
<1> QED BY <1>1, <1>2, <1>3, <1>4, <1>5, <1>6, <1>7, <1>8, <1>9 DEF Orderly

\* Asking espota for a session keeps the invariant.
LEMMA PollKeeps ==
  ASSUME IInv, Poll
  PROVE  IInv'
<1> USE DEF IInv
<1>0. ASSUME ~misled' PROVE ClientsFit /\ UploadsAreHeard /\ UpdateIsOwned
  BY <1>0 DEF Orderly, Poll, bootVars
<1>1. TypeOK'
  BY PollType
<1>2. ASSUME ~misled' PROVE ClientsFit'
  <2>1. CASE UNCHANGED <<update, espota>>
    BY <1>0, <1>2, <2>1 DEF Poll, ClientsFit
  <2>2. CASE update = {} /\ update' = {"Espota"} /\ espota' = "begun"
    <3>1. \A c \in Client : client[c].phase # "uploading"
      BY <1>0, <1>2, <2>2 DEF ClientsFit
    <3> QED BY <1>0, <1>2, <2>2, <3>1 DEF Poll, ClientsFit
  <2> QED BY <2>1, <2>2 DEF Poll
<1>3. ASSUME ~misled' PROVE UploadsAreHeard'
  BY <1>0, <1>1, <1>3 DEF Poll, UploadsAreHeard, bootVars
<1>4. ASSUME ~misled' PROVE UpdateIsOwned'
  BY <1>0, <1>1, <1>4 DEF Poll, UpdateIsOwned, EspotaIsInside, bootVars
<1>5. HoldIsTold'
  BY <1>1 DEF Poll, HoldIsTold, bootVars
<1>6. SuccessIsTrue'
  BY <1>1 DEF Poll, SuccessIsTrue, bootVars
<1>7. FlashFits'
  BY <1>1 DEF Poll, FlashFits, bootVars
<1>8. OneHandler'
  BY <1>1 DEF Poll, OneHandler, HandlersDone, TypeOK, bootVars
<1>9. EspotaIsInside'
  BY <1>1 DEF Poll, EspotaIsInside, TypeOK, bootVars
<1> QED BY <1>1, <1>2, <1>3, <1>4, <1>5, <1>6, <1>7, <1>8, <1>9 DEF Orderly

\* The start of an espota session keeps the invariant.
LEMMA EspotaStartKeeps ==
  ASSUME IInv, EspotaStart
  PROVE  IInv'
<1> USE DEF IInv
<1>0. ASSUME ~misled' PROVE ClientsFit /\ UploadsAreHeard /\ UpdateIsOwned
  BY <1>0 DEF Orderly, EspotaStart, bootVars
<1>1. TypeOK'
  BY EspotaType DEF Espota
<1>2. ASSUME ~misled' PROVE ClientsFit'
  BY <1>0, <1>1, <1>2 DEF EspotaStart, ClientsFit, bootVars
<1>3. ASSUME ~misled' PROVE UploadsAreHeard'
  BY <1>0, <1>1, <1>3 DEF EspotaStart, UploadsAreHeard, bootVars
<1>4. ASSUME ~misled' PROVE UpdateIsOwned'
  BY <1>0, <1>1, <1>4 DEF EspotaStart, UpdateIsOwned, bootVars
<1>5. HoldIsTold'
  BY <1>1 DEF EspotaStart, HoldIsTold, bootVars
<1>6. SuccessIsTrue'
  BY <1>1 DEF EspotaStart, SuccessIsTrue, bootVars
<1>7. FlashFits'
  BY <1>1 DEF EspotaStart, FlashFits, bootVars
<1>8. OneHandler'
  BY <1>1 DEF EspotaStart, OneHandler, HandlersDone, TypeOK, bootVars
<1>9. EspotaIsInside'
  BY <1>1 DEF EspotaStart, EspotaIsInside, TypeOK, bootVars
<1> QED BY <1>1, <1>2, <1>3, <1>4, <1>5, <1>6, <1>7, <1>8, <1>9 DEF Orderly

\* Progress of an espota session keeps the invariant.
LEMMA EspotaProgressKeeps ==
  ASSUME IInv, EspotaProgress
  PROVE  IInv'
<1> USE DEF IInv
<1>0. ASSUME ~misled' PROVE ClientsFit /\ UploadsAreHeard /\ UpdateIsOwned
  BY <1>0 DEF Orderly, EspotaProgress, bootVars
<1>1. TypeOK'
  BY EspotaType DEF Espota
<1>2. ASSUME ~misled' PROVE ClientsFit'
  BY <1>0, <1>1, <1>2 DEF EspotaProgress, ClientsFit, UpdateIsOwned, TypeOK
<1>3. ASSUME ~misled' PROVE UploadsAreHeard'
  BY <1>0, <1>1, <1>3 DEF EspotaProgress, UploadsAreHeard
<1>4. ASSUME ~misled' PROVE UpdateIsOwned'
  BY <1>0, <1>1, <1>4 DEF EspotaProgress, UpdateIsOwned
<1>5. HoldIsTold'
  BY <1>1 DEF EspotaProgress, HoldIsTold
<1>6. SuccessIsTrue'
  BY <1>1 DEF EspotaProgress, SuccessIsTrue
<1>7. FlashFits'
  BY DEF EspotaProgress, TypeOK, FlashFits, Erased, Other
<1>8. OneHandler'
  BY <1>1 DEF EspotaProgress, OneHandler, HandlersDone, TypeOK, bootVars
<1>9. EspotaIsInside'
  BY <1>1 DEF EspotaProgress, EspotaIsInside, TypeOK, bootVars
<1> QED BY <1>1, <1>2, <1>3, <1>4, <1>5, <1>6, <1>7, <1>8, <1>9 DEF Orderly

\* The end of an espota session keeps the invariant.
LEMMA EspotaEndKeeps ==
  ASSUME IInv, EspotaEnd
  PROVE  IInv'
<1> USE DEF IInv
<1>0. ASSUME ~misled' PROVE ClientsFit /\ UploadsAreHeard /\ UpdateIsOwned /\ sig.ended = "none"
  BY <1>0 DEF Orderly, EspotaEnd, Overtakes, bootVars
<1>1. TypeOK'
  BY EspotaType DEF Espota
<1>2. ASSUME ~misled' PROVE ClientsFit'
  BY <1>0, <1>2, FirmwareUpdateAssumption, <1>1 DEF EspotaEnd, ClientsFit, TypeOK, UploadsAreHeard,
     UpdateIsOwned, HandlersDone
<1>3. ASSUME ~misled' PROVE UploadsAreHeard'
  BY <1>0, <1>1, <1>3 DEF EspotaEnd, UploadsAreHeard, TypeOK
<1>4. ASSUME ~misled' PROVE UpdateIsOwned'
  BY <1>0, <1>1, <1>4 DEF EspotaEnd, UpdateIsOwned, TypeOK
<1>5. HoldIsTold'
  BY <1>1 DEF EspotaEnd, HoldIsTold
<1>6. SuccessIsTrue'
  BY <1>1 DEF EspotaEnd, SuccessIsTrue, TypeOK, Committed
<1>7. FlashFits'
  <2>1. CASE Committed(FALSE)
    BY <2>1, CommittedFits DEF EspotaEnd
  <2>2. CASE UNCHANGED <<flash, written>>
    BY <2>2 DEF EspotaEnd, FlashFits
  <2> QED BY <2>1, <2>2 DEF EspotaEnd
<1>8. OneHandler'
  BY <1>1 DEF EspotaEnd, OneHandler, HandlersDone, TypeOK, bootVars
<1>9. EspotaIsInside'
  BY <1>1 DEF EspotaEnd, EspotaIsInside, TypeOK, bootVars
<1> QED BY <1>1, <1>2, <1>3, <1>4, <1>5, <1>6, <1>7, <1>8, <1>9 DEF Orderly

\* The return from espota keeps the invariant.
LEMMA EspotaReturnKeeps ==
  ASSUME IInv, EspotaReturn
  PROVE  IInv'
<1> USE DEF IInv
<1>0. ASSUME ~misled' PROVE ClientsFit /\ UploadsAreHeard /\ UpdateIsOwned
  BY <1>0 DEF Orderly, EspotaReturn, bootVars
<1>1. TypeOK'
  BY EspotaType DEF Espota
<1>2. ASSUME ~misled' PROVE ClientsFit'
  BY <1>0, <1>1, <1>2 DEF EspotaReturn, ClientsFit, bootVars
<1>3. ASSUME ~misled' PROVE UploadsAreHeard'
  BY <1>0, <1>1, <1>3 DEF EspotaReturn, UploadsAreHeard, bootVars
<1>4. ASSUME ~misled' PROVE UpdateIsOwned'
  BY <1>0, <1>1, <1>4 DEF EspotaReturn, UpdateIsOwned, bootVars
<1>5. HoldIsTold'
  BY <1>1 DEF EspotaReturn, HoldIsTold, bootVars
<1>6. SuccessIsTrue'
  BY <1>1 DEF EspotaReturn, SuccessIsTrue, bootVars
<1>7. FlashFits'
  BY <1>1 DEF EspotaReturn, FlashFits, bootVars
<1>8. OneHandler'
  BY <1>1 DEF EspotaReturn, OneHandler, HandlersDone, TypeOK, bootVars
<1>9. EspotaIsInside'
  BY <1>1 DEF EspotaReturn, EspotaIsInside, TypeOK, bootVars
<1> QED BY <1>1, <1>2, <1>3, <1>4, <1>5, <1>6, <1>7, <1>8, <1>9 DEF Orderly

\* A pass of the guard that was not misled leaves clients and sessions in order.
LEMMA DrainOrderly ==
  ASSUME IInv, Drain, ~misled
  PROVE  Orderly'
<1>0. ClientsFit /\ UploadsAreHeard /\ UpdateIsOwned
  BY DEF IInv, Orderly
<1>1. TypeOK'
  BY DrainType DEF IInv
<1> USE DEF IInv
<1>2. ClientsFit'
  BY <1>0, FirmwareUpdateAssumption DEF Drain, ClientsFit, TypeOK, UpdateIsOwned, UploadsAreHeard, EspotaIsInside,
     Source, Taken, Heard, Started, Fails, Idle, Succeeds, Checking, Age, Aborted, Marked,
     HoldOutputs, EndSeen, Unbegun, bootVars, Erased, Committed, WebOtaEndCode
<1>3. UploadsAreHeard'
  BY <1>0, <1>1 DEF Drain, UploadsAreHeard, TypeOK, Taken, Heard, Started, Fails, Idle, Succeeds,
     Checking, Age, Aborted, Marked, HoldOutputs
<1>4. UpdateIsOwned'
  <2>1. espota = "none" /\ sig'.started = "None"
    BY <1>0 DEF UpdateIsOwned, EspotaIsInside, Drain, Taken, TypeOK
  <2>2. ASSUME "Web" \in update' PROVE guard'.active /\ guard'.source = "Web"
    <3> DEFINE g == Heard(Started(guard))
    <3>1. "Web" \in update /\ ~(Fails(g) /\ g.source = "Web")
      BY <2>2 DEF Drain, Aborted
    <3>2. g.active /\ g.source = "Web"
      BY <1>0, <3>1 DEF UpdateIsOwned, Started, Heard, TypeOK, Source
    <3>3. guard' = [g EXCEPT !.succeeded = @ \/ Succeeds(g)]
      BY <3>1, <3>2 DEF Drain
    <3> HIDE DEF g
    <3> QED BY <3>2, <3>3
  <2>3. update' \in {update, {}}
    BY DEF Drain, Aborted
  <2>4. at' = "pause" /\ espota' = "none" /\ espota' = espota
    BY <2>1 DEF Drain
  <2> QED BY <1>0, <2>1, <2>2, <2>3, <2>4 DEF UpdateIsOwned
<1> QED BY <1>2, <1>3, <1>4 DEF Orderly

\* OtaGuard's fast pass keeps the invariant.
LEMMA DrainKeeps ==
  ASSUME IInv, Drain
  PROVE  IInv'
<1> USE DEF IInv
<1>1. TypeOK'
  BY DrainType
<1>2. ASSUME ~misled' PROVE ClientsFit' /\ UploadsAreHeard' /\ UpdateIsOwned'
  <2>1. espota = "none" /\ espota' = "none" /\ sig'.started = "None" /\ sig'.ended = "none"
    BY DEF EspotaIsInside, Drain, Taken, TypeOK
  <2>2. CASE misled
    <3>1. Over'
      BY <1>2, <2>2 DEF Drain
    <3>2. update' = {} /\ \A c \in Client : client'[c].phase = "idle"
      BY <3>1 DEF Over
    <3> QED BY <2>1, <3>2 DEF ClientsFit, UploadsAreHeard, UpdateIsOwned
  <2>3. CASE ~misled
    BY <2>3, DrainOrderly DEF Orderly
  <2> QED BY <2>2, <2>3
<1>5. HoldIsTold'
  BY <1>1 DEF Drain, HoldIsTold, TypeOK, Taken, Heard, Started, Fails, Idle, Succeeds,
     Checking, Age, Aborted, Marked, HoldOutputs
<1>6. SuccessIsTrue'
  BY <1>1 DEF Drain, SuccessIsTrue, TypeOK, Taken, Heard, Started, Fails, Idle, Succeeds,
     Checking, Age, Aborted, Marked, HoldOutputs, EndSeen, Unbegun, bootVars, Erased,
     Committed, WebOtaEndCode
<1>7. FlashFits'
  BY DEF Drain, TypeOK, SuccessIsTrue, FlashFits, Succeeds, Marked, EndSeen
<1>8. OneHandler'
  BY <1>1 DEF Drain, OneHandler, HandlersDone, TypeOK, bootVars
<1>9. EspotaIsInside'
  BY <1>1 DEF Drain, EspotaIsInside, TypeOK, bootVars
<1> QED BY <1>1, <1>2, <1>5, <1>6, <1>7, <1>8, <1>9 DEF Orderly

\* The slow pass of the boot health check keeps the invariant.
LEMMA NetTickKeeps ==
  ASSUME IInv, NetTick, ~rollback
  PROVE  IInv'
<1> USE DEF IInv
<1>0. ASSUME ~misled' PROVE ClientsFit /\ UploadsAreHeard /\ UpdateIsOwned
  BY <1>0 DEF Orderly, NetTick, bootVars
<1>1. TypeOK'
  BY NetTickType
<1>2. ASSUME ~misled' PROVE ClientsFit'
  BY <1>0, <1>1, <1>2 DEF NetTick, ClientsFit
<1>3. ASSUME ~misled' PROVE UploadsAreHeard'
  BY <1>0, <1>1, <1>3 DEF NetTick, UploadsAreHeard
<1>4. ASSUME ~misled' PROVE UpdateIsOwned'
  BY <1>0, <1>1, <1>4 DEF NetTick, UpdateIsOwned
<1>5. HoldIsTold'
  BY <1>1 DEF NetTick, HoldIsTold
<1>6. SuccessIsTrue'
  BY <1>1 DEF NetTick, SuccessIsTrue
<1>7. FlashFits'
  <2>1. written' = written
    BY DEF NetTick
  <2>2. CASE flash' = [flash EXCEPT !.image[flash.running] = "valid", !.marker = "none"]
    <3>1. /\ flash'.running = flash.running /\ flash'.marker = "none"
          /\ flash'.image = [flash.image EXCEPT ![flash.running] = "valid"]
      BY <2>2, Members DEF TypeOK
    <3> QED BY <2>1, <3>1, Members DEF FlashFits, TypeOK, Slot
  <2>3. CASE flash' = flash /\ (health'.pending \/ rollback' \/ ~health.pending)
    BY <2>1, <2>3 DEF FlashFits
  <2> QED BY <2>2, <2>3 DEF NetTick, TypeOK
<1>8. OneHandler'
  BY <1>1 DEF NetTick, OneHandler, HandlersDone, TypeOK, bootVars
<1>9. EspotaIsInside'
  BY <1>1 DEF NetTick, EspotaIsInside, TypeOK, bootVars
<1> QED BY <1>1, <1>2, <1>3, <1>4, <1>5, <1>6, <1>7, <1>8, <1>9 DEF Orderly

\* A countdown that is not over keeps the invariant.
LEMMA CoreTickKeeps ==
  ASSUME IInv, CoreTick, reboot # 0
  PROVE  IInv'
<1> USE DEF IInv
<1>0. ASSUME ~misled' PROVE ClientsFit /\ UploadsAreHeard /\ UpdateIsOwned
  BY <1>0 DEF Orderly, CoreTick, bootVars
<1>1. TypeOK'
  BY CoreTickType
<1>2. ASSUME ~misled' PROVE ClientsFit'
  BY <1>0, <1>1, <1>2 DEF CoreTick, ClientsFit, bootVars
<1>3. ASSUME ~misled' PROVE UploadsAreHeard'
  BY <1>0, <1>1, <1>3 DEF CoreTick, UploadsAreHeard, bootVars
<1>4. ASSUME ~misled' PROVE UpdateIsOwned'
  BY <1>0, <1>1, <1>4 DEF CoreTick, UpdateIsOwned, bootVars
<1>5. HoldIsTold'
  BY <1>1 DEF CoreTick, HoldIsTold, bootVars
<1>6. SuccessIsTrue'
  BY <1>1 DEF CoreTick, SuccessIsTrue, bootVars
<1>7. FlashFits'
  BY <1>1 DEF CoreTick, FlashFits, bootVars
<1>8. OneHandler'
  BY <1>1 DEF CoreTick, OneHandler, HandlersDone, TypeOK, bootVars
<1>9. EspotaIsInside'
  BY <1>1 DEF CoreTick, EspotaIsInside, TypeOK, bootVars
<1> QED BY <1>1, <1>2, <1>3, <1>4, <1>5, <1>6, <1>7, <1>8, <1>9 DEF Orderly

\* Time that passes keeps the invariant.
LEMMA ElapseKeeps ==
  ASSUME IInv, Elapse
  PROVE  IInv'
<1> USE DEF IInv
<1>0. ASSUME ~misled' PROVE ClientsFit /\ UploadsAreHeard /\ UpdateIsOwned
  BY <1>0 DEF Orderly, Elapse, bootVars
<1>1. TypeOK'
  BY ElapseType
<1>2. ASSUME ~misled' PROVE ClientsFit'
  BY <1>0, <1>1, <1>2 DEF Elapse, ClientsFit, TypeOK, HandlersDone
<1>3. ASSUME ~misled' PROVE UploadsAreHeard'
  BY <1>0, <1>3, FirmwareUpdateAssumption DEF Elapse, TypeOK, UploadsAreHeard, HandlersDone, Older
<1>4. ASSUME ~misled' PROVE UpdateIsOwned'
  BY <1>0, <1>1, <1>4 DEF Elapse, UpdateIsOwned
<1>5. HoldIsTold'
  BY <1>1 DEF Elapse, HoldIsTold
<1>6. SuccessIsTrue'
  BY <1>1 DEF Elapse, SuccessIsTrue
<1>7. FlashFits'
  BY <1>1 DEF Elapse, FlashFits
<1>8. OneHandler'
  BY <1>1 DEF Elapse, OneHandler, HandlersDone, TypeOK, bootVars
<1>9. EspotaIsInside'
  BY <1>1 DEF Elapse, EspotaIsInside, TypeOK, bootVars
<1> QED BY <1>1, <1>2, <1>3, <1>4, <1>5, <1>6, <1>7, <1>8, <1>9 DEF Orderly

\* What the bootloader makes of the flash: an image on trial is given up, a new one goes on
\* trial, and no erased slot is started; the slot of the choice is started if it is good.
LEMMA LoadedFits ==
  ASSUME TypeOK, FlashFits
  PROVE  /\ Loaded \in Flashes
         /\ Loaded.marker = flash.marker /\ Loaded.boot = Loaded.running
         /\ LET image == [flash.image EXCEPT ![flash.running] = IF @ = "pending" THEN "aborted" ELSE @]
            IN /\ Loaded.image = [image EXCEPT ![Loaded.running] = IF @ = "new" THEN "pending" ELSE @]
               /\ image[Loaded.running] # "erased"
               /\ image[flash.boot] \in {"aborted", "erased"} \/ Loaded.running = flash.boot
<1> DEFINE image == [flash.image EXCEPT ![flash.running] = IF @ = "pending" THEN "aborted" ELSE @]
           Good(s) == image[s] \notin {"aborted", "erased"}
           P(s) == IF \E t \in Slot : Good(t) THEN Good(s) /\ (Good(flash.boot) => s = flash.boot)
                                              ELSE image[s] # "erased"
           slot == CHOOSE s \in Slot : P(s)
<1>1. image \in [Slot -> Image] /\ flash.running \in Slot /\ flash.boot \in Slot
  BY DEF TypeOK, Image
<1>2. image[flash.running] # "erased"
  BY <1>1 DEF FlashFits, TypeOK
<1>3. \E s \in Slot : P(s)
  <2>1. CASE Good(flash.boot)
    BY <1>1, <2>1
  <2>2. CASE ~Good(flash.boot) /\ \E t \in Slot : Good(t)
    BY <2>2
  <2>3. CASE ~ \E t \in Slot : Good(t)
    BY <1>1, <1>2, <2>3
  <2> QED BY <2>1, <2>2, <2>3
<1>4. slot \in Slot /\ P(slot)
  <2> HIDE DEF P
  <2> QED BY <1>3
<1>5. image[slot] # "erased" /\ (~Good(flash.boot) \/ slot = flash.boot)
  BY <1>1, <1>4
<1>6. Loaded = [running |-> slot, boot |-> slot, marker |-> flash.marker,
                image |-> [image EXCEPT ![slot] = IF @ = "new" THEN "pending" ELSE @]]
  BY DEF Loaded
<1> HIDE DEF slot, image, P
<1>7. Loaded \in Flashes
  <2>1. [image EXCEPT ![slot] = IF @ = "new" THEN "pending" ELSE @] \in [Slot -> Image]
    BY <1>1, <1>4 DEF Image
  <2>2. flash.marker \in Slot \cup {"none"}
    BY DEF TypeOK
  <2> QED BY <1>4, <1>6, <2>1, <2>2 DEF Flashes
<1> QED BY <1>5, <1>6, <1>7 DEF image

\* A restart keeps the slots in order, and reports a rollback only of an image that is gone.
LEMMA RestartFits ==
  ASSUME TypeOK, FlashFits, Restart
  PROVE  FlashFits' /\ (reported' => flash'.image[Other(flash'.running)] \in {"aborted", "erased"})
<1> DEFINE image == [flash.image EXCEPT ![flash.running] = IF @ = "pending" THEN "aborted" ELSE @]
           r == flash.running  s == Loaded.running
<1>1. /\ s \in Slot /\ r \in Slot /\ Other(r) \in Slot /\ Other(r) # r
      /\ Other(s) \in Slot /\ Other(s) # s /\ flash.marker \in Slot \cup {"none"}
      /\ image \in [Slot -> Image] /\ flash.image \in [Slot -> Image]
      /\ flash.boot \in Slot
  BY LoadedFits, Members DEF TypeOK, Flashes, Image
<1>2. /\ Loaded.image = [image EXCEPT ![s] = IF @ = "new" THEN "pending" ELSE @]
      /\ image[s] # "erased" /\ (image[flash.boot] \in {"aborted", "erased"} \/ s = flash.boot)
      /\ Loaded.marker = flash.marker /\ Loaded.boot = s
  BY LoadedFits
<1>3. /\ flash'.running = s /\ flash'.boot = s /\ flash'.image = Loaded.image
      /\ flash'.marker = IF Outcome(Loaded) \in {"RolledBack", "UpdatedNoRollback"} THEN "none" ELSE flash.marker
      /\ health'.pending = (Outcome(Loaded) = "Trial") /\ written' = FALSE
      /\ reported' = (Outcome(Loaded) = "RolledBack")
  BY <1>2, LoadedFits DEF Restart, NoHealth, Flashes
<1>4. Outcome(Loaded) = IF flash.marker = s THEN IF Loaded.image[s] = "pending" THEN "Trial"
                                                   ELSE "UpdatedNoRollback"
                        ELSE IF flash.marker # "none" THEN "RolledBack"
                        ELSE IF Loaded.image[s] = "pending" THEN "Trial" ELSE "Normal"
  BY <1>2 DEF Outcome
<1>5. /\ image[r] = IF flash.image[r] = "pending" THEN "aborted" ELSE flash.image[r]
      /\ image[Other(r)] = flash.image[Other(r)]
      /\ Loaded.image[s] = IF image[s] = "new" THEN "pending" ELSE image[s]
      /\ Loaded.image[Other(s)] = image[Other(s)]
      /\ (s = r /\ Other(s) = Other(r)) \/ (s = Other(r) /\ Other(s) = r)
  <2>1. (s = r /\ Other(s) = Other(r)) \/ (s = Other(r) /\ Other(s) = r)
    <3>1. CASE s = r
      BY <3>1
    <3>2. CASE s # r
      BY <1>1, <3>2, Members
    <3> QED BY <3>1, <3>2
  <2> QED BY <1>1, <1>2, <2>1
<1>6. /\ flash.marker \in {r, Other(r), "none"} /\ flash.marker \in {s, Other(s), "none"}
      /\ s # "none" /\ Other(s) # "none" /\ flash.boot \in {r, Other(r)}
  BY <1>1 DEF Slot, Other
<1> HIDE DEF image, s
<1>7. FlashFits'
  <2> DEFINE o == Other(s)
  <2>1. flash'.image[s] \notin {"new", "erased"}
    BY <1>2, <1>3, <1>5
  <2>2. flash'.image[o] # "pending"
    BY <1>3, <1>5 DEF FlashFits, r
  <2>3. ASSUME flash'.image[s] = "pending"
        PROVE  flash'.image[o] # "new" /\ flash'.marker # o /\ health'.pending
    <3>1. image[s] = "new" /\ s = Other(r) /\ o = r
      BY <1>3, <1>5, <2>3 DEF FlashFits, r
    <3>2. flash.marker # r
      BY <1>3, <1>5, <2>3, <3>1 DEF FlashFits, r
    <3>3. flash.marker \in {s, "none"}
      BY <1>6, <3>1, <3>2
    <3>4. Outcome(Loaded) = "Trial"
      BY <1>3, <1>4, <2>3, <3>3
    <3> QED BY <1>1, <1>3, <1>5, <3>1, <3>3, <3>4 DEF FlashFits, r
  <2>4. flash'.marker = s => flash'.image[s] = "pending"
    BY <1>3, <1>4, <1>6
  <2>5. flash'.marker # o
    BY <1>1, <1>3, <1>4, <1>6
  <2> QED BY <1>3, <2>1, <2>2, <2>3, <2>4, <2>5 DEF FlashFits
<1>8. reported' => flash'.image[Other(flash'.running)] \in {"aborted", "erased"}
  BY <1>1, <1>2, <1>3, <1>4, <1>5, <1>6 DEF FlashFits, r
<1> QED BY <1>7, <1>8

\* A restart keeps the invariant: nothing of the sessions outlives it.
LEMMA RestartKeeps ==
  ASSUME IInv, Restart, crashes' \in 0..MaxCrashes
  PROVE  IInv'
<1> USE DEF IInv
<1>1. TypeOK'
  BY RestartType, LoadedFits
<1>2. FlashFits'
  BY RestartFits
<1>3. \A c \in Client : client'[c].phase = "idle"
  BY DEF Restart
<1>4. /\ sig'.ended = "none" /\ sig'.started = "None" /\ update' = {} /\ espota' = "none" /\ at' = "core"
      /\ ~guard'.succeeded
  BY DEF Restart, NoSignal, Idle
<1> QED BY <1>1, <1>2, <1>3, <1>4 DEF Orderly, OneHandler, EspotaIsInside, ClientsFit,
   UploadsAreHeard, UpdateIsOwned, HoldIsTold, SuccessIsTrue

\* The invariant holds at power-up.
LEMMA InitIInv ==
  ASSUME Init
  PROVE  IInv
<1>1. TypeOK
  BY InitType
<1>2. /\ flash.running = "app0" /\ flash.image["app0"] = "valid" /\ flash.image["app1"] = "aborted"
      /\ flash.marker = "none"
  BY DEF Init, Slot
<1>3. FlashFits
  BY <1>2 DEF FlashFits, Other
<1>4. \A c \in Client : client[c].phase = "idle"
  BY DEF Init
<1>5. /\ sig.ended = "none" /\ sig.started = "None" /\ update = {} /\ espota = "none" /\ at = "core"
      /\ ~guard.succeeded
  BY DEF Init, NoSignal, Idle
<1> QED BY <1>1, <1>3, <1>4, <1>5 DEF IInv, Orderly, OneHandler, EspotaIsInside, ClientsFit,
   UploadsAreHeard, UpdateIsOwned, HoldIsTold, SuccessIsTrue

\* Every step keeps the invariant.
LEMMA NextKeeps ==
  ASSUME IInv, [Next]_vars
  PROVE  IInv'
<1>1. ASSUME NEW c \in Client, Web(c) PROVE IInv'
  BY <1>1, WebStartKeeps, WebBeginKeeps, WebChunkKeeps, WebFinishKeeps, WebEndKeeps,
     WebLostKeeps DEF Web
<1>2. CASE CoreTick
  <2>1. CASE reboot = 0
    BY <1>2, <2>1, RestartKeeps DEF CoreTick, IInv, TypeOK
  <2> QED BY <1>2, <2>1, CoreTickKeeps
<1>3. CASE NetTick
  <2>1. CASE rollback
    BY <1>3, <2>1, RestartKeeps DEF NetTick, IInv, TypeOK
  <2> QED BY <1>3, <2>1, NetTickKeeps
<1>4. CASE Poll \/ Espota \/ Drain \/ Elapse
  BY <1>4, PollKeeps, EspotaStartKeeps, EspotaProgressKeeps, EspotaEndKeeps, EspotaReturnKeeps,
     DrainKeeps, ElapseKeeps DEF Espota
<1>5. CASE Crash
  <2>1. crashes' \in 0..MaxCrashes
    BY <1>5, FirmwareUpdateAssumption DEF Crash, IInv, TypeOK
  <2> QED BY <1>5, <2>1, RestartKeeps DEF Crash
<1>6. CASE UNCHANGED vars
  BY <1>6 DEF vars, IInv, Orderly, OneHandler, EspotaIsInside, TypeOK, ClientsFit, UploadsAreHeard, UpdateIsOwned, HoldIsTold,
     HoldOutputs,
              SuccessIsTrue, FlashFits
<1> QED BY <1>1, <1>2, <1>3, <1>4, <1>5, <1>6 DEF Next, Loop

\* The inductive invariant, types included, holds throughout.
THEOREM Inductive == Spec => []IInv
<1>1. Init => IInv
  BY InitIInv
<1>2. IInv /\ [Next]_vars => IInv'
  BY NextKeeps
<1> QED BY <1>1, <1>2, PTL DEF Spec

\* Whatever the clients, espota, crashes and rollbacks do: as long as no post has overtaken
\* an end that was not taken yet, a client's update that writes finds the outputs held off
\* between two passes and two sessions never have the Update object at once; and whatever
\* was posted, espota's outputs are off, and every success, trial and rollback is backed by
\* the image in the flash.
THEOREM UpdatesAreSafe ==
  Spec => [](OffWhileUpdating /\ SessionsExclude /\ ImageIsAccountedFor)
<1>1. ASSUME IInv PROVE OffWhileUpdating
  <2>1. espota \in {"open", "ended"} => inhibited
    BY <1>1 DEF IInv, EspotaIsInside
  <2>2. ASSUME at = "pause", update # {}, sig.started = "None", ~misled PROVE inhibited
    <3>1. UpdateIsOwned /\ espota = "none"
      BY <1>1, <2>2 DEF IInv, Orderly, EspotaIsInside
    <3>2. "Web" \in update
      BY <2>2, <3>1 DEF UpdateIsOwned
    <3>3. guard.active
      BY <2>2, <3>1, <3>2 DEF UpdateIsOwned
    <3> QED BY <1>1, <2>2, <3>3 DEF IInv, HoldIsTold, HoldOutputs, TypeOK
  <2> QED BY <2>1, <2>2 DEF OffWhileUpdating
<1>2. ASSUME IInv PROVE SessionsExclude
  BY <1>2 DEF IInv, Orderly, UpdateIsOwned, SessionsExclude
<1>3. ASSUME IInv PROVE ImageIsAccountedFor
  BY <1>3 DEF IInv, ImageIsAccountedFor, SuccessIsTrue, SuccessIsCommitted, HoldIsTold,
     HoldOutputs,
              RollbackHoldsOff, FlashFits, TrialIsWatched
<1>4. IInv => OffWhileUpdating /\ SessionsExclude /\ ImageIsAccountedFor
  BY <1>1, <1>2, <1>3
<1> QED BY <1>4, Inductive, PTL

\* A rollback is reported only when the image it rolls back from is really given up.
THEOREM RollbacksAreReported == Spec => RollbackIsReported
<1> DEFINE Ruined == flash'.image[Other(flash'.running)] \in {"aborted", "erased"}
<1>1. ASSUME IInv, [Next]_vars PROVE reported' /\ ~reported => Ruined
  <2>1. CASE Restart
    BY <1>1, <2>1, RestartFits DEF IInv
  <2>2. CASE ~Restart
    <3>1. reported' = reported
      BY <1>1, <2>2 DEF Next, Web, WebStart, WebBegin, WebChunk, WebFinish, WebEnd, WebLost,
         Loop, CoreTick,
         NetTick, Poll, Espota, EspotaStart, EspotaProgress, EspotaEnd, EspotaReturn, Drain, Elapse, Crash,
         bootVars, vars
    <3> QED BY <3>1
  <2> QED BY <2>1, <2>2
<1>2. IInv /\ [Next]_vars => [reported' /\ ~reported => Ruined]_vars
  BY <1>1
<1> QED BY <1>2, Inductive, PTL DEF Spec, RollbackIsReported
=============================================================================
