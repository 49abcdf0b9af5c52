------------------------------ MODULE Sensors ------------------------------
(***************************************************************************)
(* The temperature sensors of a controller (HwEngine/SensorService and     *)
(* SensorDebounce): which probe on the 1-Wire bus each logical sensor      *)
(* reads, kept in the settings; the cycle of conversion and reading; when  *)
(* a sensor may be believed; and the alarm for one that is missing.        *)
(*                                                                         *)
(* Everything runs on the loop task, once per slow pass: the commands,     *)
(* then tick().  What the bus answers is free: any probe may answer, stay  *)
(* silent or be garbled at any reading, and a scan may overlook it.  A     *)
(* temperature is told apart only by whether it is the value a probe shows *)
(* before its first conversion (85 degC), and by the probe it came from.   *)
(***************************************************************************)
EXTENDS Integers, FiniteSets

CONSTANTS Probe, None,
          Invalid,        \* a text that is no address of a probe
          Sensors,        \* number of logical sensors
          FaultCount, RecoverCount

Logical == 0..(Sensors - 1)

VARIABLES setting,    \* the mapping settings
          sensor,     \* SensorService's sensors
          scan,       \* the probes found by the last scan
          rescan,     \* a scan has been asked for
          pending,    \* a conversion has been asked for and not been read
          from,       \* history: the probe of the last good reading
          run         \* history: answers and silences in a row, since assigned or scanned

vars == <<setting, sensor, scan, rescan, pending, from, run>>

NoRun == [good |-> 0, silent |-> 0]
Least(set) == CHOOSE e \in set : \A f \in set : e <= f
More(n, most) == IF n < most THEN n + 1 ELSE most

-----------------------------------------------------------------------------
(* SensorDebounce. *)

Reset == [state |-> "Unknown", good |-> 0, bad |-> 0, lastBad |-> "NoResponse"]

\* 85 degC is no temperature unless the reading before it was a good one, and near.
Effective(d, r) ==
  IF r.status = "Ok" /\ r.is85 /\ (d.good = 0 \/ r.jumps) THEN "PowerOnValue" ELSE r.status

\* onReading().
Debounced(d, r) ==
  LET status == Effective(d, r)
      good == [d EXCEPT !.bad = 0, !.good = More(@, RecoverCount)]
      bad == [d EXCEPT !.good = 0, !.bad = More(@, FaultCount), !.lastBad = status]
  IN IF status = "Ok"
     THEN IF good.good >= RecoverCount THEN [good EXCEPT !.state = "Ok"] ELSE good
     ELSE IF bad.bad >= FaultCount THEN [bad EXCEPT !.state = "Fault"] ELSE bad

-----------------------------------------------------------------------------
(* The mapping. *)

Assigned(s) == s.address # None
NewSensor == [address |-> None, deb |-> Reset, missingScan |-> FALSE, goodSinceScan |-> FALSE,
              missing |-> FALSE]

\* syncMapping(): a text that is no address is cleared, and so is an address that a lower
\* sensor has.  The mapping is what is left.
Kept(texts) ==
  [l \in Logical |->
     IF texts[l] = Invalid \/ \E k \in Logical : k < l /\ texts[k] = texts[l] THEN None ELSE texts[l]]

\* Mistake: a sensor that gets another probe goes on with its run of readings.
RemappedInUse(s, address) ==
  [s EXCEPT !.address = address, !.goodSinceScan = FALSE, !.missing = FALSE,
            !.missingScan = address # None /\ address \notin scan]

\* A sensor that gets another probe, or none, begins anew.
Remapped(s, address) ==
  [NewSensor EXCEPT !.address = address, !.missingScan = address # None /\ address \notin scan]

Synced(ss, texts) ==
  [l \in Logical |-> IF texts[l] = ss[l].address THEN ss[l] ELSE Remapped(ss[l], texts[l])]

\* doScan().
Scanned(s, found) ==
  [s EXCEPT !.goodSinceScan = FALSE, !.missingScan = Assigned(s) /\ s.address \notin found]

\* One reading of a sensor, as busCycle() takes it.
ReadBy(s, r) ==
  [s EXCEPT !.goodSinceScan = @ \/ r.status = "Ok", !.deb = Debounced(@, r)]

\* Mistake: the alarm looks at the last scan alone.
IsMissingInScan(s) == Assigned(s) /\ s.missingScan

\* evaluateMissing().
IsMissing(s) ==
  Assigned(s) /\ \/ s.missingScan /\ ~s.goodSinceScan
                 \/ s.deb.state = "Fault" /\ s.deb.lastBad = "NoResponse"
Evaluated(ss) == [l \in Logical |-> [ss[l] EXCEPT !.missing = IsMissing(ss[l])]]

-----------------------------------------------------------------------------
(* The commands and tick(). *)

Moved(l, texts) == texts[l] # sensor[l].address

Follow(texts, ss) == setting' = texts /\ sensor' = ss

\* assign(): the probe is taken from the sensor that has it.
Assign(l, p) ==
  /\ sensor[l].address # p
  /\ \E texts \in {Kept([k \in Logical |-> IF k = l THEN p
                                             ELSE IF sensor[k].address = p THEN None ELSE setting[k]])} :
       /\ Follow(texts, Evaluated(Synced(sensor, texts)))
       /\ from' = [k \in Logical |-> IF Moved(k, texts) THEN None ELSE from[k]]
       /\ run' = [k \in Logical |-> IF Moved(k, texts) THEN NoRun ELSE run[k]]
  /\ UNCHANGED <<scan, rescan, pending>>

\* clear().
Clear(l) ==
  /\ Assigned(sensor[l])
  /\ \E texts \in {Kept([setting EXCEPT ![l] = None])} :
       /\ Follow(texts, Evaluated(Synced(sensor, texts)))
       /\ from' = [k \in Logical |-> IF Moved(k, texts) THEN None ELSE from[k]]
       /\ run' = [k \in Logical |-> IF Moved(k, texts) THEN NoRun ELSE run[k]]
  /\ UNCHANGED <<scan, rescan, pending>>

\* requestRescan().
RequestRescan ==
  /\ ~rescan /\ rescan' = TRUE
  /\ UNCHANGED <<setting, sensor, scan, pending, from, run>>

\* The mapping is also entered as text: in the settings, or all of it from a backup.
Enter ==
  /\ setting' \in [Logical -> Probe \cup {None, Invalid}] \ {setting}
  /\ UNCHANGED <<sensor, scan, rescan, pending, from, run>>

\* tick(): the scan that was asked for, the mapping, the bus, the alarms.
Reading == [status : {"Ok"}, is85 : {TRUE}, jumps : BOOLEAN]
             \cup [status : {"Ok", "NoResponse", "CrcError"}, is85 : {FALSE}, jumps : {FALSE}]

ScanTick ==
  /\ rescan
  /\ scan' \in SUBSET Probe
  /\ \E texts \in {Kept(setting)} :
       LET scanned == [l \in Logical |-> Scanned(sensor[l], scan')] IN
       /\ Follow(texts, Evaluated([l \in Logical |->
                   IF Moved(l, texts) THEN Scanned(Remapped(sensor[l], texts[l]), scan') ELSE scanned[l]]))
       /\ from' = [l \in Logical |-> IF Moved(l, texts) THEN None ELSE from[l]]
  /\ run' = [l \in Logical |-> NoRun]
  /\ rescan' = FALSE /\ pending' = TRUE

\* The tick that asks for a conversion, or waits for it.
WaitTick ==
  /\ ~rescan
  /\ pending' \in {pending, TRUE}
  /\ \E texts \in {Kept(setting)} :
       /\ Follow(texts, Evaluated(Synced(sensor, texts)))
       /\ from' = [l \in Logical |-> IF Moved(l, texts) THEN None ELSE from[l]]
       /\ run' = [l \in Logical |-> IF Moved(l, texts) THEN NoRun ELSE run[l]]
  /\ UNCHANGED <<scan, rescan>>

Counted(c, r) ==
  [good |-> IF r.status = "Ok" /\ ~r.is85 THEN More(c.good, RecoverCount) ELSE 0,
   silent |-> IF r.status = "NoResponse" THEN More(c.silent, FaultCount) ELSE 0]

\* The tick that reads every probe of a sensor.
ReadTick ==
  /\ ~rescan /\ pending
  /\ \E texts \in {Kept(setting)}, rs \in [Logical -> Reading] :
     \E synced \in {Synced(sensor, texts)} :
       /\ \A l \in Logical : texts[l] = None => rs[l].status = "NoResponse"    \* not read
       /\ Follow(texts, Evaluated([l \in Logical |->
                   IF Assigned(synced[l]) THEN ReadBy(synced[l], rs[l]) ELSE synced[l]]))
       /\ from' = [l \in Logical |->
                     IF Assigned(synced[l]) /\ Effective(synced[l].deb, rs[l]) = "Ok" THEN texts[l]
                     ELSE IF Moved(l, texts) THEN None ELSE from[l]]
       /\ run' = [l \in Logical |->
                    IF texts[l] = None THEN NoRun
                    ELSE Counted(IF Moved(l, texts) THEN NoRun ELSE run[l], rs[l])]
  /\ pending' = FALSE
  /\ UNCHANGED <<scan, rescan>>

\* begin(), with the mapping that is in the settings.
Init ==
  /\ setting \in {Kept(t) : t \in [Logical -> Probe \cup {None, Invalid}]}
  /\ scan \in SUBSET Probe
  /\ sensor = Evaluated(Synced([l \in Logical |-> NewSensor], setting))
  /\ rescan = FALSE /\ pending = FALSE
  /\ from = [l \in Logical |-> None]
  /\ run = [l \in Logical |-> NoRun]

Next == \/ \E l \in Logical, p \in Probe : Assign(l, p)
        \/ \E l \in Logical : Clear(l)
        \/ RequestRescan \/ Enter \/ ScanTick \/ WaitTick \/ ReadTick

Spec == Init /\ [][Next]_vars

-----------------------------------------------------------------------------
(* Properties. *)

\* A temperature is that of the sensor's own probe, read since the probe became its own;
\* no probe is two sensors'.
TemperatureIsOfItsProbe ==
  /\ \A l \in Logical : sensor[l].deb.state = "Ok" /\ Assigned(sensor[l]) => from[l] = sensor[l].address
  /\ \A k, l \in Logical : k # l /\ Assigned(sensor[k]) => sensor[k].address # sensor[l].address

\* The missing-sensor alarm tells the truth: a sensor that has answered often enough is
\* not missing, one that has kept silent is, whatever scans, assignments and garbled
\* readings came in between.
MissingIsTold ==
  \A l \in Logical :
    /\ run[l].good >= RecoverCount => ~sensor[l].missing
    /\ run[l].silent >= FaultCount => sensor[l].missing
    /\ ~Assigned(sensor[l]) => ~sensor[l].missing

-----------------------------------------------------------------------------
(* The inductive invariant behind both.                                    *)

SensorsAssumption == FaultCount \in Nat \ {0} /\ RecoverCount \in Nat \ {0} /\ Sensors \in Nat

LogicalSensor ==
  [address : Probe \cup {None},
   deb : [state : {"Unknown", "Ok", "Fault"}, good : 0..RecoverCount, bad : 0..FaultCount,
          lastBad : {"NoResponse", "CrcError", "PowerOnValue"}],
   missingScan : BOOLEAN, goodSinceScan : BOOLEAN, missing : BOOLEAN]

\* A sensor that is believed has been read at the probe it has now, and its counters
\* lag behind no run of answers or silences.
Fits(s, probe, c) ==
  /\ s \in LogicalSensor /\ c \in [good : 0..RecoverCount, silent : 0..FaultCount]
  /\ s.deb.state = "Ok" /\ Assigned(s) => probe = s.address
  /\ s.deb.good = RecoverCount => s.deb.state = "Ok"
  /\ s.deb.bad = FaultCount => s.deb.state = "Fault"
  /\ c.good <= s.deb.good /\ (c.good > 0 => s.goodSinceScan)
  /\ c.silent <= s.deb.bad /\ (c.silent > 0 => s.deb.lastBad = "NoResponse" /\ Assigned(s))

SensorsFit ==
  /\ setting \in [Logical -> Probe \cup {None, Invalid}]
  /\ \A l \in Logical : /\ Fits(sensor[l], from[l], run[l])
                        /\ sensor[l].missing = IsMissing(sensor[l])
  /\ \A k, l \in Logical : k # l /\ Assigned(sensor[k]) => sensor[k].address # sensor[l].address
=============================================================================
