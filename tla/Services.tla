------------------------------ MODULE Services ------------------------------
(***************************************************************************)
(* The services that both controllers have in common.  They do not share   *)
(* state here: a behaviour is about one of them, which `part` names, and   *)
(* their variables share the names v1 to v14.                              *)
(***************************************************************************)
EXTENDS Integers, Sequences

CONSTANTS
  None,
  Conn, CommandBuffer, BoardSize, Depth, MaxPerTick,                \* CommandPath
  Source, Capacity, LogSlots, Window, MaxLogged, LogMishaps,        \* EventLog
  Resync, ClockRetry, MaxPass, Wrong, MaxDrift, ClockMishaps,       \* TimeKeeping
  FirstDay, LastDay, Seconds,                                       \* Calendar
  Browser, SessionSlots, Ttl, GrantTtl, FreeFailures, Lock, NoSid, PairChanges,  \* WebSessions
  MaxStarts,                                                        \* StaticFiles
  FileBuffer, Rebuild, ReadyTtl, MaxEvents,                         \* WebDocuments
  Network, RetryFirst, RetryStep, RetryMax, ScanTimeout,            \* WifiLink
  ApRetry, ApLinger, ApJoinWindow, MaxOffers,
  Broker, Entities, Value, BackoffFirst, BackoffMax,                \* Mqtt
  AttemptTimeout, EventOutbox, EndpointChanges,
  Probe, Invalid, Sensors, FaultCount, RecoverCount,                \* Sensors
  Rows, Image, Garbage, Contrast, FailLimit, PanelRetry,            \* DisplayPanel
  Alarms, PerSubPage, Pages, Period, Hold, SubPage, ResetResult,    \* DisplayScreens
  SetupSlot, SlotWrap

VARIABLES part, v1, v2, v3, v4, v5, v6, v7, v8, v9, v10, v11, v12, v13, v14

vars == <<part, v1, v2, v3, v4, v5, v6, v7, v8, v9, v10, v11, v12, v13, v14>>

Cmd == INSTANCE CommandPath WITH
         Buffer <- CommandBuffer, conn <- v1, handler <- v2, queue <- v3, board <- v4,
         next <- v5, loop <- v6, held <- v7, freed <- v8, fate <- v9, recent <- v10

Log == INSTANCE EventLog WITH
         Slots <- LogSlots, Torn <- None, MaxEvents <- MaxLogged, MaxMishaps <- LogMishaps,
         ring <- v1, nextSeq <- v2, persistOk <- v3, limiter <- v4, slot <- v5, up <- v6,
         count <- v7, lost <- v8, hidden <- v9, mishaps <- v10

Time == INSTANCE TimeKeeping WITH
         Retry <- ClockRetry, MaxMishaps <- ClockMishaps, on <- v1, clock <- v2, net <- v3,
         sync <- v4, attempt <- v5, started <- v6, answer <- v7, rtc <- v8, chip <- v9,
         late <- v10, drift <- v11, reached <- v12, mishaps <- v13

Cal == INSTANCE Calendar WITH day <- v1

Ses == INSTANCE WebSessions WITH
         Slots <- SessionSlots, MaxChanges <- PairChanges, pair <- v1, epoch <- v2,
         slots <- v3, throttle <- v4, browser <- v5, handler <- v6, upload <- v7,
         guesses <- v8

Files == INSTANCE StaticFiles WITH
         signals <- v1, update <- v2, session <- v3, guard <- v4, inProgress <- v5,
         web <- v6, at <- v7, handler <- v8, touched <- v9

Docs == INSTANCE WebDocuments WITH
         Buffer <- FileBuffer, Null <- None, seq <- v1, valid <- v2, log <- v3, mutex <- v4,
         heap <- v5, slot <- v6, loop <- v7, web <- v8

Wifi == INSTANCE WifiLink WITH
         settings <- v1, box <- v2, web <- v3, taken <- v4, sup <- v5, radio <- v6,
         asked <- v7, told <- v8, tried <- v9, offers <- v10

Mq == INSTANCE Mqtt WITH
         MaxChanges <- EndpointChanges, endpoint <- v1, wifi <- v2, ses <- v3, server <- v4,
         wire <- v5, pub <- v6, value <- v7, bits <- v8, said <- v9, owed <- v10,
         hung <- v11, changes <- v12

Sens == INSTANCE Sensors WITH
         setting <- v1, sensor <- v2, scan <- v3, rescan <- v4, pending <- v5, from <- v6,
         run <- v7

Pan == INSTANCE DisplayPanel WITH
         Retry <- PanelRetry, began <- v1, at <- v2, left <- v3, available <- v4,
         streak <- v5, powerOn <- v6, probeIn <- v7, applied <- v8, shadow <- v9,
         dirty <- v10, buffer <- v11, ram <- v12, lit <- v13, bright <- v14

Scr == INSTANCE DisplayScreens WITH
         mask <- v1, ota <- v2, setup <- v3, period <- v4, sched <- v5, screen <- v6,
         unseen <- v7

ASSUME ServicesAssumption ==
  /\ Cmd!CommandPathAssumption /\ Log!EventLogAssumption
  /\ Time!TimeAssumption /\ Cal!CalendarAssumption
  /\ Wifi!WifiLinkAssumption /\ Sens!SensorsAssumption
  /\ Pan!DisplayPanelAssumption /\ Ses!WebSessionsAssumption
  /\ Docs!WebDocumentsAssumption /\ Mq!MqttAssumption
  /\ Scr!ScreensAssumption

-----------------------------------------------------------------------------

\* The variables a part does not use.
After13 == <<v14>>
After12 == <<v13, v14>>
After10 == <<v11, v12, v13, v14>>
After9 == <<v10, v11, v12, v13, v14>>
After8 == <<v9, v10, v11, v12, v13, v14>>
After7 == <<v8, v9, v10, v11, v12, v13, v14>>
After1 == <<v2, v3, v4, v5, v6, v7, v8, v9, v10, v11, v12, v13, v14>>

Unused13 == v14 = 0
Unused12 == v13 = 0 /\ Unused13
Unused10 == v11 = 0 /\ v12 = 0 /\ Unused12
Unused9 == v10 = 0 /\ Unused10
Unused8 == v9 = 0 /\ Unused9
Unused7 == v8 = 0 /\ Unused8
Unused1 == v2 = 0 /\ v3 = 0 /\ v4 = 0 /\ v5 = 0 /\ v6 = 0 /\ v7 = 0 /\ Unused7

Init ==
  \/ part = "command" /\ Cmd!Init /\ Unused10
  \/ part = "log" /\ Log!Init /\ Unused10
  \/ part = "time" /\ Time!Init /\ Unused13
  \/ part = "calendar" /\ Cal!Init /\ Unused1
  \/ part = "sessions" /\ Ses!Init /\ Unused8
  \/ part = "files" /\ Files!Init /\ Unused9
  \/ part = "documents" /\ Docs!Init /\ Unused8
  \/ part = "wifi" /\ Wifi!Init /\ Unused10
  \/ part = "mqtt" /\ Mq!Init /\ Unused12
  \/ part = "sensors" /\ Sens!Init /\ Unused7
  \/ part = "panel" /\ Pan!Init
  \/ part = "screens" /\ Scr!Init /\ Unused7

\* The span of the calendar ends.
CalendarEnds == part = "calendar" /\ v1 = LastDay /\ UNCHANGED vars

Next ==
  \/ part = "command" /\ Cmd!Next /\ UNCHANGED <<part, After10>>
  \/ part = "log" /\ Log!Next /\ UNCHANGED <<part, After10>>
  \/ part = "time" /\ Time!Next /\ UNCHANGED <<part, After13>>
  \/ part = "calendar" /\ Cal!Next /\ UNCHANGED <<part, After1>>
  \/ part = "sessions" /\ Ses!Next /\ UNCHANGED <<part, After8>>
  \/ part = "files" /\ Files!Next /\ UNCHANGED <<part, After9>>
  \/ part = "documents" /\ Docs!Next /\ UNCHANGED <<part, After8>>
  \/ part = "wifi" /\ Wifi!Next /\ UNCHANGED <<part, After10>>
  \/ part = "mqtt" /\ Mq!Next /\ UNCHANGED <<part, After12>>
  \/ part = "sensors" /\ Sens!Next /\ UNCHANGED <<part, After7>>
  \/ part = "panel" /\ Pan!Next /\ UNCHANGED <<part>>
  \/ part = "screens" /\ Scr!Next /\ UNCHANGED <<part, After7>>
  \/ CalendarEnds

Spec == Init /\ [][Next]_vars

-----------------------------------------------------------------------------
(* Properties; the definitions they are made of say more. *)

\* WebServices::postCommand, CoreRuntime::apply: who polls for the result of a command is
\* told the truth, and the file of an import has one owner and is freed once.
CommandsAreAccountedFor == part = "command" => Cmd!BoardTellsTheTruth /\ Cmd!BufferHasOneOwner

\* EventLog: the log is one across restarts and failing writes.
LogIsOne == part = "log" => Log!LogIsOne

\* TimeService: the clocks of the controller and of the chip agree as far as they are
\* said to, and the clock is not left alone while the network is up.
TimeIsKept == part = "time" => Time!ClocksAgree /\ Time!ClockIsTended

\* CivilTime, Ds1307Codec: the calendar is the Gregorian one, and the chip keeps a time.
DatesAreTrue == part = "calendar" => Cal!CalendarIsGregorian /\ Cal!ChipKeepsTheTime

\* SessionGate: no session and no grant outlives a change of the login pair.
SessionsBelongToThePair == part = "sessions" => Ses!SessionsBelongToThePair

\* LoginThrottle: wrong passwords are rationed, for the login and the grant together.
GuessesAreRationed == part = "sessions" => Ses!GuessesAreRationed

\* WebServerHost: an upload that was written to its end is reported to the loop.
WrittenIsReported == part = "sessions" => Ses!WrittenIsReported

\* WebServices: no file is served from a partition that an update writes to.
TouchedIsNotServed == part = "files" => Files!TouchedIsNotServed

\* SharedJsonBuffer, ExportSlot: /api/log is whole and does not freeze; the memory of a
\* backup file has one owner, whoever gives up or comes late.
DocumentsArriveWhole == part = "documents" => Docs!LogIsServed /\ Docs!ExportHasOneOwner

\* WifiCredsMailbox: no network is joined with the password of another.
PairIsWhole == part = "wifi" => Wifi!PairIsWhole

\* WifiSupervisor: a network that is lost is tried again before long.
LinkIsPursued == part = "wifi" => Wifi!LinkIsPursued

\* MqttPublisher: what Home Assistant shows of an entity is so, or is about to be.
BrokerIsTold == part = "mqtt" => Mq!BrokerIsTold

\* MqttSession: an attempt whose answer never comes does not block the connection.
NoAttemptHangs == part = "mqtt" => Mq!NoAttemptHangs

\* SensorService: a temperature is that of the sensor's own probe.
TemperatureIsOfItsProbe == part = "sensors" => Sens!TemperatureIsOfItsProbe

\* SensorService: the missing-sensor alarm tells the truth.
MissingIsTold == part = "sensors" => Sens!MissingIsTold

\* DisplayServices: the panel shows the frame but for the rows still to be sent.
PanelShowsTheFrame == part = "panel" => Pan!PanelShowsTheFrame

\* DisplayScheduler: every alarm comes round.
AlarmsComeRound == part = "screens" => Scr!AlarmsComeRound
=============================================================================
