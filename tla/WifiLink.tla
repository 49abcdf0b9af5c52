------------------------------ MODULE WifiLink ------------------------------
(***************************************************************************)
(* The Wi-Fi of a controller (NetEngine/WifiSupervisor, applied by         *)
(* ConnectivityRuntime to the radio): joining the network of the settings  *)
(* and joining it again, with growing pauses; the access point over which  *)
(* a controller without a network is set up; scans; and how a new network  *)
(* gets from the web page into the settings, name and password in one.     *)
(*                                                                         *)
(* The loop task ticks once per slow pass.  The radio and the HTTP handler *)
(* run beside it.  A network is named by its ssid; its password is the     *)
(* part with the same name.                                                *)
(***************************************************************************)
EXTENDS Integers, FiniteSets

CONSTANTS Network, None,
          RetryFirst, RetryStep, RetryMax,     \* in slow passes, as all times here
          ScanTimeout, ApRetry, ApLinger, ApJoinWindow,
          MaxOffers     \* bound of the model: networks entered

VARIABLES settings,     \* wifiSsid and wifiPass
          box,          \* WifiCredsMailbox
          web,          \* what the HTTP handler still has to write there
          taken,        \* what the loop task has read there
          sup,          \* WifiSupervisor
          radio,        \* the ESP32's driver
          asked,        \* NetSignals.scanRequested
          told,         \* whether the time service holds the network for up
          tried,        \* history: ticks since the radio was last told to connect
          offers

vars == <<settings, box, web, taken, sup, radio, asked, told, tried, offers>>

Cap == RetryMax + ScanTimeout + 2
Later(age) == IF age < Cap THEN age + 1 ELSE Cap
Less(n) == IF n > 0 THEN n - 1 ELSE n
Lower(a, b) == IF a < b THEN a ELSE b

NoStop == -1    \* _apStopAtSet is not set
Blank == [ssid |-> None, pass |-> None]

-----------------------------------------------------------------------------
(* The settings: the mailbox between the HTTP handler and the loop.        *)

\* Mistake: the handler does not look whether a pair is still there.
MayOfferAlways == TRUE

MayOffer == box.state = "empty"

\* handleWifiSave(): a valid pair, taken up in one go or answered 503.
Offer(n) ==
  /\ web = None /\ offers < MaxOffers /\ MayOffer
  /\ web' = n /\ offers' = offers + 1
  /\ box' = [box EXCEPT !.state = "writing", !.ssid = n]
  /\ UNCHANGED <<settings, taken, sup, radio, asked, told, tried>>
Offered ==
  /\ web # None
  /\ web' = None
  /\ box' = [box EXCEPT !.state = "full", !.pass = web]
  /\ UNCHANGED <<settings, taken, sup, radio, asked, told, tried, offers>>

\* applyPendingWifiCreds(), ahead of the tick: take(), then both settings.
Take ==
  /\ sup.at = "mail" /\ box.state = "full"
  /\ box' = [box EXCEPT !.state = "reading"]
  /\ taken' = [Blank EXCEPT !.ssid = box.ssid]
  /\ UNCHANGED <<settings, web, sup, radio, asked, told, tried, offers>>
Apply ==
  /\ sup.at = "mail" /\ taken # Blank
  /\ settings' = [taken EXCEPT !.pass = box.pass]
  /\ box' = [box EXCEPT !.state = "empty", !.pass = None]
  /\ taken' = Blank
  /\ sup' = [sup EXCEPT !.at = "tick"]
  /\ UNCHANGED <<web, radio, asked, told, tried, offers>>
NoMail ==
  /\ sup.at = "mail" /\ taken = Blank /\ box.state # "full"
  /\ sup' = [sup EXCEPT !.at = "tick"]
  /\ UNCHANGED <<settings, box, web, taken, radio, asked, told, tried, offers>>

\* An imported backup may hold another pair, or none.
Imported(n) ==
  /\ sup.at = "mail" /\ taken = Blank /\ n # settings.ssid
  /\ offers < MaxOffers /\ offers' = offers + 1
  /\ settings' = [ssid |-> n, pass |-> n]
  /\ UNCHANGED <<box, web, taken, sup, radio, asked, told, tried>>

-----------------------------------------------------------------------------
(* WifiSupervisor.  Each step of tick() is given what the one before it has  *)
(* left: the supervisor s and the actions a.                                 *)

NoActions == [disconnect |-> FALSE, connect |-> FALSE, startAp |-> FALSE,
              stopAp |-> FALSE, startScan |-> FALSE, up |-> FALSE, down |-> FALSE]

Joined(s) == s.cached.ssid # None

\* begin().
Begun ==
  LET setup == settings.ssid = None IN
  [at |-> "mail", cached |-> settings, linkUp |-> FALSE, scanning |-> FALSE, scanAge |-> 0,
   mode |-> IF setup THEN "SetupAp" ELSE "Station", apActive |-> setup,
   apRetry |-> IF setup THEN ApRetry ELSE 0, apStop |-> NoStop, join |-> 0,
   retry |-> RetryFirst, next |-> IF setup THEN 0 ELSE RetryFirst]

Reconnect(s) == [s EXCEPT !.retry = RetryFirst, !.next = RetryFirst]

\* 1. A change of the settings.
Changed(p) ==
  LET s == [p.s EXCEPT !.cached = settings] IN
  IF settings = p.s.cached THEN p
  ELSE IF settings.ssid = None
  THEN [s |-> [s EXCEPT !.mode = "SetupAp", !.apActive = TRUE,
                        !.apRetry = IF p.s.apActive THEN @ ELSE ApRetry],
        a |-> [p.a EXCEPT !.disconnect = TRUE, !.startAp = ~p.s.apActive]]
  ELSE [s |-> IF p.s.apActive
              THEN [Reconnect(s) EXCEPT !.mode = "SetupApJoining", !.join = ApJoinWindow, !.apStop = NoStop]
              ELSE [Reconnect(s) EXCEPT !.mode = "Station"],
        a |-> [p.a EXCEPT !.disconnect = TRUE, !.connect = TRUE, !.down = p.s.linkUp]]

\* 2. The link has come or gone.
Linked(p, up) ==
  LET s == [p.s EXCEPT !.linkUp = up] IN
  IF Joined(s) /\ up /\ ~p.s.linkUp
  THEN [s |-> [s EXCEPT !.retry = RetryFirst,
                        !.apStop = IF s.mode = "SetupApJoining" THEN ApLinger ELSE @],
        a |-> [p.a EXCEPT !.up = TRUE]]
  ELSE IF Joined(s) /\ ~up /\ p.s.linkUp
  THEN [s |-> Reconnect(s), a |-> [p.a EXCEPT !.down = TRUE, !.disconnect = TRUE, !.connect = TRUE]]
  ELSE [p EXCEPT !.s = s]

\* A scan is over: back to the network.
ScanOver(s, a) ==
  IF Joined(s) /\ ~s.linkUp
  THEN [s |-> [Reconnect(s) EXCEPT !.scanning = FALSE], a |-> [a EXCEPT !.connect = TRUE]]
  ELSE [s |-> [s EXCEPT !.scanning = FALSE], a |-> a]

\* Mistake: a scan whose end the driver never reports goes on for ever.
ScannedToItsEnd(p, finished) ==
  IF asked /\ ~p.s.scanning
  THEN [s |-> [p.s EXCEPT !.scanning = TRUE, !.scanAge = 0],
        a |-> [p.a EXCEPT !.startScan = TRUE, !.disconnect = @ \/ (Joined(p.s) /\ ~p.s.linkUp)]]
  ELSE IF p.s.scanning /\ finished THEN ScanOver(p.s, p.a)
  ELSE p

\* 4. A scan needs the radio.
Scanned(p, finished) ==
  IF asked /\ ~p.s.scanning
  THEN [s |-> [p.s EXCEPT !.scanning = TRUE, !.scanAge = 0],
        a |-> [p.a EXCEPT !.startScan = TRUE, !.disconnect = @ \/ (Joined(p.s) /\ ~p.s.linkUp)]]
  ELSE IF p.s.scanning /\ (finished \/ p.s.scanAge >= ScanTimeout) THEN ScanOver(p.s, p.a)
  ELSE p

\* 5. The next attempt, after a pause that grows.
Retried(p) ==
  IF Joined(p.s) /\ ~p.s.linkUp /\ ~p.s.scanning /\ p.s.next = 0
  THEN LET pause == Lower(p.s.retry + RetryStep, RetryMax) IN
       [s |-> [p.s EXCEPT !.retry = pause, !.next = pause],
        a |-> [p.a EXCEPT !.disconnect = TRUE, !.connect = TRUE]]
  ELSE p

\* 6. The access point: kept up, and taken down behind a join or its window.
Maintained(p, apUp) ==
  LET starts == p.s.mode # "Station" /\ ~apUp /\ p.s.apRetry = 0
      over == p.s.mode = "SetupApJoining" /\ (p.s.apStop = 0 \/ p.s.join = 0)
      s == [p.s EXCEPT !.apRetry = IF starts THEN ApRetry ELSE @]
      a == [p.a EXCEPT !.startAp = @ \/ starts, !.stopAp = over]
  IN [s |-> IF over THEN [s EXCEPT !.mode = "Station", !.apActive = FALSE, !.apStop = NoStop] ELSE s,
      a |-> a]

Aged(s) == [s EXCEPT !.next = Less(@), !.apRetry = Less(@), !.apStop = Less(@), !.join = Less(@),
                     !.scanAge = IF s.scanning /\ @ < ScanTimeout THEN @ + 1 ELSE @, !.at = "mail"]

-----------------------------------------------------------------------------
(* The radio: applyWifiActions(), in its order, and what happens by itself. *)

Applied(a) ==
  LET r1 == IF a.disconnect THEN [radio EXCEPT !.link = FALSE, !.joins = FALSE] ELSE radio
      r2 == IF a.stopAp THEN {[r1 EXCEPT !.ap = FALSE]} ELSE {r1}
      r3 == IF a.startAp THEN UNION {{[r EXCEPT !.ap = TRUE], r} : r \in r2} ELSE r2
      r4 == {IF a.startScan THEN [r EXCEPT !.scan = TRUE] ELSE r : r \in r3}
  IN {IF a.connect THEN [r EXCEPT !.joins = TRUE] ELSE r : r \in r4}

\* ConnectivityRuntime.tick(): the supervisor, the radio, the time service.
Tick ==
  /\ sup.at = "tick"
  /\ \E p \in {Maintained(Retried(Scanned(Linked(Changed([s |-> sup, a |-> NoActions]), radio.link),
                                          sup.scanning /\ ~radio.scan)), radio.ap)} :
       /\ sup' = Aged(p.s)
       /\ radio' \in Applied(p.a)
       /\ told' = IF p.a.down THEN FALSE ELSE IF p.a.up THEN TRUE ELSE told
       /\ tried' = IF p.a.connect THEN 0 ELSE Later(tried)
  /\ asked' = FALSE
  /\ UNCHANGED <<settings, box, web, taken, offers>>

\* An attempt succeeds or comes to nothing, the network or the access point is lost,
\* a scan ends.
Radio ==
  /\ radio' \in {[radio EXCEPT !.link = TRUE], [radio EXCEPT !.link = FALSE, !.joins = FALSE],
                 [radio EXCEPT !.ap = FALSE], [radio EXCEPT !.scan = FALSE]} \ {radio}
  /\ radio'.link => radio.joins
  /\ UNCHANGED <<settings, box, web, taken, sup, asked, told, tried, offers>>

AskScan ==
  /\ ~asked /\ asked' = TRUE
  /\ UNCHANGED <<settings, box, web, taken, sup, radio, told, tried, offers>>

Init ==
  /\ settings \in {Blank} \cup {[ssid |-> n, pass |-> n] : n \in Network}
  /\ box = [state |-> "empty", ssid |-> None, pass |-> None]
  /\ web = None /\ taken = Blank
  /\ sup = Begun
  /\ radio = [link |-> FALSE, joins |-> settings # Blank, scan |-> FALSE, ap |-> settings = Blank]
  /\ asked = FALSE /\ told = FALSE /\ tried = 0 /\ offers = 0

Next == \/ \E n \in Network : Offer(n)
        \/ \E n \in Network \cup {None} : Imported(n)
        \/ Offered \/ Take \/ Apply \/ NoMail \/ Tick \/ Radio \/ AskScan

Spec == Init /\ [][Next]_vars

-----------------------------------------------------------------------------
(* Properties. *)

\* The supervisor never joins one network with the password of another: the two parts
\* go through the mailbox and into the settings as one.
PairIsWhole == settings.ssid = settings.pass

\* A network that has been lost is tried again before long, however many scans are
\* asked for, whatever the user enters meanwhile: a longest pause, and one scan.
LinkIsPursued ==
  sup.at = "mail" /\ Joined(sup) /\ ~sup.linkUp => tried <= RetryMax + ScanTimeout + 1

\* README: "The AP goes away after 120 s and never comes back": a controller that is
\* done with its access point has none.
SetupApEnds == sup.mode = "Station" => ~radio.ap
-----------------------------------------------------------------------------
(* The inductive invariants behind the first two.                          *)

WifiLinkAssumption ==
  /\ {RetryFirst, RetryStep, RetryMax} \subseteq Nat /\ RetryFirst <= RetryMax
  /\ ScanTimeout \in Nat \ {0} /\ {ApRetry, ApLinger, ApJoinWindow} \subseteq Nat

\* A pair is entered, taken and applied part by part: until its last part is there nobody
\* else touches the mailbox, and what has been read of it belongs to what is left.
Creds == [ssid : Network \cup {None}, pass : Network \cup {None}]
MailFits ==
  /\ settings \in Creds /\ taken \in Creds
  /\ box \in [state : {"empty", "writing", "full", "reading"}, ssid : Network \cup {None},
              pass : Network \cup {None}]
  /\ web # None => box.state = "writing" /\ box.ssid = web
  /\ box.state = "full" => box.pass = box.ssid
  /\ taken # Blank => box.state = "reading" /\ taken.ssid = box.ssid /\ box.pass = box.ssid
  /\ PairIsWhole

Supervisor ==
  [at : {"mail", "tick"}, cached : Creds, linkUp : BOOLEAN, scanning : BOOLEAN,
   scanAge : 0..ScanTimeout, mode : {"SetupAp", "Station", "SetupApJoining"}, apActive : BOOLEAN,
   apRetry : Nat, apStop : Nat \cup {NoStop}, join : Nat, retry : 0..RetryMax, next : 0..RetryMax]

Radios == [link : BOOLEAN, joins : BOOLEAN, scan : BOOLEAN, ap : BOOLEAN]

\* Without a link, an attempt lies no longer back than the pause that is left tells; a scan
\* holds the next one off for as long as it lasts.
PursuitFits ==
  /\ settings \in Creds /\ sup \in Supervisor /\ tried \in 0..Cap
  /\ radio \in Radios
  /\ Joined(sup) /\ ~sup.linkUp =>
       IF sup.scanning THEN tried <= RetryMax + sup.scanAge ELSE tried + sup.next <= RetryMax
=============================================================================
