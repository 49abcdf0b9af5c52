-------------------------------- MODULE Mqtt --------------------------------
(***************************************************************************)
(* The MQTT connection of a controller (NetEngine): MqttSession decides    *)
(* when to connect, to give up and to close; MqttPublisher brings every    *)
(* entity's value to the broker, all of them when a session starts and     *)
(* then those that change; MqttInbound answers every command of Home       *)
(* Assistant with the value the entity really has.                         *)
(*                                                                         *)
(* ConnectivityRuntime ticks both once per slow pass and publishes in the  *)
(* fast passes between.  The connection itself and the messages it         *)
(* delivers belong to the AsyncTCP task.  Times are in slow passes.  When  *)
(* the full refresh is due, once a minute, is left open.                   *)
(***************************************************************************)
EXTENDS Integers, FiniteSets

CONSTANTS Broker, None,
          Entities,       \* their number; an entity is its index
          Value,
          BackoffFirst, BackoffMax, AttemptTimeout, EventOutbox,
          MaxChanges      \* bound of the model: endpoints entered

\* In the code 5 s, 60 s and 15 s, and a pass of 1 s.
MqttAssumption ==
  /\ Entities \in Nat
  /\ {BackoffFirst, AttemptTimeout} \subseteq Nat \ {0} /\ BackoffMax \in Nat
  /\ 4 * BackoffFirst > AttemptTimeout /\ 4 * BackoffFirst <= BackoffMax

Entity == 0..(Entities - 1)

VARIABLES endpoint,   \* the MQTT settings: a broker, or None
          wifi,       \* WifiSupervisor.linkUp()
          ses,        \* MqttSession
          server,     \* the broker the client is configured for
          wire,       \* AsyncMqttClient's connection
          pub,        \* MqttPublisher
          value,      \* what the entities really are
          bits,       \* NetSignals.republish
          said,       \* history: what this session has told the broker
          owed,       \* history: entities commanded and not reported since
          hung,       \* history: ticks a connection has been opening
          changes

loop == <<ses, server, wire, pub, said, hung>>
vars == <<endpoint, wifi, value, bits, owed, changes, loop>>

Lower(a, b) == IF a < b THEN a ELSE b
Less(n) == IF n > 0 THEN n - 1 ELSE 0
HungCap == 3 * BackoffFirst + AttemptTimeout + 2

-----------------------------------------------------------------------------
(* MqttSession.tick().  Each step is given what the one before has left. *)

NoActions == [disconnect |-> FALSE, force |-> FALSE, abort |-> FALSE, configure |-> FALSE,
              connect |-> FALSE, started |-> FALSE, ended |-> FALSE]

Connected == wire.state = "open"

\* begin().
NewSession(ep) ==
  [ep |-> ep, configure |-> ep # None, backoff |-> BackoffFirst, next |-> 0, pending |-> FALSE,
   age |-> 0, aborted |-> FALSE, effective |-> FALSE, wifi |-> FALSE]

\* 1. Another endpoint.
Changed(p) ==
  IF endpoint = p.s.ep THEN p
  ELSE [s |-> [p.s EXCEPT !.ep = endpoint, !.configure = TRUE, !.backoff = BackoffFirst, !.next = 0,
                          !.pending = FALSE],
        a |-> [p.a EXCEPT !.disconnect = Connected, !.abort = ~Connected /\ p.s.pending]]

\* 2. No endpoint.
Disabled(p) ==
  [s |-> [p.s EXCEPT !.effective = FALSE, !.configure = FALSE, !.pending = FALSE, !.wifi = wifi],
   a |-> [p.a EXCEPT !.disconnect = Connected, !.ended = p.s.effective]]

\* 3., 4. Wi-Fi edges.
Edged(p) ==
  LET s == [p.s EXCEPT !.pending = @ /\ wifi = p.s.wifi] IN
  [s |-> IF wifi /\ ~p.s.wifi THEN [s EXCEPT !.backoff = BackoffFirst, !.next = 0] ELSE s,
   a |-> [p.a EXCEPT !.force = ~wifi /\ Connected]]

\* Mistake: an attempt without an answer is left to the next one.
TimedOutNever(p) == p

\* 5. An attempt without an answer is torn down, once.
TimedOut(p) ==
  IF wifi /\ ~Connected /\ p.s.pending /\ ~p.s.aborted /\ p.s.age >= AttemptTimeout
  THEN [s |-> [p.s EXCEPT !.aborted = TRUE], a |-> [p.a EXCEPT !.abort = TRUE]]
  ELSE p

\* 6. The client learns the endpoint.
Configured(p) ==
  IF p.s.configure /\ ~Connected
  THEN [s |-> [p.s EXCEPT !.configure = FALSE, !.next = 0], a |-> [p.a EXCEPT !.configure = TRUE]]
  ELSE p

\* 7. The next attempt.
Attempted(p) ==
  IF wifi /\ ~Connected /\ p.s.next = 0
  THEN [s |-> [p.s EXCEPT !.pending = TRUE, !.age = 0, !.aborted = FALSE,
                          !.next = p.s.backoff, !.backoff = Lower(2 * @, BackoffMax)],
        a |-> [p.a EXCEPT !.connect = TRUE]]
  ELSE p

\* 8. The session begins and ends.
Settled(p) ==
  LET now == wifi /\ Connected
      s == [p.s EXCEPT !.effective = now, !.wifi = wifi] IN
  [s |-> IF now /\ ~p.s.effective THEN [s EXCEPT !.backoff = BackoffFirst, !.pending = FALSE] ELSE s,
   a |-> [p.a EXCEPT !.started = now /\ ~p.s.effective, !.ended = ~now /\ p.s.effective]]

SessionTick ==
  LET p == Changed([s |-> ses, a |-> NoActions]) IN
  IF endpoint = None THEN Disabled(p)
  ELSE Settled(Attempted(Configured(TimedOut(Edged(p)))))

Aged(s) == [s EXCEPT !.next = Less(@), !.age = IF s.pending THEN Lower(@ + 1, AttemptTimeout) ELSE 0]

-----------------------------------------------------------------------------
(* AsyncMqttClient.  It is connected() from the CONNACK on.  Until then     *)
(* disconnect() does nothing, and until it is closed connect() does         *)
(* nothing.                                                                *)

Closed == [state |-> "closed", to |-> None]

Ended(a) ==
  IF Connected /\ a.force THEN {Closed}
  ELSE IF Connected /\ a.disconnect THEN {Closed, [wire EXCEPT !.state = "closing"]}
  ELSE IF ~Connected /\ a.abort THEN {Closed}
  ELSE {wire}
Redialled(w, a, to) ==
  IF a.connect /\ w.state = "closed" THEN [state |-> "opening", to |-> to] ELSE w

\* The broker answers or refuses; the connection breaks, or its closing is done.  The
\* client that is to open one may also hang there.
Wire ==
  /\ wire' \in {Closed} \cup (IF wire.state = "opening" THEN {[wire EXCEPT !.state = "open"]} ELSE {})
  /\ wire' # wire
  /\ UNCHANGED <<endpoint, wifi, value, bits, owed, changes, ses, server, pub, said, hung>>

-----------------------------------------------------------------------------
(* MqttPublisher. *)

Silent == [e \in Entity |-> None]
Idle == [pub EXCEPT !.phase = "Idle", !.cursor = 0, !.outbox = 0]
Discovering == [pub EXCEPT !.phase = "Discovery", !.cursor = 0, !.outbox = 0]

\* Mistake: refresh() forgets what is still to be sent.
RefreshedAnew(q, full) ==
  [q EXCEPT !.dirty = {e \in Entity : full \/ value[e] # q.current[e]}, !.current = value]

\* refresh().
Refreshed(q, full) ==
  [q EXCEPT !.dirty = @ \cup {e \in Entity : full \/ value[e] # q.current[e]}, !.current = value]

\* onSessionStart(), onSessionEnd() and the republish bits.
Told(a) ==
  LET q == IF a.ended THEN Idle ELSE IF a.started THEN Discovering ELSE pub IN
  [q EXCEPT !.dirty = @ \cup bits]

\* ConnectivityRuntime.tick(), steps 3 to 5.
Tick ==
  /\ \E p \in {SessionTick} :
       /\ ses' = Aged(p.s)
       /\ server' = IF p.a.configure THEN endpoint ELSE server
       /\ \E w \in Ended(p.a) : wire' = Redialled(w, p.a, server')
       /\ \E full \in BOOLEAN : pub' = Refreshed(Told(p.a), full)
       /\ said' = IF p.a.started THEN Silent ELSE said
       /\ hung' = IF wire'.state = "opening" /\ wifi /\ ses.wifi /\ ses.ep = endpoint /\ endpoint # None
                  THEN Lower(hung + 1, HungCap) ELSE 0
  /\ bits' = {}
  /\ UNCHANGED <<endpoint, wifi, value, owed, changes>>

\* One round of the loop of pump(); a publish() that fails is tried again next time.
Sending == ses.effective /\ wire.state = "open"
Sent(q) == pub' = q /\ UNCHANGED <<said, owed>>
Published(e, q) ==
  /\ pub' = [q EXCEPT !.dirty = @ \ {e}]
  /\ said' = [said EXCEPT ![e] = pub.current[e]]
  /\ owed' = owed \ {e}

First(set) == CHOOSE e \in set : \A f \in set : e <= f

Describe == pub.phase = "Discovery" /\
  Sent(IF pub.cursor < Entities THEN [pub EXCEPT !.cursor = @ + 1] ELSE [pub EXCEPT !.phase = "Availability"])
Announce == pub.phase = "Availability" /\ Sent([pub EXCEPT !.phase = "States", !.cursor = 0])
Report == pub.phase = "States" /\
  IF pub.cursor < Entities THEN Published(pub.cursor, [pub EXCEPT !.cursor = @ + 1])
  ELSE Sent([pub EXCEPT !.phase = "Subscribe"])
Subscribe == pub.phase = "Subscribe" /\ Sent([pub EXCEPT !.phase = "Live", !.cursor = 0])
Update ==
  /\ pub.phase = "Live"
  /\ IF pub.dirty # {} THEN Published(First(pub.dirty), pub)
     ELSE pub.outbox > 0 /\ Sent([pub EXCEPT !.outbox = @ - 1])

Pump ==
  /\ Sending
  /\ Describe \/ Announce \/ Report \/ Subscribe \/ Update
  /\ UNCHANGED <<endpoint, wifi, value, bits, changes, ses, server, wire, hung>>

\* onEvent(): a full outbox drops its oldest.
Event ==
  /\ pub.phase # "Idle" /\ pub.outbox < EventOutbox
  /\ pub' = [pub EXCEPT !.outbox = @ + 1]
  /\ UNCHANGED <<endpoint, wifi, value, bits, owed, changes, ses, server, wire, said, hung>>

-----------------------------------------------------------------------------
(* MqttInbound and what goes on around. *)

\* handleMqttCommand() sets the bit whatever becomes of the command.
Answered(posted) == TRUE

\* A command for an entity: malformed, refused by a full queue, or posted.  What the loop
\* then makes of it is Change.
Command(e) ==
  /\ wire.state = "open" /\ pub.phase = "Live"
  /\ \E posted \in BOOLEAN : bits' = IF Answered(posted) THEN bits \cup {e} ELSE bits
  /\ owed' = owed \cup {e}
  /\ UNCHANGED <<endpoint, wifi, value, changes, loop>>

Change ==
  /\ \E e \in Entity, v \in Value : v # value[e] /\ value' = [value EXCEPT ![e] = v]
  /\ UNCHANGED <<endpoint, wifi, bits, owed, changes, loop>>

Enter ==
  /\ changes < MaxChanges /\ changes' = changes + 1
  /\ endpoint' \in (Broker \cup {None}) \ {endpoint}
  /\ UNCHANGED <<wifi, value, bits, owed, loop>>

Wifi ==
  /\ wifi' = ~wifi
  /\ UNCHANGED <<endpoint, value, bits, owed, changes, loop>>

Init ==
  /\ endpoint \in Broker \cup {None} /\ wifi = FALSE
  /\ ses = NewSession(endpoint)
  /\ server = None /\ wire = Closed
  /\ value \in [Entity -> Value]
  /\ pub = [phase |-> "Idle", cursor |-> 0, dirty |-> {}, current |-> Silent, outbox |-> 0]
  /\ bits = {} /\ said = Silent /\ owed = {} /\ hung = 0 /\ changes = 0

Next == \/ Tick \/ Pump \/ Event \/ Wire \/ Enter \/ Wifi \/ Change
        \/ \E e \in Entity : Command(e)

Spec == Init /\ [][Next]_vars

-----------------------------------------------------------------------------
(* Properties. *)

Reported(e) == pub.phase \in {"Subscribe", "Live"} \/ (pub.phase = "States" /\ pub.cursor > e)

\* Home Assistant shows what is: in a session, the broker has been told the value the
\* publisher holds of every entity, and since the last command for it, except where the
\* entity is still in line to be reported, however many publishes failed, values came and
\* went or sessions broke in between.
BrokerIsTold ==
  Sending => \A e \in Entity : Reported(e) /\ e \notin pub.dirty \cup bits
                               => said[e] = pub.current[e] /\ e \notin owed

\* An attempt whose answer never comes does not block the connection: it is torn down
\* within the first two pauses and one timeout of the time when Wi-Fi came up or the
\* endpoint changed.
NoAttemptHangs == hung <= 3 * BackoffFirst + AttemptTimeout + 1

(* Inductive: PublisherFits says BrokerIsTold, in a session and out of it.  *)
(* SessionFits tells how long the connection may have been opening in an    *)
(* attempt under way, by the pause after which the next one comes: the      *)
(* first, the second, or a later one, which is longer than the timeout.     *)
PublisherFits ==
  /\ pub \in [phase : {"Idle", "Discovery", "Availability", "States", "Subscribe", "Live"}, cursor : Nat,
              dirty : SUBSET Entity, current : [Entity -> Value \cup {None}], outbox : Nat]
  /\ said \in [Entity -> Value \cup {None}] /\ value \in [Entity -> Value]
  /\ owed \subseteq Entity /\ bits \subseteq Entity
  /\ \A e \in Entity : Reported(e) /\ e \notin pub.dirty \cup bits => said[e] = pub.current[e] /\ e \notin owed

InFirst(s) == s.backoff = 2 * BackoffFirst /\ s.age + s.next = BackoffFirst
InSecond(s) == s.backoff = 4 * BackoffFirst /\ s.age + s.next = 2 * BackoffFirst
InLater(s) == s.backoff >= 4 * BackoffFirst /\ s.age + s.next > AttemptTimeout
OpenFor(s, n) == \/ InFirst(s) /\ n <= s.age
                 \/ InSecond(s) /\ n <= BackoffFirst + s.age
                 \/ InLater(s) /\ n <= 3 * BackoffFirst + s.age

Pause(n) == n \in {BackoffFirst, 2 * BackoffFirst} \/ n >= 4 * BackoffFirst

SessionFits ==
  /\ ses \in [ep : Broker \cup {None}, configure : BOOLEAN, backoff : Nat, next : Nat, pending : BOOLEAN,
              age : 0..AttemptTimeout, aborted : BOOLEAN, effective : BOOLEAN, wifi : BOOLEAN]
  /\ wire \in [state : {"closed", "opening", "open", "closing"}, to : Broker \cup {None}]
  /\ endpoint \in Broker \cup {None} /\ server \in Broker \cup {None} /\ wifi \in BOOLEAN /\ hung \in Nat
  /\ Pause(ses.backoff)
  /\ ses.pending => ses.wifi /\ ~ses.configure /\ ~ses.effective
  /\ ses.pending /\ ~ses.aborted => OpenFor(ses, hung)
  /\ wire.state = "opening" /\ ses.wifi /\ ses.ep # None => ses.pending /\ ~ses.aborted
  /\ hung > 0 => ses.pending /\ ~ses.aborted
=============================================================================
