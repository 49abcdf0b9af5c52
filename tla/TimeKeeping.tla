---------------------------- MODULE TimeKeeping ----------------------------
(***************************************************************************)
(* The time of a controller (CoreEngine/TimeKeeper, CoreEsp32/TimeService, *)
(* Ds1307Rtc).  Two clocks run besides the true one: the controller's and  *)
(* the chip's; each is kept as how far it is behind, so that time needs no *)
(* bound.  An answer of the time server comes on another task and is taken *)
(* over by the next pass of the main loop, with the lag it has by then.    *)
(***************************************************************************)
EXTENDS Integers, Ages

CONSTANTS Resync, Retry,      \* RESYNC_INTERVAL_MS, RETRY_INTERVAL_MS
          MaxPass,            \* bound: the longest the main loop takes to come round
          Wrong,              \* bound: how far behind a half written chip is
          MaxDrift, MaxMishaps

TimeAssumption ==
  /\ {Resync, Retry, MaxPass} \subseteq Nat \ {0} /\ {Wrong, MaxDrift, MaxMishaps} \subseteq Nat
  /\ Wrong > MaxPass + MaxDrift

VARIABLES on,        \* FALSE from a restart to begin()
          clock,     \* TimeKeeper: where its time is from, and how far it is behind
          net,       \* TimeKeeper: netUp, armed, syncedSinceUp, hasAttempt, ever synced
          sync, attempt,   \* ages of the last synchronisation and the last attempt
          started,   \* sntpStarted
          answer,    \* the server's time that waits for the loop: g_syncPending, g_syncUtc
          rtc,       \* rtcPresent, rtcValid: what the status shows of the chip
          chip,      \* DS1307: it runs on valid registers, and how far it is behind
          late,      \* since the last pass
          drift, reached, mishaps   \* history: of the chip since written or read; since up

vars == <<on, clock, net, sync, attempt, started, answer, rtc, chip, late, drift, reached, mishaps>>

Cap == Resync + Retry + 2 * MaxPass + 1

Nothing == [set |-> FALSE, behind |-> 0]
Unset == [source |-> "None", behind |-> 0]
NoNet == [up |-> FALSE, armed |-> FALSE, synced |-> FALSE, attempted |-> FALSE, ever |-> FALSE]

Init ==
  /\ on = FALSE /\ clock = Unset /\ net = NoNet /\ sync = Cap /\ attempt = Cap
  /\ started = FALSE /\ answer = Nothing /\ rtc = [present |-> FALSE, valid |-> FALSE]
  /\ chip \in [runs : BOOLEAN, behind : {0, Wrong}]
  /\ late = 0 /\ drift = 0 /\ reached = Cap /\ mishaps = 0

-----------------------------------------------------------------------------

\* The chip answers with a time, with registers that make none, or not at all.
Begin ==
  /\ ~on /\ on' = TRUE
  /\ \E there \in BOOLEAN :
       /\ there \/ mishaps < MaxMishaps
       /\ mishaps' = IF there THEN mishaps ELSE mishaps + 1
       /\ rtc' = [present |-> there, valid |-> there /\ chip.runs]
       /\ clock' = IF there /\ chip.runs THEN [source |-> "Rtc", behind |-> chip.behind] ELSE Unset
  /\ late' = 0 /\ drift' = 0
  /\ UNCHANGED <<net, sync, attempt, started, answer, chip, reached>>

OnNetworkUp ==
  /\ on /\ ~net.up
  /\ net' = [net EXCEPT !.up = TRUE, !.armed = TRUE, !.synced = FALSE, !.attempted = ~started]
  /\ attempt' = IF started THEN attempt ELSE 0
  /\ started' = TRUE /\ reached' = 0
  /\ UNCHANGED <<on, clock, sync, answer, rtc, chip, late, drift, mishaps>>

OnNetworkDown ==
  /\ on /\ net.up
  /\ net' = [net EXCEPT !.up = FALSE]
  /\ UNCHANGED <<on, clock, sync, attempt, started, answer, rtc, chip, late, drift, reached, mishaps>>

\* The callback of the network stack; a request may be answered after the link went down.
OnSntpSync ==
  /\ on /\ started
  /\ answer' = [set |-> TRUE, behind |-> 0]
  /\ UNCHANGED <<on, clock, net, sync, attempt, started, rtc, chip, late, drift, reached, mishaps>>

-----------------------------------------------------------------------------
(* TimeService::tick *)

SyncIsDue(n, s, a) ==
  n.up /\ \/ n.armed /\ ~n.attempted
          \/ n.ever /\ s >= Resync
          \/ ~n.synced /\ n.attempted /\ a >= Retry

\* What the write of a time to the chip may leave: the time; or it fails at the
\* first byte or after some, with a time that is neither, or none.
Writes(behind) ==
  {[ok |-> TRUE, chip |-> [runs |-> TRUE, behind |-> behind]]}
    \cup (IF mishaps < MaxMishaps
          THEN {[ok |-> FALSE, chip |-> c] :
                  c \in {chip, [runs |-> TRUE, behind |-> Wrong], [runs |-> FALSE, behind |-> Wrong]}}
          ELSE {})

\* Mistake: a write that failed leaves what was known of the chip.
RtcAfterTrusting(ok) == IF ok THEN [present |-> TRUE, valid |-> TRUE] ELSE rtc

RtcAfter(ok) == IF ok THEN [present |-> TRUE, valid |-> TRUE] ELSE [rtc EXCEPT !.present = FALSE]

TakeAnswer ==
  /\ clock' = [source |-> "Ntp", behind |-> answer.behind]
  /\ \E w \in Writes(answer.behind) :
       /\ chip' = w.chip
       /\ rtc' = RtcAfter(w.ok)
       /\ mishaps' = IF w.ok THEN mishaps ELSE mishaps + 1
  /\ drift' = 0 /\ answer' = Nothing

KeepTime == UNCHANGED <<clock, chip, rtc, mishaps, drift, answer>>

Tick ==
  /\ on
  /\ IF answer.set THEN TakeAnswer ELSE KeepTime
  /\ sync' = IF answer.set THEN 0 ELSE sync
  /\ \E n \in {IF answer.set THEN [net EXCEPT !.ever = TRUE, !.synced = TRUE, !.armed = FALSE] ELSE net} :
       \E due \in {started /\ SyncIsDue(n, sync', attempt)} :
         /\ net' = [n EXCEPT !.attempted = @ \/ due]
         /\ attempt' = IF due THEN 0 ELSE attempt
  /\ late' = 0
  /\ UNCHANGED <<on, started, reached>>

-----------------------------------------------------------------------------

Elapse ==
  /\ late < MaxPass /\ late' = late + 1
  /\ sync' = Older(sync, 1, Cap) /\ attempt' = Older(attempt, 1, Cap) /\ reached' = Older(reached, 1, Cap)
  /\ answer' = IF answer.set THEN [answer EXCEPT !.behind = @ + 1] ELSE answer
  /\ UNCHANGED <<on, clock, net, started, rtc, chip, drift, mishaps>>

Drift ==
  /\ on /\ chip.runs /\ drift < MaxDrift /\ chip.behind < Wrong
  /\ drift' = drift + 1 /\ chip' = [chip EXCEPT !.behind = @ + 1]
  /\ UNCHANGED <<on, clock, net, sync, attempt, started, answer, rtc, late, reached, mishaps>>

\* The chip keeps running on its battery, or stops.
Restart ==
  /\ on /\ mishaps < MaxMishaps /\ mishaps' = mishaps + 1
  /\ on' = FALSE /\ clock' = Unset /\ net' = NoNet /\ sync' = Cap /\ attempt' = Cap
  /\ started' = FALSE /\ answer' = Nothing /\ rtc' = [present |-> FALSE, valid |-> FALSE]
  /\ chip' \in {chip, [chip EXCEPT !.runs = FALSE]}
  /\ late' = 0 /\ drift' = 0 /\ reached' = Cap

Next == Begin \/ OnNetworkUp \/ OnNetworkDown \/ OnSntpSync \/ Tick \/ Elapse \/ Drift \/ Restart

Spec == Init /\ [][Next]_vars

-----------------------------------------------------------------------------
(* Properties. *)

(* The clock that came from the server is behind by no more than the main   *)
(* loop took to come round, and a chip that is shown as present and valid   *)
(* has the clock's time but for its own drift, whatever became of the       *)
(* writes (TimeService::begin, tick).                                       *)
ClocksAgree ==
  /\ clock.source = "Ntp" => clock.behind <= MaxPass
  /\ rtc.present /\ rtc.valid => /\ clock.source # "None" /\ chip.runs
                                 /\ chip.behind = clock.behind + drift

(* With the network up for a pass or longer, the last synchronisation is    *)
(* recent or another was asked for recently: no order of links, answers and *)
(* passes leaves the clock alone (TimeKeeper::ntpSyncDue; BRIEF.md:377).    *)
ClockIsTended ==
  net.up /\ reached > MaxPass => sync <= Resync + MaxPass \/ attempt <= Retry + MaxPass

-----------------------------------------------------------------------------
(* The inductive invariant behind both.                                    *)

\* An answer is no older than the pass it waits for; what is known of the chip is so;
\* and the last pass with the network up has left a recent time or a recent request.
TimeFits ==
  /\ clock \in [source : {"None", "Rtc", "Ntp"}, behind : Nat]
  /\ chip \in [runs : BOOLEAN, behind : Nat]
  /\ net \in [up : BOOLEAN, armed : BOOLEAN, synced : BOOLEAN, attempted : BOOLEAN, ever : BOOLEAN]
  /\ answer \in [set : BOOLEAN, behind : Nat] /\ rtc \in [present : BOOLEAN, valid : BOOLEAN]
  /\ {sync, attempt, reached} \subseteq 0..Cap /\ late \in 0..MaxPass /\ drift \in Nat
  /\ answer.set => on /\ answer.behind <= late
  /\ ClocksAgree
  /\ net.up => on /\ started /\ (net.synced \/ net.armed)
  /\ net.synced => net.ever
  /\ net.up /\ reached > late => sync <= Resync + late \/ attempt <= Retry + late
=============================================================================
