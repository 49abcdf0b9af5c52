------------------------------ MODULE RelayBank ------------------------------
(***************************************************************************)
(* RelayBank (common/lib/HwEngine): per-channel arbitration between the    *)
(* safety, exercise and control request slots, the minimum ON/OFF lock,    *)
(* the safety bypass, the OTA inhibit and the two event-log records.       *)
(*                                                                         *)
(* `bank` is the whole object; every operation is an operator from a bank  *)
(* to a bank, so that HwRuntime can chain several of them in one pass of   *)
(* the loop.  Channels outside Channel are the unconfigured ones: requests *)
(* for them are refused and their output bit stays 0.                      *)
(*                                                                         *)
(* Abstracted: `safety` and `exercise` join a level with its ...Set flag   *)
(* (the level is never read while the flag is clear); a timestamp is an    *)
(* age (module Ages); `_lockMs == 0` is the case since >= lock of lock = 0;*)
(* "Control" stands for every RelayReason a control request carries;       *)
(* hasChanged, which nothing reads, is left out.                           *)
(***************************************************************************)
EXTENDS Integers, Ages

CONSTANTS Channel,      \* the configured channels
          Lockable,     \* those under the minimum ON/OFF lock
          Logged,       \* those whose switching is recorded
          Emergency,    \* those whose safety slot has a user
          Exercised,    \* those whose exercise slot has a user
          LockValues,   \* the values the relayLock setting takes
          AgeCap        \* ages saturate here

ASSUME RelayBankAssumption ==
  /\ Lockable \subseteq Channel
  /\ Logged \subseteq Channel
  /\ Emergency \subseteq Channel
  /\ Exercised \subseteq Channel
  /\ AgeCap \in Nat
  /\ LockValues \subseteq 0..AgeCap
  /\ LockValues # {}

VARIABLES bank,         \* the RelayBank object
          log,          \* the events the last step recorded
          noticed       \* history: see Notice

vars == <<bank, log, noticed>>

Request == {"unset", "off", "on"}
Reason  == {"Boot", "Control", "AntiSeize", "Safety", "Inhibit"}

Bank == [control : SUBSET Channel,              \* control slot asks for ON
         safety : [Channel -> Request],
         exercise : [Channel -> Request],
         actual : SUBSET Channel,               \* channels that are ON
         since : [Channel -> 0..AgeCap],        \* age of lastChangeMs
         sinceOn : [Channel -> 0..AgeCap],      \* age of lastOnMs
         hasBeenOn : SUBSET Channel,
         reason : [Channel -> Reason],
         delayed : SUBSET Channel,              \* lockDelayed
         delayLogged : SUBSET Channel,
         lock : LockValues,
         inhibited : BOOLEAN]

Event == {"RelayChanged", "RelayLockDelay"} \X Channel

-----------------------------------------------------------------------------
(* The operations. *)

Configured(lockMs) ==
  [control |-> {}, safety |-> [c \in Channel |-> "unset"],
   exercise |-> [c \in Channel |-> "unset"], actual |-> {},
   since |-> [c \in Channel |-> 0], sinceOn |-> [c \in Channel |-> 0],
   hasBeenOn |-> {}, reason |-> [c \in Channel |-> "Boot"],
   delayed |-> {}, delayLogged |-> {}, lock |-> lockMs, inhibited |-> FALSE]

RequestControl(b, c, on) ==
  [b EXCEPT !.control = IF on THEN @ \cup {c} ELSE @ \ {c}]

RequestSafety(b, c, request) == [b EXCEPT !.safety[c] = request]

SetExercise(b, c, request) == [b EXCEPT !.exercise[c] = request]

SetLockMs(b, lockMs) == [b EXCEPT !.lock = lockMs]

\* effectiveOf: safety, else exercise, else control.
Wants(b, c) ==
  \/ b.safety[c] = "on"
  \/ b.safety[c] = "unset" /\ b.exercise[c] = "on"
  \/ b.safety[c] = "unset" /\ b.exercise[c] = "unset" /\ c \in b.control

Source(b, c) == IF b.safety[c] # "unset" THEN "Safety"
                ELSE IF b.exercise[c] # "unset" THEN "AntiSeize" ELSE "Control"

Mismatched(b) == {c \in Channel : Wants(b, c) # (c \in b.actual)}

\* Mistakes: the lock ends early; the lock never ends.
BypassEarly(b, c) == \/ c \notin Lockable
                     \/ Source(b, c) = "Safety"
                     \/ b.since[c] + 1 >= b.lock
BypassNeverExpires(b, c) == c \notin Lockable \/ Source(b, c) = "Safety"

Bypass(b, c) == \/ c \notin Lockable
                \/ Source(b, c) = "Safety"
                \/ b.since[c] >= b.lock

Switching(b) == IF b.inhibited THEN {} ELSE {c \in Mismatched(b) : Bypass(b, c)}
Held(b)      == IF b.inhibited THEN {} ELSE Mismatched(b) \ Switching(b)

\* update(): while inhibited only the delay flags are cleared.
Update(b) ==
  LET switching == Switching(b)
      on == (b.actual \ switching) \cup (switching \ b.actual)
  IN [b EXCEPT
        !.actual = on,
        !.since = [c \in Channel |-> IF c \in switching THEN 0 ELSE @[c]],
        !.sinceOn = [c \in Channel |-> IF ~b.inhibited /\ c \in b.actual \cup on
                                         THEN 0 ELSE @[c]],
        !.hasBeenOn = @ \cup (switching \cap on),
        !.reason = [c \in Channel |-> IF c \in switching THEN Source(b, c) ELSE @[c]],
        !.delayed = Held(b),
        !.delayLogged = IF b.inhibited THEN {} ELSE (@ \ switching) \cup Held(b)]

UpdateLog(b) == ({"RelayChanged"} \X (Switching(b) \cap Logged))
                  \cup ({"RelayLockDelay"} \X (Held(b) \ b.delayLogged))

\* setInhibited(): a call that changes nothing does nothing; the release
\* leaves everything to the next update().
SetInhibited(b, on) ==
  IF b.inhibited = on THEN b
  ELSE IF ~on THEN [b EXCEPT !.inhibited = FALSE]
  ELSE [b EXCEPT
          !.inhibited = TRUE,
          !.actual = {},
          !.since = [c \in Channel |-> IF c \in b.actual THEN 0 ELSE @[c]],
          !.sinceOn = [c \in Channel |-> IF c \in b.actual THEN 0 ELSE @[c]],
          !.reason = [c \in Channel |-> IF c \in b.actual THEN "Inhibit" ELSE @[c]],
          !.delayed = @ \ b.actual,
          !.delayLogged = @ \ b.actual]

InhibitLog(b, on) == IF on /\ ~b.inhibited
                     THEN {"RelayChanged"} \X (b.actual \cap Logged) ELSE {}

\* d time units pass.
Aged(b, d) ==
  [b EXCEPT !.since = [c \in Channel |-> Older(@[c], d, AgeCap)],
            !.sinceOn = [c \in Channel |-> Older(@[c], d, AgeCap)]]

-----------------------------------------------------------------------------
(* A bank whose callers ask for anything at any time.  `noticed` is a      *)
(* history variable, computed from what can be seen outside the bank: the  *)
(* channels with a RelayLockDelay record since they last switched, or an   *)
(* update last found the outputs held off.                                 *)

Switched == {c \in Channel : (c \in bank.actual) # (c \in bank'.actual)}
Notice == noticed' = (noticed \cup {c \in Channel : <<"RelayLockDelay", c>> \in log'})
                        \ Switched

Init == /\ \E lockMs \in LockValues : bank = Configured(lockMs)
        /\ log = {}
        /\ noticed = {}

Quiet == log' = {} /\ UNCHANGED noticed

AskControl == \E c \in Channel, on \in BOOLEAN :
                 bank' = RequestControl(bank, c, on) /\ Quiet
AskSafety == \E c \in Emergency, on \in {"off", "on"} :
                 bank' = RequestSafety(bank, c, on) /\ Quiet
ClearSafety == \E c \in Emergency : bank' = RequestSafety(bank, c, "unset") /\ Quiet
AskExercise == \E c \in Exercised, request \in Request :
                 bank' = SetExercise(bank, c, request) /\ Quiet
ChangeLock == \E lockMs \in LockValues : bank' = SetLockMs(bank, lockMs) /\ Quiet
Inhibit == \E on \in BOOLEAN : /\ bank' = SetInhibited(bank, on)
                               /\ log' = InhibitLog(bank, on)
                               /\ Notice
DoUpdate == /\ bank' = Update(bank)
            /\ log' = UpdateLog(bank)
            /\ IF bank.inhibited THEN noticed' = {} ELSE Notice
Elapse == \E d \in 1..AgeCap : bank' = Aged(bank, d) /\ Quiet
\* A watchdog or OTA restart: configure() on a fresh object.
Reboot == /\ \E lockMs \in LockValues : bank' = Configured(lockMs)
          /\ log' = {}
          /\ noticed' = {}

Next == \/ AskControl \/ AskSafety \/ ClearSafety \/ AskExercise \/ ChangeLock
        \/ Inhibit \/ DoUpdate \/ Elapse \/ Reboot

Spec == Init /\ [][Next]_vars

\* The loop task never stops calling update(), and time never stops.
FairSpec == Spec /\ WF_vars(DoUpdate) /\ WF_vars(Elapse)

-----------------------------------------------------------------------------
(* Properties. *)

\* The variables have their types.
TypeOK == /\ bank \in Bank
          /\ log \subseteq Event
          /\ noticed \subseteq Channel

\* RelayBank.h, "OTA output inhibit": while inhibited every channel is OFF,
\* whatever the three request slots, the safety slot included, ask for.
InhibitedAllOff == bank.inhibited => bank.actual = {}

\* README, "Relays: slots, lock and bypass": the bank implements the dwell
\* contract of DwellContacts.  An exercise or control request never shortens a
\* dwell, an OTA switch-off starts a new one, and so does a reboot.
Contract == INSTANCE DwellContacts WITH
              Contact <- Channel, Protected <- Lockable, Dwells <- LockValues,
              closed <- bank.actual, rest <- bank.since, dwell <- bank.lock,
              demand <- bank.safety, cut <- bank.inhibited
DwellContract == Contract!Spec

\* Every switching of a logged channel is recorded in the step that makes it,
\* by update() and by the inhibit alike, and nothing else is; a reboot, which
\* clears the object, records nothing.
SwitchingIsRecorded ==
  [][~Reboot => \A c \in Channel :
        (<<"RelayChanged", c>> \in log') <=>
           (c \in Logged /\ (c \in bank.actual) # (c \in bank'.actual))]_vars

\* A dwell that is cut short names its cause: the last reason of a lockable
\* channel that switched inside its lock is Safety or Inhibit.
ShortDwellIsExplained ==
  [][~Reboot => \A c \in Lockable :
        (c \in bank.actual) # (c \in bank'.actual) /\ bank.since[c] < bank.lock
          => bank'.reason[c] \in {"Safety", "Inhibit"}]_vars

\* RelayLockDelay is recorded once per delay episode: never again before the
\* channel has switched (or the outputs have been held off meanwhile), however
\* often the request is withdrawn and repeated.
NoticeOnce ==
  [][\A c \in Channel : <<"RelayLockDelay", c>> \in log' => c \notin noticed]_vars

\* A delay is never silent: a channel whose request is being held has its
\* record in the log since it last switched.
HeldIsNoticed == bank.delayed \subseteq noticed

\* A request that stands, and is not held off for good, is applied in the end
\* and then kept: the lock delays, it does not drop.
Standing(c) == Wants(bank, c) /\ ~bank.inhibited
RequestIsServed ==
  \A c \in Channel : <>[]Standing(c) => <>[](c \in bank.actual)
=============================================================================
