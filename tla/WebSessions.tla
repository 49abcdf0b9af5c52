----------------------------- MODULE WebSessions -----------------------------
(***************************************************************************)
(* Who may do what over HTTP: the login, its throttle, the sessions, the   *)
(* grant a firmware upload needs, and the gate in front of every route     *)
(* (WebEngine, WebEsp32/SessionGate, NetEsp32/AdminAuth).                  *)
(*                                                                         *)
(* The requests run on the AsyncTCP task, one handler at a time; the loop  *)
(* task changes the pair of user and password.  A handler looks at the     *)
(* pair under one lock and at the sessions under another, and the pair may *)
(* change in between.  The pair has a generation, counted at each change,  *)
(* and a session is good for the one it was opened in.                     *)
(*                                                                         *)
(* A session's CSRF token is named by its sid.                             *)
(***************************************************************************)
EXTENDS Naturals, Sequences, FiniteSets, FiniteSetsExt

CONSTANTS Browser,
          Slots,        \* SESSION_SLOTS
          Ttl,          \* SESSION_TTL_MS
          GrantTtl,     \* OTA_GRANT_TTL_MS
          FreeFailures, \* FREE_FAILURES
          Lock,         \* LOCK_MS
          NoSid,
          MaxChanges    \* bound of the model: changes of the pair

VARIABLES pair, epoch,  \* AdminCredentials: whether neither part is empty, the generation
          slots,        \* SessionStore._slots
          throttle,     \* LoginThrottle: failures, and how long the lock lasts
          browser,      \* what each browser holds: the cookie, and the page's token
          handler,      \* what the AsyncTCP task is at
          upload,       \* an upload to /ota/
          guesses       \* history: the ages of the wrong guesses since the last right
                        \* one, those within LOCK_MS

vars == <<pair, epoch, slots, throttle, browser, handler, upload, guesses>>

\* There is always a sid that nobody has seen.
Sid == 1..(Slots + 2 * Cardinality(Browser) + 1)

\* `of` and `proof` are history: the generations whose pair was given at the login and
\* for the grant.
FreeSlot == [sid |-> NoSid, age |-> 0, grant |-> 0, epoch |-> 0, of |-> 0, proof |-> 0]
Rest == [at |-> "rest"]
NoUpload == [by |-> NoSid, admitted |-> FALSE, ended |-> FALSE]

Init ==
  /\ pair = FALSE /\ epoch = 0
  /\ slots = [i \in 1..Slots |-> FreeSlot]
  /\ throttle = [failures |-> 0, lock |-> 0]
  /\ browser = [b \in Browser |-> [sid |-> NoSid, csrf |-> NoSid]]
  /\ handler = Rest
  /\ upload = NoUpload
  /\ guesses = <<>>

-----------------------------------------------------------------------------
(* AdminCredentials, LoginThrottle and SessionStore. *)

\* Loop task: AdminAuth.set().
Change ==
  /\ epoch < MaxChanges /\ epoch' = epoch + 1
  /\ pair' \in BOOLEAN
  /\ UNCHANGED <<slots, throttle, browser, handler, upload, guesses>>

\* Whether what was given is right; an empty pair is never matched.
Answers == {FALSE, pair}

Allowed == throttle.lock = 0

\* Mistake: the lock comes one failure late.
FailedLate(t) == IF t.failures >= FreeFailures THEN [failures |-> 0, lock |-> Lock]
                 ELSE [t EXCEPT !.failures = @ + 1]

Failed(t) == IF t.failures + 1 >= FreeFailures THEN [failures |-> 0, lock |-> Lock]
             ELSE [t EXCEPT !.failures = @ + 1]

Used(s) == s.sid # NoSid
Stale(s, e) == Used(s) /\ (s.epoch # e \/ s.age >= Ttl)
Reaped(e) == [i \in 1..Slots |-> IF Stale(slots[i], e) THEN FreeSlot ELSE slots[i]]

\* The first free slot, or else that of the oldest session.
Place(ss) ==
  LET free == {i \in 1..Slots : ~Used(ss[i])}
      oldest == {i \in 1..Slots : \A j \in 1..Slots : ss[j].age <= ss[i].age}
  IN IF free # {} THEN Min(free) ELSE Min(oldest)

Unseen == Min(Sid \ ({slots[i].sid : i \in 1..Slots}
                     \cup UNION {{browser[b].sid, browser[b].csrf} : b \in Browser}))

Created(ss, e, of) ==
  [ss EXCEPT ![Place(ss)] = [FreeSlot EXCEPT !.sid = Unseen, !.epoch = e, !.of = of]]

Holds(ss, sid) == \E i \in 1..Slots : Used(ss[i]) /\ ss[i].sid = sid

\* authorize(), once the stale sessions are gone.
Authorized(ss, sid, csrf, level) ==
  \E i \in 1..Slots :
    /\ Used(ss[i]) /\ ss[i].sid = sid
    /\ level \in {"write", "ota"} => csrf = sid
    /\ level = "ota" => ss[i].grant > 0

-----------------------------------------------------------------------------
(* The handlers. *)

\* SessionGate.login(): the throttle, and the pair with its generation.
Login(b) ==
  /\ handler = Rest /\ Allowed
  /\ \E ok \in Answers : handler' = [at |-> "login", by |-> b, ok |-> ok, epoch |-> epoch]
  /\ UNCHANGED <<pair, epoch, slots, throttle, browser, upload, guesses>>

\* Mistake: the session is good for the generation there is now.
GenerationNow(h) == epoch

Generation(h) == h.epoch

WrongGuess ==
  /\ throttle' = Failed(throttle)
  /\ guesses' = Append(guesses, 0)
RightGuess ==
  /\ throttle' = [failures |-> 0, lock |-> 0]
  /\ guesses' = <<>>

\* The session, for the generation the pair was right in.
LoggedIn ==
  /\ handler.at = "login"
  /\ handler' = Rest
  /\ IF handler.ok
     THEN /\ RightGuess
          /\ slots' = Created(Reaped(Generation(handler)), Generation(handler), handler.epoch)
          /\ browser' = [browser EXCEPT ![handler.by] = [sid |-> Unseen, csrf |-> Unseen]]
     ELSE WrongGuess /\ UNCHANGED <<slots, browser>>
  /\ UNCHANGED <<pair, epoch, upload>>

\* Any other request: SessionGate.check() reads the generation first.
Level == [session |-> "read", logout |-> "write", grant |-> "write", upload |-> "ota"]
Request(b, what) ==
  /\ handler = Rest /\ browser[b].sid # NoSid
  /\ what = "upload" => upload = NoUpload
  /\ handler' = [at |-> "gate", by |-> b, what |-> what, epoch |-> epoch]
  /\ UNCHANGED <<pair, epoch, slots, throttle, browser, upload, guesses>>

\* admit(), and what the handler does first: /api/session tells the page its token,
\* an admitted upload is marked for the middleware behind its last chunk.
Gate ==
  /\ handler.at = "gate"
  /\ slots' = Reaped(handler.epoch)
  /\ LET held == browser[handler.by]
         ok == Authorized(slots', held.sid, held.csrf, Level[handler.what]) IN
     /\ handler' = IF ok /\ handler.what \in {"session", "logout", "grant"}
                   THEN [at |-> handler.what, by |-> handler.by] ELSE Rest
     /\ upload' = IF ok /\ handler.what = "upload"
                  THEN [NoUpload EXCEPT !.by = handler.by, !.admitted = TRUE] ELSE upload
  /\ UNCHANGED <<pair, epoch, throttle, browser, guesses>>

\* sessionInfo() reads the generation again.
Session ==
  /\ handler.at = "session"
  /\ slots' = Reaped(epoch)
  /\ LET sid == browser[handler.by].sid IN
     browser' = IF Holds(slots', sid) THEN [browser EXCEPT ![handler.by].csrf = sid] ELSE browser
  /\ handler' = Rest
  /\ UNCHANGED <<pair, epoch, throttle, upload, guesses>>

Logout ==
  /\ handler.at = "logout"
  /\ slots' = [i \in 1..Slots |-> IF slots[i].sid = browser[handler.by].sid THEN FreeSlot ELSE slots[i]]
  /\ browser' = [browser EXCEPT ![handler.by] = [sid |-> NoSid, csrf |-> NoSid]]
  /\ handler' = Rest
  /\ UNCHANGED <<pair, epoch, throttle, upload, guesses>>

\* grantOta(): the password again, under the same throttle.
Prove ==
  /\ handler.at = "grant"
  /\ \E ok \in Answers :
       handler' = IF Allowed THEN [at |-> "proved", by |-> handler.by, ok |-> ok, epoch |-> epoch]
                  ELSE Rest
  /\ UNCHANGED <<pair, epoch, slots, throttle, browser, upload, guesses>>
Grant ==
  /\ handler.at = "proved"
  /\ handler' = Rest
  /\ IF handler.ok
     THEN LET ss == Reaped(Generation(handler)) IN
          /\ RightGuess
          /\ slots' = [i \in 1..Slots |->
               IF Used(ss[i]) /\ ss[i].sid = browser[handler.by].sid
               THEN [ss[i] EXCEPT !.grant = GrantTtl, !.proof = handler.epoch] ELSE ss[i]]
     ELSE WrongGuess /\ UNCHANGED slots
  /\ UNCHANGED <<pair, epoch, browser, upload>>

-----------------------------------------------------------------------------
(* The upload goes on while other requests are answered. *)

\* Its last chunk: Update.end(), before any middleware runs.
LastChunk ==
  /\ handler = Rest /\ upload # NoUpload /\ ~upload.ended
  /\ upload' = [upload EXCEPT !.ended = TRUE]
  /\ UNCHANGED <<pair, epoch, slots, throttle, browser, handler, guesses>>

\* Mistake: the middleware asks the gate again.
PassesAgain(u) == Authorized(Reaped(epoch), browser[u.by].sid, browser[u.by].csrf, "ota")

\* The middleware lets through what the guard has marked.
Passes(u) == u.admitted \/ Authorized(Reaped(epoch), browser[u.by].sid, browser[u.by].csrf, "ota")

\* onEnd tells the loop; a refused request would never get there.
Answer ==
  /\ handler = Rest /\ upload.ended /\ Passes(upload)
  /\ upload' = NoUpload
  /\ UNCHANGED <<pair, epoch, slots, throttle, browser, handler, guesses>>

\* The connection is lost before the last chunk.
Lose ==
  /\ upload # NoUpload /\ ~upload.ended
  /\ upload' = NoUpload
  /\ UNCHANGED <<pair, epoch, slots, throttle, browser, handler, guesses>>

\* The page is loaded anew: the cookie stays, the token is gone.
Reload(b) ==
  /\ browser[b].csrf # NoSid /\ handler = Rest
  /\ browser' = [browser EXCEPT ![b].csrf = NoSid]
  /\ UNCHANGED <<pair, epoch, slots, throttle, handler, upload, guesses>>

\* The oldest guess comes first.
Old == Cardinality({i \in 1..Len(guesses) : guesses[i] + 1 >= Lock})
Recent == SubSeq(guesses, Old + 1, Len(guesses))
Less(n) == IF n = 0 THEN 0 ELSE n - 1
Elapse ==
  /\ slots' = [i \in 1..Slots |-> IF ~Used(slots[i]) THEN slots[i]
                 ELSE [slots[i] EXCEPT !.age = IF @ = Ttl THEN @ ELSE @ + 1, !.grant = Less(@)]]
  /\ throttle' = [throttle EXCEPT !.lock = Less(@)]
  /\ guesses' = [i \in 1..Len(Recent) |-> Recent[i] + 1]
  /\ UNCHANGED <<pair, epoch, browser, handler, upload>>

Handlers == LoggedIn \/ Gate \/ Session \/ Logout \/ Prove \/ Grant
Next ==
  \/ Change
  \/ \E b \in Browser : Login(b) \/ Reload(b)
  \/ \E b \in Browser, what \in DOMAIN Level : Request(b, what)
  \/ Handlers \/ LastChunk \/ Answer \/ Lose \/ Elapse

Spec == Init /\ [][Next]_vars

-----------------------------------------------------------------------------
(* Properties. *)

\* A session that is good now was opened with the pair that is in force now, and a
\* grant was given for that pair too: no login and no grant outlives a change of the
\* pair, however the change fell between the look at the pair and the session.
SessionsBelongToThePair ==
  \A i \in 1..Slots :
    LET s == slots[i] IN
    Used(s) /\ s.epoch = epoch => /\ s.of = epoch
                                  /\ s.grant > 0 => s.proof = epoch

\* Unless a right one falls in between, no more than FREE_FAILURES wrong guesses are
\* looked at within LOCK_MS, by the login and the grant together.
GuessesAreRationed ==
  Len(guesses) <= FreeFailures

\* An upload that was written to its end is reported to the loop, whatever became
\* of its session meanwhile: it is never refused behind its last chunk.
WrittenIsReported == upload.ended => Passes(upload)

-----------------------------------------------------------------------------
(* The inductive invariants behind them.                                   *)

WebSessionsAssumption ==
  /\ {Slots, GrantTtl} \subseteq Nat /\ {Ttl, FreeFailures, Lock} \subseteq Nat \ {0}

\* Every session is good for the generation it was opened in, and its grant too, also when
\* that generation is gone.
Fits(s) ==
  /\ s \in [sid : {s.sid}, age : {s.age}, grant : Nat, epoch : {s.epoch}, of : {s.of}, proof : {s.proof}]
  /\ Used(s) => s.of = s.epoch /\ (s.grant > 0 => s.proof = s.epoch)
SessionsFit == DOMAIN slots = 1..Slots /\ \A i \in 1..Slots : Fits(slots[i])

\* While no lock lasts, every wrong guess that counts has been counted; while one lasts,
\* none is looked at, and those before it have aged with it.
GuessesFit ==
  /\ throttle \in [failures : 0..(FreeFailures - 1), lock : 0..Lock] /\ guesses \in Seq(Nat)
  /\ handler.at \in {"login", "proved"} => throttle.lock = 0
  /\ IF throttle.lock = 0 THEN Len(guesses) <= throttle.failures
     ELSE /\ throttle.failures = 0 /\ Len(guesses) <= FreeFailures
          /\ \A i \in 1..Len(guesses) : guesses[i] + throttle.lock >= Lock

\* An upload is there only once the guard has marked it.
UploadFits == upload # NoUpload => upload.admitted
=============================================================================
