----------------------------- MODULE StaticFiles -----------------------------
(***************************************************************************)
(* When the web pages are served from LittleFS (WebEsp32): never while a   *)
(* web update rewrites that partition, and never again, until the next     *)
(* start, when one has.                                                    *)
(*                                                                         *)
(* The updates and the requests run on the AsyncTCP task, the bookkeeping  *)
(* on the loop task: a fast pass drains the update's signals, a slow pass  *)
(* publishes whether one is in progress, first in net.tick() and then, a   *)
(* store at a time, in web.tick().  Between two slow passes there is a     *)
(* fast one.  Espota, which runs on the loop task, is left out, and so is  *)
(* a file that is still being sent when an update begins.                  *)
(***************************************************************************)
EXTENDS Naturals

CONSTANT MaxStarts      \* bound of the model: starts of a web update

VARIABLES signals,      \* NetSignals: started, ended, starts (webOtaStarts), fs (otaWebFsStarted)
          update,       \* what Update writes: "none", "fw" or "fs"
          session,      \* the web update: "none", "starting", "uploading", "lost"
          guard,        \* OtaGuard: "idle", "active" or "succeeded"
          inProgress,   \* state.ota.inProgress
          web,          \* WebServices: busy, acked, prev, image, latched
          at,           \* where the loop task is
          handler,      \* what the handler of "/" has found out
          touched       \* history: a web update has begun to write to LittleFS

vars == <<signals, update, session, guard, inProgress, web, at, handler, touched>>

Fresh ==
  /\ signals = [started |-> FALSE, ended |-> "none", starts |-> 0, fs |-> FALSE]
  /\ update = "none" /\ session = "none" /\ guard = "idle" /\ inProgress = FALSE
  /\ at = "drain" /\ handler = "rest" /\ touched = FALSE

\* install(): whether there is an image to serve.
Init == /\ Fresh
        /\ \E image \in BOOLEAN :
             web = [busy |-> FALSE, acked |-> 0, prev |-> 0, image |-> image, latched |-> FALSE]

-----------------------------------------------------------------------------
(* A web update (AsyncTCP task). *)

\* onStart, for the mode the middleware has noted.
OnStart(mode) ==
  /\ handler = "rest" /\ session \in {"none", "lost"} /\ signals.starts < MaxStarts
  /\ session' = "starting"
  /\ signals' = [signals EXCEPT !.started = TRUE, !.starts = @ + 1, !.fs = @ \/ mode = "fs"]
  /\ handler' = mode
  /\ UNCHANGED <<update, guard, inProgress, web, at, touched>>

\* Update.begin(), which may fail and does if one is open.
BeginUpdate ==
  /\ session = "starting"
  /\ \/ update = "none" /\ update' = handler /\ session' = "uploading"
     \/ update' = update /\ session' = "none"
  /\ handler' = "rest"
  /\ UNCHANGED <<signals, guard, inProgress, web, at, touched>>

\* A chunk is written, to whatever Update has open.
Chunk ==
  /\ session = "uploading" /\ handler = "rest" /\ update # "none"
  /\ touched' = (touched \/ update = "fs")
  /\ UNCHANGED <<signals, update, session, guard, inProgress, web, at, handler>>

\* The end of the upload, or of the connection.
EndUpdate ==
  /\ session = "uploading" /\ handler = "rest"
  /\ \/ /\ \E code \in {"success", "failure"} : signals' = [signals EXCEPT !.ended = code]
        /\ session' = "none" /\ update' = "none"
     \/ session' = "lost" /\ UNCHANGED <<signals, update>>
  /\ UNCHANGED <<guard, inProgress, web, at, handler, touched>>

-----------------------------------------------------------------------------
(* The loop task.  A handler is over in a moment: the pause between two    *)
(* passes of the loop does not fit into it.                                *)

\* ConnectivityRuntime.fastTick() and OtaGuard.update(): a start, then an end.  A
\* session that has gone silent fails some time later.
Drain ==
  /\ at \in {"drain", "rest"} /\ handler = "rest"
  /\ at' = "rest"
  /\ \E silent \in BOOLEAN :
       /\ silent => session \in {"lost", "none"} /\ ~signals.started
       /\ LET active == signals.started \/ guard # "idle"
              running == guard # "succeeded" \/ signals.started
              fails == active /\ 
                         (signals.ended = "failure" \/ (silent /\ running /\ signals.ended = "none"))
          IN /\ guard' = IF ~active \/ fails THEN "idle"
                         ELSE IF signals.ended = "success" \/ ~running THEN "succeeded" ELSE "active"
             /\ update' = IF fails THEN "none" ELSE update
             /\ session' = IF fails /\ session = "lost" THEN "none" ELSE session
  /\ signals' = [signals EXCEPT !.started = FALSE, !.ended = "none"]
  /\ UNCHANGED <<inProgress, web, handler, touched>>

NetTick ==
  /\ at = "rest"
  /\ inProgress' = (guard # "idle")
  /\ at' = "busy"
  /\ UNCHANGED <<signals, update, session, guard, web, handler, touched>>

\* What web.tick() acknowledges: the starts that the previous tick() had counted.
Ack == web.prev

Tick ==
  \/ at = "busy"  /\ at' = "ack"   /\ web' = [web EXCEPT !.busy = inProgress]
  \/ at = "ack"   /\ at' = "count" /\ web' = [web EXCEPT !.acked = Ack]
  \/ at = "count" /\ at' = "latch" /\ web' = [web EXCEPT !.prev = signals.starts]
WebTick == Tick /\ UNCHANGED <<signals, update, session, guard, inProgress, handler, touched>>

\* Mistake: only what a tick has published counts.
BusyPublished == web.busy

BusyNow == web.busy \/ signals.starts # web.acked

\* latchWebImageAfterOta(), behind the documents.
Latch ==
  /\ at = "latch" /\ at' = "drain"
  /\ LET latches == ~web.latched /\ signals.starts # 0 /\ signals.fs /\ ~BusyNow IN
     web' = IF latches THEN [web EXCEPT !.latched = TRUE, !.image = FALSE] ELSE web
  /\ UNCHANGED <<signals, update, session, guard, inProgress, handler, touched>>

\* A success, or anything else, restarts; what a mount makes of a half-written
\* image is LittleFS's.
Restart ==
  /\ at = "drain" /\ guard = "succeeded"
  /\ signals' = [started |-> FALSE, ended |-> "none", starts |-> 0, fs |-> FALSE]
  /\ update' = "none" /\ session' = "none" /\ guard' = "idle" /\ inProgress' = FALSE
  /\ handler' = "rest" /\ touched' = FALSE /\ UNCHANGED at
  /\ \E image \in BOOLEAN :
       web' = [busy |-> FALSE, acked |-> 0, prev |-> 0, image |-> image, latched |-> FALSE]

-----------------------------------------------------------------------------
(* GET "/" and the filter of serveStatic: one load after the other. *)

Get ==
  /\ handler = "rest" /\ web.image /\ handler' = "image"
  /\ UNCHANGED <<signals, update, session, guard, inProgress, web, at, touched>>
AskBusy ==
  /\ handler = "image" /\ handler' = IF web.busy THEN "rest" ELSE "calm"
  /\ UNCHANGED <<signals, update, session, guard, inProgress, web, at, touched>>
AskStarts ==
  /\ handler = "calm" /\ handler' = IF signals.starts # web.acked THEN "rest" ELSE "serves"
  /\ UNCHANGED <<signals, update, session, guard, inProgress, web, at, touched>>
Serve ==
  /\ handler = "serves" /\ handler' = "rest"
  /\ UNCHANGED <<signals, update, session, guard, inProgress, web, at, touched>>

Next == \/ \E mode \in {"fw", "fs"} : OnStart(mode)
        \/ BeginUpdate \/ Chunk \/ EndUpdate
        \/ Drain \/ NetTick \/ WebTick \/ Latch \/ Restart
        \/ Get \/ AskBusy \/ AskStarts \/ Serve

Spec == Init /\ [][Next]_vars

-----------------------------------------------------------------------------
(* Properties. *)

\* Between two ticks, whatever the lag of `busy` behind the updates: who asks then
\* is not served from a partition that an update has begun to write to.
TouchedIsNotServed ==
  at \in {"drain", "rest"} /\ web.image /\ ~BusyNow => ~touched

-----------------------------------------------------------------------------
(* The inductive invariant behind it.                                      *)

\* Between two ticks, an image that is served although a web update has begun is served
\* while the loop still has a start to acknowledge, or knows of the update.
FilesFit ==
  /\ signals \in [started : BOOLEAN, ended : {"none", "success", "failure"}, starts : Nat, fs : BOOLEAN]
  /\ web \in [busy : BOOLEAN, acked : Nat, prev : Nat, image : BOOLEAN, latched : BOOLEAN]
  /\ web.acked <= signals.starts /\ web.prev <= signals.starts
  /\ signals.fs => signals.starts # 0
  /\ inProgress \in BOOLEAN
  /\ touched \/ update = "fs" \/ handler = "fs" => signals.fs
  /\ web.latched => ~web.image
  /\ at \in {"drain", "rest"} /\ web.image /\ ~BusyNow => ~signals.fs
=============================================================================
