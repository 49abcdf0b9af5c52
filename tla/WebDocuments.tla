---------------------------- MODULE WebDocuments ----------------------------
(***************************************************************************)
(* What the loop task hands to the HTTP handlers (WebEsp32): the document  *)
(* of /api/log, rebuilt when the log or the time has changed and copied    *)
(* under a mutex that both sides give up waiting for, and the backup file, *)
(* whose memory changes owner: the slot, the loop task that builds it, the *)
(* handler that sends it.                                                  *)
(*                                                                         *)
(* A document is a pair of halves, each of which tells what it was built   *)
(* from: who reads it while it is being written sees two different ones.   *)
(***************************************************************************)
EXTENDS Naturals, FiniteSets

CONSTANTS Buffer, Null,   \* pieces of the heap
          Rebuild,        \* LOG_REBUILD_MS, in ticks
          ReadyTtl,       \* READY_TTL_MS, in ticks
          MaxEvents       \* bound of the model: events after the first tick

WebDocumentsAssumption == Null \notin Buffer /\ {Rebuild, ReadyTtl} \subseteq Nat

VARIABLES seq, valid,     \* EventLog.nextSeq(), state.time.valid
          log,            \* _logJson and what WebServices remembers of its build
          mutex,          \* SharedJsonBuffer._mutex: "free", "loop" or "web"
          heap,           \* the buffers that are allocated
          slot,           \* ExportSlot: state, data, age
          loop, web       \* the two tasks

vars == <<seq, valid, log, mutex, heap, slot, loop, web>>

Nothing == [seq |-> 0, valid |-> FALSE]     \* no event has the number 0
Resting == [at |-> "rest", built |-> Nothing, buffer |-> Null]

Init ==
  /\ seq = 1 /\ valid = FALSE
  /\ log = [doc |-> <<Nothing, Nothing>>, of |-> Nothing, built |-> FALSE, age |-> 0]
  /\ mutex = "free"
  /\ heap = {}
  /\ slot = [state |-> "idle", data |-> Null, age |-> 0]
  /\ loop = Resting
  /\ web = Resting

\* The rest of the loop task, between two ticks of this.
Happen ==
  /\ loop.at = "rest"
  /\ \/ seq < MaxEvents /\ seq' = seq + 1 /\ UNCHANGED valid
     \/ valid' = ~valid /\ UNCHANGED seq
  /\ UNCHANGED <<log, mutex, heap, slot, loop, web>>

-----------------------------------------------------------------------------
(* rebuildSnapshots() (loop task). *)

NeedsRebuild == \/ ~log.built
                \/ seq # log.of.seq \/ valid # log.of.valid
                \/ log.age >= Rebuild

\* The document is built in the scratch buffer; then the mutex is waited for.
Build ==
  /\ loop.at = "rest"
  /\ loop' = IF NeedsRebuild THEN [loop EXCEPT !.at = "update", !.built = [seq |-> seq, valid |-> valid]]
             ELSE [loop EXCEPT !.at = "export"]
  /\ UNCHANGED <<seq, valid, log, mutex, heap, slot, web>>

\* Mistake: what was built counts, published or not.
RefusedAsBuilt(built) == [log EXCEPT !.of = built, !.built = TRUE, !.age = 0]

\* A wait that runs out leaves everything to the next tick.
Refused(built) == log

\* update(): UPDATE_WAIT_MS for the mutex, then the copy.
Update ==
  \/ /\ loop.at = "update" /\ mutex = "free"
     /\ mutex' = "loop"
     /\ log' = [log EXCEPT !.doc[1] = loop.built]
     /\ loop' = [loop EXCEPT !.at = "copying"]
     /\ UNCHANGED <<seq, valid, heap, slot, web>>
  \/ /\ loop.at = "update" /\ mutex = "web"
     /\ log' = Refused(loop.built)
     /\ loop' = [loop EXCEPT !.at = "export", !.built = Nothing]
     /\ UNCHANGED <<seq, valid, mutex, heap, slot, web>>
  \/ /\ loop.at = "copying"
     /\ mutex' = "free"
     /\ log' = [doc |-> [log.doc EXCEPT ![2] = loop.built], of |-> loop.built, built |-> TRUE, age |-> 0]
     /\ loop' = [loop EXCEPT !.at = "export", !.built = Nothing]
     /\ UNCHANGED <<seq, valid, heap, slot, web>>

-----------------------------------------------------------------------------
(* exportTick() (loop task), then the next tick. *)

\* The build may fail for want of memory.
BuildFile ==
  /\ loop.at = "export"
  /\ \/ slot.state = "requested" /\ \E b \in Buffer \ heap :
          /\ heap' = heap \cup {b}
          /\ loop' = [loop EXCEPT !.at = "publish", !.buffer = b]
     \/ slot.state = "requested" /\ loop' = [loop EXCEPT !.at = "publish"] /\ UNCHANGED heap
     \/ slot.state # "requested" /\ loop' = [loop EXCEPT !.at = "expire"] /\ UNCHANGED heap
  /\ UNCHANGED <<seq, valid, log, mutex, slot, web>>

\* ExportSlot.publish(), for either task.
Freed == IF slot.state = "ready" THEN {slot.data} ELSE {}
Published(b) == IF b = Null THEN [state |-> "idle", data |-> Null, age |-> 0]
                ELSE [state |-> "ready", data |-> b, age |-> 0]
Publish ==
  /\ loop.at = "publish"
  /\ heap' = heap \ Freed
  /\ slot' = Published(loop.buffer)
  /\ loop' = [loop EXCEPT !.at = "expire", !.buffer = Null]
  /\ UNCHANGED <<seq, valid, log, mutex, web>>

\* What take() and expire() leave.
Emptied == [state |-> "idle", data |-> Null, age |-> 0]

\* An unclaimed file goes back to the heap, out of the lock.
Expire ==
  /\ loop.at = "expire"
  /\ IF slot.state = "ready" /\ slot.age >= ReadyTtl
     THEN /\ slot' = Emptied
          /\ loop' = [loop EXCEPT !.at = "free", !.buffer = slot.data]
     ELSE /\ loop' = [loop EXCEPT !.at = "done"] /\ UNCHANGED slot
  /\ UNCHANGED <<seq, valid, log, mutex, heap, web>>
FreeOld ==
  /\ loop.at = "free"
  /\ heap' = heap \ {loop.buffer}
  /\ loop' = [loop EXCEPT !.at = "done", !.buffer = Null]
  /\ UNCHANGED <<seq, valid, log, mutex, slot, web>>

Older(age, cap) == IF age < cap THEN age + 1 ELSE cap
Elapse ==
  /\ loop.at = "done"
  /\ loop' = Resting
  /\ log' = [log EXCEPT !.age = IF log.built THEN Older(@, Rebuild) ELSE @]
  /\ slot' = [slot EXCEPT !.age = IF slot.state = "ready" THEN Older(@, ReadyTtl) ELSE @]
  /\ UNCHANGED <<seq, valid, mutex, heap, web>>

-----------------------------------------------------------------------------
(* The handlers (AsyncTCP task). *)

\* GET /api/log.  503 if the mutex is not free in time; the loop holds it for a copy.
Send ==
  \/ /\ web.at = "rest" /\ mutex = "free" /\ log.doc[1] # Nothing
     /\ mutex' = "web"
     /\ web' = [web EXCEPT !.at = "sending", !.built = log.doc[1]]
     /\ UNCHANGED <<seq, valid, log, heap, slot, loop>>
  \/ /\ web.at = "sending"
     /\ mutex' = "free"
     /\ web' = Resting
     /\ UNCHANGED <<seq, valid, log, heap, slot, loop>>

\* POST /api/backup/export.
Ask ==
  /\ web.at = "rest" /\ slot.state = "idle"
  /\ slot' = [slot EXCEPT !.state = "requested"]
  /\ UNCHANGED <<seq, valid, log, mutex, heap, loop, web>>

\* GET /api/backup/export: the file is taken out of the slot.
Take ==
  /\ web.at = "rest" /\ slot.state = "ready"
  /\ web' = [web EXCEPT !.at = "taken", !.buffer = slot.data]
  /\ slot' = Emptied
  /\ UNCHANGED <<seq, valid, log, mutex, heap, loop>>

\* Without memory for the answer the file goes back, unless a newer one is on its way.
PutsBack == slot.state = "idle"

Answer ==
  /\ web.at = "taken"
  /\ \/ web' = [web EXCEPT !.at = "sent"] /\ UNCHANGED <<heap, slot>>
     \/ PutsBack /\ slot' = Published(web.buffer) /\ heap' = heap \ Freed
        /\ web' = [web EXCEPT !.at = "sent", !.buffer = Null]
     \/ ~PutsBack /\ web' = [web EXCEPT !.at = "sent"] /\ UNCHANGED <<heap, slot>>
  /\ UNCHANGED <<seq, valid, log, mutex, loop>>
FreeSent ==
  /\ web.at = "sent"
  /\ heap' = heap \ {web.buffer}
  /\ web' = Resting
  /\ UNCHANGED <<seq, valid, log, mutex, slot, loop>>

Next == \/ Happen \/ Build \/ Update \/ BuildFile \/ Publish \/ Expire \/ FreeOld \/ Elapse
        \/ Send \/ Ask \/ Take \/ Answer \/ FreeSent

Spec == Init /\ [][Next]_vars

-----------------------------------------------------------------------------
(* Properties. *)

\* /api/log does not freeze: what the loop holds for published is what the document
\* says, so that a change of the log or the time is never forgotten because the mutex
\* was taken when its document was ready.  No handler sends two halves of different
\* documents.
LogIsServed ==
  /\ log.built /\ loop.at # "copying" => log.doc = <<log.of, log.of>>
  /\ web.at = "sending" => log.doc = <<web.built, web.built>>

\* Each piece of memory that is allocated has one owner, the slot or one of the tasks,
\* who will free it or hand it on: none is lost, freed twice, or read when freed.
ExportHasOneOwner ==
  LET owners == {<<"slot", slot.data>>, <<"loop", loop.buffer>>, <<"web", web.buffer>>}
      held == {o \in owners : o[2] # Null}
  IN /\ {o[2] : o \in held} = heap
     /\ Cardinality(held) = Cardinality(heap)
     /\ slot.state = "ready" <=> slot.data # Null

(* Inductive: DocumentsFit is both properties, and what they rest on: whose *)
(* turn the mutex says it is, what the half that is copied was built from,  *)
(* and where each task keeps its buffer.                                    *)
Stamp == [seq : Nat, valid : BOOLEAN]

TypeFits ==
  /\ log \in [doc : Stamp \X Stamp, of : Stamp, built : BOOLEAN, age : Nat]
  /\ slot \in [state : {"idle", "requested", "ready"}, data : Buffer \cup {Null}, age : Nat]
  /\ loop \in [at : {"rest", "update", "copying", "export", "publish", "expire", "free", "done"},
               built : Stamp, buffer : Buffer \cup {Null}]
  /\ web \in [at : {"rest", "sending", "taken", "sent"}, built : Stamp, buffer : Buffer \cup {Null}]
  /\ seq \in Nat /\ valid \in BOOLEAN

LogFits ==
  /\ mutex = "loop" <=> loop.at = "copying"
  /\ mutex = "web" <=> web.at = "sending"
  /\ loop.at = "copying" => log.doc[1] = loop.built
  /\ ~log.built /\ loop.at # "copying" => log.doc[1] = Nothing

ExportFits ==
  /\ loop.buffer # Null => loop.at \in {"publish", "free"} /\ loop.buffer # web.buffer
  /\ web.buffer # Null => web.at \in {"taken", "sent"}
  /\ slot.data # Null => slot.data \notin {loop.buffer, web.buffer}
  /\ slot.state = "ready" <=> slot.data # Null
  /\ heap = {slot.data, loop.buffer, web.buffer} \ {Null}

DocumentsFit == TypeFits /\ LogIsServed /\ LogFits /\ ExportFits
=============================================================================
