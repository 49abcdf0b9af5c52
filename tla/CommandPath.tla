----------------------------- MODULE CommandPath -----------------------------
(***************************************************************************)
(* The way of a command from a web client or from MQTT to the loop task    *)
(* and of its result back: the write handlers (WebApiWrite), the command   *)
(* queue, CoreRuntime::apply, the board of results that clients poll, and  *)
(* the buffer that carries an uploaded backup.                             *)
(*                                                                         *)
(* All handlers, and the MQTT callback, run one at a time on the AsyncTCP  *)
(* task; the loop task runs in between at any point.  A web command takes  *)
(* an id, reserves a place on the board, is posted and, if it is an        *)
(* import, hands its buffer over: four steps.  What a command does to the  *)
(* settings is in ConfigStore; here it has some status.                    *)
(*                                                                         *)
(* Ids are never used twice while somebody still holds them (31 bits in    *)
(* the code).  External: the web server, which gathers a body chunk by     *)
(* chunk, calls the handler once it is complete and frees what is left in  *)
(* the request when it is closed.                                          *)
(***************************************************************************)
EXTENDS Integers, FiniteSets, SequencesExt

CONSTANTS Conn,         \* connections that upload a backup
          Buffer,       \* heap blocks
          BoardSize,    \* CommandResultBoard::CAPACITY
          Depth,        \* FreeRtosCommandQueue::DEPTH
          MaxPerTick,   \* MAX_COMMANDS_PER_TICK
          None

CommandPathAssumption ==
  /\ {BoardSize, Depth, MaxPerTick} \subseteq Nat \ {0}
  /\ None \notin Conn \cup Buffer

VARIABLES conn,         \* the uploads: _tempObject and whether the body is complete
          handler,      \* the write handler that is running, or idle
          queue, board, next,
          loop,         \* the command in apply(), and how many this tick received
          held, freed,  \* the heap: blocks allocated, and whether one was freed twice
          fate, recent  \* history: what became of an id, and the newest ids

vars == <<conn, handler, queue, board, next, loop, held, freed, fate, recent>>

Id == 1..(BoardSize + Depth + 2)
NoId == 0               \* commands of MQTT

\* Ok, Clamped and Unchanged, and all the others.
Status == {"Ok", "Failed"}

Idle == [step |-> "idle", id |-> NoId, conn |-> None, buf |-> None]
Waiting == [cmd |-> Idle, count |-> 0]
Mqtt == [Idle EXCEPT !.step = "posted"]
NoUpload == [open |-> FALSE, buf |-> None, whole |-> FALSE]
NoSlot == [id |-> NoId, state |-> "Unknown", status |-> "Ok"]

Live == {queue[i].id : i \in DOMAIN queue} \cup {loop.cmd.id, handler.id}
          \cup {board[i].id : i \in DOMAIN board}

Init ==
  /\ conn = [c \in Conn |-> NoUpload]
  /\ handler = Idle /\ queue = <<>> /\ loop = Waiting
  /\ board = [i \in 1..BoardSize |-> NoSlot] /\ next = 1
  /\ held = {} /\ freed = {}
  /\ fate = [i \in Id |-> "none"] /\ recent = <<>>

-----------------------------------------------------------------------------
(* Uploads. *)

\* The first chunk allocates the buffer, if there is memory; a body of another
\* content type is parsed as a form and leaves none.
Upload(c) ==
  /\ handler = Idle /\ ~conn[c].open
  /\ \/ \E b \in Buffer \ held :
          /\ held' = held \cup {b}
          /\ conn' = [conn EXCEPT ![c] = [open |-> TRUE, buf |-> b, whole |-> FALSE]]
     \/ /\ conn' = [conn EXCEPT ![c].open = TRUE]
        /\ UNCHANGED held
  /\ UNCHANGED <<handler, queue, board, next, loop, freed, fate, recent>>

Complete(c) ==
  /\ handler = Idle /\ conn[c].open /\ conn[c].buf # None /\ ~conn[c].whole
  /\ conn' = [conn EXCEPT ![c].whole = TRUE]
  /\ UNCHANGED <<handler, queue, board, next, loop, held, freed, fate, recent>>

\* free(): of a block that is not allocated, it corrupts the heap.
Free(b) == /\ held' = held \ {b}
           /\ freed' = IF b = None \/ b \in held THEN freed ELSE freed \cup {b}

Close(c) ==
  /\ handler = Idle /\ conn[c].open
  /\ Free(conn[c].buf)
  /\ conn' = [conn EXCEPT ![c] = NoUpload]
  /\ UNCHANGED <<handler, queue, board, next, loop, fate, recent>>

-----------------------------------------------------------------------------
(* The handlers. *)

Fresh == CHOOSE i \in Id \ Live : TRUE

\* A request that passed its checks builds a command, with an id of its own.
Build ==
  /\ handler = Idle
  /\ \E c \in {None} \cup {c \in Conn : conn[c].whole} :
       handler' = [step |-> "expect", id |-> Fresh, conn |-> c,
                   buf |-> IF c = None THEN None ELSE conn[c].buf]
  /\ fate' = [i \in Id |-> IF i = Fresh THEN "underway" ELSE IF i \in Live THEN fate[i] ELSE "none"]
  /\ UNCHANGED <<conn, queue, board, next, loop, held, freed, recent>>

Place(id) == {i \in DOMAIN board : board[i].id = id}

\* The newest BoardSize ids.
Recent(id) == LET r == Append(recent, id)
              IN IF Len(r) > BoardSize THEN Tail(r) ELSE r

Expect ==
  /\ handler.step = "expect"
  /\ LET slot == [id |-> handler.id, state |-> "Pending", status |-> "Ok"]
         known == Place(handler.id)
     IN IF known # {} THEN /\ board' = [i \in DOMAIN board |-> IF i \in known THEN slot ELSE board[i]]
                           /\ UNCHANGED next
        ELSE /\ board' = [board EXCEPT ![next] = slot]
             /\ next' = (next % BoardSize) + 1
  /\ recent' = Recent(handler.id)
  /\ handler' = [handler EXCEPT !.step = "post"]
  /\ UNCHANGED <<conn, queue, loop, held, freed, fate>>

\* Refused if the queue is full: the request keeps its buffer, the client is
\* told, and the place on the board ages out.
Post ==
  /\ handler.step = "post"
  /\ IF Len(queue) < Depth
     THEN /\ queue' = Append(queue, [handler EXCEPT !.step = "posted", !.conn = None])
          /\ handler' = [handler EXCEPT !.step = "posted"]
          /\ UNCHANGED fate
     ELSE /\ handler' = Idle
          /\ fate' = [fate EXCEPT ![handler.id] = "refused"]
          /\ UNCHANGED queue
  /\ UNCHANGED <<conn, board, next, loop, held, freed, recent>>

\* After a successful post of an import the buffer belongs to the queue.
HandedOver(c) == IF c = None THEN conn ELSE [conn EXCEPT ![c] = [NoUpload EXCEPT !.open = TRUE]]

Answer ==
  /\ handler.step = "posted"
  /\ conn' = HandedOver(handler.conn)
  /\ handler' = Idle
  /\ UNCHANGED <<queue, board, next, loop, held, freed, fate, recent>>

\* An MQTT command has no id and is dropped if the queue is full.
PostMqtt ==
  /\ handler = Idle /\ Len(queue) < Depth
  /\ queue' = Append(queue, Mqtt)
  /\ UNCHANGED <<conn, handler, board, next, loop, held, freed, fate, recent>>

-----------------------------------------------------------------------------
(* The loop task. *)

Receive ==
  /\ loop.cmd = Idle /\ queue # <<>> /\ loop.count < MaxPerTick
  /\ loop' = [cmd |-> Head(queue), count |-> loop.count + 1]
  /\ queue' = Tail(queue)
  /\ UNCHANGED <<conn, handler, board, next, held, freed, fate, recent>>

\* Applied; the buffer is freed for every type of command.
Applied(status) ==
  /\ Free(loop.cmd.buf)
  /\ fate' = IF loop.cmd.id = NoId THEN fate ELSE [fate EXCEPT ![loop.cmd.id] = status]

\* Mistake: the result goes to the place that was reserved last.
RecordedLast(id, status) ==
  [board EXCEPT ![IF next = 1 THEN BoardSize ELSE next - 1] =
     IF @.state = "Pending" THEN [@ EXCEPT !.state = "Done", !.status = status] ELSE @]

Recorded(id, status) ==
  [i \in DOMAIN board |-> IF id # NoId /\ i \in Place(id)
                          THEN [id |-> id, state |-> "Done", status |-> status] ELSE board[i]]

Apply ==
  /\ loop.cmd # Idle
  /\ \E status \in Status :
       /\ Applied(status)
       /\ board' = Recorded(loop.cmd.id, status)
  /\ loop' = [loop EXCEPT !.cmd = Idle]
  /\ UNCHANGED <<conn, handler, queue, next, recent>>

\* The tick has nothing more to receive, or received as much as it may.
Done ==
  /\ loop.cmd = Idle /\ loop.count > 0
  /\ queue = <<>> \/ loop.count = MaxPerTick
  /\ loop' = Waiting
  /\ UNCHANGED <<conn, handler, queue, board, next, held, freed, fate, recent>>

Next == \/ \E c \in Conn : Upload(c) \/ Complete(c) \/ Close(c)
        \/ Build \/ Expect \/ Post \/ Answer \/ PostMqtt
        \/ Receive \/ Apply \/ Done

Spec == Init /\ [][Next]_vars

-----------------------------------------------------------------------------
(* Properties. *)

Underway(id) == id \in {queue[i].id : i \in DOMAIN queue} \cup {loop.cmd.id, handler.id}

(* A client that polls the board for one of the newest commands is told the *)
(* truth: the command is on the board; `done' comes with the status it      *)
(* really had; and `pending' only lasts while it is queued or being applied *)
(* - or forever, if the client was told that it was refused                 *)
(* (WebServices::postCommand reserves the place before it posts).           *)
BoardTellsTheTruth ==
  \A id \in Range(recent) :
    \E i \in DOMAIN board :
      /\ board[i].id = id
      /\ board[i].state = "Done" => board[i].status = fate[id]
      /\ board[i].state = "Pending" => fate[id] = "refused" \/ Underway(id)

(* An uploaded backup has exactly one owner at any time - its request, the  *)
(* queue or the command being applied - and is freed once: not leaked when  *)
(* the queue is full, not freed again when the request is closed            *)
(* (WebServices::installBackupImport, CoreRuntime::apply).                  *)
BufferHasOneOwner ==
  /\ freed = {}
  /\ \A b \in Buffer :
       LET requests == {c \in Conn : conn[c].buf = b /\ ~(handler.step = "posted" /\ handler.conn = c)}
           queued == {i \in DOMAIN queue : queue[i].buf = b}
           applied == IF loop.cmd.buf = b THEN {b} ELSE {}
       IN Cardinality(requests) + Cardinality(queued) + Cardinality(applied)
            = IF b \in held THEN 1 ELSE 0

(* Inductive: BoardFits says that the newest ids are on the board, in the    *)
(* order of the ring, and what each place tells; BuffersFit says who owns    *)
(* what: a request whose command was posted and not yet handed over no more, *)
(* and no two owners the same.                                               *)
Item == [step : {"idle", "expect", "post", "posted"}, id : Id \cup {NoId},
         conn : Conn \cup {None}, buf : Buffer \cup {None}]

PathTypes ==
  /\ conn \in [Conn -> [open : BOOLEAN, buf : Buffer \cup {None}, whole : BOOLEAN]]
  /\ handler \in Item /\ (handler.step = "idle" <=> handler = Idle) /\ (handler.id = NoId <=> handler = Idle)
  /\ queue \in Seq(Item) /\ Len(queue) <= Depth
  /\ board \in [1..BoardSize -> [id : Id \cup {NoId}, state : {"Unknown", "Pending", "Done"}, status : Status]]
  /\ next \in 1..BoardSize
  /\ loop \in [cmd : Item, count : Nat]
  /\ held \in SUBSET Buffer
  /\ fate \in [Id -> {"none", "underway", "refused"} \cup Status]
  /\ recent \in Seq(Id) /\ Len(recent) <= BoardSize

\* Where the jth of the newest ids is.
Spot(j) == LET place == next - 1 - (Len(recent) - j) IN IF place >= 1 THEN place ELSE place + BoardSize

\* Still to come: queued, being applied, or about to be posted.
Awaited(id) == \/ \E i \in DOMAIN queue : queue[i].id = id
               \/ loop.cmd.id = id
               \/ handler.step = "post" /\ handler.id = id

Told(slot) == /\ slot.state = "Done" => slot.status = fate[slot.id]
              /\ slot.state = "Pending" => fate[slot.id] = "refused" \/ Awaited(slot.id)

RingFits == \A j \in DOMAIN recent : board[Spot(j)].id = recent[j]

PlacesFit == \A i \in DOMAIN board : board[i].id # NoId => Told(board[i])

\* What is not posted yet has an id that is nowhere else.
NewcomerFits ==
  /\ handler.step \in {"expect", "post"} =>
       /\ fate[handler.id] = "underway"
       /\ loop.cmd.id # handler.id
       /\ \A i \in DOMAIN queue : queue[i].id # handler.id
  /\ handler.step = "expect" => \A i \in DOMAIN board : board[i].id # handler.id

BoardFits == RingFits /\ PlacesFit /\ NewcomerFits

Asks(c) == conn[c].buf # None /\ ~(handler.step = "posted" /\ handler.conn = c)

RequestsFit ==
  /\ \A c \in Conn : (~conn[c].open => conn[c].buf = None) /\ (conn[c].whole => conn[c].buf # None)
  /\ \A c, d \in Conn : conn[c].buf # None /\ conn[c].buf = conn[d].buf => c = d
  /\ handler.conn # None => conn[handler.conn].buf = handler.buf /\ handler.buf # None
  /\ handler.conn = None => handler.buf = None

\* The queue, the loop and the requests own different buffers,
OwnersDiffer ==
  /\ \A i, j \in DOMAIN queue : queue[i].buf # None /\ queue[i].buf = queue[j].buf => i = j
  /\ \A i \in DOMAIN queue : queue[i].buf # None => queue[i].buf # loop.cmd.buf
  /\ \A c \in Conn : Asks(c) => /\ conn[c].buf # loop.cmd.buf
                                /\ \A i \in DOMAIN queue : conn[c].buf # queue[i].buf

Owned(b) == \/ \E c \in Conn : Asks(c) /\ conn[c].buf = b
            \/ \E i \in DOMAIN queue : queue[i].buf = b
            \/ loop.cmd.buf = b

\* and together all that are allocated.
BuffersFit ==
  RequestsFit /\ OwnersDiffer /\ freed = {} /\ \A b \in Buffer : b \in held <=> Owned(b)
=============================================================================
