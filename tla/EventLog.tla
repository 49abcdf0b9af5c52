------------------------------ MODULE EventLog ------------------------------
(***************************************************************************)
(* The event log (CoreEngine/EventLog): a ring in the RAM, one slot of the *)
(* flash per entry, numbers that go on after a restart, and the limiter    *)
(* that keeps one source from filling it.  A write may fail, with the slot *)
(* as it was or written all the same; a restart may come in the middle of  *)
(* one and leave a slot whose checksum is wrong; a slot may not be         *)
(* readable at a start.                                                    *)
(***************************************************************************)
EXTENDS Integers, FiniteSets, SequencesExt, Ages

CONSTANTS Source,       \* (type, source) pairs
          Capacity, Slots, Window,   \* CAPACITY, SLOTS, WINDOW_MS
          Torn,         \* a slot that is empty, corrupt or was only half written
          MaxEvents, MaxMishaps      \* bounds of the model

\* seq is its number, n tells the how manieth event it is.
Entry == [seq : Nat \ {0}, n : Nat \ {0}]

EventLogAssumption ==
  /\ {Capacity, Slots, Window} \subseteq Nat \ {0} /\ {MaxEvents, MaxMishaps} \subseteq Nat
  /\ Torn \notin Entry

VARIABLES ring, nextSeq, persistOk, limiter, \* EventLog
          slot,         \* the flash
          up,           \* FALSE from a restart to begin()
          count,        \* events ever logged: the bound, and the order they came in
          lost, hidden,   \* history: events whose write failed, that a start could not read
          mishaps         \* failures so far

vars == <<ring, nextSeq, persistOk, limiter, slot, up, count, lost, hidden, mishaps>>

NoSource == [used |-> FALSE, age |-> Window]
EmptyTable == [i \in 1..Slots |-> NoSource]

Init ==
  /\ ring = <<>> /\ nextSeq = 1 /\ persistOk = TRUE /\ limiter = EmptyTable
  /\ slot = [i \in 0..(Capacity - 1) |-> Torn]
  /\ up = FALSE /\ count = 0 /\ mishaps = 0
  /\ lost = {} /\ hidden = {}

-----------------------------------------------------------------------------
(* The limiter. *)

Known(k) == {i \in 1..Slots : limiter[i].used /\ limiter[i].key = k}

Allowed(k) == \A i \in Known(k) : limiter[i].age >= Window

First(S) == CHOOSE i \in S : \A j \in S : i <= j

\* Its own place, else a free one, else an expired one, else the oldest.
Place(k) ==
  LET free    == {i \in 1..Slots : ~limiter[i].used}
      expired == {i \in 1..Slots : limiter[i].age >= Window}
      oldest  == {i \in 1..Slots : \A j \in 1..Slots : limiter[j].age <= limiter[i].age}
  IN First(Head(SelectSeq(<<Known(k), free, expired, oldest>>, LAMBDA S : S # {})))

-----------------------------------------------------------------------------
(* The ring. *)

Pushed(r, e) == LET s == Append(r, e) IN IF Len(s) > Capacity THEN Tail(s) ELSE s

SlotOf(seq) == seq % Capacity

\* What the write of an entry may come to.
Writes(e) == {[ok |-> TRUE, slot |-> e]}
               \cup (IF mishaps < MaxMishaps THEN {[ok |-> FALSE, slot |-> x] : x \in {e, slot[SlotOf(e.seq)]}}
                     ELSE {})

LogEvent(k) ==
  /\ up /\ count < MaxEvents /\ Allowed(k)
  /\ limiter' = [limiter EXCEPT ![Place(k)] = [used |-> TRUE, key |-> k, age |-> 0]]
  /\ LET e == [seq |-> nextSeq, n |-> count + 1]
     IN /\ ring' = Pushed(ring, e)
        /\ \E w \in Writes(e) :
             /\ slot' = [slot EXCEPT ![SlotOf(e.seq)] = w.slot]
             /\ persistOk' = w.ok
             /\ lost' = IF w.ok THEN lost ELSE lost \cup {e.n}
             /\ mishaps' = IF w.ok THEN mishaps ELSE mishaps + 1
  /\ nextSeq' = nextSeq + 1 /\ count' = count + 1
  /\ UNCHANGED <<up, hidden>>

Elapse ==
  /\ up
  /\ limiter' = [i \in 1..Slots |-> [limiter[i] EXCEPT !.age = Older(@, 1, Window)]]
  /\ UNCHANGED <<ring, nextSeq, persistOk, slot, up, count, lost, hidden, mishaps>>

\* A restart, perhaps in the middle of a write; the RAM is lost.
Restart ==
  /\ up /\ mishaps < MaxMishaps /\ mishaps' = mishaps + 1
  /\ up' = FALSE
  /\ \/ UNCHANGED <<slot, count, lost>>
     \/ /\ count < MaxEvents /\ count' = count + 1
        /\ slot' = [slot EXCEPT ![SlotOf(nextSeq)] = Torn]
        /\ lost' = lost \cup {count'}
  /\ ring' = <<>> /\ nextSeq' = 1 /\ persistOk' = TRUE /\ limiter' = EmptyTable
  /\ UNCHANGED hidden

\* Mistake: the entries are taken in the order of their slots.
BySlot(a, b) == SlotOf(a.seq) < SlotOf(b.seq)

BySeq(a, b) == a.seq < b.seq

\* The entries found in the flash, put in order.
Sorted(valid) == {r \in [1..Cardinality(valid) -> valid] :
                    \A i, j \in DOMAIN r : i < j => BySeq(r[i], r[j])}

NextAfter(valid) == IF valid = {} THEN 1
                    ELSE (CHOOSE e \in valid : \A f \in valid : f.seq <= e.seq).seq + 1

Begin ==
  /\ ~up /\ up' = TRUE
  /\ \E bad \in {{}} \cup (IF mishaps < MaxMishaps THEN {{i} : i \in DOMAIN slot} ELSE {}) :
       /\ \E valid \in {{slot[i] : i \in DOMAIN slot \ bad} \ {Torn}} :
            ring' \in Sorted(valid) /\ nextSeq' = NextAfter(valid)
       /\ hidden' = hidden \cup {e.n : e \in {slot[i] : i \in bad} \ {Torn}}
       /\ mishaps' = mishaps + Cardinality(bad)
  /\ UNCHANGED <<persistOk, limiter, slot, count, lost>>

Next == (\E k \in Source : LogEvent(k)) \/ Elapse \/ Restart \/ Begin

Spec == Init /\ [][Next]_vars

-----------------------------------------------------------------------------
(* Properties. *)

(* The log is one across restarts, failed, torn and unreadable writes:       *)
(* newest first is the order of happening (begin() sorts what it finds by    *)
(* number and goes on with the next one), except for entries that a start    *)
(* could not read: their numbers may be given again, so that such an entry   *)
(* may come up later above younger ones.  And of the last CAPACITY numbers   *)
(* what the log shows survives a restart, or its write was reported to have  *)
(* failed.  After writes that failed it may show older ones too, whose slots *)
(* are taken.                                                                *)
LogIsOne ==
  /\ \A i, j \in DOMAIN ring : i < j => ring[i].n < ring[j].n \/ ring[j].n \in hidden
  /\ \A e \in Range(ring) : e.seq + Capacity < nextSeq \/ e \in Range(slot) \/ e.n \in lost

\* What LogIsOne rests on.
Kept == Range(slot) \ {Torn}

LogFits ==
  /\ up \in BOOLEAN /\ nextSeq \in Nat \ {0} /\ count \in Nat
  /\ slot \in [0..(Capacity - 1) -> Entry \cup {Torn}]
  /\ \A i \in DOMAIN slot : slot[i] # Torn => SlotOf(slot[i].seq) = i
  /\ ring \in Seq(Entry)
  /\ \A i, j \in DOMAIN ring : i < j => ring[i].seq < ring[j].seq
  /\ \A i \in DOMAIN ring :
       /\ ring[i].seq < nextSeq
       /\ ring[i].seq + Capacity < nextSeq \/ ring[i] \in Kept \/ ring[i].n \in lost
  /\ \A e \in Range(ring) \cup Kept : e.n <= count
  /\ \A e, f \in Range(ring) \cup Kept : e.seq < f.seq => e.n < f.n \/ f.n \in hidden
  /\ up => \A e \in Kept : e.seq < nextSeq \/ e.n \in hidden
=============================================================================
