--------------------------- MODULE K1DriverProofs ---------------------------
(***************************************************************************)
(* Theorems of K1Driver for every dead time, every longest pulse, every    *)
(* set of requested durations and every gap between two ticks.             *)
(***************************************************************************)
EXTENDS K1Driver, TLAPS

-----------------------------------------------------------------------------
(* A sound driver: the power output is on exactly during a run, a run has  *)
(* nothing pending beside it and goes the way the direction output stands, *)
(* and what is pending has a length tick() will accept.                    *)

Sound(k) == /\ k \in Driver
            /\ k.power = k.running
            /\ k.running => ~k.pending
            /\ k.running => k.dirOpen = (k.runDir = "open")
            /\ k.pending => Accepted(k.pendDur)
            /\ ~k.running => k.ran = 0

\* The motion of a driver, reported or not.
Moved(k, d) == k.motion[d] + (IF k.running /\ k.runDir = d THEN k.ran ELSE 0)

SameMotion(k, l) == \A d \in Dir : Moved(l, d) = Moved(k, d)

\* A driver just constructed is sound.
LEMMA AtRestSound ==
  ASSUME NEW up \in 0..DeadTime
  PROVE  /\ Sound(AtRest(up))
         /\ \A d \in Dir : Moved(AtRest(up), d) = 0
         /\ ~AtRest(up).running
BY K1DriverAssumption
   DEF Sound, AtRest, Driver, Dir, Owner, NoMotion, Moved, Accepted

\* The values a reset gives the driver's fields are in their types.
LEMMA Resets == 0 \in 0..AgeCap /\ "close" \in Dir /\ "None" \in Owner
BY K1DriverAssumption DEF Dir, Owner

\* stopRun() leaves a sound driver with its power off.
LEMMA StopRunSound ==
  ASSUME NEW k, Sound(k), k.running
  PROVE  /\ Sound(StopRun(k))
         /\ ~StopRun(k).running /\ ~StopRun(k).pending
         /\ SameMotion(k, StopRun(k))
         /\ StopRun(k).dirOpen = k.dirOpen /\ StopRun(k).sinceDir = k.sinceDir
         /\ StopRun(k).sinceOff = 0 /\ StopRun(k).starts = k.starts
<1> DEFINE l == StopRun(k)
           motion == [k.motion EXCEPT ![k.runDir] = @ + k.ran]
           none == 0
<1>1. k \in Driver /\ k.pending = FALSE
  BY DEF Sound, Driver
<1>2. l = [k EXCEPT !.motion = motion, !.hasMoved = TRUE, !.sinceMove = 0,
                    !.power = FALSE, !.running = FALSE, !.sinceOff = 0,
                    !.runDir = "close", !.ran = none, !.left = none, !.owner = "None"]
  BY Zenon DEF StopRun
<1>3. motion \in [Dir -> Nat]
  BY <1>1 DEF Driver
<1>4. \A d \in Dir : motion[d] = k.motion[d] + (IF k.runDir = d THEN k.ran ELSE 0)
  BY <1>1 DEF Driver
<1>5. none = 0 /\ none \in Nat /\ none \in Int
  OBVIOUS
<1> HIDE DEF l, motion, none
<1>6. l \in Driver
  BY <1>1, <1>2, <1>3, <1>5, Resets DEF Driver
<1>7. /\ l.running = FALSE /\ l.power = FALSE /\ l.pending = FALSE /\ l.ran = 0
      /\ l.motion = motion
      /\ l.dirOpen = k.dirOpen /\ l.sinceDir = k.sinceDir
      /\ l.sinceOff = 0 /\ l.starts = k.starts
  BY <1>1, <1>2, <1>5 DEF Driver
<1>8. Sound(l)
  BY <1>6, <1>7 DEF Sound
<1>9. SameMotion(k, l)
  BY <1>1, <1>3, <1>4, <1>7 DEF SameMotion, Moved, Driver
<1> QED
  BY <1>7, <1>8, <1>9 DEF l

\* Dropping the pending pulse keeps the driver sound.
LEMMA DropSound ==
  ASSUME NEW k, Sound(k)
  PROVE  /\ Sound(Drop(k)) /\ SameMotion(k, Drop(k))
         /\ ~Drop(k).pending
         /\ Drop(k).running = k.running /\ Drop(k).power = k.power
         /\ Drop(k).dirOpen = k.dirOpen /\ Drop(k).sinceDir = k.sinceDir
         /\ Drop(k).sinceOff = k.sinceOff /\ Drop(k).starts = k.starts
BY K1DriverAssumption
   DEF Sound, Drop, Driver, Dir, Owner, Moved, SameMotion, Accepted

-----------------------------------------------------------------------------
(* What a step of the driver may do to its two contacts, and to the count  *)
(* of the runs started.                                                    *)

SameWiring(k, l) == /\ l.power = k.power /\ l.sinceOff = k.sinceOff
                    /\ l.dirOpen = k.dirOpen /\ l.sinceDir = k.sinceDir

SwitchedOff(k, l) == /\ k.power /\ l.power = FALSE /\ l.sinceOff = 0
                     /\ l.dirOpen = k.dirOpen /\ l.sinceDir = k.sinceDir

Turned(k, l) == /\ ~k.power /\ k.sinceOff >= DeadTime
                /\ l.power = k.power /\ l.sinceOff = k.sinceOff
                /\ l.dirOpen = ~k.dirOpen /\ l.sinceDir = 0

SwitchedOn(k, l) == /\ ~k.power /\ k.sinceDir >= DeadTime
                    /\ l.power = TRUE /\ l.sinceOff = k.sinceOff
                    /\ l.dirOpen = k.dirOpen /\ l.sinceDir = k.sinceDir

\* Extending the run in progress keeps the driver sound.
LEMMA ExtendSound ==
  ASSUME NEW k, Sound(k), k.running, NEW duration \in Nat, NEW owner \in Owner
  PROVE  LET l == Extend(k, duration, owner) IN
         /\ Sound(l) /\ SameMotion(k, l) /\ SameWiring(k, l)
         /\ l.starts = k.starts /\ l.left = duration
<1> DEFINE l == Extend(k, duration, owner)
<1>1. k \in Driver /\ duration \in Int
  BY DEF Sound
<1>2. l = [k EXCEPT !.left = duration, !.owner = owner]
  BY DEF Extend
<1> HIDE DEF l
<1>3. l \in Driver
  BY <1>1, <1>2 DEF Driver
<1> QED
  BY <1>1, <1>2, <1>3 DEF Sound, Driver, SameMotion, SameWiring, Moved, l

\* Making a pulse pending keeps the driver sound.
LEMMA PendSound ==
  ASSUME NEW k, Sound(k), ~k.running, NEW dir \in Dir, NEW duration \in Nat,
         Accepted(duration), NEW owner \in Owner
  PROVE  LET l == Pend(k, dir, duration, owner) IN
         /\ Sound(l) /\ SameMotion(k, l) /\ SameWiring(k, l)
         /\ l.starts = k.starts /\ ~l.running
<1>1. k \in Driver
  BY DEF Sound
<1>2. Pend(k, dir, duration, owner) \in Driver
  BY <1>1 DEF Driver, Pend
<1> QED
  BY <1>1, <1>2 DEF Sound, Driver, SameMotion, SameWiring, Moved, Pend

\* requestPulse() keeps the driver sound, tells no motion twice, and does
\* nothing to the contacts but, on a reversal, switch the power off.
LEMMA RequestPulseSound ==
  ASSUME NEW k, Sound(k), NEW dir \in Dir, NEW duration \in Nat, NEW owner \in Owner
  PROVE  LET l == RequestPulse(k, dir, duration, owner) IN
         /\ Sound(l) /\ SameMotion(k, l)
         /\ SameWiring(k, l) \/ SwitchedOff(k, l)
         /\ l.starts = k.starts
         /\ l.running => k.running /\ (l.left = k.left \/ l.left > 0)
<1> DEFINE l == RequestPulse(k, dir, duration, owner)
<1>0. k.power = k.running
  BY DEF Sound
<1>1. CASE ~Accepted(duration)
  <2>1. l = k
    BY <1>1 DEF RequestPulse
  <2> QED
    BY <2>1 DEF SameMotion, SameWiring
<1>2. CASE Accepted(duration) /\ k.running /\ k.runDir = dir
  <2>1. l = Extend(k, duration, owner)
    BY <1>2 DEF RequestPulse
  <2>2. duration > 0
    BY <1>2 DEF Accepted
  <2>3. /\ Sound(l) /\ SameMotion(k, l) /\ SameWiring(k, l)
        /\ l.starts = k.starts /\ l.left = duration
    BY <1>2, <2>1, ExtendSound
  <2> HIDE DEF l
  <2> QED
    BY <1>2, <2>2, <2>3 DEF l
<1>3. CASE Accepted(duration) /\ ~k.running
  <2>1. l = Pend(k, dir, duration, owner)
    BY <1>3 DEF RequestPulse
  <2>2. /\ Sound(l) /\ SameMotion(k, l) /\ SameWiring(k, l)
        /\ l.starts = k.starts /\ ~l.running
    BY <1>3, <2>1, PendSound
  <2> HIDE DEF l
  <2> QED
    BY <2>2 DEF l
<1>4. CASE Accepted(duration) /\ k.running /\ k.runDir # dir
  <2> DEFINE m == StopRun(k)
  <2>1. l = Pend(m, dir, duration, owner)
    BY <1>4 DEF RequestPulse
  <2>2. /\ Sound(m) /\ ~m.running /\ SameMotion(k, m)
        /\ m.dirOpen = k.dirOpen /\ m.sinceDir = k.sinceDir
        /\ m.sinceOff = 0 /\ m.starts = k.starts
    BY <1>4, StopRunSound
  <2>3. m.power = FALSE
    BY <2>2 DEF Sound, Driver
  <2> HIDE DEF m
  <2>4. /\ Sound(l) /\ SameMotion(m, l) /\ SameWiring(m, l)
        /\ l.starts = m.starts /\ ~l.running
    BY <1>4, <2>1, <2>2, PendSound
  <2> HIDE DEF l
  <2>5. SameMotion(k, l)
    BY <2>2, <2>4 DEF SameMotion
  <2>6. SwitchedOff(k, l)
    BY <1>0, <1>4, <2>2, <2>3, <2>4 DEF SwitchedOff, SameWiring
  <2> QED
    BY <2>2, <2>4, <2>5, <2>6 DEF l
<1> QED
  BY <1>1, <1>2, <1>3, <1>4

\* cancel() leaves a sound driver with nothing to do.
LEMMA CancelSound ==
  ASSUME NEW k, Sound(k)
  PROVE  /\ Sound(Cancel(k)) /\ SameMotion(k, Cancel(k))
         /\ SameWiring(k, Cancel(k)) \/ SwitchedOff(k, Cancel(k))
         /\ Cancel(k).starts = k.starts
         /\ ~Cancel(k).running /\ ~Cancel(k).pending
<1>0. k.power = k.running
  BY DEF Sound
<1>1. CASE ~k.running
  <2>1. Cancel(k) = Drop(k)
    BY <1>1 DEF Cancel
  <2> QED
    BY <1>1, <2>1, DropSound DEF SameWiring
<1>2. CASE k.running
  <2> DEFINE m == StopRun(k)
  <2>1. Cancel(k) = Drop(m)
    BY <1>2 DEF Cancel
  <2>2. /\ Sound(m) /\ ~m.running /\ SameMotion(k, m)
        /\ m.dirOpen = k.dirOpen /\ m.sinceDir = k.sinceDir
        /\ m.sinceOff = 0 /\ m.starts = k.starts
    BY <1>2, StopRunSound
  <2>3. m.power = FALSE
    BY <2>2 DEF Sound, Driver
  <2> HIDE DEF m
  <2>4. SameMotion(k, Drop(m))
    BY <2>2, DropSound DEF SameMotion
  <2> QED
    BY <1>0, <1>2, <2>1, <2>2, <2>3, <2>4, DropSound DEF SwitchedOff
<1> QED
  BY <1>1, <1>2

-----------------------------------------------------------------------------
(* tick().                                                                 *)

\* The end of a run switches the power off, and a run that goes on has time
\* left.
LEMMA EndRunSound ==
  ASSUME NEW k, Sound(k)
  PROVE  /\ Sound(EndRun(k)) /\ SameMotion(k, EndRun(k))
         /\ \/ SameWiring(k, EndRun(k)) /\ EndRun(k).running = k.running
            \/ SwitchedOff(k, EndRun(k)) /\ ~EndRun(k).running /\ ~EndRun(k).pending
         /\ EndRun(k).starts = k.starts
         /\ EndRun(k).running => EndRun(k).left > 0
<1> DEFINE l == EndRun(k)
<1>0. k.power = k.running /\ k \in Driver
  BY DEF Sound
<1>1. CASE ~k.running
  <2>1. l = k
    BY <1>1 DEF EndRun
  <2> QED
    BY <1>1, <2>1 DEF SameMotion, SameWiring
<1>2. CASE k.running /\ k.left <= 0
  <2>1. l = StopRun(k)
    BY <1>2 DEF EndRun
  <2>2. StopRun(k).power = FALSE
    BY <1>2, StopRunSound DEF Sound, Driver
  <2> QED
    BY <1>0, <1>2, <2>1, <2>2, StopRunSound DEF SwitchedOff
<1>3. CASE k.running /\ ~(k.left <= 0)
  <2>1. l = [k EXCEPT !.sinceMove = 0]
    BY <1>3 DEF EndRun
  <2>2. k.left > 0
    BY <1>0, <1>3 DEF Driver
  <2> HIDE DEF l
  <2>3. l \in Driver
    BY <1>0, <2>1, Resets DEF Driver
  <2> QED
    BY <1>0, <2>1, <2>2, <2>3 DEF Sound, SameMotion, SameWiring, Moved, Driver, l
<1> QED
  BY <1>1, <1>2, <1>3

\* The count of starts wraps without ever standing still.
LEMMA CountMoves ==
  ASSUME NEW c \in 0..StartsMod - 1
  PROVE  /\ (c + 1) % StartsMod \in 0..StartsMod - 1
         /\ (c + 1) % StartsMod # c
<1>1. StartsMod \in Nat /\ StartsMod > 1
  BY K1DriverAssumption
<1>2. CASE c + 1 < StartsMod
  <2>1. (c + 1) % StartsMod = c + 1
    BY <1>1, <1>2
  <2> QED
    BY <1>1, <1>2, <2>1
<1>3. CASE c + 1 = StartsMod
  <2>1. (c + 1) % StartsMod = 0
    BY <1>1, <1>3
  <2> QED
    BY <1>1, <1>3, <2>1
<1> QED
  BY <1>1, <1>2, <1>3

\* Turning the direction output keeps the driver sound.
LEMMA TurnSound ==
  ASSUME NEW k, Sound(k), ~k.running
  PROVE  /\ Sound(Turn(k)) /\ SameMotion(k, Turn(k)) /\ ~Turn(k).running
         /\ Turn(k).power = k.power /\ Turn(k).sinceOff = k.sinceOff
         /\ Turn(k).dirOpen = ~k.dirOpen /\ Turn(k).sinceDir = 0
         /\ Turn(k).starts = k.starts
<1>1. k \in Driver
  BY DEF Sound
<1>2. Turn(k) \in Driver
  BY <1>1, Resets DEF Driver, Turn
<1> QED
  BY <1>1, <1>2 DEF Sound, Driver, SameMotion, Moved, Turn

\* A start energises the power output, counts one start, and runs the way the
\* direction output already stands.
LEMMA StartSound ==
  ASSUME NEW k, Sound(k), k.pending, k.dirOpen = (k.pendDir = "open")
  PROVE  /\ Sound(Start(k)) /\ SameMotion(k, Start(k))
         /\ Start(k).running /\ Start(k).left > 0 /\ Start(k).power
         /\ Start(k).dirOpen = k.dirOpen /\ Start(k).sinceOff = k.sinceOff
         /\ Start(k).sinceDir = k.sinceDir
         /\ Start(k).starts # k.starts
<1> DEFINE l == Start(k)
           m == Drop(k)
           count == (m.starts + 1) % StartsMod
<1>1. /\ k \in Driver /\ k.power = k.running /\ k.pendDur > 0
      /\ k.running = FALSE /\ k.ran = 0 /\ k.pendDur \in Int
  BY DEF Sound, Driver, Accepted
<1>2. /\ m \in Driver /\ m.pending = FALSE /\ m.starts = k.starts /\ m.dirOpen = k.dirOpen
      /\ m.sinceOff = k.sinceOff /\ m.sinceDir = k.sinceDir
      /\ SameMotion(k, m) /\ m.running = FALSE /\ m.ran = 0
  BY <1>1, DropSound DEF Sound, Driver
<1>3. l = [m EXCEPT !.power = TRUE, !.running = TRUE, !.starts = count,
                    !.runDir = k.pendDir, !.left = k.pendDur, !.owner = k.pendOwner,
                    !.hasMoved = TRUE, !.sinceMove = 0]
  BY Zenon DEF Start
<1>4. count \in 0..StartsMod - 1 /\ count # k.starts
  BY <1>1, <1>2, CountMoves DEF Driver
<1> HIDE DEF l, m, count
<1>5. l \in Driver
  BY <1>1, <1>2, <1>3, <1>4, Resets DEF Driver
<1>6. /\ l.power = TRUE /\ l.running = TRUE /\ l.runDir = k.pendDir /\ l.left = k.pendDur
      /\ l.starts = count /\ l.pending = FALSE /\ l.ran = 0 /\ l.motion = m.motion
      /\ l.dirOpen = k.dirOpen /\ l.sinceOff = k.sinceOff /\ l.sinceDir = k.sinceDir
  BY <1>1, <1>2, <1>3 DEF Driver
<1>7. Sound(l)
  BY <1>5, <1>6 DEF Sound
<1>8. SameMotion(m, l)
  BY <1>2, <1>6 DEF SameMotion, Moved, Driver
<1>9. SameMotion(k, l)
  BY <1>2, <1>8 DEF SameMotion
<1> QED
  BY <1>1, <1>4, <1>6, <1>7, <1>9 DEF l

\* The second half of tick() does at most one thing to the contacts, and only
\* when the dead time before it has passed.
LEMMA AdvanceSound ==
  ASSUME NEW k, Sound(k), k.running => k.left > 0
  PROVE  LET l == Advance(k) IN
         /\ Sound(l) /\ SameMotion(k, l)
         /\ SameWiring(k, l) \/ Turned(k, l) \/ SwitchedOn(k, l)
         /\ SwitchedOn(k, l) => l.starts # k.starts
         /\ SameWiring(k, l) \/ Turned(k, l) => l.starts = k.starts
         /\ l.running => l.left > 0
<1> DEFINE l == Advance(k)
           wantOpen == k.pending /\ k.pendDir = "open"
<1>0. k.power = k.running /\ k \in Driver
  BY DEF Sound
<1>1. CASE l = k
  BY <1>0, <1>1 DEF SameMotion, SameWiring, SwitchedOn
<1>2. CASE l = Turn(k) /\ ~k.running /\ k.sinceOff >= DeadTime
  BY <1>0, <1>2, TurnSound DEF Turned, SwitchedOn
<1>3. CASE l = Start(k) /\ ~k.running /\ k.pending /\ k.sinceDir >= DeadTime
           /\ k.dirOpen = wantOpen
  <2>1. k.dirOpen = (k.pendDir = "open")
    BY <1>3
  <2> QED
    BY <1>0, <1>3, <2>1, StartSound DEF SwitchedOn, SameWiring, Turned
<1> QED
  BY <1>0, <1>1, <1>2, <1>3 DEF Advance, Sound

\* What one step does to the contacts, and that it counts the starts.
Step(k, l) == /\ \/ SameWiring(k, l) \/ SwitchedOff(k, l)
                 \/ Turned(k, l) \/ SwitchedOn(k, l)
              /\ (l.starts # k.starts) <=> (~k.power /\ l.power)

\* tick() as a whole: a tick that ends a run does nothing else.
LEMMA TickSound ==
  ASSUME NEW k, Sound(k)
  PROVE  /\ Sound(Tick(k)) /\ SameMotion(k, Tick(k)) /\ Step(k, Tick(k))
         /\ Tick(k).running => Tick(k).left > 0
<1> DEFINE m == EndRun(k)
           l == Advance(m)
<1>0. k.power \in BOOLEAN
  BY DEF Sound, Driver
<1>1. Tick(k) = l
  BY DEF Tick
<1>2. /\ Sound(m) /\ SameMotion(k, m) /\ m.starts = k.starts
      /\ m.running => m.left > 0
  BY EndRunSound
<1> HIDE DEF l
<1>3. CASE SwitchedOff(k, m) /\ ~m.running /\ ~m.pending
  <2>1. l = m
    BY <1>3, K1DriverAssumption DEF Advance, SwitchedOff, l
  <2> HIDE DEF m
  <2>2. Step(k, m)
    BY <1>2, <1>3 DEF Step, SwitchedOff
  <2> QED
    BY <1>1, <1>2, <2>1, <2>2
<1>4. CASE SameWiring(k, m)
  <2>1. /\ Sound(l) /\ SameMotion(m, l)
        /\ SameWiring(m, l) \/ Turned(m, l) \/ SwitchedOn(m, l)
        /\ SwitchedOn(m, l) => l.starts # m.starts
        /\ SameWiring(m, l) \/ Turned(m, l) => l.starts = m.starts
        /\ l.running => l.left > 0
    BY <1>2, AdvanceSound DEF l
  <2> HIDE DEF m
  <2>2. SameMotion(k, l)
    BY <1>2, <2>1 DEF SameMotion
  <2>3. CASE SameWiring(m, l)
    <3>1. SameWiring(k, l) /\ l.starts = k.starts
      BY <1>2, <1>4, <2>1, <2>3 DEF SameWiring
    <3> QED
      BY <1>1, <2>1, <2>2, <3>1 DEF Step, SameWiring
  <2>4. CASE Turned(m, l)
    <3>1. Turned(k, l) /\ l.starts = k.starts
      BY <1>2, <1>4, <2>1, <2>4 DEF SameWiring, Turned
    <3> QED
      BY <1>1, <2>1, <2>2, <3>1 DEF Step, Turned
  <2>5. CASE SwitchedOn(m, l)
    <3>1. SwitchedOn(k, l) /\ l.starts # k.starts
      BY <1>2, <1>4, <2>1, <2>5 DEF SameWiring, SwitchedOn
    <3> QED
      BY <1>1, <2>1, <2>2, <3>1 DEF Step, SwitchedOn
  <2> QED
    BY <2>1, <2>3, <2>4, <2>5
<1> QED
  BY <1>3, <1>4, EndRunSound

\* takeMotion() hands over the motion and keeps the driver sound.
LEMMA TakeMotionSound ==
  ASSUME NEW k, Sound(k)
  PROVE  /\ Sound(TakeMotion(k)) /\ SameWiring(k, TakeMotion(k))
         /\ TakeMotion(k).starts = k.starts
         /\ TakeMotion(k).running = k.running /\ TakeMotion(k).left = k.left
         /\ \A d \in Dir : Moved(TakeMotion(k), d) = Moved(k, d) - k.motion[d]
<1>1. k \in Driver
  BY DEF Sound
<1>2. NoMotion \in [Dir -> Nat] /\ \A d \in Dir : NoMotion[d] = 0
  BY DEF NoMotion
<1> HIDE DEF NoMotion
<1>3. TakeMotion(k) \in Driver
  BY <1>1, <1>2 DEF Driver, TakeMotion
<1> QED
  BY <1>1, <1>2, <1>3 DEF Sound, Driver, SameWiring, Moved, TakeMotion

\* As time passes a run gets longer by that time and nearer its end by that
\* time, and nothing else moves but the ages.
LEMMA AgedSound ==
  ASSUME NEW k, Sound(k), NEW d \in Nat
  PROVE  /\ Sound(Aged(k, d))
         /\ Aged(k, d).power = k.power /\ Aged(k, d).dirOpen = k.dirOpen
         /\ Aged(k, d).sinceOff = Older(k.sinceOff, d, AgeCap)
         /\ Aged(k, d).sinceDir = Older(k.sinceDir, d, AgeCap)
         /\ Aged(k, d).starts = k.starts
         /\ Aged(k, d).running = k.running
         /\ k.running => Aged(k, d).left = k.left - d
         /\ \A e \in Dir : Moved(Aged(k, d), e)
              = Moved(k, e) + (IF k.running /\ k.runDir = e THEN d ELSE 0)
<1> DEFINE l == Aged(k, d)
           off == Older(k.sinceOff, d, AgeCap)
           dir == Older(k.sinceDir, d, AgeCap)
           move == Older(k.sinceMove, d, AgeCap)
           ran == IF k.running THEN k.ran + d ELSE k.ran
           left == IF k.running THEN k.left - d ELSE k.left
<1>1. k \in Driver /\ k.running \in BOOLEAN /\ k.ran \in Nat /\ k.left \in Int
  BY DEF Sound, Driver
<1>2. off \in 0..AgeCap /\ dir \in 0..AgeCap /\ move \in 0..AgeCap
  BY <1>1, K1DriverAssumption DEF Driver, Older
<1>3. ran \in Nat /\ left \in Int
  BY <1>1
<1>4. l = [k EXCEPT !.sinceOff = off, !.sinceDir = dir, !.sinceMove = move,
                    !.ran = ran, !.left = left]
  BY Zenon DEF Aged
<1>5. /\ k.running => ran = k.ran + d /\ left = k.left - d
      /\ ~k.running => ran = k.ran
  OBVIOUS
<1> HIDE DEF l, off, dir, move, ran, left
<1>6. l \in Driver
  BY <1>1, <1>2, <1>3, <1>4 DEF Driver
<1>7. /\ l.power = k.power /\ l.dirOpen = k.dirOpen /\ l.sinceOff = off
      /\ l.sinceDir = dir /\ l.starts = k.starts /\ l.running = k.running
      /\ l.left = left /\ l.ran = ran /\ l.motion = k.motion /\ l.runDir = k.runDir
      /\ l.pending = k.pending /\ l.pendDur = k.pendDur
  BY <1>1, <1>4 DEF Driver
<1>8. Sound(l)
  BY <1>5, <1>6, <1>7 DEF Sound
<1>9. \A e \in Dir : Moved(l, e)
        = Moved(k, e) + (IF k.running /\ k.runDir = e THEN d ELSE 0)
  BY <1>1, <1>5, <1>7 DEF Moved, Driver
<1> QED
  BY <1>5, <1>7, <1>8, <1>9 DEF l, off, dir

-----------------------------------------------------------------------------
(* What an operation does to the run and to the motion not yet taken: it   *)
(* leaves both alone, or stops the run and tells it, or starts one.        *)

Told(k, l) ==
  \/ l.running = k.running /\ l.runDir = k.runDir /\ l.ran = k.ran /\ l.motion = k.motion
  \/ k.running /\ ~l.running /\ l.motion = [k.motion EXCEPT ![k.runDir] = @ + k.ran]
  \/ ~k.running /\ l.motion = k.motion /\ (l.running => l.ran = 0)

\* stopRun() tells the run.
LEMMA StopRunTells ==
  ASSUME NEW k, Sound(k), k.running
  PROVE  /\ StopRun(k).running = FALSE /\ Told(k, StopRun(k))
         /\ StopRun(k).pending = FALSE /\ StopRun(k).sinceOff = 0 /\ StopRun(k).dirOpen = k.dirOpen
<1>1. PICK motion : motion = [k.motion EXCEPT ![k.runDir] = @ + k.ran]
  OBVIOUS
<1>2. PICK l : l = StopRun(k)
  OBVIOUS
<1>3. l = [k EXCEPT !.motion = motion, !.hasMoved = TRUE, !.sinceMove = 0,
                    !.power = FALSE, !.running = FALSE, !.sinceOff = 0,
                    !.runDir = "close", !.ran = 0, !.left = 0, !.owner = "None"]
  BY <1>1, <1>2, Zenon DEF StopRun
<1>4. k \in Driver /\ ~k.pending
  BY DEF Sound
<1>5. /\ l.running = FALSE /\ l.motion = motion
      /\ l.pending = FALSE /\ l.sinceOff = 0 /\ l.dirOpen = k.dirOpen
  BY <1>3, <1>4 DEF Driver
<1> QED BY <1>1, <1>2, <1>5 DEF Told

\* requestPulse() stops a run only to reverse it, and starts none.
LEMMA RequestTells ==
  ASSUME NEW k, Sound(k), NEW dir \in Dir, NEW duration, NEW owner \in Owner
  PROVE  LET l == RequestPulse(k, dir, duration, owner)
         IN /\ Sound(l) /\ Told(k, l)
            /\ l.running => k.running /\ l.motion = k.motion
            /\ \/ l = k
               \/ l.running
               \/ /\ l.pendDir = dir /\ (~k.running => l.motion = k.motion)
                  /\ k.running => k.runDir # dir /\ l.dirOpen = k.dirOpen /\ l.sinceOff = 0
<1> DEFINE l == RequestPulse(k, dir, duration, owner)
<1>1. CASE ~Accepted(duration)
  BY <1>1 DEF RequestPulse, Told
<1>2. CASE Accepted(duration)
  <2>1. duration \in Nat /\ MaxPulse \in Nat /\ k \in Driver
    BY <1>2, K1DriverAssumption DEF Accepted, Sound
  <2>2. Sound(l)
    BY <2>1, RequestPulseSound
  <2>3. CASE k.running /\ k.runDir = dir
    <3>1. l = [k EXCEPT !.left = duration, !.owner = owner]
      BY <1>2, <2>3 DEF RequestPulse, Extend
    <3>2. l.running = k.running /\ l.runDir = k.runDir /\ l.ran = k.ran /\ l.motion = k.motion
      BY <2>1, <3>1 DEF Driver
    <3> HIDE DEF l
    <3> QED BY <2>2, <2>3, <3>2 DEF Told, l
  <2>4. CASE k.running /\ k.runDir # dir
    <3>1. PICK m : m = StopRun(k)
      OBVIOUS
    <3>2. l = [m EXCEPT !.pending = TRUE, !.pendDir = dir, !.pendDur = duration, !.pendOwner = owner]
      BY <1>2, <2>4, <3>1 DEF RequestPulse, Pend
    <3>3. m \in Driver /\ ~m.running /\ Told(k, m) /\ m.sinceOff = 0 /\ m.dirOpen = k.dirOpen
      BY <2>4, <3>1, StopRunSound, StopRunTells DEF Sound
    <3>4. /\ l.running = m.running /\ l.runDir = m.runDir /\ l.ran = m.ran /\ l.motion = m.motion
          /\ l.pendDir = dir /\ l.sinceOff = 0 /\ l.dirOpen = k.dirOpen
      BY <3>2, <3>3 DEF Driver
    <3> HIDE DEF l
    <3> QED BY <2>2, <2>4, <3>3, <3>4 DEF Told, l
  <2>5. CASE ~k.running
    <3>1. l = [k EXCEPT !.pending = TRUE, !.pendDir = dir, !.pendDur = duration, !.pendOwner = owner]
      BY <1>2, <2>5 DEF RequestPulse, Pend
    <3>2. /\ l.running = k.running /\ l.runDir = k.runDir /\ l.ran = k.ran /\ l.motion = k.motion
          /\ l.pendDir = dir
      BY <2>1, <3>1 DEF Driver
    <3> HIDE DEF l
    <3> QED BY <2>2, <2>5, <3>2 DEF Told, l
  <2> QED BY <2>3, <2>4, <2>5
<1> QED BY <1>1, <1>2

LEMMA CancelTells ==
  ASSUME NEW k, Sound(k)
  PROVE  Told(k, Cancel(k))
<1>1. PICK m : m = IF k.running THEN StopRun(k) ELSE k
  OBVIOUS
<1>2. m \in Driver /\ Told(k, m) /\ (k.running => ~m.running)
  BY <1>1, StopRunSound, StopRunTells DEF Told, Sound
<1>3. Cancel(k) = Drop(m)
  BY <1>1 DEF Cancel
<1>4. /\ Drop(m).running = m.running /\ Drop(m).runDir = m.runDir
      /\ Drop(m).ran = m.ran /\ Drop(m).motion = m.motion
  BY <1>2 DEF Drop, Driver
<1> QED BY <1>2, <1>3, <1>4 DEF Told

\* What goes on waiting over a tick has at most been turned for; what starts has waited.
Waited(k, l) ==
  /\ k.pending /\ ~k.running /\ ~l.running /\ l.motion = k.motion /\ l.pendDir = k.pendDir
  /\ \/ l.dirOpen = k.dirOpen /\ l.sinceOff = k.sinceOff /\ l.sinceDir = k.sinceDir
     \/ /\ k.dirOpen # (k.pendDir = "open") /\ k.sinceOff >= DeadTime
        /\ l.dirOpen = ~k.dirOpen /\ l.sinceDir = 0

LEMMA TickTells ==
  ASSUME NEW k, Sound(k)
  PROVE  LET l == Tick(k)
         IN /\ Told(k, l)
            /\ l.running => l.motion = k.motion
            /\ l.running /\ ~k.running =>
                 k.pending /\ k.dirOpen = (k.pendDir = "open") /\ k.sinceDir >= DeadTime
            /\ l.pending => Waited(k, l)
<1>1. PICK l : l = Tick(k)
  OBVIOUS
<1>2. k \in Driver /\ (k.running => ~k.pending)
  BY DEF Sound
<1>3. CASE k.running /\ k.left <= 0
  <2>1. PICK m : m = StopRun(k)
    OBVIOUS
  <2>2. ~m.running /\ Told(k, m) /\ ~m.pending /\ m.sinceOff = 0 /\ DeadTime \in Nat \ {0}
    BY <1>3, <2>1, StopRunTells, K1DriverAssumption
  <2>3. l = m
    BY <1>1, <1>3, <2>1, <2>2 DEF Tick, EndRun, Advance
  <2> QED BY <1>1, <2>2, <2>3
<1>4. CASE k.running /\ ~(k.left <= 0)
  <2>1. PICK m : m = [k EXCEPT !.sinceMove = 0]
    OBVIOUS
  <2>2. /\ m.running = k.running /\ m.runDir = k.runDir /\ m.ran = k.ran /\ m.motion = k.motion
        /\ m.pending = k.pending
    BY <1>2, <2>1 DEF Driver
  <2>3. l = m
    BY <1>1, <1>4, <2>1, <2>2 DEF Tick, EndRun, Advance
  <2> QED BY <1>1, <1>2, <1>4, <2>2, <2>3 DEF Told
<1>5. CASE ~k.running
  <2>1. l = Advance(k)
    BY <1>1, <1>5 DEF Tick, EndRun
  <2>2. CASE l = k
    BY <1>1, <1>5, <2>2 DEF Told, Waited
  <2>3. CASE l = Turn(k) /\ k.dirOpen # (k.pending /\ k.pendDir = "open") /\ k.sinceOff >= DeadTime
    <3>1. /\ l.running = k.running /\ l.runDir = k.runDir /\ l.ran = k.ran /\ l.motion = k.motion
          /\ l.pending = k.pending /\ l.pendDir = k.pendDir /\ l.dirOpen = ~k.dirOpen /\ l.sinceDir = 0
      BY <1>2, <2>3 DEF Turn, Driver
    <3>2. k.pending => k.dirOpen # (k.pendDir = "open")
      BY <1>2, <2>3 DEF Driver
    <3> QED BY <1>1, <1>5, <2>3, <3>1, <3>2 DEF Told, Waited
  <2>4. CASE l = Start(k) /\ k.pending /\ k.dirOpen = (k.pending /\ k.pendDir = "open") /\ k.sinceDir >= DeadTime
    <3>1. PICK m : m = Drop(k)
      OBVIOUS
    <3>2. m \in Driver /\ m.motion = k.motion /\ m.ran = 0 /\ m.pending = FALSE
      BY <1>2, <1>5, <3>1, DropSound DEF Drop, Driver, Sound
    <3>3. PICK count : count = (m.starts + 1) % StartsMod
      OBVIOUS
    <3>4. l = [m EXCEPT !.power = TRUE, !.running = TRUE, !.starts = count,
                        !.runDir = k.pendDir, !.left = k.pendDur, !.owner = k.pendOwner,
                        !.hasMoved = TRUE, !.sinceMove = 0]
      BY <2>4, <3>1, <3>3, Zenon DEF Start
    <3>5. l.running = TRUE /\ l.motion = k.motion /\ l.ran = 0 /\ l.pending = FALSE
      BY <3>2, <3>4 DEF Driver
    <3> QED BY <1>1, <1>2, <1>5, <2>4, <3>5 DEF Told
  <2> QED BY <1>5, <2>1, <2>2, <2>3, <2>4 DEF Advance
<1> QED BY <1>3, <1>4, <1>5

\* What a tick carries on: what waits goes on waiting, is turned for or starts; what runs goes
\* on until nothing is left of it.
Carried(k, l) ==
  /\ ~k.running /\ ~k.pending => ~l.running /\ ~l.pending
  /\ k.running =>
       \/ k.left > 0 /\ l.running /\ l.runDir = k.runDir /\ l.ran = k.ran /\ l.left = k.left
       \/ k.left <= 0 /\ ~l.running /\ ~l.pending
  /\ k.pending /\ ~k.running =>
       \/ /\ k.dirOpen = (k.pendDir = "open") /\ k.sinceDir >= DeadTime
          /\ l.running /\ l.runDir = k.pendDir /\ l.ran = 0 /\ l.left = k.pendDur
       \/ /\ ~l.running /\ l.pending /\ l.pendDir = k.pendDir /\ l.pendDur = k.pendDur
          /\ \/ /\ l.dirOpen = k.dirOpen /\ l.sinceOff = k.sinceOff /\ l.sinceDir = k.sinceDir
                /\ IF k.dirOpen = (k.pendDir = "open") THEN k.sinceDir < DeadTime
                                                        ELSE k.sinceOff < DeadTime
             \/ /\ k.dirOpen # (k.pendDir = "open") /\ k.sinceOff >= DeadTime
                /\ l.dirOpen = ~k.dirOpen /\ l.sinceDir = 0

LEMMA TickCarries ==
  ASSUME NEW k, Sound(k)
  PROVE  Carried(k, Tick(k))
<1>1. PICK l : l = Tick(k)
  OBVIOUS
<1> SUFFICES Carried(k, l)
  BY <1>1
<1>2. /\ k \in Driver /\ (k.running => ~k.pending) /\ k.left \in Int /\ DeadTime \in Nat \ {0}
      /\ k.power = k.running /\ k.running \in BOOLEAN /\ k.pending \in BOOLEAN /\ k.dirOpen \in BOOLEAN
      /\ k.sinceOff \in Int /\ k.sinceDir \in Int
  BY K1DriverAssumption DEF Sound, Driver
<1>3. CASE k.running /\ k.left <= 0
  <2>1. PICK m : m = StopRun(k)
    OBVIOUS
  <2>2. ~m.running /\ ~m.pending /\ m.sinceOff = 0
    BY <1>3, <2>1, StopRunTells
  <2>3. l = m
    BY <1>1, <1>2, <1>3, <2>1, <2>2 DEF Tick, EndRun, Advance
  <2> QED BY <1>2, <1>3, <2>2, <2>3 DEF Carried
<1>4. CASE k.running /\ ~(k.left <= 0)
  <2>1. PICK m : m = [k EXCEPT !.sinceMove = 0]
    OBVIOUS
  <2>2. m.running = k.running /\ m.runDir = k.runDir /\ m.ran = k.ran /\ m.left = k.left
    BY <1>2, <2>1 DEF Driver
  <2>3. l = m
    BY <1>1, <1>4, <2>1, <2>2 DEF Tick, EndRun, Advance
  <2>4. k.running /\ k.left > 0
    BY <1>2, <1>4
  <2>5. l.running /\ l.runDir = k.runDir /\ l.ran = k.ran /\ l.left = k.left
    BY <2>2, <2>3, <2>4
  <2> QED BY <2>4, <2>5 DEF Carried
<1>5. CASE ~k.running
  <2>1. l = Advance(k)
    BY <1>1, <1>5 DEF Tick, EndRun
  <2>2. PICK want : want = (k.pending /\ k.pendDir = "open")
    OBVIOUS
  <2>3. CASE k.dirOpen # want /\ k.sinceOff >= DeadTime
    <3>1. l = Turn(k)
      BY <1>2, <1>5, <2>1, <2>2, <2>3 DEF Advance
    <3>2. /\ l.running = k.running /\ l.pending = k.pending /\ l.pendDir = k.pendDir
          /\ l.pendDur = k.pendDur /\ l.dirOpen = ~k.dirOpen /\ l.sinceDir = 0
      BY <1>2, <3>1 DEF Turn, Driver
    <3>3. k.pending => k.dirOpen # (k.pendDir = "open")
      BY <2>2, <2>3
    <3> QED BY <1>5, <2>3, <3>2, <3>3 DEF Carried
  <2>4. CASE k.dirOpen # want /\ ~(k.sinceOff >= DeadTime)
    <3>1. l = k
      BY <1>5, <2>1, <2>2, <2>4 DEF Advance
    <3>2. k.pending => k.dirOpen # (k.pendDir = "open") /\ k.sinceOff < DeadTime
      BY <1>2, <2>2, <2>4
    <3> QED BY <1>5, <3>1, <3>2 DEF Carried
  <2>5. CASE k.dirOpen = want /\ k.pending /\ k.sinceDir >= DeadTime
    <3>1. l = Start(k)
      BY <1>5, <2>1, <2>2, <2>5 DEF Advance
    <3>2. PICK m : m = Drop(k)
      OBVIOUS
    <3>3. m \in Driver /\ m.ran = 0
      BY <1>2, <1>5, <3>2, DropSound DEF Drop, Driver, Sound
    <3>4. PICK count : count = (m.starts + 1) % StartsMod
      OBVIOUS
    <3>5. l = [m EXCEPT !.power = TRUE, !.running = TRUE, !.starts = count,
                        !.runDir = k.pendDir, !.left = k.pendDur, !.owner = k.pendOwner,
                        !.hasMoved = TRUE, !.sinceMove = 0]
      BY <3>1, <3>2, <3>4, Zenon DEF Start
    <3>6. l.running = TRUE /\ l.ran = 0 /\ l.runDir = k.pendDir /\ l.left = k.pendDur
      BY <3>3, <3>5 DEF Driver
    <3>7. k.dirOpen = (k.pendDir = "open")
      BY <2>2, <2>5
    <3> QED BY <1>5, <2>5, <3>6, <3>7 DEF Carried
  <2>6. CASE k.dirOpen = want /\ ~(k.pending /\ k.sinceDir >= DeadTime)
    <3>1. l = k
      BY <1>5, <2>1, <2>2, <2>6 DEF Advance
    <3>2. k.pending => k.dirOpen = (k.pendDir = "open") /\ k.sinceDir < DeadTime
      BY <1>2, <2>2, <2>6
    <3> QED BY <1>5, <3>1, <3>2 DEF Carried
  <2> QED BY <2>3, <2>4, <2>5, <2>6
<1> QED BY <1>2, <1>3, <1>4, <1>5

-----------------------------------------------------------------------------
(* The inductive invariant.  PulseIsBounded is not inductive as it stands: *)
(* what is left of a run is positive at a tick, and shrinks by the time    *)
(* since that tick.                                                        *)

IInv == /\ Sound(k1)
        /\ sinceTick \in 0..MaxGap
        /\ travelled \in [Dir -> Nat]
        /\ \A d \in Dir : travelled[d] = Moved(k1, d)
        /\ k1.running => k1.left + sinceTick > 0

\* The driver as it boots satisfies the inductive invariant.
LEMMA InitIInv == Init => IInv
<1> SUFFICES ASSUME Init PROVE IInv
  OBVIOUS
<1>1. PICK up \in 0..DeadTime : k1 = AtRest(up)
  BY DEF Init
<1>2. /\ Sound(k1) /\ ~k1.running
      /\ \A d \in Dir : Moved(k1, d) = 0
  BY <1>1, AtRestSound
<1> QED
  BY <1>2, K1DriverAssumption DEF Init, IInv, NoMotion

\* Every step of the driver preserves the inductive invariant.
LEMMA NextIInv == IInv /\ [Next]_vars => IInv'
<1> SUFFICES ASSUME IInv, [Next]_vars PROVE IInv'
  OBVIOUS
<1> USE K1DriverAssumption
<1>0. Sound(k1) /\ k1 \in Driver
  BY DEF IInv, Sound
<1>1. CASE Request
  <2>1. PICK dir \in Dir, duration \in Durations, owner \in Owner :
             k1' = RequestPulse(k1, dir, duration, owner)
    BY <1>1 DEF Request
  <2>2. duration \in Nat
    OBVIOUS
  <2>3. /\ Sound(k1') /\ SameMotion(k1, k1')
        /\ k1'.running => k1.running /\ (k1'.left = k1.left \/ k1'.left > 0)
    BY <1>0, <2>1, <2>2, RequestPulseSound
  <2>4. k1'.running => k1'.left + sinceTick > 0
    BY <2>3 DEF IInv, Sound, Driver
  <2> QED
    BY <1>1, <2>3, <2>4 DEF Request, IInv, SameMotion
<1>2. CASE DoCancel
  BY <1>0, <1>2, CancelSound DEF DoCancel, IInv, SameMotion
<1>3. CASE DoTick
  <2>1. k1' = Tick(k1) /\ sinceTick' = 0 /\ travelled' = travelled
    BY <1>3 DEF DoTick
  <2>2. /\ Sound(k1') /\ SameMotion(k1, k1')
        /\ k1'.running => k1'.left > 0
    BY <1>0, <2>1, TickSound
  <2>3. k1'.running => k1'.left + sinceTick' > 0
    BY <2>1, <2>2 DEF Sound, Driver
  <2> QED
    BY <2>1, <2>2, <2>3 DEF IInv, SameMotion
<1>4. CASE DoTakeMotion
  <2>1. /\ k1' = TakeMotion(k1) /\ sinceTick' = sinceTick
        /\ travelled' = [d \in Dir |-> travelled[d] - k1.motion[d]]
    BY <1>4 DEF DoTakeMotion
  <2>2. /\ Sound(k1') /\ k1'.running = k1.running /\ k1'.left = k1.left
        /\ \A d \in Dir : Moved(k1', d) = Moved(k1, d) - k1.motion[d]
    BY <1>0, <2>1, TakeMotionSound
  <2> SUFFICES ASSUME NEW d \in Dir
               PROVE  travelled'[d] \in Nat /\ travelled'[d] = Moved(k1', d)
    BY <2>1, <2>2 DEF IInv
  <2>3. travelled'[d] = Moved(k1, d) - k1.motion[d]
    BY <2>1 DEF IInv
  <2>4. Moved(k1, d) - k1.motion[d] \in Nat
    BY <1>0 DEF Moved, Driver
  <2> QED
    BY <2>2, <2>3, <2>4
<1>5. CASE Elapse
  <2>1. PICK d \in 1..MaxGap :
          /\ sinceTick + d <= MaxGap /\ sinceTick' = sinceTick + d
          /\ k1' = Aged(k1, d)
          /\ travelled' = IF k1.power THEN [travelled EXCEPT ![Heading] = @ + d]
                                      ELSE travelled
    BY <1>5 DEF Elapse
  <2>2. /\ Sound(k1') /\ k1'.running = k1.running
        /\ k1.running => k1'.left = k1.left - d
        /\ \A e \in Dir : Moved(k1', e)
             = Moved(k1, e) + (IF k1.running /\ k1.runDir = e THEN d ELSE 0)
    BY <1>0, <2>1, AgedSound
  <2>3. sinceTick' \in 0..MaxGap
    BY <2>1 DEF IInv
  <2>4. k1'.running => k1'.left + sinceTick' > 0
    BY <1>0, <2>1, <2>2 DEF IInv, Driver
  <2>5. k1.power = k1.running /\ k1.runDir \in Dir
    BY <1>0 DEF Sound, Driver
  <2>6. k1.running => Heading = k1.runDir
    BY <1>0, <2>5 DEF Heading, Sound, Dir
  <2>7. /\ travelled' \in [Dir -> Nat]
        /\ \A e \in Dir : travelled'[e]
             = travelled[e] + (IF k1.running /\ k1.runDir = e THEN d ELSE 0)
    BY <2>1, <2>5, <2>6 DEF IInv
  <2> QED
    BY <2>2, <2>3, <2>4, <2>7 DEF IInv
<1>6. CASE Begin
  <2>1. PICK up \in 0..DeadTime : k1' = AtRest(up)
    BY <1>6 DEF Begin
  <2>2. /\ Sound(k1') /\ ~k1'.running
        /\ \A d \in Dir : Moved(k1', d) = 0
    BY <2>1, AtRestSound
  <2> QED
    BY <1>6, <2>2 DEF Begin, IInv, NoMotion
<1>7. CASE UNCHANGED vars
  BY <1>7 DEF vars, IInv
<1> QED
  BY <1>1, <1>2, <1>3, <1>4, <1>5, <1>6, <1>7 DEF Next

\* The invariant holds throughout.
THEOREM Invariance == Spec => []IInv
<1> QED
  BY InitIInv, NextIInv, PTL DEF Spec

\* The driver and the history keep their types.
THEOREM TypeCorrect == Spec => []TypeOK
<1>1. IInv => TypeOK
  BY DEF IInv, TypeOK, Sound
<1> QED
  BY <1>1, Invariance, PTL

\* takeMotion() reports every unit of time the motor ran, the way it ran, once.
THEOREM MotionIsExact == Spec => []MotionIsAccounted
<1>1. IInv => MotionIsAccounted
  BY DEF IInv, MotionIsAccounted, Moved
<1> QED
  BY <1>1, Invariance, PTL

\* A run is past its end for less than the longest gap between two ticks.
THEOREM PulsesAreBounded == Spec => []PulseIsBounded
<1>1. IInv => PulseIsBounded
  BY K1DriverAssumption DEF IInv, PulseIsBounded, Sound, Driver
<1> QED
  BY <1>1, Invariance, PTL

-----------------------------------------------------------------------------
(* What every step does to the two contacts.                               *)

\* A step of the driver other than the passage of time and a restart.
LEMMA NextStep ==
  ASSUME IInv, Request \/ DoCancel \/ DoTick \/ DoTakeMotion
  PROVE  Step(k1, k1')
<1>0. Sound(k1) /\ k1 \in Driver
  BY DEF IInv, Sound
<1>1. CASE Request
  <2>1. PICK dir \in Dir, duration \in Durations, owner \in Owner :
             k1' = RequestPulse(k1, dir, duration, owner)
    BY <1>1 DEF Request
  <2>2. duration \in Nat
    BY K1DriverAssumption
  <2>3. /\ SameWiring(k1, k1') \/ SwitchedOff(k1, k1')
        /\ k1'.starts = k1.starts
    BY <1>0, <2>1, <2>2, RequestPulseSound
  <2> QED
    BY <2>3 DEF Step, SameWiring, SwitchedOff
<1>2. CASE DoCancel
  <2>1. /\ SameWiring(k1, k1') \/ SwitchedOff(k1, k1')
        /\ k1'.starts = k1.starts
    BY <1>0, <1>2, CancelSound DEF DoCancel
  <2> QED
    BY <2>1 DEF Step, SameWiring, SwitchedOff
<1>3. CASE DoTick
  BY <1>0, <1>3, TickSound DEF DoTick
<1>4. CASE DoTakeMotion
  <2>1. SameWiring(k1, k1') /\ k1'.starts = k1.starts
    BY <1>0, <1>4, TakeMotionSound DEF DoTakeMotion
  <2> QED
    BY <2>1 DEF Step, SameWiring
<1> QED
  BY <1>1, <1>2, <1>3, <1>4

\* Elapse changes neither the outputs nor the count.
LEMMA ElapseStep ==
  ASSUME IInv, Elapse
  PROVE  /\ k1'.power = k1.power /\ k1'.dirOpen = k1.dirOpen
         /\ k1'.starts = k1.starts
         /\ \E d \in 1..MaxGap : /\ k1'.sinceOff = Older(k1.sinceOff, d, AgeCap)
                                 /\ k1'.sinceDir = Older(k1.sinceDir, d, AgeCap)
<1>1. Sound(k1)
  BY DEF IInv
<1>2. PICK d \in 1..MaxGap : k1' = Aged(k1, d)
  BY DEF Elapse
<1>3. d \in Nat
  BY K1DriverAssumption
<1> QED
  BY <1>1, <1>2, <1>3, AgedSound

\* runStarts() advances exactly when the power output is energised.
THEOREM StartsAreCounted == Spec => StartsCountEnergisations
<1> DEFINE Counted == ~Begin => ((k1'.starts # k1.starts) <=> (~k1.power /\ k1'.power))
<1>1. IInv /\ [Next]_vars => [Counted]_vars
  <2> SUFFICES ASSUME IInv, Next PROVE Counted
    OBVIOUS
  <2>1. CASE Request \/ DoCancel \/ DoTick \/ DoTakeMotion
    BY <2>1, NextStep DEF Step
  <2>2. CASE Elapse
    BY <2>2, ElapseStep
  <2> QED
    BY <2>1, <2>2 DEF Next
<1> HIDE DEF Counted
<1>2. Spec => [][Counted]_vars
  BY <1>1, Invariance, PTL DEF Spec
<1> QED
  BY <1>2 DEF StartsCountEnergisations, Counted

\* The initial contacts are at rest.
LEMMA InitWiring == Init => Wiring!Init
<1> SUFFICES ASSUME Init PROVE Wiring!Init
  OBVIOUS
<1>1. PICK up \in 0..DeadTime : k1 = AtRest(up)
  BY DEF Init
<1> QED
  BY <1>1 DEF Wiring!Init, Wiring!Rest, AtRest

\* Every step of the driver is a step the wiring allows, or leaves it alone.
LEMMA NextWiring == IInv /\ [Next]_vars => [Wiring!Next]_(Wiring!vars)
<1> SUFFICES ASSUME IInv, [Next]_vars
             PROVE  [Wiring!Next]_(Wiring!vars)
  OBVIOUS
<1>0. /\ k1.power \in BOOLEAN /\ k1.dirOpen \in BOOLEAN
      /\ k1.sinceOff \in 0..AgeCap /\ k1.sinceDir \in 0..AgeCap
  BY DEF IInv, Sound, Driver
<1>1. CASE Request \/ DoCancel \/ DoTick \/ DoTakeMotion
  <2>1. Step(k1, k1')
    BY <1>1, NextStep
  <2>2. CASE SameWiring(k1, k1')
    BY <2>2 DEF SameWiring, Wiring!vars
  <2>3. CASE SwitchedOff(k1, k1')
    BY <2>3 DEF SwitchedOff, Wiring!Next, Wiring!SwitchOff
  <2>4. CASE Turned(k1, k1')
    BY <2>4 DEF Turned, Wiring!Next, Wiring!Turn
  <2>5. CASE SwitchedOn(k1, k1')
    BY <2>5 DEF SwitchedOn, Wiring!Next, Wiring!SwitchOn
  <2> QED
    BY <2>1, <2>2, <2>3, <2>4, <2>5 DEF Step
<1>2. CASE Elapse
  <2>1. /\ k1'.power = k1.power /\ k1'.dirOpen = k1.dirOpen
    BY <1>2, ElapseStep
  <2>2. PICK d \in 1..MaxGap : /\ k1'.sinceOff = Older(k1.sinceOff, d, AgeCap)
                               /\ k1'.sinceDir = Older(k1.sinceDir, d, AgeCap)
    BY <1>2, ElapseStep
  <2> DEFINE e == IF d < AgeCap THEN d ELSE AgeCap
  <2>3. /\ k1'.sinceOff = Wiring!Older(k1.sinceOff, e, AgeCap)
        /\ k1'.sinceDir = Wiring!Older(k1.sinceDir, e, AgeCap)
    BY <1>0, <2>2, K1DriverAssumption DEF Older, Wiring!Older
  <2>4. AgeCap > 0 /\ e \in 1..AgeCap
    BY K1DriverAssumption
  <2> HIDE DEF e
  <2>5. Wiring!Wait
    BY <2>1, <2>3, <2>4 DEF Wiring!Wait
  <2> QED
    BY <2>5 DEF Wiring!Next
<1>3. CASE Begin
  <2>1. PICK up \in 0..DeadTime : k1' = AtRest(up)
    BY <1>3 DEF Begin
  <2>2. Wiring!Reset
    BY <2>1 DEF Wiring!Reset, AtRest
  <2> QED
    BY <2>2 DEF Wiring!Next
<1>4. CASE UNCHANGED vars
  BY <1>4 DEF vars, Wiring!vars
<1> QED
  BY <1>1, <1>2, <1>3, <1>4 DEF Next

\* K1Driver implements the interlocked drive: whatever its callers request,
\* extend, reverse, replace or cancel, the direction turns only with the power
\* off for a dead time, and the power comes on only a dead time after a turn.
THEOREM K1IsInterlocked == Spec => DriveIsInterlocked
<1>1. Spec => Wiring!Spec
  BY InitWiring, NextWiring, Invariance, PTL DEF Spec, Wiring!Spec
<1> QED
  BY <1>1 DEF DriveIsInterlocked
=============================================================================
