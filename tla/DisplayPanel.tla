---------------------------- MODULE DisplayPanel ----------------------------
(***************************************************************************)
(* The OLED panel (DisplayEsp32/DisplayServices, DisplayEngine's           *)
(* TileScheduler, Ssd1306Panel): a frame is drawn into a buffer and sent   *)
(* row by row, only the rows that differ from what was sent before, a few  *)
(* per fast pass.  A panel that does not answer several times in a row is  *)
(* given up and probed again later; one that comes back is initialised,    *)
(* redrawn and only then switched on.                                      *)
(*                                                                         *)
(* All of it runs on the loop task: a pass begins with Contrast or         *)
(* RetryProbe and goes on with Render, then Flush until no row is left to  *)
(* send.  Any transfer may fail (Ssd1306Panel latches that and skips the   *)
(* rest of the operation), and one that fails may have changed its row.    *)
(* The panel keeps what it shows as long as it is available.               *)
(***************************************************************************)
EXTENDS Integers

CONSTANTS Rows,         \* number of tile rows
          Image,        \* what a row may show
          Garbage,      \* what it shows after power-up, or half sent
          Contrast,
          FailLimit, Retry

VARIABLES began,        \* begin() has run
          at,           \* where the pass is
          left,         \* rows the pass may still send
          available, streak, powerOn, probeIn, applied,    \* DisplayServices
          shadow, dirty,                                   \* TileScheduler
          buffer,       \* U8g2's frame buffer
          ram, lit,     \* the SSD1306: what its rows show, and whether it is on
          bright        \* the contrast of the settings

serv == <<available, streak, powerOn, probeIn>>
tiles == <<shadow, dirty>>
panel == <<ram, lit>>
vars == <<began, at, left, serv, applied, tiles, buffer, panel, bright>>

Row == 0..(Rows - 1)
First(set) == CHOOSE r \in set : \A t \in set : r <= t

-----------------------------------------------------------------------------
(* The parts of a pass. *)

\* A transfer has failed: several in a row are a missing panel.  It is probed from then on.
Failed ==
  IF streak + 1 >= FailLimit
  THEN available' = FALSE /\ powerOn' = FALSE /\ streak' = 0 /\ probeIn' = Retry
  ELSE streak' = streak + 1 /\ UNCHANGED <<available, powerOn, probeIn>>

\* drawToPanel() and TileScheduler.scan().
Draw(frame) ==
  /\ buffer' = frame
  /\ dirty' = dirty \cup {r \in Row : shadow[r] # frame[r]}

\* Mistake: the panel that comes back is believed to show what it did.
KeptRows == dirty

\* TileScheduler.invalidateAll(), by initPanel().
InvalidatedRows == Row

\* TileScheduler.markSent(), for a row that was sent.
StillDirty(r, ok) == IF ok THEN dirty \ {r} ELSE dirty

\* flushRows(): the next row.
SendRow ==
  /\ at = "flush" /\ available /\ left > 0 /\ dirty # {}
  /\ \E r \in {First(dirty)}, ok \in BOOLEAN :
       /\ dirty' = StillDirty(r, ok)
       /\ shadow' = IF r \in dirty' THEN shadow ELSE [shadow EXCEPT ![r] = buffer[r]]
       /\ IF ok
          THEN /\ ram' = [ram EXCEPT ![r] = buffer[r]]
               /\ left' = left - 1 /\ streak' = 0
               /\ UNCHANGED <<at, available, powerOn, probeIn>>
          ELSE /\ ram' \in {[ram EXCEPT ![r] = i] : i \in {Garbage, ram[r], buffer[r]}}
               /\ at' = "idle" /\ left' = 0
               /\ Failed
  /\ UNCHANGED <<began, applied, buffer, lit, bright>>

\* Its end: a panel that was blank is switched on, once every row has been sent again.
Finish ==
  /\ at = "flush" /\ (left = 0 \/ dirty = {} \/ ~available)
  /\ at' = "idle" /\ left' = 0
  /\ IF available /\ powerOn /\ dirty = {}
     THEN \E ok \in BOOLEAN :
            /\ lit' = (lit \/ ok)
            /\ IF ok THEN powerOn' = FALSE /\ UNCHANGED <<available, streak, probeIn>>
               ELSE IF streak + 1 >= FailLimit THEN Failed
               ELSE powerOn' = FALSE /\ streak' = streak + 1 /\ UNCHANGED <<available, probeIn>>
     ELSE UNCHANGED <<serv, lit>>
  /\ UNCHANGED <<began, applied, tiles, buffer, ram, bright>>

\* tickInner() of an available panel: first the contrast, if another one is set.
ContrastStep ==
  /\ at = "idle" /\ began /\ available
  /\ IF bright = applied
     THEN at' = "render" /\ UNCHANGED <<serv, applied>>
     ELSE \E ok \in BOOLEAN :
            /\ applied' = IF ok THEN bright ELSE applied
            /\ IF ok THEN UNCHANGED serv ELSE Failed
            /\ at' = IF available' THEN "render" ELSE "idle"
  /\ UNCHANGED <<began, left, tiles, buffer, panel, bright>>

\* Then the view, if it has changed or has not been drawn for long; then the rows the pass
\* has time for.
Render ==
  /\ at = "render"
  /\ \/ \E frame \in [Row -> Image] : Draw(frame)
     \/ UNCHANGED <<buffer, dirty>>
  /\ at' = "flush" /\ left' \in 0..2
  /\ UNCHANGED <<began, serv, applied, shadow, panel, bright>>

\* tickInner() of one that is not: retryProbe() when it is due.
RetryProbe ==
  /\ at = "idle" /\ began /\ ~available
  /\ IF probeIn > 0
     THEN /\ probeIn' = probeIn - 1
          /\ UNCHANGED <<available, streak, powerOn, applied, dirty, panel>>
     ELSE /\ probeIn' = Retry
          /\ \/ UNCHANGED <<available, streak, powerOn, applied, dirty, panel>>    \* no answer
             \/ \E ok \in BOOLEAN :                                                \* initPanel()
                  /\ applied' = bright /\ dirty' = InvalidatedRows
                  /\ ram' = [r \in Row |-> Garbage] /\ lit' = FALSE
                  /\ available' = ok /\ powerOn' = (ok \/ powerOn) /\ streak' = IF ok THEN 0 ELSE streak
  /\ UNCHANGED <<began, at, left, shadow, buffer, bright>>

\* The reset countdown draws over the splash while core.begin() runs.
ResetHook ==
  /\ at = "idle" /\ ~began /\ available
  /\ \E frame \in [Row -> Image] : Draw(frame)
  /\ at' = "flush" /\ left' = Rows
  /\ UNCHANGED <<began, serv, applied, shadow, panel, bright>>

Begin ==
  /\ at = "idle" /\ ~began /\ began' = TRUE
  /\ probeIn' = IF available THEN probeIn ELSE Retry
  /\ UNCHANGED <<at, left, available, streak, powerOn, applied, tiles, buffer, panel, bright>>

Set ==
  /\ bright' \in Contrast \ {bright}
  /\ UNCHANGED <<began, at, left, serv, applied, tiles, buffer, panel>>

\* beginEarly(): a panel that has answered throughout shows the splash and is lit; one that
\* has not is unavailable.
Init ==
  /\ began = FALSE /\ at = "idle" /\ left = 0
  /\ available \in BOOLEAN /\ streak = 0 /\ powerOn = FALSE /\ probeIn = 0
  /\ applied \in Contrast /\ bright = applied
  /\ buffer \in [Row -> Image]
  /\ shadow = buffer /\ dirty \in IF available THEN {{}} ELSE {{}, Row}
  /\ ram = IF available THEN buffer ELSE [r \in Row |-> Garbage]
  /\ lit = available

Next == SendRow \/ Finish \/ ContrastStep \/ Render \/ RetryProbe \/ ResetHook \/ Begin \/ Set

Spec == Init /\ [][Next]_vars

-----------------------------------------------------------------------------
(* Properties. *)

\* The panel shows the frame that was drawn: an available panel differs from it only in
\* the rows that are still to be sent, however transfers failed, frames came and went and
\* the panel was lost and found in between.
PanelShowsTheFrame == available => \A r \in Row \ dirty : ram[r] = buffer[r]

-----------------------------------------------------------------------------
(* The inductive invariant behind it.                                      *)

DisplayPanelAssumption == Rows \in Nat

\* What has been sent is what is drawn and what the panel shows; the rows that differ
\* from what was sent are all waiting.
PanelFits ==
  /\ buffer \in [Row -> Image] /\ shadow \in [Row -> Image] /\ ram \in [Row -> Image \cup {Garbage}]
  /\ dirty \subseteq Row
  /\ available => \A r \in Row \ dirty : ram[r] = shadow[r] /\ shadow[r] = buffer[r]
=============================================================================
