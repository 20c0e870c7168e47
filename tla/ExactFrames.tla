------------------------------ MODULE ExactFrames ------------------------------
(***************************************************************************)
(* What the spectrum path promises of a detector that only ever reports    *)
(* running totals (README.md: they are "converted into exact, unsplit      *)
(* deltas"): a reading continues the run of readings it can continue and   *)
(* no other; what a run has counted goes into rows, all of it, as soon as  *)
(* enough time has been measured, and the rest when the run ends.          *)
(*                                                                         *)
(* The totals of a reading are its meters: the channels, and the seconds   *)
(* it was measured.  Its mark is what a detector may not change in a run.  *)
(***************************************************************************)
EXTENDS Integers, Sequences

CONSTANTS
  Readings,  \* what the detector can report, [mark, meters]
  Meters,
  Seconds,   \* the meter that measures time
  Target     \* seconds of a row

VARIABLES
  runs,  \* the first and the last reading of each, and what its rows hold
  rows   \* without what they hold: see runs

vars == <<runs, rows>>

Init == runs = <<>> /\ rows = <<>>

Nothing == [m \in Meters |-> 0]
Live == runs[Len(runs)]

Counted(run) == [m \in Meters |-> run.last[m] - run.first[m]]
Held(run) == [m \in Meters |-> Counted(run)[m] - run.framed[m]]
Settled(run) == [run EXCEPT !.framed = Counted(run)]

Fresh(x) == [mark |-> x.mark, first |-> x.meters, last |-> x.meters, framed |-> Nothing]
Continued(x) == [Live EXCEPT !.last = x.meters]

Row(seconds, partial) == [run |-> Len(runs), seconds |-> seconds, partial |-> partial]

\* A reading may be dropped.
Drop == UNCHANGED vars

Begin(x) ==
  /\ runs = <<>>
  /\ runs' = <<Fresh(x)>>
  /\ UNCHANGED rows

Continues(x) ==
  /\ runs # <<>>
  /\ x.mark = Live.mark
  /\ \A m \in Meters : x.meters[m] >= Live.last[m]

\* Not enough for a row.
Hold(x) ==
  /\ Continues(x)
  /\ Held(Continued(x))[Seconds] < Target
  /\ runs' = [runs EXCEPT ![Len(runs)] = Continued(x)]
  /\ UNCHANGED rows

Store(x) ==
  /\ Continues(x)
  /\ Held(Continued(x))[Seconds] >= Target
  /\ runs' = [runs EXCEPT ![Len(runs)] = Settled(Continued(x))]
  /\ rows' = Append(rows, Row(Held(Continued(x))[Seconds], FALSE))

\* The totals fell, or the detector was changed.
Restart(x) ==
  /\ runs # <<>>
  /\ ~Continues(x)
  /\ runs' = Append([runs EXCEPT ![Len(runs)] = Settled(Live)], Fresh(x))
  /\ rows' = IF Held(Live) = Nothing THEN rows
             ELSE Append(rows, Row(Held(Live)[Seconds], TRUE))

Next == Drop \/ \E x \in Readings : Begin(x) \/ Hold(x) \/ Store(x) \/ Restart(x)

Spec == Init /\ [][Next]_vars
=============================================================================
