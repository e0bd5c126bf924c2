----------------------------- MODULE DeskewNode -----------------------------
(***************************************************************************)
(* rslidar_deskew_node: a callback takes one cloud after the other, waits  *)
(* until the buffer of transforms reaches the end of its sweep, looks up   *)
(* the sensor's pose at a knot every few rows, moves every row by a pose   *)
(* interpolated between two knots and publishes the cloud.  Where a pose   *)
(* is missing it publishes the cloud as it came.                           *)
(*                                                                         *)
(* The listener's thread fills the buffer meanwhile; old transforms leave  *)
(* it.  Poses are external: only the time each is of matters, and a pose   *)
(* interpolated between two is one of the time between theirs.             *)
(*                                                                         *)
(* Times are relative to the start of the sweep, in units of the time a    *)
(* row takes when a sweep takes sweep_duration_.                           *)
(***************************************************************************)
EXTENDS Integers, Sequences, SequencesExt

CONSTANTS
  Clouds,    \* clouds: rows; whether they have stamps, and in which rows one is
             \* usable; when row r was captured, at rate * r + phase
  Steps,     \* values of rows_per_knot_
  MaxTime,   \* bound: the latest time of a transform
  MaxClouds  \* bound: clouds received

Time == -1..MaxTime

ASSUME CloudsAssumption ==
  /\ Clouds # {}
  /\ \A c \in Clouds :
       /\ c.rows \in Nat /\ c.stamped \in BOOLEAN /\ c.usable \subseteq 0..(c.rows - 1)
       /\ c.rate \in Nat /\ c.phase \in Int
       /\ ~c.stamped => c.usable = {} /\ c.rate = 1 /\ c.phase = 0
ASSUME StepsAssumption == Steps \subseteq Nat \ {0}
ASSUME BoundsAssumption == MaxTime \in Nat /\ MaxClouds \in Nat

VARIABLES
  stampAt,         \* stamp_at_: "first" or "last"
  step,            \* rows_per_knot_
  pc,              \* "idle", "taken", "ref" or "knots"
  cloud,           \* the cloud taken last
  seen,            \* clouds taken
  knot,            \* knots looked up
  oldest, newest,  \* the transforms in the buffer are of these times and all between
  published        \* what was published: the number of a cloud, and how

configVars == <<stampAt, step>>
bufferVars == <<oldest, newest>>
vars == <<configVars, pc, cloud, seen, knot, bufferVars, published>>

Least(a, b) == IF a < b THEN a ELSE b

Init ==
  /\ stampAt \in {"first", "last"}
  /\ step \in Steps
  /\ pc = "idle"
  /\ cloud = CHOOSE c \in Clouds : TRUE
  /\ seen = 0
  /\ knot = 0
  /\ oldest = -1 /\ newest = -1
  /\ published = <<>>

-----------------------------------------------------------------------------
(* Knots *)

StartOfSweep == 0
EndOfSweep == cloud.rows
RefTime == IF stampAt = "first" THEN StartOfSweep ELSE EndOfSweep

\* Mutant: the knot behind the last row is left out.
KnotsOfRows == (cloud.rows + step - 1) \div step

KnotCount == (cloud.rows + step - 1) \div step + 1

CaptureTime(row) == cloud.rate * row + cloud.phase

\* Mutant: the last knot is not kept within the sweep.
Unbounded(k) == k * step

\* The time of a knot when its row has no usable stamp.
Reconstructed(k) == Least(k * step, cloud.rows)

KnotTime(k) ==
  LET row == Least(k * step, cloud.rows - 1)
  IN  IF row \in cloud.usable THEN CaptureTime(row) ELSE Reconstructed(k)

\* The time, times step, of the pose a row is moved by.
AppliedTime(row) ==
  LET k0 == row \div step
      k1 == Least(k0 + 1, KnotCount - 1)
      along == row % step
  IN  KnotTime(k0) * (step - along) + KnotTime(k1) * along

-----------------------------------------------------------------------------
(* onCloud *)

Covered(t) == t \in oldest..newest

Publish(how) ==
  /\ published' = Append(published, [no |-> seen, how |-> how])
  /\ pc' = "idle"

\* Mutant: a cloud without a pose is dropped.
DropsCloud == pc' = "idle" /\ UNCHANGED published

passthrough == Publish("unchanged")

\* Without stamps and rows no point has a time.
Timeless == ~cloud.stamped /\ cloud.rows <= 1

\* Mutant: the knots of the cloud before are kept.
KeptKnots == knot

\* The vectors of knots are made anew for every cloud.
NoKnots == 0

\* A cloud comes; its times are related to those of the buffer in any way.
Take ==
  /\ pc = "idle"
  /\ seen < MaxClouds
  /\ cloud' \in Clouds
  /\ seen' = seen + 1
  /\ pc' = "taken"
  /\ knot' = NoKnots
  /\ newest' \in Time
  /\ oldest' \in -1..newest'
  /\ UNCHANGED <<configVars, published>>

Forward ==
  /\ pc = "taken"
  /\ Timeless
  /\ Publish("unchanged")
  /\ UNCHANGED <<configVars, cloud, seen, knot, bufferVars>>

\* canTransform returns as soon as the end of the sweep is covered.
WaitSucceeds ==
  /\ pc = "taken"
  /\ ~Timeless
  /\ Covered(EndOfSweep)
  /\ pc' = "ref"
  /\ UNCHANGED <<configVars, cloud, seen, knot, bufferVars, published>>

\* Mutant: the wait has no timeout.
WaitsForever == FALSE

\* tf_timeout_ may pass at any time.
TimesOut == ~Covered(EndOfSweep)

WaitFails ==
  /\ pc = "taken"
  /\ ~Timeless
  /\ TimesOut
  /\ passthrough
  /\ UNCHANGED <<configVars, cloud, seen, knot, bufferVars>>

LookupRef ==
  /\ pc = "ref"
  /\ IF Covered(RefTime) THEN pc' = "knots" /\ UNCHANGED published ELSE passthrough
  /\ UNCHANGED <<configVars, cloud, seen, knot, bufferVars>>

LookupKnot ==
  /\ pc = "knots"
  /\ knot < KnotCount
  /\ IF Covered(KnotTime(knot)) THEN knot' = knot + 1 /\ UNCHANGED <<pc, published>>
                                ELSE passthrough /\ UNCHANGED knot
  /\ UNCHANGED <<configVars, cloud, seen, bufferVars>>

PublishDeskewed ==
  /\ pc = "knots"
  /\ knot = KnotCount
  /\ Publish("deskewed")
  /\ UNCHANGED <<configVars, cloud, seen, knot, bufferVars>>

onCloud == Forward \/ WaitSucceeds \/ WaitFails \/ LookupRef \/ LookupKnot \/ PublishDeskewed

-----------------------------------------------------------------------------
(* The buffer of transforms *)

Arrive ==
  /\ pc # "idle"
  /\ newest' \in (newest + 1)..MaxTime
  /\ UNCHANGED <<configVars, pc, cloud, seen, knot, oldest, published>>

Expire ==
  /\ pc # "idle"
  /\ oldest' \in (oldest + 1)..newest
  /\ UNCHANGED <<configVars, pc, cloud, seen, knot, newest, published>>

-----------------------------------------------------------------------------
\* No cloud comes any more.
Quiet == pc = "idle" /\ UNCHANGED vars

Next == Take \/ onCloud \/ Arrive \/ Expire \/ Quiet

Spec == Init /\ [][Next]_vars

\* The callback runs and its wait is bounded; no cloud and no transform has to
\* come.
FairSpec == Spec /\ WF_vars(onCloud)

-----------------------------------------------------------------------------
DeskewTypeOK ==
  /\ stampAt \in {"first", "last"} /\ step \in Steps
  /\ pc \in {"idle", "taken", "ref", "knots"}
  /\ cloud \in Clouds
  /\ seen \in 0..MaxClouds
  /\ knot \in 0..KnotCount
  /\ newest \in Time /\ oldest \in -1..newest
  /\ published \in Seq([no : 1..MaxClouds, how : {"unchanged", "deskewed"}])

\* "the cloud is republished UNCHANGED rather than dropped": every cloud is
\* published once, in the order they came, whatever the buffer lacks.
NoneDropped ==
  /\ Len(published) = IF pc = "idle" THEN seen ELSE seen - 1
  /\ \A i \in DOMAIN published : published[i].no = i

\* The last cloud has just been published.
Just(how) == pc = "idle" /\ published # <<>> /\ Last(published).how = how

Uncovered == ~(Covered(StartOfSweep) /\ Covered(EndOfSweep))

\* A knot has a stamp beyond the sweep that the buffer does not reach.
StampMissed ==
  \E k \in 0..(KnotCount - 1) :
    /\ Least(k * step, cloud.rows - 1) \in cloud.usable
    /\ KnotTime(k) \notin StartOfSweep..EndOfSweep
    /\ ~Covered(KnotTime(k))

\* A cloud is left skewed only for one of the reasons there are: it has neither
\* stamps nor rows, the buffer does not cover its sweep, or a knot's own stamp
\* lies outside that sweep and outside the buffer.
SkewedForCause == Just("unchanged") => Timeless \/ Uncovered \/ StampMissed

\* "Wait once, for the far end. If that is available every earlier knot is too."
\* (rslidar_deskew_node.cpp:163), and stamps are "robust to any change of scan
\* rate" (:32): a cloud that has the stamp of its first point is de-skewed if its
\* sweep is covered.  It is not if the sweep is slower than sweep_duration_ says:
\* the wait ends at the end of a sweep of that duration, before the last stamps.
EarlierKnotsToo == Just("unchanged") /\ stampAt = "first" => Timeless \/ Uncovered

\* What is known of the rows' times is what the code supposes: usable stamps
\* everywhere, or a sweep that takes sweep_duration_ from its start.
Regular ==
  \/ cloud.usable = 0..(cloud.rows - 1)
  \/ cloud.rate = 1 /\ cloud.phase = 0

\* The rows from knot k to the next that lie before a knot of their own time:
\* the last knot of a stamped cloud has the time of the last row, and that of
\* any other the end of the sweep.
BetweenKnots(k) ==
  (k + 1) * step < cloud.rows \/ ((k + 1) * step = cloud.rows /\ ~cloud.stamped)

\* "Give every point the transform belonging to ITS OWN capture time": so it is
\* for every row that is a knot and, as capture times are even, for those
\* between two.  Rows after the last full interval are moved by a pose that is
\* too early, but never by one before that of their knot.  A stamped cloud of
\* one row, which is a cloud that is not organised, is moved as a whole by the
\* pose of its first usable point.
RowsOnTime ==
  Just("deskewed") /\ Regular =>
    \A row \in 0..(cloud.rows - 1) :
      LET k == row \div step
          own == step * CaptureTime(row)
      IN  IF row % step = 0 \/ BetweenKnots(k)
          THEN AppliedTime(row) = own
          ELSE AppliedTime(row) \in (step * CaptureTime(k * step))..own

\* Every cloud taken is published, even if no transform ever comes.
CloudAnswered == pc # "idle" ~> pc = "idle"
=============================================================================
