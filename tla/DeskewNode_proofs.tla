------------------------- MODULE DeskewNode_proofs --------------------------
(***************************************************************************)
(* Theorems about DeskewNode for any set of clouds, any rows_per_knot_ and *)
(* any number of clouds received.                                          *)
(*                                                                         *)
(* Most of it is arithmetic: the knots of a cloud lie within its sweep, or *)
(* have a stamp of their own, and two neighbouring knots enclose each row. *)
(* The state contributes that a cloud is answered before the next one is   *)
(* taken, and that nothing changes while none is in hand.                  *)
(***************************************************************************)
EXTENDS DeskewNode, TLAPS

\* What is known of a cloud and the distance of its knots.
LEMMA CloudFacts ==
  ASSUME cloud \in Clouds, step \in Steps
  PROVE  /\ cloud.rows \in Nat /\ cloud.rate \in Nat /\ cloud.phase \in Int
         /\ cloud.usable \subseteq 0..(cloud.rows - 1)
         /\ ~cloud.stamped => cloud.usable = {} /\ cloud.rate = 1 /\ cloud.phase = 0
         /\ step \in Nat /\ step > 0
  BY CloudsAssumption, StepsAssumption

\* There are as many knots as it takes to get to the end of the rows.
LEMMA KnotsReachEnd ==
  ASSUME cloud \in Clouds, step \in Steps
  PROVE  /\ KnotCount \in Nat /\ KnotCount > 0
         /\ \A k \in Nat : k * step < cloud.rows => k + 1 <= KnotCount - 1
<1> DEFINE n == cloud.rows + step - 1
           q == n \div step
           r == n % step
<1>1. cloud.rows \in Nat /\ step \in Nat /\ step > 0 /\ n \in Nat BY CloudFacts
<1>2. q \in Nat /\ r \in Nat /\ r < step /\ n = step * q + r
  <2>. HIDE DEF n
  <2>. QED BY <1>1
<1>3. KnotCount = q + 1 BY DEF KnotCount
<1>4. n = cloud.rows + step - 1 OBVIOUS
<1>. HIDE DEF n, q, r
<1>5. ASSUME NEW k \in Nat, k * step < cloud.rows PROVE k + 1 <= q
  <2>1. k * step \in Nat BY <1>1
  <2>2. k * step + step <= step * q + r BY <1>1, <1>2, <1>4, <1>5, <2>1
  <2>3. CASE q <= k
    <3>1. q * step <= k * step BY <1>1, <1>2, <2>3
    <3>. QED BY <1>1, <1>2, <2>1, <2>2, <3>1
  <2>. QED BY <1>2, <2>3
<1>. QED BY <1>2, <1>3, <1>5

\* The time of a knot lies within the sweep, unless it is that of a stamp.
LEMMA KnotInSweep ==
  ASSUME cloud \in Clouds, step \in Steps, NEW k \in Nat
  PROVE  /\ KnotTime(k) \in Int
         /\ \/ KnotTime(k) \in StartOfSweep..EndOfSweep
            \/ Least(k * step, cloud.rows - 1) \in cloud.usable
<1> DEFINE row == Least(k * step, cloud.rows - 1)
<1>1. /\ cloud.rows \in Nat /\ cloud.rate \in Nat /\ cloud.phase \in Int /\ step \in Nat
      /\ cloud.usable \subseteq 0..(cloud.rows - 1)
  BY CloudFacts
<1>2. k * step \in Nat BY <1>1
<1>3. CASE row \in cloud.usable
  <2>1. KnotTime(k) = CaptureTime(row) BY <1>3 DEF KnotTime
  <2>2. row \in Nat BY <1>1, <1>3
  <2>. HIDE DEF row
  <2>3. CaptureTime(row) \in Int BY <1>1, <2>2 DEF CaptureTime
  <2>4. KnotTime(k) \in Int BY <2>1, <2>3
  <2>. QED BY <1>3, <2>4 DEF row
<1>4. CASE row \notin cloud.usable
  <2>1. KnotTime(k) = Reconstructed(k) BY <1>4 DEF KnotTime
  <2>2. Reconstructed(k) \in 0..cloud.rows
    <3> DEFINE p == k * step
    <3>1. p \in Nat BY <1>2
    <3>2. Reconstructed(k) = Least(p, cloud.rows) BY DEF Reconstructed
    <3>. HIDE DEF p
    <3>. QED BY <1>1, <3>1, <3>2 DEF Least
  <2>. QED BY <1>1, <2>1, <2>2 DEF StartOfSweep, EndOfSweep
<1>. QED BY <1>3, <1>4

\* A pose that is missing within the sweep is missing at one of its ends.
LEMMA MissingAtAnEnd ==
  ASSUME cloud \in Clouds, oldest \in Int, newest \in Int,
         NEW t \in StartOfSweep..EndOfSweep, ~Covered(t)
  PROVE  ~(Covered(StartOfSweep) /\ Covered(EndOfSweep))
<1>1. cloud.rows \in Nat BY CloudsAssumption
<1>. QED BY <1>1 DEF Covered, StartOfSweep, EndOfSweep

-----------------------------------------------------------------------------
(* Rows and the knots around them *)

\* A pose between those of times a and b, m of the s rows along, for rows that
\* are captured at an even rate.
LEMMA Between ==
  ASSUME NEW s \in Nat, s > 0, NEW m \in 0..(s - 1), NEW x \in Int, NEW rate \in Nat, NEW d \in 0..s
  PROVE  /\ x * (s - m) + (x + rate * s) * m = s * (x + rate * m)
         /\ x * (s - m) + (x + rate * d) * m >= s * x
         /\ x * (s - m) + (x + rate * d) * m <= s * (x + rate * m)
<1>1. m \in Nat /\ d \in Nat /\ s - d \in Nat /\ s - m \in Int OBVIOUS
<1>2. rate * m \in Nat /\ rate * d \in Nat BY <1>1
<1>3. (rate * m) * d \in Nat /\ (rate * m) * (s - d) \in Nat BY <1>1, <1>2
<1>4. x * (s - m) + (x + rate * d) * m = s * x + (rate * m) * d BY <1>1
<1>5. s * (x + rate * m) = s * x + (rate * m) * d + (rate * m) * (s - d) BY <1>1
<1>6. x * (s - m) + (x + rate * s) * m = s * (x + rate * m) BY <1>1
<1>7. s * x \in Int /\ s * (x + rate * m) \in Int BY <1>1, <1>2
<1>. QED BY <1>3, <1>4, <1>5, <1>6, <1>7

\* A row that is a knot has its own time, if what is supposed of it is so.
LEMMA OwnTime ==
  ASSUME cloud \in Clouds, step \in Steps, Regular, NEW k \in Nat, k * step <= cloud.rows - 1
  PROVE  KnotTime(k) = CaptureTime(k * step)
<1>1. /\ cloud.rows \in Nat /\ step \in Nat /\ cloud.rate \in Nat /\ cloud.phase \in Int
  BY CloudFacts
<1>2. k * step \in Nat BY <1>1
<1> DEFINE row == k * step
<1>3. row \in Nat /\ row <= cloud.rows - 1 BY <1>2
<1>4. KnotTime(k) = IF row \in cloud.usable THEN CaptureTime(row) ELSE row
  <2>1. KnotTime(k) = IF Least(row, cloud.rows - 1) \in cloud.usable
                      THEN CaptureTime(Least(row, cloud.rows - 1)) ELSE Least(row, cloud.rows)
    BY DEF KnotTime, Reconstructed
  <2>. HIDE DEF row
  <2>2. Least(row, cloud.rows - 1) = row /\ Least(row, cloud.rows) = row BY <1>1, <1>3 DEF Least
  <2>. QED BY <2>1, <2>2
<1>. HIDE DEF row
<1>5. CASE row \in cloud.usable BY <1>4, <1>5 DEF row
<1>6. CASE row \notin cloud.usable
  <2>1. row \in 0..(cloud.rows - 1) BY <1>1, <1>3
  <2>2. cloud.rate = 1 /\ cloud.phase = 0 BY <1>6, <2>1 DEF Regular
  <2>3. CaptureTime(row) = row BY <1>3, <2>2 DEF CaptureTime
  <2>. QED BY <1>4, <1>6, <2>3 DEF row
<1>. QED BY <1>5, <1>6

\* The knot behind the last row has the time of some row up to one behind it.
LEMMA LastKnot ==
  ASSUME cloud \in Clouds, step \in Steps, Regular, NEW k \in Nat,
         k * step <= cloud.rows - 1, (k + 1) * step >= cloud.rows
  PROVE  \E d \in 0..step :
           /\ KnotTime(k + 1) = CaptureTime(k * step) + cloud.rate * d
           /\ BetweenKnots(k) => d = step
<1> DEFINE x == k * step
           y == (k + 1) * step
           n == cloud.rows
<1>1. /\ n \in Nat /\ step \in Nat /\ cloud.rate \in Nat /\ cloud.phase \in Int /\ step > 0
      /\ ~cloud.stamped => cloud.usable = {} /\ cloud.rate = 1 /\ cloud.phase = 0
  BY CloudFacts
<1>2. x \in Nat /\ y = x + step /\ y \in Nat BY <1>1
<1>3. x <= n - 1 /\ y >= n OBVIOUS
<1>4. KnotTime(k + 1) = IF n - 1 \in cloud.usable THEN CaptureTime(n - 1) ELSE n
  <2>1. KnotTime(k + 1) = IF Least(y, n - 1) \in cloud.usable
                          THEN CaptureTime(Least(y, n - 1)) ELSE Least(y, n)
    BY DEF KnotTime, Reconstructed
  <2>. HIDE DEF y, n
  <2>2. Least(y, n - 1) = n - 1 /\ Least(y, n) = n BY <1>1, <1>2, <1>3 DEF Least
  <2>. QED BY <2>1, <2>2
<1>5. BetweenKnots(k) <=> y < n \/ (y = n /\ ~cloud.stamped) BY DEF BetweenKnots
<1>. HIDE DEF x, y, n
<1>6. CaptureTime(x) = cloud.rate * x + cloud.phase BY DEF CaptureTime
<1>7. CASE n - 1 \in cloud.usable
  <2> DEFINE d == n - 1 - x
  <2>1. d \in 0..step /\ x + d = n - 1 BY <1>1, <1>2, <1>3
  <2>2. ~BetweenKnots(k) BY <1>1, <1>2, <1>3, <1>5, <1>7
  <2>. HIDE DEF d
  <2>3. KnotTime(k + 1) = cloud.rate * (x + d) + cloud.phase BY <1>4, <1>7, <2>1 DEF CaptureTime
  <2>4. cloud.rate * (x + d) + cloud.phase = (cloud.rate * x + cloud.phase) + cloud.rate * d
    BY <1>1, <1>2, <2>1
  <2>5. KnotTime(k + 1) = CaptureTime(x) + cloud.rate * d BY <1>6, <2>3, <2>4
  <2>. QED BY <2>1, <2>2, <2>5 DEF x
<1>8. CASE n - 1 \notin cloud.usable
  <2> DEFINE d == n - x
  <2>1. d \in 0..step /\ x + d = n BY <1>1, <1>2, <1>3
  <2>2. BetweenKnots(k) => d = step BY <1>1, <1>2, <1>3, <1>5
  <2>. HIDE DEF d
  <2>3. n - 1 \in 0..(n - 1) BY <1>1, <1>2, <1>3
  <2>4. cloud.rate = 1 /\ cloud.phase = 0 BY <1>8, <2>3 DEF Regular, n
  <2>5. CaptureTime(x) + cloud.rate * d = x + d BY <1>2, <1>6, <2>1, <2>4
  <2>6. KnotTime(k + 1) = CaptureTime(x) + cloud.rate * d BY <1>4, <1>8, <2>1, <2>5
  <2>. QED BY <2>1, <2>2, <2>6 DEF x
<1>. QED BY <1>7, <1>8

\* Two neighbouring knots enclose the rows between.
LEMMA RowBetweenKnots ==
  ASSUME cloud \in Clouds, step \in Steps, Regular, NEW row \in 0..(cloud.rows - 1)
  PROVE  LET k == row \div step
             own == step * CaptureTime(row)
         IN  /\ row % step = 0 \/ BetweenKnots(k) => AppliedTime(row) = own
             /\ AppliedTime(row) \in (step * CaptureTime(k * step))..own
<1> DEFINE k == row \div step
           m == row % step
           x == CaptureTime(k * step)
           own == step * CaptureTime(row)
<1>1. /\ cloud.rows \in Nat /\ step \in Nat /\ cloud.rate \in Nat /\ cloud.phase \in Int /\ step > 0
      /\ row \in Nat /\ row <= cloud.rows - 1
  BY CloudFacts
<1>2. k \in Nat /\ m \in 0..(step - 1) /\ row = step * k + m BY <1>1
<1>3. AppliedTime(row) = KnotTime(k) * (step - m) + KnotTime(Least(k + 1, KnotCount - 1)) * m
  BY DEF AppliedTime
<1>. HIDE DEF k, m
<1>4. k * step \in Nat /\ row = k * step + m /\ k * step <= cloud.rows - 1 /\ k * step < cloud.rows
  BY <1>1, <1>2
<1>5. Least(k + 1, KnotCount - 1) = k + 1
  <2>1. KnotCount \in Nat /\ k + 1 <= KnotCount - 1 BY <1>2, <1>4, KnotsReachEnd
  <2>. QED BY <1>2, <2>1 DEF Least
<1>6. KnotTime(k) = x BY <1>2, <1>4, OwnTime
<1>7. x \in Int /\ CaptureTime(row) = x + cloud.rate * m
  <2>1. x = cloud.rate * (k * step) + cloud.phase BY DEF CaptureTime
  <2>2. cloud.rate * (k * step) \in Int BY <1>1, <1>4
  <2>3. CaptureTime(row) = cloud.rate * (k * step + m) + cloud.phase BY <1>4 DEF CaptureTime
  <2>4. cloud.rate * (k * step + m) + cloud.phase = (cloud.rate * (k * step) + cloud.phase) + cloud.rate * m
    <3> DEFINE z == k * step
    <3>1. z \in Nat BY <1>4
    <3>. HIDE DEF z
    <3>2. cloud.rate * (z + m) + cloud.phase = (cloud.rate * z + cloud.phase) + cloud.rate * m
      BY <1>1, <1>2, <3>1
    <3>. QED BY <3>2 DEF z
  <2>. QED BY <1>1, <2>1, <2>2, <2>3, <2>4
<1>8. \E d \in 0..step : KnotTime(k + 1) = x + cloud.rate * d /\ (BetweenKnots(k) => d = step)
  <2>1. CASE (k + 1) * step >= cloud.rows BY <1>2, <1>4, <2>1, LastKnot
  <2>2. CASE ~((k + 1) * step >= cloud.rows)
    <3> DEFINE z == k * step
    <3>1. (k + 1) * step = z + step /\ z \in Nat BY <1>1, <1>2, <1>4
    <3>2. (k + 1) * step <= cloud.rows - 1 /\ k + 1 \in Nat BY <1>1, <1>2, <2>2, <3>1
    <3>3. KnotTime(k + 1) = CaptureTime((k + 1) * step) BY <3>2, OwnTime
    <3>4. CaptureTime((k + 1) * step) = cloud.rate * (z + step) + cloud.phase BY <3>1
       DEF CaptureTime
    <3>5. x = cloud.rate * z + cloud.phase BY DEF CaptureTime
    <3>. HIDE DEF z, x
    <3>6. cloud.rate * (z + step) + cloud.phase = x + cloud.rate * step BY <1>1, <3>1, <3>5
    <3>7. step \in 0..step BY <1>1
    <3>. QED BY <3>3, <3>4, <3>6, <3>7
  <2>. QED BY <2>1, <2>2
<1>9. PICK d \in 0..step : KnotTime(k + 1) = x + cloud.rate * d /\ (BetweenKnots(k) => d = step)
  BY <1>8
<1>10. AppliedTime(row) = x * (step - m) + (x + cloud.rate * d) * m BY <1>3, <1>5, <1>6, <1>9
<1>11. own = step * (x + cloud.rate * m) BY <1>7
<1>. HIDE DEF x, own
<1>12. /\ x * (step - m) + (x + cloud.rate * step) * m = own
       /\ x * (step - m) + (x + cloud.rate * d) * m >= step * x
       /\ x * (step - m) + (x + cloud.rate * d) * m <= own
  BY <1>1, <1>2, <1>7, <1>11, Between
<1>13. CASE m = 0
  <2>1. AppliedTime(row) = x * step BY <1>1, <1>7, <1>9, <1>10, <1>13
  <2>2. own = x * step BY <1>1, <1>7, <1>11, <1>13
  <2>3. own \in Int /\ step * x = own BY <1>1, <1>7, <2>2
  <2>. QED BY <2>1, <2>2, <2>3 DEF own, x, k, m
<1>14. CASE BetweenKnots(k)
  <2>1. AppliedTime(row) = own BY <1>9, <1>10, <1>12, <1>14
  <2>2. step * x <= own /\ step * x \in Int /\ own \in Int
    BY <1>1, <1>2, <1>7, <1>9, <1>11, <1>12
  <2>3. own \in (step * x)..own BY <2>2
  <2>. QED BY <2>1, <2>3 DEF own, x, k, m
<1>15. CASE m # 0 /\ ~BetweenKnots(k)
  <2>1. step * x \in Int /\ own \in Int /\ AppliedTime(row) \in Int
    BY <1>1, <1>2, <1>7, <1>9, <1>10, <1>11
  <2>2. AppliedTime(row) \in (step * x)..own BY <1>10, <1>12, <2>1
  <2>. QED BY <1>15, <2>2 DEF own, x, k, m
<1>. QED BY <1>13, <1>14, <1>15

-----------------------------------------------------------------------------
(* The callback *)

\* The invariant: a cloud that stands published until the next one comes keeps
\* the reason it was published for.
IInv == DeskewTypeOK /\ NoneDropped /\ SkewedForCause

\* Nothing was taken yet.
LEMMA Initial == Init => IInv
<1> SUFFICES ASSUME Init PROVE IInv OBVIOUS
<1>1. cloud \in Clouds /\ step \in Steps BY CloudsAssumption DEF Init
<1>2. KnotCount \in Nat BY <1>1, KnotsReachEnd
<1>3. DeskewTypeOK BY <1>1, <1>2, BoundsAssumption DEF Init, DeskewTypeOK, Time
<1>4. NoneDropped /\ ~Just("unchanged") BY DEF Init, NoneDropped, Just
<1>. QED BY <1>3, <1>4 DEF IInv, SkewedForCause, Init

\* What is published: one entry more, of the cloud taken last.
LEMMA Published ==
  ASSUME IInv, pc # "idle", NEW how \in {"unchanged", "deskewed"}, Publish(how), UNCHANGED seen
  PROVE  /\ published' \in Seq([no : 1..MaxClouds, how : {"unchanged", "deskewed"}])
         /\ NoneDropped'
         /\ pc' = "idle" /\ published' # <<>> /\ Last(published').how = how
<1> DEFINE entry == [no |-> seen, how |-> how]
           S == [no : 1..MaxClouds, how : {"unchanged", "deskewed"}]
<1>1. /\ published \in Seq(S) /\ Len(published) = seen - 1 /\ seen \in 0..MaxClouds
      /\ \A i \in DOMAIN published : published[i].no = i
  BY DEF IInv, DeskewTypeOK, NoneDropped
<1>2. seen \in 1..MaxClouds BY <1>1, BoundsAssumption
<1>3. published' = Append(published, entry) /\ pc' = "idle" BY DEF Publish
<1>4. entry \in S /\ entry.no = seen /\ entry.how = how BY <1>2
<1>. HIDE DEF entry, S
<1>5. /\ published' \in Seq(S) /\ Len(published') = seen /\ published'[seen] = entry
      /\ \A i \in 1..(seen - 1) : published'[i] = published[i]
  BY <1>1, <1>2, <1>3, <1>4
<1>6. \A i \in 1..seen : published'[i].no = i
  <2>1. \A i \in 1..seen : i = seen \/ i \in 1..(seen - 1) BY <1>2
  <2>2. DOMAIN published = 1..(seen - 1) BY <1>1
  <2>. QED BY <1>1, <1>4, <1>5, <2>1, <2>2
<1>7. DOMAIN published' = 1..seen BY <1>5
<1>8. NoneDropped' BY <1>3, <1>5, <1>6, <1>7 DEF NoneDropped
<1>9. published' # <<>> /\ Last(published') = entry BY <1>2, <1>5 DEF Last
<1>. QED BY <1>3, <1>4, <1>5, <1>8, <1>9 DEF S

\* The reasons to leave a cloud skewed lie in the cloud and in the buffer.
LEMMA CausesStay ==
  ASSUME UNCHANGED <<configVars, cloud, bufferVars>>
  PROVE  (Timeless <=> Timeless') /\ (Uncovered <=> Uncovered') /\ (StampMissed <=> StampMissed')
<1>1. (Timeless <=> Timeless') /\ (Uncovered <=> Uncovered')
  BY DEF Timeless, Uncovered, Covered, StartOfSweep, EndOfSweep, bufferVars
<1>2. KnotCount' = KnotCount /\ \A k : KnotTime(k)' = KnotTime(k)
  BY DEF KnotCount, KnotTime, CaptureTime, Reconstructed, Least, configVars
<1>3. \A t : Covered(t) <=> Covered(t)' BY DEF Covered, bufferVars
<1>4. StampMissed <=> StampMissed'
  BY <1>2, <1>3 DEF StampMissed, StartOfSweep, EndOfSweep, Least, configVars
<1>. QED BY <1>1, <1>4

\* A cloud that is published unchanged has a reason.
LEMMA Passes ==
  ASSUME IInv, pc # "idle", Publish("unchanged"), UNCHANGED <<configVars, cloud, seen, knot, bufferVars>>,
         Timeless \/ Uncovered \/ StampMissed
  PROVE  IInv'
<1>1. /\ published' \in Seq([no : 1..MaxClouds, how : {"unchanged", "deskewed"}])
      /\ NoneDropped' /\ pc' = "idle" /\ published' # <<>> /\ Last(published').how = "unchanged"
  BY Published
<1>2. KnotCount' = KnotCount BY DEF KnotCount, configVars
<1>3. DeskewTypeOK' BY <1>1, <1>2 DEF IInv, DeskewTypeOK, configVars, bufferVars
<1>4. (Timeless \/ Uncovered \/ StampMissed)' BY CausesStay
<1>. QED BY <1>1, <1>3, <1>4 DEF IInv, SkewedForCause

\* A cloud that comes has no knots yet.
LEMMA TakeKeeps == ASSUME IInv, Take PROVE IInv'
<1>1. /\ cloud' \in Clouds /\ step' \in Steps /\ seen' = seen + 1 /\ pc' = "taken" /\ knot' = 0
      /\ published' = published /\ pc = "idle"
  BY DEF Take, IInv, DeskewTypeOK, configVars, NoKnots
<1>2. KnotCount' \in Nat
  <2>1. \A c \in Clouds, s \in Steps : (c.rows + s - 1) \div s + 1 \in Nat
    <3> TAKE c \in Clouds, s \in Steps
    <3> DEFINE n == c.rows + s - 1
    <3>1. n \in Nat /\ s \in Nat /\ s > 0 BY CloudsAssumption, StepsAssumption
    <3>. HIDE DEF n
    <3>2. n \div s + 1 \in Nat BY <3>1
    <3>. QED BY <3>2 DEF n
  <2>. QED BY <1>1, <2>1 DEF KnotCount
<1>3. seen' \in 0..MaxClouds BY BoundsAssumption DEF Take, IInv, DeskewTypeOK
<1>4. DeskewTypeOK' BY <1>1, <1>2, <1>3 DEF Take, IInv, DeskewTypeOK, configVars
<1>5. NoneDropped' BY <1>1 DEF IInv, DeskewTypeOK, NoneDropped
<1>6. ~Just("unchanged")' BY <1>1 DEF Just
<1>. QED BY <1>1, <1>4, <1>5, <1>6 DEF IInv, SkewedForCause

\* A step that neither takes nor publishes a cloud.
LEMMA BetweenTimes ==
  ASSUME IInv, pc # "idle", pc' \in {"taken", "ref", "knots"},
         UNCHANGED <<configVars, cloud, seen, published>>,
         knot' \in 0..KnotCount, newest' \in Time, oldest' \in -1..newest'
  PROVE  IInv'
<1>1. KnotCount' = KnotCount BY DEF KnotCount, configVars
<1>2. DeskewTypeOK' BY <1>1 DEF IInv, DeskewTypeOK, configVars
<1>3. NoneDropped' BY DEF IInv, NoneDropped
<1>4. ~Just("unchanged")' BY DEF Just
<1>. QED BY <1>1, <1>2, <1>3, <1>4 DEF IInv, SkewedForCause

\* The callback: one step after the other.
LEMMA onCloudKeeps == ASSUME IInv, onCloud PROVE IInv'
<1>0. /\ cloud \in Clouds /\ step \in Steps /\ oldest \in Int /\ newest \in Int
      /\ knot \in Nat /\ knot \in 0..KnotCount /\ newest \in Time /\ oldest \in -1..newest
  <2>1. cloud \in Clouds /\ step \in Steps /\ knot \in 0..KnotCount /\ newest \in Time /\ oldest \in -1..newest
    BY DEF IInv, DeskewTypeOK
  <2>. QED BY <2>1, BoundsAssumption DEF Time
<1>7. /\ KnotTime(knot) \in Int
      /\ \/ KnotTime(knot) \in StartOfSweep..EndOfSweep
         \/ Least(knot * step, cloud.rows - 1) \in cloud.usable
  BY <1>0, KnotInSweep
<1>8. KnotCount \in Nat BY <1>0, KnotsReachEnd
<1>1. CASE Forward BY <1>1, Passes DEF Forward
<1>2. CASE WaitSucceeds BY <1>0, <1>2, BetweenTimes DEF WaitSucceeds, bufferVars
<1>3. CASE WaitFails BY <1>3, Passes DEF WaitFails, TimesOut, passthrough, Uncovered
<1>4. CASE LookupRef
  <2>1. CASE Covered(RefTime) BY <1>0, <1>4, <2>1, BetweenTimes DEF LookupRef, bufferVars
  <2>2. CASE ~Covered(RefTime)
    <3>1. Uncovered BY <2>2 DEF RefTime, Uncovered
    <3>. QED BY <1>4, <2>2, <3>1, Passes DEF LookupRef, passthrough
  <2>. QED BY <2>1, <2>2
<1>5. CASE LookupKnot
  <2>1. CASE Covered(KnotTime(knot))
    <3>1. knot + 1 \in 0..KnotCount BY <1>0, <1>5, KnotsReachEnd DEF LookupKnot
    <3>. QED BY <1>0, <1>5, <2>1, <3>1, BetweenTimes DEF LookupKnot, bufferVars
  <2>2. CASE ~Covered(KnotTime(knot))
    <3>1. Uncovered \/ StampMissed
      <4>1. CASE KnotTime(knot) \in StartOfSweep..EndOfSweep
        BY <1>0, <2>2, <4>1, MissingAtAnEnd DEF Uncovered
      <4>2. CASE KnotTime(knot) \notin StartOfSweep..EndOfSweep
        <5>1. Least(knot * step, cloud.rows - 1) \in cloud.usable BY <1>7, <4>2
        <5>2. knot \in 0..(KnotCount - 1) BY <1>0, <1>5, <1>8 DEF LookupKnot
        <5>. QED BY <2>2, <4>2, <5>1, <5>2 DEF StampMissed
      <4>. QED BY <4>1, <4>2
    <3>. QED BY <1>5, <2>2, <3>1, Passes DEF LookupKnot, passthrough
  <2>. QED BY <2>1, <2>2
<1>6. CASE PublishDeskewed
  <2>1. pc # "idle" /\ Publish("deskewed") /\ UNCHANGED <<configVars, cloud, seen, knot, bufferVars>>
    BY <1>6 DEF PublishDeskewed
  <2>2. /\ published' \in Seq([no : 1..MaxClouds, how : {"unchanged", "deskewed"}])
        /\ NoneDropped' /\ pc' = "idle" /\ published' # <<>> /\ Last(published').how = "deskewed"
    BY <2>1, Published
  <2>3. KnotCount' = KnotCount BY <2>1 DEF KnotCount, configVars
  <2>4. DeskewTypeOK' BY <2>1, <2>2, <2>3 DEF IInv, DeskewTypeOK, configVars, bufferVars
  <2>5. ~Just("unchanged")' BY <2>2 DEF Just
  <2>. QED BY <2>2, <2>3, <2>4, <2>5 DEF IInv, SkewedForCause
<1>. QED BY <1>1, <1>2, <1>3, <1>4, <1>5, <1>6 DEF onCloud

\* The buffer moves only while a cloud is in hand.
LEMMA BufferKeeps == ASSUME IInv, Arrive \/ Expire PROVE IInv'
<1>1. /\ newest \in -1..MaxTime /\ oldest \in -1..newest /\ knot \in 0..KnotCount
      /\ pc \in {"idle", "taken", "ref", "knots"} /\ MaxTime \in Nat
  BY BoundsAssumption DEF IInv, DeskewTypeOK, Time
<1>2. pc' = pc /\ pc # "idle" /\ knot' = knot /\ UNCHANGED <<configVars, cloud, seen, published>>
  BY DEF Arrive, Expire
<1>3. newest' \in -1..MaxTime /\ oldest' \in -1..newest'
  <2>1. CASE Arrive
    <3>1. oldest' = oldest /\ newest' \in (newest + 1)..MaxTime BY <2>1 DEF Arrive
    <3>. QED BY <1>1, <3>1
  <2>2. CASE Expire
    <3>1. newest' = newest /\ oldest' \in (oldest + 1)..newest BY <2>2 DEF Expire
    <3>. QED BY <1>1, <3>1
  <2>. QED BY <2>1, <2>2
<1>. QED BY <1>1, <1>2, <1>3, BetweenTimes DEF Time

\* IInv is inductive.
LEMMA IInvStep == IInv /\ [Next]_vars => IInv'
<1> SUFFICES ASSUME IInv, [Next]_vars PROVE IInv' OBVIOUS
<1>1. CASE UNCHANGED vars
  <2>1. KnotCount' = KnotCount /\ (Just("unchanged") <=> Just("unchanged")')
    BY <1>1 DEF KnotCount, Just, vars, configVars
  <2>2. DeskewTypeOK' /\ NoneDropped'
    BY <1>1, <2>1 DEF IInv, DeskewTypeOK, NoneDropped, vars, configVars, bufferVars
  <2>3. SkewedForCause' BY <1>1, <2>1, CausesStay DEF IInv, SkewedForCause, vars
  <2>. QED BY <2>2, <2>3 DEF IInv
<1>. QED BY <1>1, TakeKeeps, onCloudKeeps, BufferKeeps DEF Next, Quiet

\* IInv is an invariant of rslidar_deskew_node: types, what was published, why.
THEOREM Invariant == Spec => []IInv
BY Initial, IInvStep, PTL DEF Spec

\* DeskewTypeOK, for any clouds: the variables of onCloud keep their types, no
\* knot is looked up beyond the last and nothing is published that did not come.
THEOREM TypeCorrectness == Spec => []DeskewTypeOK
<1>1. IInv => DeskewTypeOK BY DEF IInv
<1>. QED BY <1>1, Invariant, PTL

\* NoneDropped, for any number of clouds: whatever is missing, onCloud publishes
\* every cloud once, in the order they came.
THEOREM NoneDroppedAlways == Spec => []NoneDropped
<1>1. IInv => NoneDropped BY DEF IInv
<1>. QED BY <1>1, Invariant, PTL

\* SkewedForCause, for any clouds and any moments at which transforms come and
\* go: onCloud passes a cloud on unchanged only if it has neither stamps nor rows,
\* its sweep is not covered, or the buffer does not reach a knot's stamp beyond it.
THEOREM SkewedForCauseAlways == Spec => []SkewedForCause
<1>1. IInv => SkewedForCause BY DEF IInv
<1>. QED BY <1>1, Invariant, PTL

\* RowsOnTime, for any clouds, any number of rows and any rows_per_knot_: the
\* interpolation of onCloud gives a row the pose of its own capture time, or, in
\* the last interval, one between that of its knot and its own.
THEOREM RowsOnTimeAlways == Spec => []RowsOnTime
<1>1. IInv => RowsOnTime
  <2>1. SUFFICES ASSUME IInv, Regular, NEW row \in 0..(cloud.rows - 1)
        PROVE  LET k == row \div step
                   own == step * CaptureTime(row)
               IN  IF row % step = 0 \/ BetweenKnots(k)
                   THEN AppliedTime(row) = own
                   ELSE AppliedTime(row) \in (step * CaptureTime(k * step))..own
    BY DEF RowsOnTime
  <2>2. cloud \in Clouds /\ step \in Steps BY <2>1 DEF IInv, DeskewTypeOK
  <2>. QED BY <2>1, <2>2, RowBetweenKnots
<1>. QED BY <1>1, Invariant, PTL
=============================================================================
