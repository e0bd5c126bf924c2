------------------------- MODULE FrameParser_proofs -------------------------
(***************************************************************************)
(* Theorems about FrameParser for any streams, any cuts and any limits:    *)
(* frames are handled whole, once and in order, and none is thrown away.   *)
(*                                                                         *)
(* Both follow from what is erased.  A step erases nothing, one cell that  *)
(* begins no frame worth handling, or all that the start at the head       *)
(* claims - and what it claims has been received by then.                  *)
(***************************************************************************)
EXTENDS FrameParser, TLAPS

\* The types of the state; nothing is erased that was not received.
Types ==
  /\ family \in Family
  /\ wire \in Seq(Cell)
  /\ received \in 0..Len(wire)
  /\ erased \in 0..received
  /\ pc \in {"read", "parse"}
  /\ gaveUp \in BOOLEAN
  /\ handled \in Seq(1..Len(wire))

HandledWhole ==
  \A k \in DOMAIN handled : Good(handled[k]) /\ EndOf(handled[k]) <= erased

HandledInOrder ==
  \A k \in DOMAIN handled : k > 1 => EndOf(handled[k - 1]) < handled[k]

\* Frames sent as they should be have a length the parser accepts.
Fits == \A i \in 1..Len(wire) : Good(i) => wire[i].claim \in MinFrame..MaxFrame

IInv == Types /\ Fits /\ HandledWhole /\ HandledInOrder /\ NoneLost /\ NoneWaiting

\* What a start claims is not negative, nor is where it ends.
LEMMA Claims ==
  ASSUME Types, NEW i \in 1..Len(wire)
  PROVE  wire[i] \in Cell /\ wire[i].claim \in Nat \ {0} /\ EndOf(i) \in Nat /\ i <= EndOf(i)
<1>1. wire[i] \in Cell BY DEF Types
<1>2. wire[i].claim \in Nat \ {0} BY <1>1 DEF Cell
<1>. QED BY <1>1, <1>2 DEF EndOf

\* What may be looked at has been received.
LEMMA HeadOfBuffer ==
  ASSUME Types, Looking
  PROVE  erased + 1 \in 1..Len(wire) /\ erased + 1 <= received
  BY DEF Types, Looking, Buffered, MinBuffer, MinFrame

\* What a whole frame claims has been received, and is not empty.
LEMMA WholeFrame ==
  ASSUME Types, Whole, head.ok
  PROVE  /\ erased + 1 \in 1..Len(wire)
         /\ head.claim \in Nat \ {0}
         /\ erased + head.claim <= received
         /\ erased + head.claim = EndOf(erased + 1)
<1>1. Looking BY DEF Whole
<1>2. erased + 1 \in 1..Len(wire) BY <1>1, HeadOfBuffer
<1>3. head.claim \in Nat \ {0} BY <1>2, Claims DEF head
<1>4. erased \in Nat /\ received \in Nat BY DEF Types
<1>5. Buffered >= head.claim BY DEF Whole
<1>6. erased + head.claim <= received BY <1>3, <1>4, <1>5 DEF Buffered
<1>7. EndOf(erased + 1) = erased + head.claim BY <1>3, <1>4 DEF EndOf, head
<1>. QED BY <1>2, <1>3, <1>6, <1>7

\* Every step keeps the types.
LEMMA TypesStep ==
  ASSUME Types, [Next]_vars
  PROVE  Types'
<1>1. erased \in Nat /\ received \in Nat /\ Len(wire) \in Nat BY DEF Types
<1>2. CASE Read
  <2>1. PICK n \in 1..MaxChunk : received + n <= Len(wire) /\ received' = received + n
    BY <1>2 DEF Read
  <2>2. received' \in 0..Len(wire) /\ erased \in 0..received'
    BY <1>1, <2>1, MaxChunkAssumption DEF Types
  <2>. QED BY <1>2, <2>2 DEF Read, Types
<1>3. CASE Exhausted \/ Incomplete
  <2>1. erased + 0 = erased BY <1>1
  <2>2. /\ UNCHANGED <<family, wire, received, erased, handled>>
        /\ pc' = "read" /\ gaveUp' = FALSE
    BY <1>3, <2>1 DEF Exhausted, Incomplete, Return
  <2>. QED BY <2>2 DEF Types
<1>4. CASE Skip \/ WrongHeader
  <2>1. erased + 1 <= received BY <1>4, HeadOfBuffer DEF Skip, WrongHeader
  <2>. QED BY <1>1, <1>4, <2>1 DEF Skip, WrongHeader, Continue, Types
<1>5. CASE WrongCrc
  <2>1. erased + 1 \in 1..Len(wire) BY <1>5, HeadOfBuffer DEF WrongCrc, Whole
  <2>2. head.claim \in Nat BY <2>1, Claims DEF head
  <2>3. erased + head.claim <= received
    BY <1>1, <1>5, <2>2 DEF WrongCrc, Whole, Buffered
  <2>4. erased + head.claim \in 0..received BY <1>1, <2>2, <2>3
  <2>. QED BY <1>5, <2>4 DEF WrongCrc, Return, Types
<1>6. CASE Handle
  <2>1. /\ erased + 1 \in 1..Len(wire)
        /\ erased + head.claim \in 0..received
    BY <1>1, <1>6, WholeFrame DEF Handle
  <2>2. Append(handled, erased + 1) \in Seq(1..Len(wire)) BY <2>1 DEF Types
  <2>. QED BY <1>6, <2>1, <2>2 DEF Handle, Continue, Types
<1>7. CASE UNCHANGED vars BY <1>7 DEF vars, Types
<1>. QED BY <1>2, <1>3, <1>4, <1>5, <1>6, <1>7 DEF Next, Parse, Ended

\* A step that handles nothing erases no less than before.
LEMMA ErasesMore ==
  ASSUME Types, Next, ~Handle
  PROVE  handled' = handled /\ wire' = wire /\ family' = family /\ erased' >= erased
<1>1. erased \in Nat BY DEF Types
<1>2. CASE Read \/ Exhausted \/ Incomplete
  BY <1>1, <1>2 DEF Read, Exhausted, Incomplete, Return
<1>3. CASE Skip \/ WrongHeader BY <1>1, <1>3 DEF Skip, WrongHeader, Continue
<1>4. CASE WrongCrc
  <2>1. erased + 1 \in 1..Len(wire) BY <1>4, HeadOfBuffer DEF WrongCrc, Whole
  <2>2. head.claim \in Nat BY <2>1, Claims DEF head
  <2>. QED BY <1>1, <1>4, <2>2 DEF WrongCrc, Return
<1>5. CASE Ended BY <1>1, <1>5 DEF Ended, vars
<1>. QED BY <1>2, <1>3, <1>4, <1>5 DEF Next, Parse

\* Frames that were handled lie in order in what was erased.
LEMMA HandledStep ==
  ASSUME Types, HandledWhole, HandledInOrder, [Next]_vars
  PROVE  HandledWhole' /\ HandledInOrder'
<1>1. handled \in Seq(1..Len(wire)) /\ erased \in Nat BY DEF Types
<1>2. \A k \in DOMAIN handled : EndOf(handled[k]) \in Nat BY <1>1, Claims
<1>3. CASE UNCHANGED vars
  BY <1>3 DEF vars, HandledWhole, HandledInOrder, Good, EndOf
<1>4. CASE Next /\ ~Handle
  <2>1. handled' = handled /\ wire' = wire /\ erased' >= erased BY <1>4, ErasesMore
  <2>2. erased' \in Nat BY TypesStep DEF Types
  <2>. QED BY <1>1, <1>2, <2>1, <2>2 DEF HandledWhole, HandledInOrder, Good, EndOf
<1>5. CASE Handle
  <2>1. /\ erased + 1 \in 1..Len(wire) /\ head.claim \in Nat \ {0}
        /\ erased' = erased + head.claim /\ EndOf(erased + 1) = erased'
    BY <1>5, WholeFrame DEF Handle, Continue
  <2>2. Good(erased + 1) BY <1>5 DEF Handle, Whole, Good, head
  <2>3. wire' = wire BY <1>5 DEF Handle, Continue
  <2>4. /\ Len(handled') = Len(handled) + 1
        /\ handled'[Len(handled) + 1] = erased + 1
        /\ \A k \in DOMAIN handled : handled'[k] = handled[k]
    BY <1>1, <1>5, <2>1 DEF Handle
  <2>5. DOMAIN handled = 1..Len(handled) /\ DOMAIN handled' = 1..(Len(handled) + 1)
        /\ Len(handled) \in Nat
    BY <1>1, <1>5, <2>1 DEF Handle
  <2>6. ASSUME NEW k \in DOMAIN handled'
        PROVE  /\ Good(handled'[k]) /\ EndOf(handled'[k]) <= erased'
               /\ k > 1 => EndOf(handled'[k - 1]) < handled'[k]
    <3>1. CASE k \in DOMAIN handled
      <4>1. Good(handled[k]) /\ EndOf(handled[k]) <= erased /\ EndOf(handled[k]) \in Nat
        BY <1>2, <3>1 DEF HandledWhole
      <4>2. k > 1 => EndOf(handled[k - 1]) < handled[k] BY <3>1 DEF HandledInOrder
      <4>3. k > 1 => k - 1 \in DOMAIN handled BY <2>5, <3>1
      <4>4. handled'[k] = handled[k] /\ (k > 1 => handled'[k - 1] = handled[k - 1])
        BY <2>4, <3>1, <4>3
      <4>5. EndOf(handled[k]) <= erased' BY <1>1, <2>1, <4>1
      <4>. QED BY <4>1, <4>2, <4>4, <4>5
    <3>2. CASE k = Len(handled) + 1
      <4>1. k > 1 => EndOf(handled[k - 1]) <= erased /\ EndOf(handled[k - 1]) \in Nat /\ handled'[k - 1] = handled[k - 1]
        BY <1>2, <2>4, <2>5, <3>2 DEF HandledWhole
      <4>. QED BY <1>1, <2>1, <2>2, <2>4, <3>2, <4>1
    <3>. QED BY <2>5, <3>1, <3>2
  <2>7. \A i : Good(i)' <=> Good(i) BY <2>3 DEF Good
  <2>8. \A i : EndOf(i)' = EndOf(i) BY <2>3 DEF EndOf
  <2>. QED BY <2>6, <2>3 DEF HandledWhole, HandledInOrder, Good, EndOf
<1>. QED BY <1>3, <1>4, <1>5

\* A start that is believed covers what it claims.
LEMMA HeadCovers ==
  ASSUME Types, Whole, NEW i \in (erased + 2)..(erased + head.claim)
  PROVE  Covered(i)
<1>1. erased + 1 \in 1..Len(wire) /\ erased \in Nat BY HeadOfBuffer DEF Whole, Types
<1>2. head.claim \in Nat BY <1>1, Claims DEF head
<1>3. Believed(erased + 1) BY DEF Whole, Possible, Believed, head
<1>4. i <= EndOf(erased + 1) BY <1>1, <1>2 DEF EndOf, head
<1>5. erased + 1 \in 1..(i - 1) BY <1>1, <1>2
<1>. QED BY <1>3, <1>4, <1>5 DEF Covered

\* What a step erases is handled, covered or no frame.
LEMMA NoneLostStep ==
  ASSUME Types, NoneLost, [Next]_vars
  PROVE  NoneLost'
<1>1. erased \in Nat /\ handled \in Seq(1..Len(wire)) BY DEF Types
<1>2. CASE UNCHANGED vars
  BY <1>2 DEF vars, NoneLost, Good, WasHandled, Covered, Believed, EndOf, ChecksFrame, MinBuffer
<1>3. ASSUME Next PROVE NoneLost'
  <2>1. wire' = wire /\ family' = family
    BY <1>3, ErasesMore DEF Handle, Continue
  <2>2. ASSUME NEW i PROVE (Good(i)' <=> Good(i)) /\ (Covered(i)' <=> Covered(i))
    BY <2>1 DEF Good, Covered, Believed, EndOf, ChecksFrame, MinBuffer
  <2>3. ASSUME NEW i, WasHandled(i) PROVE WasHandled(i)'
    <3>1. CASE handled' = handled BY <2>3, <3>1 DEF WasHandled
    <3>2. CASE Handle
      <4>1. PICK k \in DOMAIN handled : handled[k] = i BY <2>3 DEF WasHandled
      <4>2. k \in DOMAIN handled' /\ handled'[k] = i
        <5>1. erased + 1 \in 1..Len(wire) BY <3>2, WholeFrame DEF Handle
        <5>. QED BY <1>1, <3>2, <4>1, <5>1 DEF Handle
      <4>. QED BY <4>2 DEF WasHandled
    <3>. QED BY <1>3, <3>1, <3>2, ErasesMore
  <2>4. SUFFICES ASSUME NEW i \in 1..erased', Good(i)'
                 PROVE  WasHandled(i)' \/ Covered(i)'
    BY DEF NoneLost
  <2>. SUFFICES ASSUME i \notin 1..erased PROVE WasHandled(i)' \/ Covered(i)
    BY <2>2, <2>3, <2>4 DEF NoneLost
  <2>good. Good(i) BY <2>2, <2>4
  <2>5. erased' \in Nat /\ i \in Nat /\ i > erased BY <1>1, TypesStep DEF Types
  <2>6. CASE Read \/ Exhausted \/ Incomplete \/ Ended
    BY <1>1, <2>5, <2>6 DEF Read, Exhausted, Incomplete, Return, Ended, vars
  <2>7. CASE Skip \/ WrongHeader
    <3>1. i = erased + 1 BY <1>1, <2>5, <2>7 DEF Skip, WrongHeader, Continue
    <3>. QED BY <2>good, <2>7, <3>1 DEF Skip, WrongHeader, Good, head
  <2>8. CASE WrongCrc
    <3>1. erased' = erased + head.claim /\ Whole /\ ~head.ok BY <2>8 DEF WrongCrc, Return
    <3>2. i # erased + 1 BY <2>good, <3>1 DEF Good, head
    <3>3. i \in (erased + 2)..(erased + head.claim) BY <1>1, <2>5, <3>1, <3>2
    <3>. QED BY <3>1, <3>3, HeadCovers
  <2>9. CASE Handle
    <3>1. erased' = erased + head.claim /\ Whole BY <2>9 DEF Handle, Continue
    <3>2. CASE i = erased + 1
      <4>1. erased + 1 \in 1..Len(wire) BY <2>9, WholeFrame DEF Handle
      <4>2. Len(handled) + 1 \in DOMAIN handled' /\ handled'[Len(handled) + 1] = i
        BY <1>1, <2>9, <3>2, <4>1 DEF Handle
      <4>. QED BY <4>2 DEF WasHandled
    <3>3. CASE i # erased + 1
      <4>1. i \in (erased + 2)..(erased + head.claim) BY <1>1, <2>5, <3>1, <3>3
      <4>. QED BY <3>1, <4>1, HeadCovers
    <3>. QED BY <3>2, <3>3
  <2>. QED BY <1>3, <2>6, <2>7, <2>8, <2>9 DEF Next, Parse
<1>. QED BY <1>2, <1>3

\* When the parser returns for want of bytes, the buffer is too short for a
\* frame, or the start at its head stops it.
LEMMA NoneWaitingStep ==
  ASSUME Types, Fits, NoneWaiting, [Next]_vars
  PROVE  NoneWaiting'
<1>. USE DEF ChecksFrame, MinBuffer
<1>1. erased \in Nat /\ received \in Nat /\ received <= Len(wire) /\ Len(wire) \in Nat
  BY DEF Types
<1>2. CASE Ended \/ UNCHANGED vars
  BY <1>2 DEF Ended, vars, NoneWaiting, Good, EndOf, Stops, Believed
<1>3. CASE Read BY <1>3 DEF Read, NoneWaiting
<1>4. CASE Skip \/ WrongHeader \/ Handle
  BY <1>4 DEF Skip, WrongHeader, Handle, Whole, Looking, Continue, NoneWaiting
<1>5. CASE WrongCrc BY <1>5 DEF WrongCrc, Return, NoneWaiting
<1>6. ASSUME Exhausted \/ Incomplete,
             \A i \in (erased + 1)..received :
               Good(i) /\ EndOf(i) <= received => \E j \in (erased + 1)..(i - 1) : Stops(j)
      PROVE  NoneWaiting'
  <2>1. erased + 0 = erased BY <1>1
  <2>2. UNCHANGED <<family, wire, received, erased>>
    BY <1>6, <2>1 DEF Exhausted, Incomplete, Return
  <2>. QED BY <1>6, <2>2 DEF NoneWaiting, Good, EndOf, Stops, Believed
<1>7. CASE Exhausted
  <2>1. ASSUME NEW i \in (erased + 1)..received, Good(i), EndOf(i) <= received PROVE FALSE
    <3>1. i \in 1..Len(wire) BY <1>1
    <3>2. wire[i].claim \in MinFrame..MaxFrame BY <2>1, <3>1 DEF Fits
    <3>3. received - erased < MinFrame BY <1>1, <1>7 DEF Exhausted, Buffered, MinFrame
    <3>4. wire[i].claim \in Nat /\ MinFrame <= wire[i].claim
      BY <3>1, <3>2, Claims DEF MinFrame
    <3>. QED BY <1>1, <2>1, <3>3, <3>4 DEF EndOf, MinFrame
  <2>. QED BY <1>6, <1>7, <2>1
<1>8. CASE Incomplete
  <2>1. erased + 1 \in 1..Len(wire) BY <1>8, HeadOfBuffer DEF Incomplete
  <2>2. wire[erased + 1].claim \in Nat \ {0} BY <2>1, Claims
  <2>3. Stops(erased + 1)
    BY <1>1, <1>8, <2>2 DEF Incomplete, Possible, Stops, Believed, Buffered, EndOf, head
  <2>4. ~(Good(erased + 1) /\ EndOf(erased + 1) <= received)
    <3>1. SUFFICES ASSUME Good(erased + 1) PROVE EndOf(erased + 1) > received
      BY <1>1, <2>1, Claims
    <3>2. wire[erased + 1].claim \in MinFrame..MaxFrame BY <2>1, <3>1 DEF Fits
    <3>. QED BY <2>3, <3>1, <3>2 DEF Stops, Believed
  <2>5. ASSUME NEW i \in (erased + 1)..received, Good(i), EndOf(i) <= received
        PROVE  erased + 1 \in (erased + 1)..(i - 1)
    BY <1>1, <2>4, <2>5
  <2>. QED BY <1>6, <1>8, <2>3, <2>5
<1>. QED BY <1>2, <1>3, <1>4, <1>5, <1>7, <1>8 DEF Next, Parse

-----------------------------------------------------------------------------
(* Theorems *)

\* The inductive invariant holds of every behaviour.
THEOREM Invariant == Spec => []IInv
<1>1. Init => IInv
  <2>1. SUFFICES ASSUME Init PROVE IInv
    OBVIOUS
  <2>2. wire \in Seq(Cell) /\ Len(wire) \in Nat BY <2>1, StreamsAssumption DEF Init
  <2>3. Types
    <3>1. <<>> \in Seq(1..Len(wire)) OBVIOUS
    <3>2. 0 \in 0..Len(wire) /\ 0 \in 0..0 BY <2>2
    <3>. QED BY <2>1, <2>2, <3>1, <3>2 DEF Init, Types
  <2>4. handled = <<>> /\ erased = 0 BY <2>1 DEF Init
  <2>5. HandledWhole /\ HandledInOrder /\ NoneLost
    BY <2>4 DEF HandledWhole, HandledInOrder, NoneLost
  <2>6. Fits BY <2>1, FrameAssumption DEF Init, Fits, Good
  <2>7. NoneWaiting BY <2>1 DEF Init, NoneWaiting
  <2>. QED BY <2>3, <2>5, <2>6, <2>7 DEF IInv
<1>2. IInv /\ [Next]_vars => IInv'
  <2>1. SUFFICES ASSUME IInv, [Next]_vars PROVE IInv'
    OBVIOUS
  <2>2. wire' = wire
    BY <2>1, ErasesMore DEF IInv, Handle, Continue, vars
  <2>3. Fits' BY <2>1, <2>2 DEF IInv, Fits, Good
  <2>. QED BY <2>1, <2>3, TypesStep, HandledStep, NoneLostStep, NoneWaitingStep DEF IInv
<1>. QED BY <1>1, <1>2, PTL DEF Spec

\* TypeOK, for any streams and any cuts: nothing is erased before it was read.
THEOREM TypeCorrectness == Spec => []TypeOK
<1>1. Init => wire \in Streams BY DEF Init
<1>2. IInv /\ wire \in Streams /\ [Next]_vars => (wire \in Streams)'
  BY ErasesMore DEF IInv, Handle, Continue, vars
<1>3. IInv /\ wire \in Streams => TypeOK BY DEF IInv, Types, TypeOK
<1>. QED BY <1>1, <1>2, <1>3, Invariant, PTL DEF Spec

\* HandledApart, for any streams and any cuts: no frame is handled twice, out of
\* order or before it has arrived.
THEOREM HandledApartAlways == Spec => []HandledApart
<1>1. IInv => HandledApart BY DEF IInv, HandledWhole, HandledInOrder, HandledApart
<1>. QED BY <1>1, Invariant, PTL

\* NoneLost, for any streams and any cuts: a frame that leaves the buffer was
\* handled, unless an earlier one claimed its bytes.
THEOREM NoneLostAlways == Spec => []NoneLost
<1>1. IInv => NoneLost BY DEF IInv
<1>. QED BY <1>1, Invariant, PTL

\* NoneWaiting, for any streams and any cuts: the parser returns for want of
\* bytes only when no frame is whole, or one that stops it is in front.
THEOREM NoneWaitingAlways == Spec => []NoneWaiting
<1>1. IInv => NoneWaiting BY DEF IInv
<1>. QED BY <1>1, Invariant, PTL
=============================================================================
