----------------------- MODULE CommandExchange_proofs -----------------------
(***************************************************************************)
(* Proofs about CommandExchange.                                           *)
(*                                                                         *)
(*   TypeCorrectness and OneReplyOneSuccessAlways hold however late the    *)
(*   replies are: Wire says that every request and every reply is under    *)
(*   way once, Counted that the calls that have succeeded, and the one     *)
(*   that may at any moment, are no more than the replies handled.         *)
(*                                                                         *)
(*   OwnPayloadAlways and ConfirmedWereDoneAlways are about prompt         *)
(*   replies: Alone says that only the request of the call in progress, or *)
(*   its reply, is on the wire.  They assume that no builder raises the    *)
(*   state it waits for, which only HeliosCom::rebootLidar does.           *)
(***************************************************************************)
EXTENDS CommandExchange, FiniteSetTheorems, SequenceTheorems, TLAPS

-----------------------------------------------------------------------------
(* Types, and every request and every reply is under way once *)

InRange == pc \in {"wait", "extract"} => callNo \in 1..callNo

RequestsOnce ==
  \A i \in DOMAIN toLidar :
    /\ toLidar[i] \in 1..callNo /\ toLidar[i] \notin answered
    /\ \A j \in DOMAIN toLidar : i # j => toLidar[i] # toLidar[j]

RepliesOnce ==
  /\ parsing # NoReply => parsing.call \in answered
  /\ \A i \in DOMAIN toHost :
       /\ toHost[i].call \in answered /\ toHost[i].call # parsing.call
       /\ \A j \in DOMAIN toHost : i # j => toHost[i].call # toHost[j].call

Wire == TypeOK /\ InRange /\ RequestsOnce /\ RepliesOnce

\* Nothing is on the wire before the first call.
LEMMA WireInit == Init => Wire
<1> SUFFICES ASSUME Init PROVE Wire OBVIOUS
<1>1. TypeOK
  BY FamiliesAssumption, MaxCallsAssumption DEF Init, TypeOK
<1>2. InRange /\ RequestsOnce /\ RepliesOnce
  BY DEF Init, InRange, RequestsOnce, RepliesOnce
<1>. QED BY <1>1, <1>2 DEF Wire

\* The entries of result.
CallResult == [value : {"none", "true", "false"}, data : Call \cup {NoCall}]

\* A call that returns changes its own result only.
LEMMA Returned ==
  ASSUME TypeOK, callNo \in 1..callNo,
         NEW value \in {"true", "false"}, NEW data \in Call \cup {NoCall}, Return(value, data)
  PROVE  /\ result' \in Seq([value : {"none", "true", "false"}, data : Call \cup {NoCall}])
         /\ Len(result') = callNo
         /\ pc' = "idle"
         /\ \A n \in 1..callNo : n # callNo => result'[n] = result[n]
         /\ result'[callNo] = [value |-> value, data |-> data]
<1> DEFINE outcome == [value |-> value, data |-> data]
<1>1. outcome \in CallResult BY DEF CallResult
<1>2. result \in Seq(CallResult) /\ Len(result) = callNo BY DEF TypeOK, CallResult
<1>3. result' = [result EXCEPT ![callNo] = outcome] /\ pc' = "idle" BY DEF Return
<1>. HIDE DEF outcome
<1>. QED BY <1>1, <1>2, <1>3, ExceptSeq DEF outcome, CallResult

\* What a call starts with.
LEMMA Begun ==
  ASSUME Wire, NEW o \in UsedOps, Begin(o)
  PROVE  Wire'
<1>1. callNo \in Nat /\ callNo + 1 \in Call /\ callNo' = callNo + 1
  BY MaxCallsAssumption DEF Wire, TypeOK, Begin, Call
<1>2. TypeOK'
  <2>1. op' \in Seq(UsedOps) /\ Len(op') = callNo'
    BY <1>1 DEF Wire, TypeOK, Begin
  <2>2. /\ result' \in Seq([value : {"none", "true", "false"}, data : Call \cup {NoCall}])
        /\ Len(result') = callNo'
    BY <1>1 DEF Wire, TypeOK, Begin, NotReturned
  <2>3. toLidar' \in Seq(Call)
    BY <1>1 DEF Wire, TypeOK, Begin
  <2>4. answered' \subseteq 1..callNo' /\ done' \subseteq answered'
    BY <1>1 DEF Wire, TypeOK, Begin
  <2>5. callNo' \in 0..MaxCalls
    BY <1>1, MaxCallsAssumption DEF Call
  <2>. QED BY <2>1, <2>2, <2>3, <2>4, <2>5 DEF Wire, TypeOK, Begin
<1>3. RequestsOnce'
  <2>1. callNo + 1 \notin answered
    BY <1>1 DEF Wire, TypeOK
  <2>2. /\ DOMAIN toLidar' = 1..(Len(toLidar) + 1)
        /\ DOMAIN toLidar = 1..Len(toLidar)
        /\ Len(toLidar) \in Nat
        /\ \A i \in 1..Len(toLidar) : toLidar'[i] = toLidar[i]
        /\ toLidar'[Len(toLidar) + 1] = callNo + 1
    BY <1>1 DEF Wire, TypeOK, Begin
  <2>3. \A i \in 1..Len(toLidar) : toLidar[i] \in 1..callNo
    BY <2>2 DEF Wire, RequestsOnce
  <2>. QED BY <1>1, <2>1, <2>2, <2>3 DEF Wire, RequestsOnce, Begin
<1>4. RepliesOnce'
  BY DEF Wire, RepliesOnce, Begin
<1>5. InRange'
  BY <1>1 DEF InRange
<1>. QED BY <1>2, <1>3, <1>4, <1>5 DEF Wire

\* What a call starts with whose builder flows off its end.
LEMMA BegunBroken ==
  ASSUME Wire, NEW o \in UsedOps, BeginBroken(o)
  PROVE  Wire'
<1>1. callNo \in Nat /\ callNo + 1 \in Call /\ callNo' = callNo + 1
  BY MaxCallsAssumption DEF Wire, TypeOK, BeginBroken, Call
<1>2. TypeOK'
  <2>1. op' \in Seq(UsedOps) /\ Len(op') = callNo'
    BY <1>1 DEF Wire, TypeOK, BeginBroken
  <2>2. /\ result' \in Seq([value : {"none", "true", "false"}, data : Call \cup {NoCall}])
        /\ Len(result') = callNo'
    <3>1. PICK v \in {"false", "none"} : result' = Append(result, [value |-> v, data |-> NoCall])
      BY DEF BeginBroken, NotReturned
    <3>2. result \in Seq(CallResult) /\ Len(result) = callNo BY DEF Wire, TypeOK, CallResult
    <3>3. [value |-> v, data |-> NoCall] \in CallResult BY DEF CallResult
    <3>4. result' \in Seq(CallResult) /\ Len(result') = callNo + 1
      BY <3>1, <3>2, <3>3, AppendProperties
    <3>. QED BY <1>1, <3>4 DEF CallResult
  <2>3. answered' \subseteq 1..callNo' /\ done' \subseteq answered'
    BY <1>1 DEF Wire, TypeOK, BeginBroken, wireVars
  <2>4. pc' \in {"idle", "crashed"}
    BY DEF BeginBroken
  <2>5. callNo' \in 0..MaxCalls
    BY <1>1, MaxCallsAssumption DEF Call
  <2>. QED BY <2>1, <2>2, <2>3, <2>4, <2>5 DEF Wire, TypeOK, BeginBroken, wireVars
<1>3. RequestsOnce' /\ RepliesOnce' /\ InRange'
  BY <1>1 DEF Wire, TypeOK, RequestsOnce, RepliesOnce, InRange, BeginBroken, wireVars
<1>. QED BY <1>2, <1>3 DEF Wire

\* The steps of a call that was begun leave the wire alone.
LEMMA CallerKeepsWire ==
  ASSUME Wire, Poll \/ Extract \/ Timeout
  PROVE  Wire'
<1>1. UNCHANGED <<family, callNo, op, sharedVars, parsing, wireVars>>
  BY DEF Poll, Extract, Timeout
<1>2. callNo \in 1..callNo BY DEF Poll, Extract, Timeout, Wire, InRange
<1>3. result' \in Seq(CallResult) /\ Len(result') = callNo /\ pc' \in {"idle", "extract"}
  <2>1. CASE UNCHANGED result /\ pc' = "extract" BY <2>1 DEF Wire, TypeOK, CallResult
  <2>2. CASE \E value \in {"true", "false"}, data \in Call \cup {NoCall} : Return(value, data)
    <3>1. PICK value \in {"true", "false"}, data \in Call \cup {NoCall} : Return(value, data)
      BY <2>2
    <3>2. TypeOK BY DEF Wire
    <3>. QED BY <1>2, <3>1, <3>2, Returned DEF CallResult
  <2>3. regBack.call \in Call \cup {NoCall} BY DEF Wire, TypeOK, Reply, NoReply
  <2>. QED BY <2>1, <2>2, <2>3 DEF Poll, Extract, Timeout
<1>4. TypeOK' BY <1>1, <1>3 DEF Wire, TypeOK, CallResult, sharedVars, wireVars
<1>5. RequestsOnce' /\ RepliesOnce' /\ InRange'
  BY <1>1, <1>2 DEF Wire, RequestsOnce, RepliesOnce, InRange, wireVars
<1>. QED BY <1>4, <1>5 DEF Wire

\* What the lidar takes off the wire, and what it puts on.
LEMMA Took ==
  ASSUME Wire, toLidar # <<>>, toLidar' = Tail(toLidar)
  PROVE  /\ Head(toLidar) \in 1..callNo /\ Head(toLidar) \in Call /\ Head(toLidar) \notin answered
         /\ toLidar' \in Seq(Call)
         /\ \A i \in DOMAIN toLidar' :
              /\ toLidar'[i] \in 1..callNo /\ toLidar'[i] \notin answered
              /\ toLidar'[i] # Head(toLidar)
              /\ \A j \in DOMAIN toLidar' : i # j => toLidar'[i] # toLidar'[j]
<1>1. Len(toLidar) \in Nat \ {0} /\ 1 \in DOMAIN toLidar /\ Head(toLidar) = toLidar[1]
  BY DEF Wire, TypeOK
<1>2. /\ toLidar' \in Seq(Call) /\ DOMAIN toLidar' = 1..(Len(toLidar) - 1)
      /\ \A i \in DOMAIN toLidar' : toLidar'[i] = toLidar[i + 1] /\ i + 1 \in DOMAIN toLidar /\ i + 1 # 1
  BY <1>1 DEF Wire, TypeOK
<1>3. \A i, j \in DOMAIN toLidar' : i # j => i + 1 # j + 1
  BY <1>1, <1>2
<1>. QED BY <1>1, <1>2, <1>3 DEF Wire, TypeOK, RequestsOnce

\* A request that is answered leaves the wire and its reply joins it.
LEMMA AnswerKeepsWire ==
  ASSUME Wire, toLidar # <<>>, NEW code \in {"ok", "refused"}, Answer(code),
         done' \in {done, done \cup {Head(toLidar)}}
  PROVE  Wire'
<1> DEFINE n == Head(toLidar)
<1>1. /\ n \in 1..callNo /\ n \in Call /\ n \notin answered
      /\ toLidar' \in Seq(Call)
      /\ \A i \in DOMAIN toLidar' :
           /\ toLidar'[i] \in 1..callNo /\ toLidar'[i] \notin answered
           /\ toLidar'[i] # n
           /\ \A j \in DOMAIN toLidar' : i # j => toLidar'[i] # toLidar'[j]
  BY Took DEF Answer
<1>2. answered' = answered \cup {n} /\ callNo' = callNo
  BY DEF Answer, callerVars
<1>3. RequestsOnce'
  BY <1>1, <1>2 DEF RequestsOnce
<1>4. [call |-> n, code |-> code] \in Reply
  BY <1>1 DEF Reply
<1>5. /\ toHost' \in Seq(Reply) /\ DOMAIN toHost' = 1..(Len(toHost) + 1)
      /\ Len(toHost) \in Nat /\ DOMAIN toHost = 1..Len(toHost)
      /\ \A i \in 1..Len(toHost) : toHost'[i] = toHost[i]
      /\ toHost'[Len(toHost) + 1].call = n
  BY <1>4 DEF Wire, TypeOK, Answer
<1>6. n # parsing.call
  BY <1>1 DEF Wire, TypeOK, RepliesOnce, NoReply, NoCall, Call
<1>7. RepliesOnce'
  <2>1. parsing' = parsing BY DEF Answer
  <2>2. \A i \in 1..Len(toHost) : toHost[i].call \in answered /\ toHost[i].call # n
    BY <1>1, <1>5 DEF Wire, RepliesOnce
  <2>. QED BY <1>2, <1>5, <1>6, <2>1, <2>2 DEF Wire, RepliesOnce
<1>8. TypeOK'
  BY <1>1, <1>2, <1>5 DEF Wire, TypeOK, Answer, callerVars, sharedVars
<1>9. InRange'
  BY DEF Wire, InRange, Answer, callerVars
<1>. QED BY <1>3, <1>7, <1>8, <1>9 DEF Wire

\* The lidar takes one request off the wire and puts at most one reply on.
LEMMA LidarKeepsWire ==
  ASSUME Wire, Lidar
  PROVE  Wire'
<1>1. CASE CarryOut BY <1>1, AnswerKeepsWire DEF CarryOut
<1>2. CASE Refuse BY <1>2, AnswerKeepsWire DEF Refuse
<1>3. CASE Ignore
  BY <1>3, Took
     DEF Ignore, Wire, TypeOK, RequestsOnce, RepliesOnce, InRange, callerVars, sharedVars
<1>. QED BY <1>1, <1>2, <1>3 DEF Lidar

\* The reading thread takes a reply off the wire, then has its handler run.
LEMMA ReaderKeepsWire ==
  ASSUME Wire, Reader
  PROVE  Wire'
<1>1. CASE Store
  <2>1. /\ Len(toHost) \in Nat \ {0} /\ Head(toHost) = toHost[1] /\ 1 \in DOMAIN toHost
        /\ Head(toHost) \in Reply
    BY <1>1 DEF Wire, TypeOK, Store
  <2>2. /\ toHost' \in Seq(Reply) /\ DOMAIN toHost' = 1..(Len(toHost) - 1)
        /\ \A i \in DOMAIN toHost' : toHost'[i] = toHost[i + 1] /\ i + 1 \in DOMAIN toHost /\ i + 1 # 1
    BY <1>1, <2>1 DEF Wire, TypeOK, Store
  <2>3. \A i, j \in DOMAIN toHost' : i # j => i + 1 # j + 1
    BY <2>1, <2>2
  <2>4. RepliesOnce'
    BY <1>1, <2>1, <2>2, <2>3 DEF Wire, RepliesOnce, Store
  <2>5. TypeOK'
    BY <1>1, <2>1, <2>2 DEF Wire, TypeOK, Store, callerVars
  <2>6. RequestsOnce' /\ InRange'
    BY <1>1 DEF Wire, RequestsOnce, InRange, Store, callerVars
  <2>. QED BY <2>4, <2>5, <2>6 DEF Wire
<1>2. CASE Dispatch
  <2>1. \A i \in DOMAIN toHost : toHost[i].call # NoCall
    <3>1. \A i \in DOMAIN toHost : toHost[i] \in Reply BY DEF Wire, TypeOK
    <3>. QED BY <3>1 DEF Reply, Call, NoCall
  <2>. QED
    BY <1>2, <2>1
       DEF Dispatch, Wire, TypeOK, RequestsOnce, RepliesOnce, InRange, callerVars, wireVars,
           NoReply
<1>. QED BY <1>1, <1>2 DEF Reader

\* Wire is inductive.
LEMMA WireStep == Wire /\ [Next]_vars => Wire'
<1> SUFFICES ASSUME Wire, [Next]_vars PROVE Wire' OBVIOUS
<1>1. CASE Caller BY <1>1, Begun, BegunBroken, CallerKeepsWire DEF Caller
<1>2. CASE Lidar BY <1>2, LidarKeepsWire
<1>3. CASE Reader BY <1>3, ReaderKeepsWire
<1>4. CASE UNCHANGED vars
  BY <1>4
     DEF vars, callerVars, sharedVars, wireVars, Wire, TypeOK, RequestsOnce, RepliesOnce,
         InRange
<1>. QED BY <1>1, <1>2, <1>3, <1>4 DEF Next, Finished

\* The variables of TcpCom and the reading thread keep their types.
THEOREM TypeCorrectness == Spec => []TypeOK
<1>1. Wire => TypeOK BY DEF Wire
<1>. QED BY <1>1, WireInit, WireStep, PTL DEF Spec

-----------------------------------------------------------------------------
(* No more successes than replies *)

States == {StateOf(family, o) : o \in UsedOps}

UnderWay == {toHost[i].call : i \in DOMAIN toHost} \cup {parsing.call}

\* Replies whose handler has run and raised state s.
Seen(s) == {m \in answered \ UnderWay : s \in Raises(family, command(m))}

\* Calls that waited for s and returned TRUE.
Won(s) == {m \in Confirmed : awaited(m) = s /\ ~Unconditional(m)}

\* The call in progress will, or may at any moment, find s raised.
About(s) ==
  /\ pc = "extract" \/ (pc = "wait" /\ s \in raised)
  /\ awaited(callNo) = s
  /\ ~Unconditional(callNo)

Counted ==
  \A s \in States :
    Cardinality(Won(s)) + (IF About(s) THEN 1 ELSE 0) <= Cardinality(Seen(s))

\* The three ways in which a step may change the two sides of Counted.
LEMMA NothingMore ==
  ASSUME NEW n \in Nat, NEW won \in SUBSET (1..n), NEW seen \in SUBSET (1..n),
         NEW won1 \in SUBSET won, NEW seen1 \in SUBSET (1..n), seen \subseteq seen1
  PROVE  /\ Cardinality(won) \in Nat /\ Cardinality(won1) \in Nat
         /\ Cardinality(seen) \in Nat /\ Cardinality(seen1) \in Nat
         /\ Cardinality(won1) <= Cardinality(won)
         /\ Cardinality(seen) <= Cardinality(seen1)
<1>1. IsFiniteSet(1..n) BY FS_Interval
<1>2. IsFiniteSet(won) /\ IsFiniteSet(seen1) BY <1>1, FS_Subset
<1>3. seen \in SUBSET seen1 OBVIOUS
<1>4. IsFiniteSet(won1) /\ IsFiniteSet(seen) BY <1>2, <1>3, FS_Subset
<1>. QED BY <1>2, <1>3, <1>4, FS_Subset, FS_CardinalityType

\* ... one more call has won, by a reply that was counted; ...
LEMMA OneWon ==
  ASSUME NEW n \in Nat, NEW won \in SUBSET (1..n), NEW seen \in SUBSET (1..n),
         NEW x, NEW won1 \in SUBSET (won \cup {x}), NEW seen1 \in SUBSET (1..n), seen \subseteq seen1,
         Cardinality(won) + 1 <= Cardinality(seen)
  PROVE  Cardinality(won1) \in Nat /\ Cardinality(won1) <= Cardinality(seen1)
<1>1. IsFiniteSet(1..n) BY FS_Interval
<1>2. IsFiniteSet(won) BY <1>1, FS_Subset
<1>3. IsFiniteSet(won \cup {x}) /\ Cardinality(won \cup {x}) <= Cardinality(won) + 1
  BY <1>2, FS_AddElement, FS_CardinalityType
<1>4. Cardinality(won1) <= Cardinality(won \cup {x}) BY <1>3, FS_Subset
<1>5. /\ Cardinality(won \cup {x}) \in Nat /\ Cardinality(won1) \in Nat
  BY <1>3, FS_Subset, FS_CardinalityType
<1>6. /\ Cardinality(seen) \in Nat /\ Cardinality(seen1) \in Nat
      /\ Cardinality(won) \in Nat /\ Cardinality(seen) <= Cardinality(seen1)
  BY NothingMore
<1>. QED BY <1>3, <1>4, <1>5, <1>6

\* ... or one more reply has been handled.
LEMMA OneSeen ==
  ASSUME NEW n \in Nat, NEW won \in SUBSET (1..n), NEW seen \in SUBSET (1..n),
         NEW x \in (1..n) \ seen, NEW won1 \in SUBSET won,
         NEW seen1 \in SUBSET (1..n), seen \cup {x} \subseteq seen1,
         Cardinality(won) <= Cardinality(seen)
  PROVE  Cardinality(won1) + 1 <= Cardinality(seen1)
<1>1. IsFiniteSet(1..n) BY FS_Interval
<1>2. IsFiniteSet(seen) /\ IsFiniteSet(seen1) BY <1>1, FS_Subset
<1>3. Cardinality(seen \cup {x}) = Cardinality(seen) + 1 BY <1>2, FS_AddElement
<1>4. seen \cup {x} \in SUBSET seen1 OBVIOUS
<1>5. Cardinality(seen \cup {x}) <= Cardinality(seen1) BY <1>2, <1>4, FS_Subset
<1>6. /\ Cardinality(won) \in Nat /\ Cardinality(won1) \in Nat
      /\ Cardinality(seen) \in Nat /\ Cardinality(seen1) \in Nat
      /\ Cardinality(won1) <= Cardinality(won)
  BY NothingMore
<1>. QED BY <1>3, <1>5, <1>6

\* The calls made so far keep their operation.
LEMMA OpsStay ==
  ASSUME Wire, [Next]_vars
  PROVE  /\ family' = family
         /\ callNo' >= callNo
         /\ \A m \in 1..callNo : op'[m] = op[m]
<1>1. callNo \in Nat /\ Len(op) = callNo /\ op \in Seq(UsedOps) BY DEF Wire, TypeOK
<1>2. CASE Caller
  <2>1. CASE \E o \in UsedOps : Begin(o) \/ BeginBroken(o)
    <3>1. PICK o \in UsedOps : family' = family /\ callNo' = callNo + 1 /\ op' = Append(op, o)
      BY <2>1 DEF Begin, BeginBroken
    <3>. QED BY <1>1, <3>1
  <2>2. CASE Poll \/ Extract \/ Timeout
    <3>1. UNCHANGED <<family, callNo, op>> BY <2>2 DEF Poll, Extract, Timeout
    <3>. QED BY <1>1, <3>1
  <2>. QED BY <1>2, <2>1, <2>2 DEF Caller
<1>3. CASE Lidar \/ Reader \/ Finished
  BY <1>1, <1>3
     DEF Lidar, CarryOut, Refuse, Ignore, Answer, Reader, Store, Dispatch, Finished, vars,
         callerVars
<1>4. CASE UNCHANGED vars
  BY <1>1, <1>4 DEF vars, callerVars
<1>. QED BY <1>2, <1>3, <1>4 DEF Next

\* Counted is inductive, relative to Wire.
LEMMA CountedStep == Wire /\ Wire' /\ Counted /\ [Next]_vars => Counted'
<1> SUFFICES ASSUME Wire, Wire', Counted, [Next]_vars, NEW s \in States
             PROVE  Cardinality(Won(s)') + (IF About(s)' THEN 1 ELSE 0) <= Cardinality(Seen(s)')
  BY OpsStay DEF Counted, States
<1> USE DEF command, awaited
<1> DEFINE before == IF About(s) THEN 1 ELSE 0
           after  == IF About(s)' THEN 1 ELSE 0
<1>1. Cardinality(Won(s)) + before <= Cardinality(Seen(s)) BY DEF Counted
<1>2. /\ callNo \in Nat /\ callNo' \in Nat /\ callNo <= callNo'
      /\ Len(op) = callNo /\ Len(op') = callNo'
      /\ family' = family /\ \A m \in 1..callNo : op'[m] = op[m]
  BY OpsStay DEF Wire, TypeOK
<1>3. /\ Won(s) \in SUBSET (1..callNo') /\ Seen(s) \in SUBSET (1..callNo')
      /\ Seen(s)' \in SUBSET (1..callNo')
  <2>1. Won(s) \subseteq 1..callNo BY DEF Won, Confirmed
  <2>2. Seen(s) \subseteq 1..callNo BY DEF Seen, Wire, TypeOK
  <2>3. Seen(s)' \subseteq 1..callNo' BY DEF Seen, Wire, TypeOK
  <2>. QED BY <1>2, <2>1, <2>2, <2>3
<1>. SUFFICES Cardinality(Won(s)') + after <= Cardinality(Seen(s)') BY DEF after
<1> HIDE DEF before, after
<1>4. before \in {0, 1} /\ after \in {0, 1}
  BY DEF before, after
<1>5. ASSUME Won(s)' \subseteq Won(s), Seen(s) \subseteq Seen(s)', after <= before
      PROVE  Cardinality(Won(s)') + after <= Cardinality(Seen(s)')
  <2>1. /\ Cardinality(Won(s)) \in Nat /\ Cardinality(Won(s)') \in Nat
        /\ Cardinality(Seen(s)) \in Nat /\ Cardinality(Seen(s)') \in Nat
        /\ Cardinality(Won(s)') <= Cardinality(Won(s))
        /\ Cardinality(Seen(s)) <= Cardinality(Seen(s)')
    BY <1>2, <1>3, <1>5, NothingMore
  <2>. QED BY <1>1, <1>4, <1>5, <2>1
<1>6. ASSUME UNCHANGED <<toHost, parsing, answered>>
      PROVE  Seen(s) \subseteq Seen(s)'
  BY <1>2, <1>6 DEF Seen, UnderWay, Wire, TypeOK
<1>7. CASE \E o \in UsedOps : Begin(o) \/ BeginBroken(o)
  <2>1. PICK o \in UsedOps : Begin(o) \/ BeginBroken(o) BY <1>7
  <2>2. /\ callNo' = callNo + 1 /\ op' = Append(op, o) /\ raised' = Lower(o)
        /\ UNCHANGED <<toHost, parsing, answered>>
    BY <2>1 DEF Begin, BeginBroken, wireVars
  <2>3. op'[callNo'] = o
    BY <1>2, <2>2
  <2>4. /\ \A m \in 1..callNo : result'[m] = result[m]
        /\ result'[callNo'].value # "true"
    <3>1. result' = Append(result, NotReturned) \/ result' = Append(result, [value |-> "false", data |-> NoCall])
      BY <2>1 DEF Begin, BeginBroken
    <3>2. result \in Seq(CallResult) /\ Len(result) = callNo BY DEF Wire, TypeOK, CallResult
    <3>3. NotReturned \in CallResult /\ [value |-> "false", data |-> NoCall] \in CallResult
      BY DEF CallResult, NotReturned
    <3>. QED BY <2>2, <3>1, <3>2, <3>3, AppendProperties DEF NotReturned
  <2>5. Won(s)' \subseteq Won(s)
    BY <1>2, <2>2, <2>4 DEF Won, Confirmed, Unconditional
  <2>6. ~About(s)'
    BY <1>2, <2>1, <2>2, <2>3 DEF About, Begin, BeginBroken, Lower, Unconditional
  <2>. QED BY <1>4, <1>5, <1>6, <2>2, <2>5, <2>6 DEF after
<1>8. CASE Poll \/ Extract \/ Timeout
  <2>1. /\ callNo' = callNo /\ op' = op /\ callNo \in 1..callNo
        /\ UNCHANGED <<raised, toHost, parsing, answered>>
    BY <1>8 DEF Poll, Extract, Timeout, Wire, InRange, sharedVars, wireVars
  <2>2. CASE pc' = "extract" /\ result' = result
    <3>1. Won(s)' \subseteq Won(s) BY <1>2, <2>1, <2>2 DEF Won, Confirmed, Unconditional
    <3>2. Poll
      BY <1>8, <2>2 DEF Extract, Timeout, Return
    <3>3. About(s)' => About(s)
      BY <1>2, <2>1, <3>2 DEF About, Poll, Unconditional
    <3>4. after <= before BY <3>3 DEF after, before
    <3>. QED BY <1>5, <1>6, <2>1, <3>1, <3>4
  <2>3. ASSUME NEW value \in {"true", "false"}, NEW data \in Call \cup {NoCall}, Return(value, data),
               value = "true" => About(s) \/ Unconditional(callNo) \/ awaited(callNo) # s
        PROVE  Cardinality(Won(s)') + after <= Cardinality(Seen(s)')
    <3>1. /\ pc' = "idle"
          /\ \A n \in 1..callNo : n # callNo => result'[n] = result[n]
          /\ result'[callNo] = [value |-> value, data |-> data]
      BY <2>1, <2>3, Returned DEF Wire
    <3>2. after = 0 BY <3>1 DEF after, About
    <3>3. Won(s)' \subseteq Won(s) \cup {callNo}
      BY <1>2, <2>1, <3>1 DEF Won, Confirmed, Unconditional
    <3>4. Seen(s) \subseteq Seen(s)' BY <1>6, <2>1
    <3>5. CASE About(s)
      <4>1. Cardinality(Won(s)) + 1 <= Cardinality(Seen(s)) BY <1>1, <3>5 DEF before
      <4>2. Won(s)' \in SUBSET (Won(s) \cup {callNo}) BY <3>3
      <4>3. Cardinality(Won(s)') \in Nat /\ Cardinality(Won(s)') <= Cardinality(Seen(s)')
        BY <1>2, <1>3, <3>4, <4>1, <4>2, OneWon
      <4>. QED BY <3>2, <4>3
    <3>6. CASE ~About(s)
      <4>1. callNo \notin Won(s)'
        BY <1>2, <2>1, <2>3, <3>1, <3>6 DEF Won, Confirmed, Unconditional
      <4>. QED BY <1>4, <1>5, <3>2, <3>3, <3>4, <4>1
    <3>. QED BY <3>5, <3>6
  <2>4. CASE Poll
    BY <2>2, <2>3, <2>4 DEF Poll, About
  <2>5. CASE Extract
    <3>1. regBack.call \in Call \cup {NoCall} BY DEF Wire, TypeOK, Reply, NoReply
    <3>. QED BY <2>3, <2>5, <3>1 DEF Extract, About
  <2>6. CASE Timeout
    BY <2>3, <2>6 DEF Timeout, Unconditional
  <2>. QED BY <1>8, <2>4, <2>5, <2>6
<1>9. ASSUME UNCHANGED callerVars
      PROVE  Won(s)' \subseteq Won(s)
  BY <1>9 DEF callerVars, Won, Confirmed, Unconditional
<1>10. ASSUME UNCHANGED callerVars, raised' = raised
       PROVE  after <= before
  BY <1>10 DEF callerVars, About, Unconditional, after, before
<1>11. CASE CarryOut \/ Refuse
  <2>1. /\ toLidar # <<>> /\ answered' = answered \cup {Head(toLidar)} /\ toLidar' = Tail(toLidar)
        /\ UNCHANGED <<callerVars, raised, parsing>>
        /\ \E code \in {"ok", "refused"} : toHost' = Append(toHost, [call |-> Head(toLidar), code |-> code])
    BY <1>11 DEF CarryOut, Refuse, Answer, sharedVars
  <2>2. Head(toLidar) \notin answered /\ Head(toLidar) \in Call BY <2>1, Took
  <2>3. UnderWay' \subseteq UnderWay \cup {Head(toLidar)}
    BY <2>1 DEF UnderWay, Wire, TypeOK
  <2>4. Seen(s) \subseteq Seen(s)'
    BY <1>2, <2>1, <2>2, <2>3 DEF Seen, Wire, TypeOK
  <2>. QED BY <1>5, <1>9, <1>10, <2>1, <2>4
<1>12. CASE Ignore
  BY <1>5, <1>6, <1>9, <1>10, <1>12 DEF Ignore, sharedVars
<1>13. CASE Store
  <2>1. /\ toHost # <<>> /\ parsing' = Head(toHost) /\ toHost' = Tail(toHost)
        /\ UNCHANGED <<callerVars, raised, answered>>
    BY <1>13 DEF Store
  <2>2. UnderWay' \subseteq UnderWay
    BY <2>1 DEF UnderWay, Wire, TypeOK
  <2>3. Seen(s) \subseteq Seen(s)'
    BY <1>2, <2>1, <2>2 DEF Seen, Wire, TypeOK
  <2>. QED BY <1>5, <1>9, <1>10, <2>1, <2>3
<1>14. CASE Dispatch
  <2> DEFINE m == parsing.call
  <2>1. /\ m \in answered /\ m \in 1..callNo /\ m \in UnderWay
        /\ raised' = raised \cup Raises(family, command(m))
        /\ UNCHANGED <<callerVars, toHost, answered>> /\ parsing' = NoReply
    BY <1>14 DEF Dispatch, Wire, TypeOK, RepliesOnce, UnderWay, wireVars
  <2>2. UnderWay' \subseteq UnderWay \cup {NoCall} /\ m \notin UnderWay'
    BY <1>2, <2>1 DEF UnderWay, NoReply, NoCall, Wire, RepliesOnce
  <2>3. Seen(s) \subseteq Seen(s)'
    <3>1. NoCall \notin answered BY DEF Wire, TypeOK, NoCall
    <3>. QED BY <1>2, <2>1, <2>2, <3>1 DEF Seen, Wire, TypeOK, callerVars
  <2>4. CASE s \in Raises(family, command(m))
    <3>1. m \in (1..callNo') \ Seen(s) /\ m \in Seen(s)'
      BY <1>2, <2>1, <2>2, <2>4 DEF Seen, callerVars
    <3>3. Won(s)' \subseteq Won(s) BY <1>9, <2>1
    <3>2. Cardinality(Won(s)) <= Cardinality(Seen(s))
      <4>1. Cardinality(Won(s)) \in Nat /\ Cardinality(Seen(s)) \in Nat
        BY <1>2, <1>3, <2>3, <3>3, NothingMore
      <4>. QED BY <1>1, <1>4, <4>1
    <3>4. Cardinality(Won(s)') + 1 <= Cardinality(Seen(s)')
      <4>1. Won(s)' \in SUBSET Won(s) /\ Seen(s) \cup {m} \subseteq Seen(s)'
        BY <2>3, <3>1, <3>3
      <4>. QED BY <1>2, <1>3, <3>1, <3>2, <4>1, OneSeen
    <3>5. Cardinality(Won(s)') \in Nat /\ Cardinality(Seen(s)') \in Nat
      BY <1>2, <1>3, <2>3, <3>3, NothingMore
    <3>. QED BY <1>4, <3>4, <3>5
  <2>5. CASE s \notin Raises(family, command(m))
    <3>1. after <= before
      BY <2>1, <2>5 DEF callerVars, About, Unconditional, after, before
    <3>. QED BY <1>5, <1>9, <2>1, <2>3, <3>1
  <2>. QED BY <2>4, <2>5
<1>15. CASE UNCHANGED vars
  BY <1>5, <1>6, <1>9, <1>10, <1>15 DEF vars, sharedVars, wireVars
<1>16. CASE Finished BY <1>15, <1>16 DEF Finished
<1>. QED
  BY <1>7, <1>8, <1>11, <1>12, <1>13, <1>14, <1>15, <1>16 DEF Next, Caller, Lidar, Reader

\* No call has succeeded before the first one.
LEMMA CountedInit == Init => Counted
<1> SUFFICES ASSUME Init, NEW s \in States
             PROVE  Cardinality(Won(s)) + (IF About(s) THEN 1 ELSE 0) <= Cardinality(Seen(s))
  BY DEF Counted
<1>1. Won(s) = {} /\ Seen(s) = {} /\ ~About(s)
  BY DEF Init, Won, Confirmed, Seen, About
<1>. QED BY <1>1, FS_EmptySet

\* Replies that confirm nothing yet are replies all the same.
LEMMA CountedSuffices == Wire /\ Counted => OneReplyOneSuccess
<1> SUFFICES ASSUME Wire, Counted, NEW n \in Confirmed
             PROVE  LET s == awaited(n)
                        succeeded == {m \in Confirmed : awaited(m) = s /\ ~Unconditional(m)}
                        replies   == {m \in answered : s \in Raises(family, command(m))}
                    IN  Cardinality(succeeded) <= Cardinality(replies)
  BY DEF OneReplyOneSuccess
<1> DEFINE s == awaited(n)
           replies == {m \in answered : s \in Raises(family, command(m))}
<1>1. s \in States
  <2>1. op[n] \in UsedOps BY DEF Confirmed, Wire, TypeOK
  <2>. QED BY <2>1 DEF States, awaited
<1>2. Cardinality(Won(s)) + (IF About(s) THEN 1 ELSE 0) <= Cardinality(Seen(s))
  BY <1>1 DEF Counted
<1>3. /\ callNo \in Nat /\ Won(s) \in SUBSET (1..callNo) /\ Seen(s) \in SUBSET (1..callNo)
      /\ replies \in SUBSET (1..callNo) /\ Seen(s) \subseteq replies
  <2>1. callNo \in Nat /\ Won(s) \subseteq 1..callNo BY DEF Won, Confirmed, Wire, TypeOK
  <2>2. answered \subseteq 1..callNo BY DEF Wire, TypeOK
  <2>3. Seen(s) \subseteq replies BY DEF Seen
  <2>4. replies \subseteq answered OBVIOUS
  <2>. QED BY <2>1, <2>2, <2>3, <2>4
<1>4. /\ Cardinality(Won(s)) \in Nat /\ Cardinality(Seen(s)) \in Nat /\ Cardinality(replies) \in Nat
      /\ Cardinality(Seen(s)) <= Cardinality(replies)
  BY <1>3, NothingMore
<1>5. Cardinality(Won(s)) <= Cardinality(replies) BY <1>2, <1>4
<1>. QED BY <1>5 DEF Won

\* However late the replies are, of the calls that wait for one state at most as
\* many succeed as there were replies that raise it.
THEOREM OneReplyOneSuccessAlways == Spec => []OneReplyOneSuccess
<1>. QED
  BY WireInit, WireStep, CountedInit, CountedStep, CountedSuffices, PTL DEF Spec

-----------------------------------------------------------------------------
(* What a reply says of its request *)

\* Only the replies to requests that were carried out are good ones.
Codes ==
  /\ \A i \in DOMAIN toHost : toHost[i].code = "ok" <=> toHost[i].call \in done
  /\ parsing # NoReply => (parsing.code = "ok" <=> parsing.call \in done)
  /\ regBack # NoReply => regBack.call \in answered /\ (regBack.code = "ok" <=> regBack.call \in done)

\* A call that waits has no result yet.
InProgress == pc \in {"wait", "extract"} => result[callNo].value = "none"

\* Before the first call there is no reply.
LEMMA CodesInit == Init => Codes /\ InProgress
  BY DEF Init, Codes, InProgress

\* Codes is inductive, relative to Wire.
LEMMA CodesStep == Wire /\ Codes /\ [Next]_vars => Codes'
<1> SUFFICES ASSUME Wire, Codes, [Next]_vars PROVE Codes' OBVIOUS
<1>1. CASE UNCHANGED <<regBack, parsing, toHost, answered, done>>
  BY <1>1 DEF Codes
<1>2. CASE Caller
  BY <1>1, <1>2 DEF Caller, Begin, BeginBroken, Poll, Extract, Timeout, sharedVars, wireVars
<1>3. ASSUME NEW code \in {"ok", "refused"}, toLidar # <<>>, Answer(code),
             done' = IF code = "ok" THEN done \cup {Head(toLidar)} ELSE done
      PROVE  Codes'
  <2> DEFINE n == Head(toLidar)
  <2>1. n \notin answered BY <1>3, Took DEF Answer
  <2>2. \A m \in answered : m \in done' <=> m \in done BY <1>3, <2>1
  <2>3. n \in done' <=> code = "ok" BY <1>3, <2>1 DEF Wire, TypeOK
  <2>4. /\ DOMAIN toHost' = 1..(Len(toHost) + 1) /\ DOMAIN toHost = 1..Len(toHost) /\ Len(toHost) \in Nat
        /\ \A i \in 1..Len(toHost) : toHost'[i] = toHost[i] /\ toHost[i].call \in answered
        /\ toHost'[Len(toHost) + 1] = [call |-> n, code |-> code]
    BY <1>3 DEF Answer, Wire, TypeOK, RepliesOnce
  <2>5. \A i \in DOMAIN toHost' : toHost'[i].code = "ok" <=> toHost'[i].call \in done'
    BY <2>2, <2>3, <2>4 DEF Codes
  <2>6. parsing' = parsing /\ regBack' = regBack /\ answered \subseteq answered'
    BY <1>3 DEF Answer, sharedVars
  <2>. QED BY <2>2, <2>5, <2>6 DEF Codes, Wire, RepliesOnce
<1>4. CASE Lidar
  BY <1>1, <1>3, <1>4 DEF Lidar, CarryOut, Refuse, Ignore, sharedVars
<1>5. CASE Store
  <2>1. /\ toHost # <<>> /\ Head(toHost) = toHost[1] /\ 1 \in DOMAIN toHost
        /\ \A i \in DOMAIN toHost' : toHost'[i] = toHost[i + 1] /\ i + 1 \in DOMAIN toHost
        /\ parsing' = toHost[1] /\ regBack' \in {regBack, toHost[1]}
        /\ UNCHANGED <<answered, done>>
    BY <1>5 DEF Store, Wire, TypeOK
  <2>. QED BY <2>1 DEF Codes, Wire, RepliesOnce
<1>6. CASE Dispatch
  BY <1>6 DEF Dispatch, wireVars, Codes
<1>. QED BY <1>1, <1>2, <1>4, <1>5, <1>6 DEF Next, Reader, Finished, vars, sharedVars, wireVars

\* InProgress is inductive, relative to Wire.
LEMMA InProgressStep == Wire /\ InProgress /\ [Next]_vars => InProgress'
<1> SUFFICES ASSUME Wire, InProgress, [Next]_vars PROVE InProgress' OBVIOUS
<1>1. CASE UNCHANGED callerVars BY <1>1 DEF InProgress, callerVars
<1>2. ASSUME NEW o \in UsedOps, Begin(o) PROVE InProgress'
  <2>1. /\ callNo' = Len(result) + 1 /\ result \in Seq(CallResult) /\ NotReturned \in CallResult
        /\ result' = Append(result, NotReturned)
    BY <1>2 DEF Begin, Wire, TypeOK, CallResult, NotReturned
  <2>. QED BY <2>1, AppendProperties DEF InProgress, NotReturned
<1>3. ASSUME NEW o \in UsedOps, BeginBroken(o) PROVE InProgress'
  BY <1>3 DEF BeginBroken, InProgress
<1>4. CASE Poll \/ Extract \/ Timeout
  BY <1>4 DEF Poll, Extract, Timeout, Return, InProgress
<1>. QED
  BY <1>1, <1>2, <1>3, <1>4
     DEF Next, Caller, Lidar, CarryOut, Refuse, Ignore, Answer, Reader, Store, Dispatch, Finished, vars

-----------------------------------------------------------------------------
(* Prompt replies: only the request of the call in progress is on the wire *)

\* Every call lowers the state it waits for.
EveryBuilderLowers == \A f \in Families, o \in UsedOps : ~PreRaised(f, o)

\* The reply to a call raises the state it waits for.
Recognised(n) == awaited(n) \in Raises(family, command(n))

IsOwn(r) == r # NoReply /\ r.call = callNo

OnTheWire ==
  \/ toLidar = <<callNo>> /\ toHost = <<>> /\ parsing = NoReply
  \/ toLidar = <<>> /\ Len(toHost) = 1 /\ IsOwn(toHost[1]) /\ parsing = NoReply
  \/ toLidar = <<>> /\ toHost = <<>> /\ IsOwn(parsing)

\* reg_back_data_ holds the reply to the call in progress.
Held == FillsRegBack(family, command(callNo)) => regBack.call = callNo

Waiting ==
  \/ OnTheWire /\ awaited(callNo) \notin raised /\ (parsing # NoReply => Held)
  \/ /\ Settled
     /\ callNo \in answered => Held
     /\ awaited(callNo) \in raised <=> callNo \in answered /\ Recognised(callNo)

Alone ==
  /\ IF pc = "wait" THEN Waiting ELSE Settled
  /\ pc = "extract" => callNo \in answered /\ Recognised(callNo) /\ Held

\* The wire is empty before the first call.
LEMMA AloneInit == Init => Alone
  BY DEF Init, Alone, Settled

\* When replies are prompt, Alone is inductive: a call that gives up has nothing
\* under way any more.
LEMMA AloneStep ==
  ASSUME Prompt, EveryBuilderLowers
  PROVE  Wire /\ Alone /\ [Next]_vars => Alone'
<1> SUFFICES ASSUME Wire, Alone, [Next]_vars PROVE Alone' OBVIOUS
<1> USE DEF command, awaited, Recognised, IsOwn, Held
<1>1. ASSUME NEW o \in UsedOps, Begin(o) PROVE Alone'
  <2>1. Settled BY <1>1 DEF Alone, Begin
  <2>2. /\ callNo' = callNo + 1 /\ op'[callNo'] = o /\ family' = family /\ family \in Families
        /\ toLidar' = Append(toLidar, callNo') /\ toHost' = toHost /\ parsing' = parsing
        /\ raised' = Lower(o) /\ pc' = "wait"
    BY <1>1 DEF Begin, Wire, TypeOK
  <2>3. toLidar' = <<callNo'>> BY <2>1, <2>2 DEF Settled
  <2>4. StateOf(family, o) \notin raised' BY <2>2 DEF EveryBuilderLowers, Lower
  <2>. QED BY <2>1, <2>2, <2>3, <2>4 DEF Alone, Waiting, OnTheWire, Settled
<1>2. ASSUME NEW o \in UsedOps, BeginBroken(o) PROVE Alone'
  BY <1>2 DEF BeginBroken, Alone, Settled, wireVars
<1>3. CASE Poll
  <2>1. Waiting /\ awaited(callNo) \in raised /\ pc' \in {"extract", "idle"}
    BY <1>3 DEF Poll, Alone, Return
  <2>2. Settled /\ callNo \in answered /\ Recognised(callNo) /\ Held BY <2>1 DEF Waiting
  <2>. QED BY <1>3, <2>1, <2>2 DEF Poll, Alone, Settled, sharedVars, wireVars
<1>4. CASE Extract
  BY <1>4 DEF Extract, Return, Alone, Settled, wireVars
<1>5. CASE Timeout
  BY <1>5 DEF Timeout, MayGiveUp, Return, Alone, Settled, wireVars
<1>6. ASSUME toLidar # <<>>
      PROVE  /\ pc = "wait" /\ awaited(callNo) \notin raised
             /\ toLidar = <<callNo>> /\ toHost = <<>> /\ parsing = NoReply
  BY <1>6 DEF Alone, Waiting, OnTheWire, Settled
<1>7. CASE CarryOut \/ Refuse
  <2>1. /\ toLidar # <<>> /\ toLidar' = Tail(toLidar)
        /\ UNCHANGED <<family, pc, callNo, op, raised, parsing>>
        /\ \E code \in {"ok", "refused"} : toHost' = Append(toHost, [call |-> Head(toLidar), code |-> code])
    BY <1>7 DEF CarryOut, Refuse, Answer, callerVars, sharedVars
  <2>2. /\ toLidar' = <<>>
        /\ \E code \in {"ok", "refused"} : toHost' = <<[call |-> callNo, code |-> code]>>
    <3>1. toLidar = <<callNo>> /\ toHost = <<>> BY <1>6, <2>1
    <3>2. Head(toLidar) = callNo /\ Tail(toLidar) = <<>> BY <3>1
    <3>3. \A r : Append(toHost, r) = <<r>> BY <3>1
    <3>. QED BY <2>1, <3>2, <3>3
  <2>3. callNo # NoCall BY <1>6, <2>1 DEF Wire, InRange, NoCall
  <2>. QED BY <1>6, <2>1, <2>2, <2>3 DEF Alone, Waiting, OnTheWire, NoReply
<1>8. CASE Ignore
  <2>1. /\ toLidar # <<>> /\ toLidar' = Tail(toLidar) /\ answered' = answered
        /\ UNCHANGED <<family, pc, callNo, op, raised, parsing, toHost>>
    BY <1>8 DEF Ignore, callerVars, sharedVars
  <2>2. callNo \notin answered /\ toLidar' = <<>>
    BY <1>6, <2>1, Took
  <2>. QED BY <1>6, <2>1, <2>2 DEF Alone, Waiting, Settled
<1>9. CASE Store
  <2>1. /\ toHost # <<>> /\ toHost' = Tail(toHost) /\ parsing' = Head(toHost)
        /\ regBack' = IF FillsRegBack(family, command(Head(toHost).call)) THEN Head(toHost) ELSE regBack
        /\ UNCHANGED <<family, pc, callNo, op, raised, toLidar>>
    BY <1>9 DEF Store, callerVars
  <2>2. /\ pc = "wait" /\ awaited(callNo) \notin raised
        /\ toLidar = <<>> /\ Len(toHost) = 1 /\ IsOwn(toHost[1])
    BY <2>1 DEF Alone, Waiting, OnTheWire, Settled
  <2>3. Head(toHost) = toHost[1] /\ toHost' = <<>> BY <2>1, <2>2 DEF Wire, TypeOK
  <2>. QED BY <2>1, <2>2, <2>3 DEF Alone, Waiting, OnTheWire
<1>10. CASE Dispatch
  <2>1. /\ parsing # NoReply /\ raised' = raised \cup Raises(family, command(parsing.call))
        /\ parsing' = NoReply
        /\ UNCHANGED <<family, pc, callNo, op, regBack, toLidar, toHost, answered>>
    BY <1>10 DEF Dispatch, callerVars, wireVars
  <2>2. /\ pc = "wait" /\ awaited(callNo) \notin raised /\ Held
        /\ toLidar = <<>> /\ toHost = <<>> /\ parsing.call = callNo
    BY <2>1 DEF Alone, Waiting, OnTheWire, Settled
  <2>3. callNo \in answered BY <2>1, <2>2 DEF Wire, RepliesOnce
  <2>. QED BY <2>1, <2>2, <2>3 DEF Alone, Waiting, Settled
<1>11. CASE UNCHANGED vars
  BY <1>11 DEF vars, callerVars, sharedVars, wireVars, Alone, Waiting, OnTheWire, Settled
<1>. QED
  BY <1>1, <1>2, <1>3, <1>4, <1>5, <1>7, <1>8, <1>9, <1>10, <1>11
     DEF Next, Caller, Lidar, Reader, Finished

\* A TRUE is due to the reply to this very request, and a getter has read it;
\* a FALSE for a request that was carried out is due to a reply that raises
\* something else.
Results ==
  \A n \in 1..callNo :
    /\ result[n].value = "true" /\ ~Unconditional(n) => n \in answered /\ Recognised(n)
    /\ result[n].value = "true" /\ op[n] \in Getters /\ FillsRegBack(family, command(n)) => result[n].data = n
    /\ result[n].value = "false" /\ n \in done => ~Recognised(n)

\* No call has returned before the first one.
LEMMA ResultsInit == Init => Results
  BY DEF Init, Results

\* The wrappers that drop the result of sendData read no payload.
LEMMA NoPayloadUnread == IgnoresReply \cap Getters = {}
  BY DEF IgnoresReply, Getters

\* A class that looks at the response code copies every reply.
LEMMA CodesFill ==
  ASSUME NEW f, NEW o, NEW cmd, ChecksCode(f, o)
  PROVE  FillsRegBack(f, cmd)
  BY DEF ChecksCode, FillsRegBack

\* When replies are prompt, Results is inductive.
LEMMA ResultsStep ==
  ASSUME Prompt, EveryBuilderLowers
  PROVE  Wire /\ Codes /\ InProgress /\ Alone /\ Results /\ [Next]_vars => Results'
<1> SUFFICES ASSUME Wire, Codes, InProgress, Alone, Results, [Next]_vars PROVE Results' OBVIOUS
<1> USE DEF command, awaited, Recognised, Held
<1>1. /\ callNo \in Nat /\ Len(op) = callNo /\ op \in Seq(UsedOps)
      /\ result \in Seq(CallResult) /\ Len(result) = callNo
      /\ done \subseteq 1..callNo /\ answered \subseteq 1..callNo
  BY DEF Wire, TypeOK, CallResult
<1>2. CASE \E o \in UsedOps : Begin(o) \/ BeginBroken(o)
  <2>1. PICK o \in UsedOps : Begin(o) \/ BeginBroken(o) BY <1>2
  <2>2. /\ callNo' = callNo + 1 /\ op' = Append(op, o)
        /\ UNCHANGED <<family, answered, done>>
    BY <2>1 DEF Begin, BeginBroken, wireVars
  <2>3. \A m \in 1..callNo : op'[m] = op[m] BY <1>1, <2>2
  <2>4. /\ \A m \in 1..callNo : result'[m] = result[m]
        /\ result'[callNo + 1].value # "true"
    <3>1. PICK v \in {"none", "false"} : result' = Append(result, [value |-> v, data |-> NoCall])
      BY <2>1 DEF Begin, BeginBroken, NotReturned
    <3>2. [value |-> v, data |-> NoCall] \in CallResult
      BY DEF CallResult
    <3>3. /\ \A m \in 1..callNo : result'[m] = result[m]
          /\ result'[callNo + 1] = [value |-> v, data |-> NoCall]
      BY <1>1, <3>1, <3>2, AppendProperties
    <3>. QED BY <3>3
  <2>5. callNo + 1 \notin done BY <1>1
  <2>. QED BY <1>1, <2>2, <2>3, <2>4, <2>5 DEF Results, Unconditional
<1>3. ASSUME NEW value \in {"true", "false"}, NEW data \in Call \cup {NoCall}, Return(value, data),
             pc \in {"wait", "extract"},
             UNCHANGED <<family, callNo, op, answered, done>>,
             value = "true" /\ ~Unconditional(callNo) => callNo \in answered /\ Recognised(callNo),
             value = "true" /\ op[callNo] \in Getters /\ FillsRegBack(family, command(callNo)) => data = callNo,
             value = "false" /\ callNo \in done => ~Recognised(callNo)
      PROVE  Results'
  <2>1. callNo \in 1..callNo BY <1>3 DEF Wire, InRange
  <2>2. /\ \A n \in 1..callNo : n # callNo => result'[n] = result[n]
        /\ result'[callNo] = [value |-> value, data |-> data]
    BY <1>3, <2>1, Returned DEF Wire
  <2>. QED BY <1>1, <1>3, <2>1, <2>2 DEF Results, Unconditional
<1>4. CASE Poll
  <2>1. /\ pc = "wait" /\ awaited(callNo) \in raised
        /\ UNCHANGED <<family, callNo, op, answered, done>>
    BY <1>4 DEF Poll, wireVars
  <2>2. callNo \in answered /\ Recognised(callNo) BY <2>1 DEF Alone, Waiting
  <2>3. CASE op[callNo] \in Getters
    BY <1>4, <2>1, <2>3 DEF Poll, Results, Unconditional
  <2>4. CASE op[callNo] \notin Getters
    <3>1. Return("true", NoCall) BY <1>4, <2>4 DEF Poll
    <3>. QED BY <1>3, <2>1, <2>2, <2>4, <3>1
  <2>. QED BY <2>3, <2>4
<1>5. CASE Extract
  <2>1. /\ pc = "extract" /\ UNCHANGED <<family, callNo, op, answered, done>>
    BY <1>5 DEF Extract, wireVars
  <2>2. callNo \in answered /\ Recognised(callNo) /\ Held BY <2>1 DEF Alone
  <2>3. PICK value \in {"true", "false"} :
          /\ Return(value, regBack.call)
          /\ value = "false" => ChecksCode(family, op[callNo]) /\ regBack.code # "ok"
    BY <1>5 DEF Extract
  <2>4. regBack.call \in Call \cup {NoCall} BY DEF Wire, TypeOK, Reply, NoReply
  <2>5. ASSUME value = "false" PROVE callNo \notin done
    <3>1. regBack.call = callNo BY <2>2, <2>3, <2>5, CodesFill
    <3>2. regBack # NoReply BY <1>1, <2>2, <3>1 DEF NoReply, NoCall
    <3>. QED BY <2>3, <2>5, <3>1, <3>2 DEF Codes
  <2>. QED BY <1>3, <2>1, <2>2, <2>3, <2>4, <2>5
<1>6. CASE Timeout
  <2>1. /\ pc = "wait" /\ MayGiveUp /\ UNCHANGED <<family, callNo, op, answered, done>>
    BY <1>6 DEF Timeout, wireVars
  <2>2. awaited(callNo) \notin raised /\ Settled BY <2>1 DEF MayGiveUp
  <2>3. callNo \in answered => ~Recognised(callNo)
    BY <2>1, <2>2 DEF Alone, Waiting, OnTheWire, Settled, IsOwn
  <2>4. PICK value \in {"true", "false"} :
          Return(value, NoCall) /\ (value = "true" => op[callNo] \in IgnoresReply)
    BY <1>6 DEF Timeout
  <2>5. done \subseteq answered BY DEF Wire, TypeOK
  <2>. QED BY <1>3, <2>1, <2>3, <2>4, <2>5, NoPayloadUnread DEF Unconditional
<1>7. CASE CarryOut \/ Refuse \/ Ignore
  <2>1. /\ toLidar # <<>> /\ done' \subseteq done \cup {Head(toLidar)} /\ answered \subseteq answered'
        /\ UNCHANGED callerVars
    BY <1>7 DEF CarryOut, Refuse, Ignore, Answer
  <2>2. pc = "wait" /\ toLidar = <<callNo>>
    BY <2>1 DEF Alone, Waiting, OnTheWire, Settled
  <2>3. Head(toLidar) = callNo /\ result[callNo].value = "none" BY <2>2 DEF InProgress
  <2>. QED BY <2>1, <2>3 DEF callerVars, Results, Unconditional
<1>8. CASE Store \/ Dispatch \/ UNCHANGED vars
  BY <1>8 DEF Store, Dispatch, vars, callerVars, wireVars, Results, Unconditional
<1>. QED
  BY <1>2, <1>4, <1>5, <1>6, <1>7, <1>8 DEF Next, Caller, Lidar, Reader, Finished

\* What holds when replies are prompt.
PromptInv == Wire /\ Codes /\ InProgress /\ Alone /\ Results

\* When replies are prompt, PromptInv is an invariant.
LEMMA PromptInvariant ==
  ASSUME Prompt, EveryBuilderLowers
  PROVE  Spec => []PromptInv
<1>1. Init => PromptInv
  BY WireInit, CodesInit, AloneInit, ResultsInit DEF PromptInv
<1>2. PromptInv /\ [Next]_vars => PromptInv'
  BY WireStep, CodesStep, InProgressStep, AloneStep, ResultsStep DEF PromptInv
<1>. QED BY <1>1, <1>2, PTL DEF Spec

\* When replies are prompt, a getter that returns TRUE has read the reply to its
\* own request.
THEOREM OwnPayloadAlways ==
  ASSUME Prompt, EveryBuilderLowers
  PROVE  Spec => []OwnPayload
<1>1. PromptInv => OwnPayload
  BY DEF PromptInv, Results, OwnPayload, Confirmed, command
<1>. QED BY <1>1, PromptInvariant, PTL

-----------------------------------------------------------------------------
(* Refinement *)

\* A lidar that refuses nothing carries out what it answers.
AllCarriedOut == answered = done

\* AllCarriedOut is inductive.
LEMMA AllCarriedOutStep ==
  ASSUME "refuse" \notin Faults
  PROVE  AllCarriedOut /\ [Next]_vars => AllCarriedOut'
  BY DEF AllCarriedOut, Next, Caller, Begin, BeginBroken, Poll, Extract, Timeout, Lidar, CarryOut, Refuse,
         Ignore, Answer, Reader, Store, Dispatch, Finished, vars, wireVars

\* What RequestReply sees of a state.
Busy == pc \in {"wait", "extract", "crashed"}
Confirmations == {n \in Confirmed : ~Unconditional(n)}

\* Steps that RequestReply does not see.
LEMMA Unseen ==
  ASSUME UNCHANGED <<family, callNo, op, result, done>>, Busy' = Busy
  PROVE  UNCHANGED (Abstract!vars)
  BY DEF Abstract!vars, Busy, Confirmed, Unconditional

\* The steps of CommandExchange are steps of RequestReply.
LEMMA AbstractStep ==
  ASSUME Prompt, EveryBuilderLowers, "refuse" \notin Faults
  PROVE  PromptInv /\ AllCarriedOut /\ [Next]_vars => [Abstract!Next]_(Abstract!vars)
<1> SUFFICES ASSUME PromptInv, AllCarriedOut, [Next]_vars
             PROVE  Abstract!Next \/ UNCHANGED (Abstract!vars)
  OBVIOUS
<1>1. /\ callNo \in Nat /\ Len(op) = callNo /\ op \in Seq(UsedOps)
      /\ result \in Seq(CallResult) /\ Len(result) = callNo
  BY DEF PromptInv, Wire, TypeOK, CallResult
<1>2. CASE \E o \in UsedOps : Begin(o) \/ BeginBroken(o)
  <2>1. PICK o \in UsedOps : Begin(o) \/ BeginBroken(o) BY <1>2
  <2>2. /\ callNo' = callNo + 1 /\ op' = Append(op, o) /\ ~Busy
        /\ UNCHANGED <<family, done>>
    BY <2>1 DEF Begin, BeginBroken, wireVars, Busy
  <2>3. \A m \in 1..callNo : op'[m] = op[m] BY <1>1, <2>2
  <2>4. /\ \A m \in 1..callNo : result'[m] = result[m]
        /\ result'[callNo + 1].value # "true"
    <3>1. PICK v \in {"none", "false"} : result' = Append(result, [value |-> v, data |-> NoCall])
      BY <2>1 DEF Begin, BeginBroken, NotReturned
    <3>2. [value |-> v, data |-> NoCall] \in CallResult
      BY DEF CallResult
    <3>3. /\ \A m \in 1..callNo : result'[m] = result[m]
          /\ result'[callNo + 1] = [value |-> v, data |-> NoCall]
      BY <1>1, <3>1, <3>2, AppendProperties
    <3>. QED BY <3>3
  <2>5. Confirmations' = Confirmations
    BY <1>1, <2>2, <2>3, <2>4 DEF Confirmations, Confirmed, Unconditional
  <2>. QED
    BY <2>2, <2>5 DEF Abstract!Next, Abstract!Call, Abstract!Refuse, Busy, Confirmations
<1>3. ASSUME NEW value \in {"true", "false"}, NEW data \in Call \cup {NoCall}, Return(value, data),
             pc \in {"wait", "extract"},
             UNCHANGED <<family, callNo, op, answered, done>>,
             Results'
      PROVE  Abstract!Next
  <2>1. callNo \in 1..callNo BY <1>3 DEF PromptInv, Wire, InRange
  <2>2. /\ pc' = "idle"
        /\ \A n \in 1..callNo : n # callNo => result'[n] = result[n]
        /\ result'[callNo] = [value |-> value, data |-> data]
    BY <1>3, <2>1, Returned DEF PromptInv, Wire
  <2>3. Busy /\ ~Busy' BY <1>3, <2>2 DEF Busy
  <2>4. result[callNo].value = "none" BY <1>3 DEF PromptInv, InProgress
  <2>5. CASE value = "true" /\ ~Unconditional(callNo)
    <3>1. callNo \in done
      BY <1>3, <2>1, <2>2, <2>5 DEF Results, AllCarriedOut, Unconditional
    <3>2. Confirmations' = Confirmations \cup {callNo}
      BY <1>3, <2>1, <2>2, <2>5 DEF Confirmations, Confirmed, Unconditional
    <3>. QED BY <1>3, <2>3, <3>1, <3>2 DEF Abstract!Next, Abstract!Confirm, Busy, Confirmations
  <2>6. CASE value = "false" \/ Unconditional(callNo)
    <3>1. Confirmations' = Confirmations
      BY <1>3, <2>1, <2>2, <2>4, <2>6 DEF Confirmations, Confirmed, Unconditional
    <3>. QED BY <1>3, <2>3, <3>1 DEF Abstract!Next, Abstract!Fail, Busy, Confirmations
  <2>. QED BY <2>5, <2>6
<1>4. Results' BY ResultsStep DEF PromptInv
<1>5. CASE Poll
  <2>1. /\ pc = "wait" /\ UNCHANGED <<family, callNo, op, answered, done>>
    BY <1>5 DEF Poll, wireVars
  <2>2. CASE op[callNo] \in Getters
    BY <1>5, <2>1, <2>2, Unseen DEF Poll, Busy
  <2>3. CASE op[callNo] \notin Getters
    <3>1. Return("true", NoCall) BY <1>5, <2>3 DEF Poll
    <3>. QED BY <1>3, <1>4, <2>1, <3>1
  <2>. QED BY <2>2, <2>3
<1>6. CASE Extract
  <2>1. /\ pc = "extract" /\ UNCHANGED <<family, callNo, op, answered, done>>
    BY <1>6 DEF Extract, wireVars
  <2>2. PICK value \in {"true", "false"} : Return(value, regBack.call) BY <1>6 DEF Extract
  <2>3. regBack.call \in Call \cup {NoCall} BY DEF PromptInv, Wire, TypeOK, Reply, NoReply
  <2>. QED BY <1>3, <1>4, <2>1, <2>2, <2>3
<1>7. CASE Timeout
  <2>1. /\ pc = "wait" /\ UNCHANGED <<family, callNo, op, answered, done>>
    BY <1>7 DEF Timeout, wireVars
  <2>2. PICK value \in {"true", "false"} : Return(value, NoCall) BY <1>7 DEF Timeout
  <2>. QED BY <1>3, <1>4, <2>1, <2>2
<1>8. CASE CarryOut
  <2>1. /\ toLidar # <<>> /\ done' = done \cup {Head(toLidar)} /\ toLidar' = Tail(toLidar)
        /\ UNCHANGED callerVars
    BY <1>8 DEF CarryOut, Answer
  <2>2. pc = "wait" /\ toLidar = <<callNo>>
    BY <2>1 DEF PromptInv, Alone, Waiting, OnTheWire, Settled
  <2>3. Head(toLidar) = callNo BY <2>2
  <2>4. callNo \notin done
    <3>1. Head(toLidar) \notin answered BY <2>1, Took DEF PromptInv
    <3>. QED BY <2>3, <3>1 DEF PromptInv, Wire, TypeOK
  <2>5. Confirmations' = Confirmations /\ Busy /\ Busy' = Busy
    BY <2>1, <2>2 DEF callerVars, Confirmations, Confirmed, Unconditional, Busy
  <2>. QED
    BY <2>1, <2>3, <2>4, <2>5
       DEF Abstract!Next, Abstract!CarryOut, Busy, Confirmations, callerVars
<1>9. CASE Refuse BY <1>9 DEF Refuse
<1>10. CASE Ignore \/ Store \/ Dispatch \/ UNCHANGED vars
  <2>1. UNCHANGED callerVars /\ done' = done
    BY <1>10 DEF Ignore, Store, Dispatch, vars, wireVars
  <2>. QED BY <2>1, Unseen DEF callerVars, Busy
<1>. QED
  BY <1>2, <1>5, <1>6, <1>7, <1>8, <1>9, <1>10 DEF Next, Caller, Lidar, Reader, Finished

\* When replies are prompt and nothing is refused, CommandExchange implements
\* RequestReply: a call that returns TRUE was carried out.
THEOREM ConfirmedWereDoneAlways ==
  ASSUME Prompt, EveryBuilderLowers, "refuse" \notin Faults
  PROVE  Spec => ConfirmedWereDone
<1>1. Init => Abstract!Init
  BY DEF Init, Abstract!Init, Confirmed
<1>2. Init => AllCarriedOut BY DEF Init, AllCarriedOut
<1>. QED
  BY <1>1, <1>2, AllCarriedOutStep, AbstractStep, PromptInvariant, PTL
     DEF Spec, Abstract!Spec, ConfirmedWereDone
=============================================================================
