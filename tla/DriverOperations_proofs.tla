---------------------- MODULE DriverOperations_proofs -----------------------
(***************************************************************************)
(* Proofs about DriverOperations.                                          *)
(*                                                                         *)
(*   The first half is about the scripts, and involves no state: which     *)
(*   exchanges they consist of, what these write, and that the units they  *)
(*   carry, put together, are the file.  Recursive definitions are         *)
(*   reasoned about by the least counterexample (Induct), and by a function*)
(*   that is known to exist because it can be built up to any bound        *)
(*   (Iterate): FlattenSeq and Blocks are such.                            *)
(*                                                                         *)
(*   DriverSpec implements the Spec of CommandExchange, whose invariants   *)
(*   hold here; the names of CommandExchange_proofs are used as they are.  *)
(*                                                                         *)
(*   DriverInv: the operation in hand, the step of its script it has come  *)
(*   to and the last call agree, and a setter that has got its TRUE has a  *)
(*   configuration to write back.  DriverTypeOK follows, however late the  *)
(*   replies are and whatever the lidar answers.                           *)
(*                                                                         *)
(*   When replies are prompt and every builder lowers the state it waits   *)
(*   for (all but HeliosCom::rebootLidar do), PromptDriverInv adds that    *)
(*   only the request of the call in progress or its reply is on the wire, *)
(*   and that AiryCom never gets past the request of an update.  Writing   *)
(*   relates the last request to the configuration of the lidar, Giving    *)
(*   relates what the operation in hand has given it to the script.        *)
(***************************************************************************)
EXTENDS DriverOperations, CommandExchange_proofs, SequenceTheorems,
  WellFoundedInduction, TLAPS

-----------------------------------------------------------------------------
(* Sequences and recursive functions *)

\* Induction for a set: a set that has 0 and the successors of its numbers has
\* them all.  The least number without would follow one with.
LEMMA Induct ==
  ASSUME NEW S, 0 \in S, \A n \in Nat : n \in S => n + 1 \in S
  PROVE  Nat \subseteq S
<1> DEFINE T == Nat \ S
<1>1. SUFFICES ASSUME T # {} PROVE FALSE OBVIOUS
<1>2. PICK x \in T : \A y \in T : ~(<<y, x>> \in OpToRel(<, Nat))
  BY <1>1, NatLessThanWellFounded, WFMin
<1>3. \A y \in T : ~(y < x) BY <1>2 DEF OpToRel
<1>4. x \in Nat /\ x # 0 /\ x - 1 \in Nat /\ x - 1 < x /\ (x - 1) + 1 = x OBVIOUS
<1>5. x - 1 \in S BY <1>3, <1>4
<1>. QED BY <1>4, <1>5

\* A function on 0..n starts at a, and its i-th value is F[i] of the one before.
Iterable(S, a, F, n) ==
  \E g \in [0..n -> S] : g[0] = a /\ \A i \in 1..n : g[i] = F[i][g[i - 1]]

\* There is such a function for any n.
LEMMA Iterate ==
  ASSUME NEW S, NEW a \in S, NEW F \in [Nat -> [S -> S]], NEW n \in Nat
  PROVE  Iterable(S, a, F, n)
<1> DEFINE Good(m) == Iterable(S, a, F, m)
           T == {m \in Nat : Good(m)}
<1> USE DEF Iterable
<1>1. Good(0)
  <2> DEFINE g == [i \in 0..0 |-> a]
  <2>1. g \in [0..0 -> S] /\ g[0] = a OBVIOUS
  <2>2. \A i \in 1..0 : g[i] = F[i][g[i - 1]] OBVIOUS
  <2>. HIDE DEF g
  <2>. QED BY <2>1, <2>2
<1>2. ASSUME NEW m \in Nat, Good(m) PROVE Good(m + 1)
  <2>1. PICK g \in [0..m -> S] : g[0] = a /\ \A i \in 1..m : g[i] = F[i][g[i - 1]] BY <1>2
  <2> DEFINE h == [i \in 0..(m + 1) |-> IF i <= m THEN g[i] ELSE F[m + 1][g[m]]]
  <2>2. g[m] \in S /\ F[m + 1][g[m]] \in S OBVIOUS
  <2>3. h \in [0..(m + 1) -> S]
    <3>1. \A i \in 0..(m + 1) : i <= m => i \in 0..m OBVIOUS
    <3>. QED BY <2>2, <3>1
  <2>4. h[0] = a BY <2>1
  <2>5. ASSUME NEW i \in 1..(m + 1) PROVE h[i] = F[i][h[i - 1]]
    <3>1. CASE i <= m
      <4>1. i \in 1..m /\ i - 1 \in 0..(m + 1) /\ i - 1 <= m /\ i \in 0..(m + 1) BY <3>1
      <4>. QED BY <2>1, <3>1, <4>1
    <3>2. CASE i = m + 1
      <4>1. i - 1 = m /\ m \in 0..(m + 1) /\ i \in 0..(m + 1) /\ ~(i <= m) BY <3>2
      <4>. QED BY <3>2, <4>1
    <3>. QED BY <3>1, <3>2
  <2>. QED BY <2>3, <2>4, <2>5
<1>3. Nat \subseteq T
  <2>. HIDE DEF Good
  <2>1. 0 \in T BY <1>1
  <2>2. \A m \in Nat : m \in T => m + 1 \in T BY <1>2
  <2>. HIDE DEF T
  <2>. QED BY <2>1, <2>2, Induct
<1>. QED BY <1>3

\* A function on 1..n is a sequence of length n.
LEMMA FunctionIsSeq ==
  ASSUME NEW S, NEW n \in Nat, NEW g \in [1..n -> S]
  PROVE  g \in Seq(S) /\ Len(g) = n
<1>1. g \in Seq(S) BY SeqDef
<1>2. DOMAIN g = 1..Len(g) /\ Len(g) \in Nat BY <1>1, LenProperties
<1>3. 1..n = 1..Len(g) BY <1>2
<1>. QED BY <1>1, <1>2, <1>3

\* FlattenSeq(seqs) is what putting one more of seqs behind comes to.
LEMMA Flattened ==
  ASSUME NEW S, NEW seqs \in Seq(Seq(S))
  PROVE  \E g \in [0..Len(seqs) -> Seq(S)] :
           /\ g[0] = <<>>
           /\ \A i \in 1..Len(seqs) : g[i] = g[i - 1] \o seqs[i]
           /\ FlattenSeq(seqs) = g[Len(seqs)]
<1> DEFINE n == Len(seqs)
           F == [i \in Nat |-> [s \in Seq(S) |-> IF i \in 1..n THEN s \o seqs[i] ELSE <<>>]]
<1>1. n \in Nat /\ \A i \in 1..n : seqs[i] \in Seq(S) OBVIOUS
<1>2. F \in [Nat -> [Seq(S) -> Seq(S)]]
  <2>1. \A i \in 1..n, s \in Seq(S) : s \o seqs[i] \in Seq(S) BY <1>1
  <2>. QED BY <2>1
<1>3. <<>> \in Seq(S) OBVIOUS
<1>4. PICK g \in [0..n -> Seq(S)] : g[0] = <<>> /\ \A i \in 1..n : g[i] = F[i][g[i - 1]]
  <2> DEFINE Q == Seq(S)
             e == <<>>
  <2>1. F \in [Nat -> [Q -> Q]] /\ e \in Q /\ n \in Nat BY <1>1, <1>2, <1>3
  <2>. HIDE DEF F, n, Q, e
  <2>2. \E g \in [0..n -> Q] : g[0] = e /\ \A i \in 1..n : g[i] = F[i][g[i - 1]]
    <3>1. Iterable(Q, e, F, n) BY <2>1, Iterate
    <3>. QED BY <3>1 DEF Iterable
  <2>. QED BY <2>2 DEF Q, e
<1>5. \A i \in 1..n : g[i] = g[i - 1] \o seqs[i] /\ g[i - 1] \in Seq(S)
  <2> TAKE i \in 1..n
  <2>1. i \in Nat /\ i - 1 \in 0..n BY <1>1
  <2>2. g[i - 1] \in Seq(S) BY <2>1
  <2>. QED BY <1>4, <2>1, <2>2
<1>6. FlattenSeq(seqs) = g[n]
  <2>1. CASE n = 0
    <3>1. seqs = <<>> BY <2>1
    <3>. QED BY <1>4, <2>1, <3>1 DEF FlattenSeq
  <2>2. CASE n # 0
    <3> DEFINE flatten == CHOOSE f : f = [i \in 1..n |-> IF i = 1 THEN seqs[i] ELSE f[i - 1] \o seqs[i]]
               h == [i \in 1..n |-> g[i]]
    <3>1. h = [i \in 1..n |-> IF i = 1 THEN seqs[i] ELSE h[i - 1] \o seqs[i]]
      <4>1. ASSUME NEW i \in 1..n, i = 1 PROVE g[i] = seqs[i]
        <5>0. i - 1 = 0 BY <4>1
        <5>1. g[i] = g[0] \o seqs[i] BY <1>5, <5>0
        <5>2. seqs[i] \in Seq(S) BY <1>1
        <5>. QED BY <1>4, <5>1, <5>2
      <4>2. ASSUME NEW i \in 1..n, i # 1 PROVE g[i] = h[i - 1] \o seqs[i]
        <5>1. i - 1 \in 1..n BY <1>1, <4>2
        <5>. QED BY <1>5, <5>1
      <4>. QED BY <4>1, <4>2
    <3>2. flatten = [i \in 1..n |-> IF i = 1 THEN seqs[i] ELSE flatten[i - 1] \o seqs[i]]
      <4>. HIDE DEF h
      <4>. QED BY <3>1
    <3>3. \A i \in 1..n : flatten[i] = g[i]
      <4> DEFINE T == {i \in Nat : i + 1 \in 1..n => flatten[i + 1] = g[i + 1]}
      <4>. HIDE DEF flatten
      <4>1. 0 \in T
        <5>1. 1 \in 1..n BY <1>1, <2>2
        <5>2. h[1] = g[1] BY <5>1
        <5>3. h[1] = seqs[1] BY <3>1, <5>1
        <5>4. flatten[1] = seqs[1] BY <3>2, <5>1
        <5>. QED BY <5>2, <5>3, <5>4
      <4>2. ASSUME NEW i \in Nat, i \in T PROVE i + 1 \in T
        <5>1. CASE i + 2 \in 1..n
          <6>1. i + 1 \in 1..n /\ (i + 2) - 1 = i + 1 /\ i + 2 # 1 /\ (i + 1) + 1 = i + 2
            BY <1>1, <5>1
          <6>2. flatten[i + 2] = flatten[i + 1] \o seqs[i + 2] BY <3>2, <5>1, <6>1
          <6>3. g[i + 2] = g[i + 1] \o seqs[i + 2] BY <1>5, <5>1, <6>1
          <6>4. flatten[i + 1] = g[i + 1] BY <4>2, <6>1
          <6>5. flatten[(i + 1) + 1] = g[(i + 1) + 1] BY <6>1, <6>2, <6>3, <6>4
          <6>. QED BY <6>5
        <5>2. CASE i + 2 \notin 1..n
          <6>1. (i + 1) + 1 \notin 1..n BY <5>2
          <6>. QED BY <6>1
        <5>. QED BY <5>1, <5>2
      <4>3. Nat \subseteq T
        <5>. HIDE DEF T
        <5>. QED BY <4>1, <4>2, Induct
      <4>4. ASSUME NEW i \in 1..n PROVE flatten[i] = g[i]
        <5>1. i - 1 \in Nat /\ (i - 1) + 1 = i BY <1>1
        <5>2. i - 1 \in T BY <4>3, <5>1
        <5>. QED BY <5>1, <5>2
      <4>. QED BY <4>4
    <3>4. FlattenSeq(seqs) = flatten[n] BY <2>2 DEF FlattenSeq
    <3>5. n \in 1..n BY <1>1, <2>2
    <3>. HIDE DEF flatten
    <3>. QED BY <3>3, <3>4, <3>5
  <2>. QED BY <2>1, <2>2
<1>. QED BY <1>4, <1>5, <1>6

\* The parts of FlattenSeq(seqs) are those of seqs.
LEMMA FlattenType ==
  ASSUME NEW S, NEW seqs \in Seq(Seq(S))
  PROVE  FlattenSeq(seqs) \in Seq(S)
<1>1. PICK g \in [0..Len(seqs) -> Seq(S)] : FlattenSeq(seqs) = g[Len(seqs)] BY Flattened
<1>2. Len(seqs) \in 0..Len(seqs) OBVIOUS
<1>. QED BY <1>1, <1>2

\* Nothing put together is nothing.
LEMMA FlattenEmpty == FlattenSeq(<<>>) = <<>>
BY DEF FlattenSeq

\* One more sequence comes behind the others.
LEMMA FlattenAppend ==
  ASSUME NEW S, NEW seqs \in Seq(Seq(S)), NEW s \in Seq(S)
  PROVE  FlattenSeq(Append(seqs, s)) = FlattenSeq(seqs) \o s
<1> DEFINE n == Len(seqs)
           more == Append(seqs, s)
<1>1. /\ n \in Nat /\ more \in Seq(Seq(S)) /\ Len(more) = n + 1
      /\ \A i \in 1..n : more[i] = seqs[i]
      /\ more[n + 1] = s
  OBVIOUS
<1>2. PICK g \in [0..n -> Seq(S)] :
        /\ g[0] = <<>>
        /\ \A i \in 1..n : g[i] = g[i - 1] \o seqs[i]
        /\ FlattenSeq(seqs) = g[n]
  BY Flattened
<1>3. PICK h \in [0..(n + 1) -> Seq(S)] :
        /\ h[0] = <<>>
        /\ \A i \in 1..(n + 1) : h[i] = h[i - 1] \o more[i]
        /\ FlattenSeq(more) = h[n + 1]
  <2>. HIDE DEF more, n
  <2>1. PICK h \in [0..Len(more) -> Seq(S)] :
        /\ h[0] = <<>>
        /\ \A i \in 1..Len(more) : h[i] = h[i - 1] \o more[i]
        /\ FlattenSeq(more) = h[Len(more)]
    BY <1>1, Flattened
  <2>. QED BY <1>1, <2>1
<1>. HIDE DEF n, more
<1>4. \A i \in 0..n : h[i] = g[i]
  <2> DEFINE T == {i \in Nat : i \in 0..n => h[i] = g[i]}
  <2>1. 0 \in T BY <1>2, <1>3
  <2>2. ASSUME NEW i \in Nat, i \in T PROVE i + 1 \in T
    <3>1. CASE i + 1 \in 0..n
      <4>1. i \in 0..n /\ i + 1 \in 1..n /\ i + 1 \in 1..(n + 1) /\ (i + 1) - 1 = i
        BY <1>1, <3>1
      <4>2. g[i + 1] = g[i] \o seqs[i + 1] BY <1>2, <4>1
      <4>3. h[i + 1] = h[i] \o more[i + 1] BY <1>3, <4>1
      <4>4. h[i] = g[i] BY <2>2, <4>1
      <4>5. more[i + 1] = seqs[i + 1] BY <1>1, <4>1
      <4>6. h[i + 1] = g[i + 1] BY <4>2, <4>3, <4>4, <4>5
      <4>. QED BY <4>6
    <3>2. CASE i + 1 \notin 0..n BY <3>2
    <3>. QED BY <3>1, <3>2
  <2>. HIDE DEF T
  <2>3. Nat \subseteq T BY <2>1, <2>2, Induct
  <2>. QED BY <1>1, <2>3 DEF T
<1>5. h[n + 1] = h[n] \o s
  <2>0. n \in Nat BY <1>1
  <2>1. n + 1 \in 1..(n + 1) /\ (n + 1) - 1 = n BY <2>0
  <2>. QED BY <1>1, <1>3, <2>1
<1>6. n \in 0..n BY <1>1
<1>7. h[n + 1] = g[n] \o s BY <1>4, <1>5, <1>6
<1>. QED BY <1>2, <1>3, <1>7 DEF more

\* Empty sequences put together are empty.
LEMMA FlattenNothing ==
  ASSUME NEW S, NEW seqs \in Seq(Seq(S)), \A i \in 1..Len(seqs) : seqs[i] = <<>>
  PROVE  FlattenSeq(seqs) = <<>>
<1> DEFINE n == Len(seqs)
<1>1. n \in Nat OBVIOUS
<1>2. PICK g \in [0..n -> Seq(S)] :
        /\ g[0] = <<>>
        /\ \A i \in 1..n : g[i] = g[i - 1] \o seqs[i]
        /\ FlattenSeq(seqs) = g[n]
  BY Flattened
<1> DEFINE T == {i \in Nat : i <= n => g[i] = <<>>}
<1>. HIDE DEF n
<1>3. 0 \in T BY <1>1, <1>2
<1>4. ASSUME NEW i \in Nat, i \in T PROVE i + 1 \in T
  <2>1. SUFFICES ASSUME i + 1 <= n PROVE g[i + 1] = <<>> OBVIOUS
  <2>2. i + 1 \in 1..n /\ (i + 1) - 1 = i /\ i <= n BY <1>1, <2>1
  <2>3. seqs[i + 1] = <<>> BY <2>2 DEF n
  <2>4. g[i] = <<>> BY <1>4, <2>2
  <2>5. g[i + 1] = <<>> \o <<>> BY <1>2, <2>2, <2>3, <2>4
  <2>6. <<>> \in Seq(S) OBVIOUS
  <2>. QED BY <2>5, <2>6, ConcatEmptySeq
<1>. HIDE DEF T
<1>5. Nat \subseteq T BY <1>3, <1>4, Induct
<1>. QED BY <1>1, <1>2, <1>5 DEF T

-----------------------------------------------------------------------------
(* Every request but some has an acknowledgement that raises the awaited state *)

\* Steps of an update that AiryCom never gets to.
AiryUnreached == {
  "update.app.data", "update.app.checksum", "update.top.data", "update.top.checksum",
  "update.bot.data", "update.bot.checksum"}

\* Every request of AiryCom but those of an update.
LEMMA AiryTables ==
  \A r \in AiryRequests :
    \/ <<r[2], r[3]>> \in AiryAcks
    \/ r[1] \in AiryUnreached \cup Unrecognised["airy"] \cup {"getUpdateStatus"}
<1>1. \A r \in AiryWriteRequests \cup AiryReadRequests : <<r[2], r[3]>> \in TopAcks \cup AiryBotAcks
  BY DEF AiryWriteRequests, AiryReadRequests, TopAcks, AiryBotAcks
<1>2. \A r \in AirySettingRequests : <<r[2], r[3]>> \in AiryParamAcks \cup AiryMotorTopAcks
  BY DEF AirySettingRequests, AiryParamAcks, AiryMotorTopAcks, TopAcks
<1>3. \A r \in UNION {AiryAngleRequests, AiryFixRequests, AiryEventLogRequests, AiryDaemonLogRequests} :
        <<r[2], r[3]>> \in AiryOtherAcks
  BY DEF AiryAngleRequests, AiryFixRequests, AiryEventLogRequests, AiryDaemonLogRequests,
         AiryOtherAcks, OtherLogAcks
<1>4. \A r \in UNION {AiryInfoRequests, AiryModeRequests, AirySupplementRequests, AiryDetectionRequests} :
        <<r[2], r[3]>> \in UNION {AiryParamAcks, AiryInfoAcks, AiryOtherAcks}
  BY DEF AiryInfoRequests, AiryModeRequests, AirySupplementRequests, AiryDetectionRequests,
         AiryInfoAcks, AiryParamAcks, AiryOtherAcks, OtherLogAcks
<1>5. \A r \in AiryUpdateRequests : r[1] \in AiryUnreached \cup Unrecognised["airy"] \cup {"getUpdateStatus"}
  <2>1. Unrecognised["airy"] = {"update.app.request", "update.top.request", "update.bot.request"}
    BY DEF Unrecognised
  <2>. QED BY <2>1 DEF AiryUpdateRequests, AiryUnreached
<1>6. UNION {TopAcks, AiryBotAcks, AiryParamAcks, AiryMotorTopAcks, AiryInfoAcks, AiryOtherAcks} \subseteq AiryAcks
  BY DEF AiryAcks, AiryMotorTopAcks
<1>7. \A r \in AiryRequests :
        r \in UNION {
          AiryWriteRequests \cup AiryReadRequests, AirySettingRequests,
          UNION {AiryAngleRequests, AiryFixRequests, AiryEventLogRequests, AiryDaemonLogRequests},
          UNION {AiryInfoRequests, AiryModeRequests, AirySupplementRequests, AiryDetectionRequests},
          AiryUpdateRequests}
  BY DEF AiryRequests
<1>. QED BY <1>1, <1>2, <1>3, <1>4, <1>5, <1>6, <1>7

\* Every request of Ruby4Com but SetLidarFov.
LEMMA Ruby4Tables ==
  \A r \in Ruby4Requests :
    <<r[2], r[3]>> \in Ruby4Acks \/ r[1] \in Unrecognised["ruby4"] \cup {"getUpdateStatus"}
<1>1. \A r \in Ruby4WriteRequests \cup Ruby4ReadRequests : <<r[2], r[3]>> \in TopAcks \cup AiryBotAcks
  BY DEF AiryWriteRequests, AiryReadRequests, Ruby4WriteRequests, Ruby4ReadRequests, TopAcks, AiryBotAcks
<1>2. \A r \in Ruby4SettingRequests : <<r[2], r[3]>> \in Ruby4ParamAcks \cup TopAcks \/ r[1] \in Unrecognised["ruby4"]
  <2>1. Unrecognised["ruby4"] = {"SetLidarFov"} BY DEF Unrecognised
  <2>. QED BY <2>1 DEF Ruby4SettingRequests, Ruby4ParamAcks, TopAcks
<1>3. \A r \in Ruby4EventLogRequests \cup Ruby4DaemonLogRequests : <<r[2], r[3]>> \in OtherLogAcks
  BY DEF Ruby4EventLogRequests, Ruby4DaemonLogRequests, AiryEventLogRequests, AiryDaemonLogRequests, OtherLogAcks
<1>4. \A r \in Ruby4InfoRequests \cup Ruby4ModeRequests :
        <<r[2], r[3]>> \in UNION {Ruby4ParamAcks, Ruby4InfoAcks, OtherLogAcks}
  BY DEF Ruby4InfoRequests, Ruby4ModeRequests, Ruby4InfoAcks, Ruby4ParamAcks, OtherLogAcks
<1>5. \A r \in Ruby4UpdateRequests : <<r[2], r[3]>> \in UpdateAcks \/ r[1] = "getUpdateStatus"
  BY DEF Ruby4UpdateRequests, UpdateAcks
<1>6. UNION {TopAcks, AiryBotAcks, Ruby4ParamAcks, Ruby4InfoAcks, OtherLogAcks, UpdateAcks} \subseteq Ruby4Acks
  BY DEF Ruby4Acks, Ruby4MotorTopAcks, Ruby4BotAcks, Ruby4OtherAcks, Ruby4UpdateAcks
<1>7. \A r \in Ruby4Requests :
        r \in UNION {
          Ruby4WriteRequests \cup Ruby4ReadRequests, Ruby4SettingRequests,
          Ruby4EventLogRequests \cup Ruby4DaemonLogRequests, Ruby4InfoRequests \cup Ruby4ModeRequests,
          Ruby4UpdateRequests}
  BY DEF Ruby4Requests
<1>. QED BY <1>1, <1>2, <1>3, <1>4, <1>5, <1>6, <1>7

\* Every request of HeliosCom.
LEMMA HeliosTables == \A r \in HeliosRequests : <<r[2], r[3]>> \in HeliosAcks
<1>1. \A r \in HeliosRegisterRequests \cup HeliosConfigRequests : <<r[2], r[3]>> \in HeliosDataAcks \cup HeliosPlainAcks
  BY DEF HeliosRegisterRequests, HeliosConfigRequests, HeliosDataAcks, HeliosPlainAcks
<1>2. \A r \in HeliosAngleRequests \cup HeliosModeRequests : <<r[2], r[3]>> \in HeliosDataAcks \cup HeliosPlainAcks
  BY DEF HeliosAngleRequests, HeliosModeRequests, HeliosDataAcks, HeliosPlainAcks
<1>3. \A r \in HeliosLogRequests : <<r[2], r[3]>> \in HeliosDataAcks \cup HeliosPlainAcks
  BY DEF HeliosLogRequests, HeliosDataAcks, HeliosPlainAcks
<1>. QED BY <1>1, <1>2, <1>3 DEF HeliosRequests, HeliosAcks

\* Every request of MemsCom but those of the configuration.
LEMMA MemsTables == \A r \in MemsRequests : <<r[2], r[3]>> \in MemsAcks \/ r[1] \in Unrecognised["mems"]
<1>1. \A r \in MemsRegisterRequests : <<r[2], r[3]>> \in MemsAcks
  BY DEF MemsRegisterRequests, MemsAcks, MemsDataAcks, MemsPlainAcks
<1>2. Unrecognised["mems"] = {"GetLidarConfig", "SetLidarConfig"} BY DEF Unrecognised
<1>3. \A r \in MemsConfigRequests : r[1] \in Unrecognised["mems"] BY <1>2 DEF MemsConfigRequests
<1>. QED BY <1>1, <1>3 DEF MemsRequests

\* The acknowledgement of o raises the state that o waits for.
Recognises(f, o) == StateOf(f, o) \in Raises(f, CommandOf(f, o))

\* Every exchange is recognised but those that Unrecognised lists, the update
\* status, and the rest of an update of AiryCom.
LEMMA Tables ==
  ASSUME NEW f \in Family, NEW o \in Exchanges[f]
  PROVE  \/ Recognises(f, o)
         \/ o \in Unrecognised[f] \/ o = "getUpdateStatus"
         \/ f = "airy" /\ o \in AiryUnreached
<1> DEFINE r == CHOOSE q \in Requests[f] : q[1] = o
<1>1. \E q \in Requests[f] : q[1] = o BY DEF Exchanges
<1>2. r \in Requests[f] /\ r[1] = o BY <1>1
<1>3. ASSUME <<r[2], r[3]>> \in Acks[f] PROVE Recognises(f, o)
  <2>1. CommandOf(f, o) = r[2] /\ StateOf(f, o) = r[3] BY DEF CommandOf, StateOf
  <2>. HIDE DEF r
  <2>. QED BY <1>3, <2>1 DEF Recognises, Raises
<1>. HIDE DEF r
<1>4. CASE f = "airy"
  BY <1>2, <1>3, <1>4, AiryTables DEF Requests, Acks
<1>5. CASE f = "ruby4"
  BY <1>2, <1>3, <1>5, Ruby4Tables DEF Requests, Acks
<1>6. CASE f = "helios"
  BY <1>2, <1>3, <1>6, HeliosTables DEF Requests, Acks
<1>7. CASE f = "mems"
  BY <1>2, <1>3, <1>7, MemsTables DEF Requests, Acks
<1>. QED BY <1>4, <1>5, <1>6, <1>7 DEF Family

-----------------------------------------------------------------------------
(* The kinds of operation *)

\* The kinds of operation have no name in common, ...
LEMMA NamesDiffer ==
  /\ UpdateNames = {"app", "top", "bot", "patch", "config", "system"}
  /\ \A name \in SetterNames : name \notin RepeatNames /\ name \notin UpdateNames /\ name \notin FixNames
  /\ \A name \in RepeatNames : name \notin UpdateNames /\ name \notin FixNames
  /\ \A name \in UpdateNames : name \notin FixNames
<1>1. UpdateNames = {"app", "top", "bot", "patch", "config", "system"}
  BY DEF UpdateNames, UpdateSteps
<1>. QED BY <1>1 DEF SetterNames, RepeatNames, FixNames

\* ... and so each has the script of its kind.
LEMMA ScriptCases ==
  ASSUME NEW f, NEW t
  PROVE  /\ t.name \in SetterNames => Script(f, t) = ReadModifyWrite(f, t)
         /\ t.name \in RepeatNames => Script(f, t) =
              <<Step("CtrlEyeSafe", <<>>, FALSE), Step("CtrlEyeSafe", <<>>, t.name = "ctrlEyeSafe")>>
                \o RepeatScript(t)
         /\ t.name \in UpdateNames => Script(f, t) = UpdateScript(t)
         /\ t.name \in FixNames => Script(f, t) = FixScript(t)
         /\ t.name \notin UNION {SetterNames, RepeatNames, UpdateNames, FixNames} =>
              Script(f, t) = <<Step(t.name, <<>>, TRUE)>>
<1>1. CASE t.name \in SetterNames BY <1>1, NamesDiffer DEF Script
<1>2. CASE t.name \in RepeatNames BY <1>2, NamesDiffer DEF Script
<1>3. CASE t.name \in UpdateNames BY <1>3, NamesDiffer DEF Script
<1>4. CASE t.name \in FixNames BY <1>4, NamesDiffer DEF Script
<1>5. CASE t.name \notin UNION {SetterNames, RepeatNames, UpdateNames, FixNames} BY <1>5
   DEF Script
<1>. QED BY <1>1, <1>2, <1>3, <1>4, <1>5

\* The fields of an operation; one of no kind is an exchange of the family.
LEMMA TaskFields ==
  ASSUME NEW f \in Family, NEW t \in Tasks[f]
  PROVE  /\ t.size \in Nat /\ t.declared \in Nat
         /\ t.name \notin UNION {SetterNames, RepeatNames, UpdateNames, FixNames} =>
              t.name \in Ops[f] \cap UsedOps
         /\ t.name \in SetterNames => f # "mems"
<1>0. Tasks[f] = UNION {Singles(f), Setters(f), Repeats(f), Updates(f), Fixes(f)}
  BY DEF Tasks
<1>1. CASE t \in Singles(f)
  <2>1. PICK o \in Ops[f] \cap UsedOps : t = Plain(o) BY <1>1 DEF Singles
  <2>2. \A r \in Requests["mems"] : r[1] \notin SetterNames
    BY DEF Requests, MemsRequests, MemsRegisterRequests, MemsConfigRequests, SetterNames
  <2>3. f = "mems" => o \notin SetterNames
    BY <2>1, <2>2 DEF Ops, Exchanges
  <2>. QED BY <2>1, <2>3 DEF Plain
<1>2. CASE t \in Setters(f)
  <2>1. f \in {"airy", "ruby4", "helios"} /\ \E name \in SetterNames : t = Plain(name)
    BY <1>2 DEF Setters, Family
  <2>. QED BY <2>1, NamesDiffer DEF Plain
<1>3. CASE t \in Repeats(f)
  <2>1. \E name \in RepeatNames : t = Plain(name)
    BY <1>3 DEF Repeats
  <2>. QED BY <2>1, NamesDiffer DEF Plain
<1>4. CASE t \in Updates(f)
  BY <1>4, NamesDiffer, ImagesAssumption DEF Updates, Family
<1>5. CASE t \in Fixes(f)
  BY <1>5, NamesDiffer, FilesAssumption DEF Fixes
<1>. QED BY <1>0, <1>1, <1>2, <1>3, <1>4, <1>5

\* Steps of ctrlEyeSafe, openLaser and closeLaser.
RepeatSteps == [op : {"CtrlEyeSafe", "writeRegData.bot", "readRegData.bot"}, units : {<<>>}, must : BOOLEAN]

\* They carry nothing; only the last write of openLaser counts.
LEMMA Repetition ==
  ASSUME NEW t, t.name \in RepeatNames
  PROVE  /\ RepeatScript(t) \in Seq(RepeatSteps)
         /\ t.name = "ctrlEyeSafe" => RepeatScript(t) = <<>>
         /\ t.name = "openLaser" =>
              /\ Len(RepeatScript(t)) = OpenWrites
              /\ \A i \in 1..OpenWrites :
                   RepeatScript(t)[i] = Step("writeRegData.bot", <<>>, i = OpenWrites)
<1>1. \A m \in BOOLEAN, o \in {"CtrlEyeSafe", "writeRegData.bot", "readRegData.bot"} :
        Step(o, <<>>, m) \in RepeatSteps
  BY DEF Step, RepeatSteps
<1> DEFINE write == Step("writeRegData.bot", <<>>, FALSE)
           writes(n) == [i \in 1..n |-> write]
<1>2. write \in RepeatSteps BY <1>1
<1>3. CASE t.name = "ctrlEyeSafe"
  <2>1. RepeatScript(t) = <<>> BY <1>3 DEF RepeatScript
  <2>. QED BY <1>3, <2>1
<1>4. CASE t.name = "openLaser"
  <2> DEFINE last == Step("writeRegData.bot", <<>>, TRUE)
             n == OpenWrites - 1
  <2>1. last \in RepeatSteps BY <1>1
  <2>2. n \in Nat BY RepeatsAssumption
  <2>3. RepeatScript(t) = writes(n) \o <<last>> BY <1>4 DEF RepeatScript
  <2>4. writes(n) \in Seq(RepeatSteps) /\ Len(writes(n)) = n
    <3>1. writes(n) \in [1..n -> RepeatSteps] BY <1>2
    <3>. HIDE DEF n, write, writes
    <3>. QED BY <2>2, <3>1, FunctionIsSeq
  <2>5. /\ RepeatScript(t) \in Seq(RepeatSteps) /\ Len(RepeatScript(t)) = n + 1
        /\ \A i \in 1..n : RepeatScript(t)[i] = write
        /\ RepeatScript(t)[n + 1] = last
    <3>. HIDE DEF last, n, write
    <3>. QED BY <2>1, <2>2, <2>3, <2>4
  <2>6. OpenWrites = n + 1 BY RepeatsAssumption
  <2>7. ASSUME NEW i \in 1..(n + 1)
        PROVE  RepeatScript(t)[i] = Step("writeRegData.bot", <<>>, i = n + 1)
    <3>1. i \in 1..n \/ i = n + 1 BY <2>2
    <3>2. i \in 1..n => i # n + 1 BY <2>2
    <3>. QED BY <2>5, <3>1, <3>2 DEF Step
  <2>. QED BY <1>4, <2>5, <2>6, <2>7
<1>5. CASE t.name = "closeLaser"
  <2> DEFINE read(i) == Step("readRegData.bot", <<>>, i = CloseRounds)
             rounds == [i \in 1..CloseRounds |-> Append(writes(2), read(i))]
  <2>1. writes(2) \in Seq(RepeatSteps)
    <3>1. writes(2) \in [1..2 -> RepeatSteps] BY <1>2
    <3>. HIDE DEF write, writes
    <3>. QED BY <3>1, FunctionIsSeq
  <2>2. \A i \in 1..CloseRounds : read(i) \in RepeatSteps BY <1>1
  <2>3. \A i \in 1..CloseRounds : Append(writes(2), read(i)) \in Seq(RepeatSteps)
    <3>. HIDE DEF writes, read
    <3>. QED BY <2>1, <2>2
  <2>4. rounds \in Seq(Seq(RepeatSteps))
    <3>1. rounds \in [1..CloseRounds -> Seq(RepeatSteps)] BY <2>3
    <3>. HIDE DEF rounds
    <3>. QED BY <3>1, FunctionIsSeq, RepeatsAssumption
  <2>5. RepeatScript(t) = FlattenSeq(rounds) BY <1>5 DEF RepeatScript
  <2>. HIDE DEF rounds
  <2>. QED BY <1>5, <2>4, <2>5, FlattenType
<1>. QED BY <1>3, <1>4, <1>5 DEF RepeatNames

-----------------------------------------------------------------------------
(* What the steps of a script carry *)

\* A file is a sequence of numbers.
LEMMA WholeIsSeq == ASSUME NEW n \in Nat PROVE Whole(n) \in Seq(Nat) /\ Len(Whole(n)) = n
<1>1. Whole(n) \in [1..n -> Nat] BY DEF Whole
<1>. QED BY <1>1, FunctionIsSeq

\* The units after the first a, put behind them.
LEMMA WholeGrows ==
  ASSUME NEW a \in Nat, NEW b \in Nat, NEW s \in Seq(Nat), Len(s) = b, \A i \in 1..b : s[i] = a + i
  PROVE  Whole(a) \o s = Whole(a + b)
<1>1. Whole(a) \in Seq(Nat) /\ Len(Whole(a)) = a BY WholeIsSeq
<1>2. Whole(a + b) \in Seq(Nat) /\ Len(Whole(a + b)) = a + b BY WholeIsSeq
<1>3. /\ Whole(a) \o s \in Seq(Nat) /\ Len(Whole(a) \o s) = a + b
      /\ \A i \in 1..a : (Whole(a) \o s)[i] = Whole(a)[i]
      /\ \A i \in (a + 1)..(a + b) : (Whole(a) \o s)[i] = s[i - a]
  <2> DEFINE w == Whole(a)
  <2>1. w \in Seq(Nat) /\ Len(w) = a BY <1>1
  <2>. HIDE DEF w
  <2>2. /\ w \o s \in Seq(Nat) /\ Len(w \o s) = Len(w) + Len(s)
        /\ \A i \in 1..(Len(w) + Len(s)) : (w \o s)[i] = IF i <= Len(w) THEN w[i] ELSE s[i - Len(w)]
    BY <2>1, ConcatProperties
  <2>3. ASSUME NEW i \in 1..a PROVE (w \o s)[i] = w[i]
    <3>1. i \in 1..(Len(w) + Len(s)) /\ i <= Len(w) BY <2>1
    <3>. QED BY <2>2, <3>1
  <2>4. ASSUME NEW i \in (a + 1)..(a + b) PROVE (w \o s)[i] = s[i - a]
    <3>1. i \in 1..(Len(w) + Len(s)) /\ ~(i <= Len(w)) BY <2>1
    <3>. QED BY <2>1, <2>2, <3>1
  <2>. QED BY <2>1, <2>2, <2>3, <2>4 DEF w
<1>4. ASSUME NEW i \in 1..(a + b) PROVE (Whole(a) \o s)[i] = Whole(a + b)[i]
  <2>1. Whole(a + b)[i] = i BY DEF Whole
  <2>2. CASE i \in 1..a
    <3>1. Whole(a)[i] = i BY <2>2 DEF Whole
    <3>. QED BY <1>3, <2>1, <2>2, <3>1
  <2>3. CASE i \in (a + 1)..(a + b)
    <3>1. i - a \in 1..b /\ a + (i - a) = i BY <2>3
    <3>. QED BY <1>3, <2>1, <2>3, <3>1
  <2>4. i \in 1..a \/ i \in (a + 1)..(a + b) OBVIOUS
  <2>. QED BY <2>2, <2>3, <2>4
<1>. HIDE DEF Whole
<1>. QED BY <1>2, <1>3, <1>4, SeqEqual

\* The units of the first j steps of script s, ...
Units(s, j) == [i \in 1..j |-> s[i].units]

\* ... put together.
Given(s, j) == FlattenSeq(Units(s, j))

\* The first n steps carry units.
HasUnits(s, n) == n \in Nat /\ \A i \in 1..n : s[i].units \in Seq(Nat)

\* Before the first step there are none.
LEMMA GivenNone == ASSUME NEW s PROVE Given(s, 0) = <<>>
<1>1. Units(s, 0) = <<>> BY DEF Units
<1>. QED BY <1>1, FlattenEmpty DEF Given

\* What j steps carry is j sequences.
LEMMA UnitsAreSeqs ==
  ASSUME NEW s, NEW n, HasUnits(s, n), NEW j \in 0..n
  PROVE  Units(s, j) \in Seq(Seq(Nat)) /\ Len(Units(s, j)) = j
<1>1. Units(s, j) \in [1..j -> Seq(Nat)] BY DEF Units, HasUnits
<1>2. j \in Nat BY DEF HasUnits
<1>. HIDE DEF Units
<1>. QED BY <1>1, <1>2, FunctionIsSeq

\* A step puts its units behind.
LEMMA GivenNext ==
  ASSUME NEW s, NEW n, HasUnits(s, n), NEW j \in 0..(n - 1)
  PROVE  /\ Given(s, j) \in Seq(Nat)
         /\ Given(s, j + 1) = Given(s, j) \o s[j + 1].units
<1>1. n \in Nat /\ j \in Nat /\ j \in 0..n /\ j + 1 \in 0..n /\ j + 1 \in 1..n BY DEF HasUnits
<1>2. Units(s, j) \in Seq(Seq(Nat)) /\ Len(Units(s, j)) = j BY <1>1, UnitsAreSeqs
<1>3. Units(s, j + 1) \in Seq(Seq(Nat)) /\ Len(Units(s, j + 1)) = j + 1 BY <1>1, UnitsAreSeqs
<1>4. s[j + 1].units \in Seq(Nat) BY <1>1 DEF HasUnits
<1>5. \A i \in 1..j : Units(s, j + 1)[i] = Units(s, j)[i] BY <1>1 DEF Units
<1>6. Units(s, j + 1)[j + 1] = s[j + 1].units BY <1>1 DEF Units
<1>7. Units(s, j + 1) = Append(Units(s, j), s[j + 1].units)
  <2> DEFINE more == Append(Units(s, j), s[j + 1].units)
  <2>1. /\ more \in Seq(Seq(Nat)) /\ Len(more) = j + 1
        /\ \A i \in 1..j : more[i] = Units(s, j)[i]
        /\ more[j + 1] = s[j + 1].units
    BY <1>2, <1>4, AppendProperties
  <2>2. \A i \in 1..(j + 1) : i \in 1..j \/ i = j + 1 BY <1>1
  <2>3. \A i \in 1..(j + 1) : Units(s, j + 1)[i] = more[i] BY <1>5, <1>6, <2>1, <2>2
  <2>. HIDE DEF more
  <2>4. Units(s, j + 1) = more BY <1>3, <2>1, <2>3, SeqEqual
  <2>. QED BY <2>4 DEF more
<1>. QED BY <1>2, <1>4, <1>7, FlattenType, FlattenAppend DEF Given

\* Where chunk k + 1 starts, and that only the last is shorter.
LEMMA ChunkArithmetic ==
  ASSUME NEW length \in Nat, NEW k \in Nat, k + 1 <= ChunkCount(length)
  PROVE  /\ ChunkCount(length) \in Nat
         /\ k * ChunkSize \in Nat /\ k * ChunkSize <= length
         /\ (k + 1) * ChunkSize > length =>
              /\ k * ChunkSize + (length % ChunkSize) = length
              /\ k + 1 = ChunkCount(length)
         /\ (k + 1) * ChunkSize = k * ChunkSize + ChunkSize
         /\ length % ChunkSize \in Nat
<1> DEFINE q == length \div ChunkSize
           r == length % ChunkSize
<1>1. ChunkSize \in Nat /\ ChunkSize > 0 BY SizesAssumption
<1>2. q \in Nat /\ r \in Nat /\ r < ChunkSize /\ length = ChunkSize * q + r
  BY <1>1
<1>3. ChunkCount(length) = q + IF r # 0 THEN 1 ELSE 0 BY DEF ChunkCount
<1>0. r = length % ChunkSize OBVIOUS
<1>. HIDE DEF q, r
<1>4. (k + 1) * ChunkSize = k * ChunkSize + ChunkSize BY <1>1
<1>5. k <= q BY <1>2, <1>3
<1>6. k * ChunkSize \in Nat /\ k * ChunkSize <= ChunkSize * q
  BY <1>1, <1>2, <1>5
<1>7. CASE k + 1 <= q
  <2>1. (k + 1) * ChunkSize <= ChunkSize * q BY <1>1, <1>2, <1>7
  <2>2. ~((k + 1) * ChunkSize > length) BY <1>1, <1>2, <2>1
  <2>. QED BY <1>1, <1>2, <1>3, <1>4, <1>6, <2>2 DEF r
<1>8. CASE k = q
  <2>1. k * ChunkSize = ChunkSize * q BY <1>1, <1>2, <1>8
  <2>2. k + 1 = ChunkCount(length) BY <1>2, <1>3, <1>8
  <2>3. ChunkCount(length) \in Nat BY <2>2
  <2>4. k * ChunkSize \in Nat BY <1>6
  <2>5. k * ChunkSize + r = length BY <1>2, <2>1, <2>4
  <2>6. k * ChunkSize <= length BY <1>2, <2>4, <2>5
  <2>7. k * ChunkSize + (length % ChunkSize) = length /\ length % ChunkSize \in Nat
    <3>1. r \in Nat BY <1>2
    <3>. QED BY <1>0, <2>5, <3>1
  <2>. QED BY <1>4, <2>2, <2>3, <2>4, <2>6, <2>7, Zenon
<1>. QED BY <1>2, <1>5, <1>7, <1>8

-----------------------------------------------------------------------------
(* Updates: the chunks put together are the image *)

\* Steps that make some of the exchanges ops.
StepsOf(ops) == [op : ops, units : Seq(Nat), must : BOOLEAN]

\* The smaller number.
MinOf(a, b) == IF a <= b THEN a ELSE b

\* Chunk k + 1 carries on where k chunks end, and the last one ends the image.
LEMMA ChunkFacts ==
  ASSUME NEW length \in Nat, NEW k \in Nat, k + 1 <= ChunkCount(length)
  PROVE  /\ Chunk(k + 1, length) \in Seq(Nat)
         /\ Whole(MinOf(k * ChunkSize, length)) \o Chunk(k + 1, length)
              = Whole(MinOf((k + 1) * ChunkSize, length))
         /\ k + 1 = ChunkCount(length) => MinOf((k + 1) * ChunkSize, length) = length
<1> DEFINE a == k * ChunkSize
           b == IF (k + 1) * ChunkSize <= length THEN ChunkSize ELSE length % ChunkSize
           s == Chunk(k + 1, length)
<1>1. /\ ChunkSize \in Nat /\ a \in Nat /\ b \in Nat /\ a <= length
      /\ (k + 1) * ChunkSize = a + ChunkSize
      /\ a + b = MinOf((k + 1) * ChunkSize, length)
      /\ MinOf(a, length) = a
  BY ChunkArithmetic, SizesAssumption DEF MinOf
<1>2. s = [i \in 1..b |-> a + i]
  <2>1. (k + 1) - 1 = k OBVIOUS
  <2>. QED BY <2>1 DEF Chunk
<1>3. s \in Seq(Nat) /\ Len(s) = b /\ \A i \in 1..b : s[i] = a + i
  <2>. HIDE DEF a, b, s
  <2>1. s \in [1..b -> Nat] BY <1>1, <1>2
  <2>. QED BY <1>1, <1>2, <2>1, FunctionIsSeq
<1>4. k + 1 = ChunkCount(length) => MinOf((k + 1) * ChunkSize, length) = length
  <2> DEFINE q == length \div ChunkSize
             r == length % ChunkSize
  <2>1. ChunkSize \in Nat /\ ChunkSize > 0 BY SizesAssumption
  <2>2. q \in Nat /\ r \in Nat /\ r < ChunkSize /\ length = ChunkSize * q + r
    BY <2>1
  <2>3. ChunkCount(length) = q + IF r # 0 THEN 1 ELSE 0 BY DEF ChunkCount
  <2>. HIDE DEF q, r
  <2>4. ASSUME k + 1 = ChunkCount(length) PROVE a + ChunkSize >= length
    <3>1. CASE r = 0
      <4>1. k + 1 = q BY <2>2, <2>3, <2>4, <3>1
      <4>2. (k + 1) * ChunkSize = ChunkSize * q BY <2>1, <2>2, <4>1
      <4>. QED BY <1>1, <2>1, <2>2, <3>1, <4>2
    <3>2. CASE r # 0
      <4>1. k = q BY <2>2, <2>3, <2>4, <3>2
      <4>2. a = ChunkSize * q BY <2>1, <2>2, <4>1
      <4>. QED BY <1>1, <2>1, <2>2, <4>2
    <3>. QED BY <3>1, <3>2
  <2>. HIDE DEF a
  <2>. QED BY <1>1, <2>1, <2>4 DEF MinOf
<1>5. Whole(a) \o s = Whole(a + b)
  <2>. HIDE DEF a, b, s
  <2>. QED BY <1>1, <1>3, WholeGrows
<1>. HIDE DEF a, b
<1>. QED BY <1>1, <1>3, <1>4, <1>5 DEF a, s

\* Only an empty image has no chunks.
LEMMA NoChunks ==
  ASSUME NEW length \in Nat, ChunkCount(length) = 0
  PROVE  length = 0
<1> DEFINE q == length \div ChunkSize
           r == length % ChunkSize
<1>1. ChunkSize \in Nat /\ ChunkSize > 0 BY SizesAssumption
<1>2. q \in Nat /\ r \in Nat /\ length = ChunkSize * q + r BY <1>1
<1>3. q = 0 /\ r = 0 BY <1>2 DEF ChunkCount
<1>. HIDE DEF q, r
<1>. QED BY <1>1, <1>2, <1>3

\* A step is one of StepsOf.
LEMMA StepType ==
  ASSUME NEW X, NEW o \in X, NEW units \in Seq(Nat), NEW must \in BOOLEAN
  PROVE  Step(o, units, must) \in StepsOf(X)
  BY DEF Step, StepsOf

\* Such steps carry units.
LEMMA StepsHaveUnits ==
  ASSUME NEW X, NEW s \in Seq(StepsOf(X))
  PROVE  HasUnits(s, Len(s))
<1>1. Len(s) \in Nat /\ \A i \in 1..Len(s) : s[i] \in StepsOf(X) OBVIOUS
<1>. QED BY <1>1 DEF HasUnits, StepsOf

\* An update: request, chunks and checksum all have to succeed, and the chunks put
\* together are the image.
LEMMA UpdateFacts ==
  ASSUME NEW t, t.size \in Nat, t.name \in UpdateNames
  PROVE  LET s == UpdateScript(t)
             steps == UpdateSteps[t.name]
             c == ChunkCount(t.size)
         IN  /\ s \in Seq(StepsOf({steps[1], steps[2], steps[3]}))
             /\ Len(s) = c + 2 /\ c \in Nat
             /\ \A i \in 1..(c + 2) :
                  s[i].must /\ s[i].op = steps[IF i = 1 THEN 1 ELSE IF i = c + 2 THEN 3 ELSE 2]
             /\ Given(s, c + 2) = Whole(t.size)
<1> DEFINE steps == UpdateSteps[t.name]
           c == ChunkCount(t.size)
           X == {steps[1], steps[2], steps[3]}
           one == Step(steps[1], <<>>, TRUE)
           mid == [k \in 1..c |-> Step(steps[2], Chunk(k, t.size), TRUE)]
           end == Step(steps[3], <<>>, TRUE)
           s == UpdateScript(t)
<1>1. s = <<one>> \o mid \o <<end>> BY DEF UpdateScript
<1>2. c \in Nat
  <2>1. ChunkSize \in Nat /\ ChunkSize > 0 BY SizesAssumption
  <2>. QED BY <2>1 DEF ChunkCount
<1>3. \A k \in 1..c : Chunk(k, t.size) \in Seq(Nat)
  <2> TAKE k \in 1..c
  <2>1. k - 1 \in Nat /\ (k - 1) + 1 = k /\ k <= c BY <1>2
  <2>. HIDE DEF c
  <2>2. (k - 1) + 1 <= ChunkCount(t.size) BY <2>1 DEF c
  <2>. QED BY <2>1, <2>2, ChunkFacts
<1>4. one \in StepsOf(X) /\ end \in StepsOf(X) /\ \A k \in 1..c : mid[k] \in StepsOf(X)
  <2>1. <<>> \in Seq(Nat) OBVIOUS
  <2>. HIDE DEF c
  <2>. QED BY <1>3, <2>1, StepType
<1>5. mid \in Seq(StepsOf(X)) /\ Len(mid) = c
  <2>1. mid \in [1..c -> StepsOf(X)] BY <1>4
  <2>. HIDE DEF mid, c, X
  <2>. QED BY <1>2, <2>1, FunctionIsSeq
<1>. HIDE DEF c, X, mid, one, end, s
<1>6. /\ s \in Seq(StepsOf(X)) /\ Len(s) = c + 2
      /\ s[1] = one /\ s[c + 2] = end
      /\ \A i \in 2..(c + 1) : s[i] = mid[i - 1]
  <2> DEFINE start == <<one>> \o mid
  <2>1. /\ start \in Seq(StepsOf(X)) /\ Len(start) = c + 1 /\ start[1] = one
        /\ \A i \in 2..(c + 1) : start[i] = mid[i - 1]
    BY <1>2, <1>4, <1>5
  <2>2. s = start \o <<end>> BY <1>1
  <2>. HIDE DEF start
  <2>. QED BY <1>2, <1>4, <2>1, <2>2
<1>7. ASSUME NEW i \in 1..(c + 2)
      PROVE  s[i].must /\ s[i].op = steps[IF i = 1 THEN 1 ELSE IF i = c + 2 THEN 3 ELSE 2]
  <2>. HIDE DEF steps
  <2>1. CASE i = 1
    <3>1. s[i] = one BY <1>6, <2>1
    <3>. QED BY <2>1, <3>1 DEF one, Step
  <2>2. CASE i = c + 2
    <3>1. s[i] = end /\ i # 1 BY <1>2, <1>6, <2>2
    <3>. QED BY <2>2, <3>1 DEF end, Step
  <2>3. CASE i # 1 /\ i # c + 2
    <3>1. i \in 2..(c + 1) /\ i - 1 \in 1..c BY <1>2, <2>3
    <3>2. s[i] = Step(steps[2], Chunk(i - 1, t.size), TRUE) BY <1>6, <3>1 DEF mid
    <3>. QED BY <2>3, <3>2 DEF Step
  <2>. QED BY <2>1, <2>2, <2>3
<1>8. HasUnits(s, c + 2) BY <1>6, StepsHaveUnits
<1>9. Given(s, 1) = <<>>
  <2>1. 0 \in 0..((c + 2) - 1) /\ 0 + 1 = 1 BY <1>2
  <2>2. Given(s, 0 + 1) = Given(s, 0) \o s[0 + 1].units BY <1>8, <2>1, GivenNext
  <2>3. s[0 + 1].units = <<>> BY <1>6, <2>1 DEF one, Step
  <2>. QED BY <2>1, <2>2, <2>3, GivenNone
<1>10. \A k \in 0..c : Given(s, k + 1) = Whole(MinOf(k * ChunkSize, t.size))
  <2> DEFINE T == {k \in Nat : k <= c => Given(s, k + 1) = Whole(MinOf(k * ChunkSize, t.size))}
  <2>1. 0 \in T
    <3>1. 0 * ChunkSize = 0 BY SizesAssumption
    <3>2. MinOf(0 * ChunkSize, t.size) = 0 BY <3>1 DEF MinOf
    <3>3. Whole(0) = <<>> BY DEF Whole
    <3>4. 0 + 1 = 1 OBVIOUS
    <3>. QED BY <1>9, <3>2, <3>3, <3>4
  <2>2. ASSUME NEW k \in Nat, k \in T PROVE k + 1 \in T
    <3>1. SUFFICES ASSUME k + 1 <= c
                   PROVE  Given(s, (k + 1) + 1) = Whole(MinOf((k + 1) * ChunkSize, t.size))
      OBVIOUS
    <3>2. /\ k + 1 \in 0..((c + 2) - 1) /\ k <= c /\ k + 1 \in 1..c
          /\ (k + 1) + 1 \in 2..(c + 1) /\ ((k + 1) + 1) - 1 = k + 1
      BY <1>2, <3>1
    <3>3. Given(s, (k + 1) + 1) = Given(s, k + 1) \o s[(k + 1) + 1].units
      BY <1>8, <3>2, GivenNext
    <3>4. Given(s, k + 1) = Whole(MinOf(k * ChunkSize, t.size)) BY <2>2, <3>2
    <3>5. s[(k + 1) + 1].units = Chunk(k + 1, t.size)
      <4>1. s[(k + 1) + 1] = mid[k + 1] BY <1>6, <3>2
      <4>2. mid[k + 1] = Step(steps[2], Chunk(k + 1, t.size), TRUE) BY <3>2 DEF mid
      <4>. QED BY <4>1, <4>2 DEF Step
    <3>6. k + 1 <= ChunkCount(t.size) BY <3>1 DEF c
    <3>. QED BY <3>3, <3>4, <3>5, <3>6, ChunkFacts
  <2>. HIDE DEF T
  <2>3. Nat \subseteq T BY <2>1, <2>2, Induct
  <2>. QED BY <1>2, <2>3 DEF T
<1>11. Given(s, c + 1) = Whole(t.size)
  <2>1. CASE c = 0
    <3>1. t.size = 0 BY <2>1, NoChunks DEF c
    <3>2. Whole(0) = <<>> BY DEF Whole
    <3>. QED BY <1>9, <2>1, <3>1, <3>2
  <2>2. CASE c # 0
    <3>1. c - 1 \in Nat /\ (c - 1) + 1 = c /\ c \in 0..c BY <1>2, <2>2
    <3>2. (c - 1) + 1 <= ChunkCount(t.size) /\ (c - 1) + 1 = ChunkCount(t.size) BY <1>2, <3>1
       DEF c
    <3>3. MinOf(((c - 1) + 1) * ChunkSize, t.size) = t.size BY <3>1, <3>2, ChunkFacts
    <3>. QED BY <1>10, <3>1, <3>3
  <2>. QED BY <2>1, <2>2
<1>12. Given(s, c + 2) = Whole(t.size)
  <2>1. c + 1 \in 0..((c + 2) - 1) /\ (c + 1) + 1 = c + 2 BY <1>2
  <2>2. Given(s, (c + 1) + 1) = Given(s, c + 1) \o s[(c + 1) + 1].units BY <1>8, <2>1, GivenNext
  <2>3. s[(c + 1) + 1].units = <<>> BY <1>6, <2>1 DEF end, Step
  <2>4. Whole(t.size) \in Seq(Nat) BY WholeIsSeq
  <2>. QED BY <1>11, <2>1, <2>2, <2>3, <2>4
<1>. QED BY <1>2, <1>6, <1>7, <1>12 DEF s, X, c

-----------------------------------------------------------------------------
(* fixRegsCfg: the blocks put together are the file *)

\* The blocks sent and the one being filled.
BlockState == [sent : Seq(Seq(Nat)), filling : Seq(Nat)]

\* What reading register i makes of them.
Reads(t, x, i) ==
  LET block == Append(x.filling, i)
  IN  IF Full(block, Len(x.sent), t.declared)
      THEN [sent |-> Append(x.sent, block), filling |-> <<>>]
      ELSE [sent |-> x.sent, filling |-> block]

\* Blocks(t) is what reading the registers one by one comes to.
LEMMA BlocksUnfold ==
  ASSUME NEW t, t.size \in Nat
  PROVE  \E g \in [0..t.size -> BlockState] :
           /\ g[0] = [sent |-> <<>>, filling |-> <<>>]
           /\ \A i \in 1..t.size : g[i] = Reads(t, g[i - 1], i)
           /\ Blocks(t) = g[t.size].sent
<1> DEFINE n == t.size
           none == [sent |-> <<>>, filling |-> <<>>]
           F == [i \in Nat |-> [x \in BlockState |-> Reads(t, x, i)]]
           after == CHOOSE f : f = [i \in 0..n |-> IF i = 0 THEN none ELSE
             LET block == Append(f[i - 1].filling, i)
             IN  IF Full(block, Len(f[i - 1].sent), t.declared)
                 THEN [sent |-> Append(f[i - 1].sent, block), filling |-> <<>>]
                 ELSE [sent |-> f[i - 1].sent, filling |-> block]]
<1>1. none \in BlockState BY DEF BlockState
<1>2. \A x \in BlockState, i \in Nat : Reads(t, x, i) \in BlockState
  <2> TAKE x \in BlockState, i \in Nat
  <2>1. x.sent \in Seq(Seq(Nat)) /\ x.filling \in Seq(Nat) BY DEF BlockState
  <2>2. Append(x.filling, i) \in Seq(Nat) BY <2>1
  <2>3. Append(x.sent, Append(x.filling, i)) \in Seq(Seq(Nat)) BY <2>1, <2>2
  <2>4. <<>> \in Seq(Nat) OBVIOUS
  <2>. QED BY <2>1, <2>2, <2>3, <2>4 DEF Reads, BlockState
<1>3. F \in [Nat -> [BlockState -> BlockState]] BY <1>2
<1>4. PICK g \in [0..n -> BlockState] : g[0] = none /\ \A i \in 1..n : g[i] = F[i][g[i - 1]]
  <2>. HIDE DEF none, F, n
  <2>0. n \in Nat BY DEF n
  <2>1. Iterable(BlockState, none, F, n) BY <1>1, <1>3, <2>0, Iterate
  <2>. QED BY <2>1 DEF Iterable
<1>5. \A i \in 1..n : g[i] = Reads(t, g[i - 1], i)
  <2> TAKE i \in 1..n
  <2>1. i \in Nat /\ i - 1 \in 0..n OBVIOUS
  <2>2. g[i - 1] \in BlockState BY <2>1
  <2>. QED BY <1>4, <2>1, <2>2
<1>. HIDE DEF F, none
<1>6. g = [i \in 0..n |-> IF i = 0 THEN none ELSE
             LET block == Append(g[i - 1].filling, i)
             IN  IF Full(block, Len(g[i - 1].sent), t.declared)
                 THEN [sent |-> Append(g[i - 1].sent, block), filling |-> <<>>]
                 ELSE [sent |-> g[i - 1].sent, filling |-> block]]
  <2>1. \A i \in 0..n : i = 0 \/ i \in 1..n OBVIOUS
  <2>. QED BY <1>4, <1>5, <2>1 DEF Reads
<1>7. after = [i \in 0..n |-> IF i = 0 THEN none ELSE
             LET block == Append(after[i - 1].filling, i)
             IN  IF Full(block, Len(after[i - 1].sent), t.declared)
                 THEN [sent |-> Append(after[i - 1].sent, block), filling |-> <<>>]
                 ELSE [sent |-> after[i - 1].sent, filling |-> block]]
  BY <1>6
<1>. HIDE DEF after
<1>8. after[0] = none BY <1>7
<1>9. \A i \in 1..n : after[i] = Reads(t, after[i - 1], i)
  <2> TAKE i \in 1..n
  <2>1. i \in 0..n /\ i # 0 OBVIOUS
  <2>. QED BY <1>7, <2>1 DEF Reads
<1>10. \A i \in 0..n : after[i] = g[i]
  <2> DEFINE T == {i \in Nat : i \in 0..n => after[i] = g[i]}
  <2>1. 0 \in T BY <1>4, <1>8
  <2>2. ASSUME NEW i \in Nat, i \in T PROVE i + 1 \in T
    <3>1. SUFFICES ASSUME i + 1 \in 0..n PROVE after[i + 1] = g[i + 1] OBVIOUS
    <3>2. i \in 0..n /\ i + 1 \in 1..n /\ (i + 1) - 1 = i BY <3>1
    <3>3. after[i] = g[i] BY <2>2, <3>2
    <3>4. after[i + 1] = Reads(t, after[i], i + 1) BY <1>9, <3>2
    <3>5. g[i + 1] = Reads(t, g[i], i + 1) BY <1>5, <3>2
    <3>. QED BY <3>3, <3>4, <3>5
  <2>. HIDE DEF T
  <2>3. Nat \subseteq T BY <2>1, <2>2, Induct
  <2>. QED BY <2>3 DEF T
<1>11. Blocks(t) = after[n].sent BY DEF Blocks, after, none
<1>12. n \in 0..n OBVIOUS
<1>13. Blocks(t) = g[n].sent BY <1>10, <1>11, <1>12
<1>. QED BY <1>4, <1>5, <1>13 DEF none

\* After i registers: those sent and being filled are the first i, the blocks
\* sent before the declared number is reached are full.
ReadUpTo(t, x, i) ==
  /\ FlattenSeq(x.sent) \o x.filling = Whole(i)
  /\ Len(x.filling) < BlockSize
  /\ IF x.filling = <<>>
     THEN BlockSize * Len(x.sent) = i \/ BlockSize * Len(x.sent) >= t.declared
     ELSE BlockSize * Len(x.sent) + Len(x.filling) = i /\ i < t.declared

\* Reading one more register keeps that.
LEMMA ReadsOn ==
  ASSUME NEW t, t.declared \in Nat, NEW i \in Nat, NEW x \in BlockState, ReadUpTo(t, x, i)
  PROVE  ReadUpTo(t, Reads(t, x, i + 1), i + 1)
<1> DEFINE sent == x.sent
           filling == x.filling
           block == Append(filling, i + 1)
           n == BlockSize * Len(sent)
<1>1. sent \in Seq(Seq(Nat)) /\ filling \in Seq(Nat) BY DEF BlockState
<1>2. BlockSize \in Nat /\ BlockSize > 0 /\ n \in Nat /\ Len(filling) \in Nat /\ Len(sent) \in Nat
  BY <1>1, SizesAssumption
<1>3. block \in Seq(Nat) /\ Len(block) = Len(filling) + 1 BY <1>1
<1>4. FlattenSeq(sent) \o block = Whole(i + 1)
  <2>1. FlattenSeq(sent) \in Seq(Nat) BY <1>1, FlattenType
  <2>2. FlattenSeq(sent) \o block = (FlattenSeq(sent) \o filling) \o <<i + 1>>
    <3>1. block = filling \o <<i + 1>>
      <4>1. i + 1 \in Nat OBVIOUS
      <4>. HIDE DEF filling
      <4>. QED BY <1>1, <4>1, AppendIsConcat
    <3>2. <<i + 1>> \in Seq(Nat) OBVIOUS
    <3>. HIDE DEF block, filling, sent
    <3>. QED BY <1>1, <2>1, <3>1, <3>2, ConcatAssociative
  <2>3. Whole(i) \o <<i + 1>> = Whole(i + 1)
    <3>1. <<i + 1>> \in Seq(Nat) /\ Len(<<i + 1>>) = 1 /\ \A j \in 1..1 : <<i + 1>>[j] = i + j OBVIOUS
    <3>. QED BY <3>1, WholeGrows
  <2>. QED BY <2>2, <2>3 DEF ReadUpTo
<1>5. /\ Len(filling) < BlockSize
      /\ IF filling = <<>> THEN n = i \/ n >= t.declared ELSE n + Len(filling) = i /\ i < t.declared
  BY DEF ReadUpTo
<1>6. filling = <<>> => Len(filling) = 0 OBVIOUS
<1>7. CASE Full(block, Len(sent), t.declared)
  <2> DEFINE y == Reads(t, x, i + 1)
             m == BlockSize * Len(y.sent)
  <2>1. y = [sent |-> Append(sent, block), filling |-> <<>>] BY <1>7 DEF Reads
  <2>2. y.sent = Append(sent, block) /\ y.filling = <<>> BY <2>1
  <2>3. FlattenSeq(y.sent) \o y.filling = Whole(i + 1)
    <3>1. FlattenSeq(Append(sent, block)) = FlattenSeq(sent) \o block
      BY <1>1, <1>3, FlattenAppend
    <3>2. Whole(i + 1) \in Seq(Nat) BY WholeIsSeq
    <3>3. Whole(i + 1) \o <<>> = Whole(i + 1) BY <3>2, ConcatEmptySeq
    <3>. HIDE DEF block, sent, y
    <3>. QED BY <1>4, <2>2, <3>1, <3>3
  <2>4. m = n + BlockSize
    <3>1. Len(y.sent) = Len(sent) + 1
      <4>. HIDE DEF block, sent, y
      <4>. QED BY <1>1, <1>3, <2>2, AppendProperties
    <3>2. BlockSize * (Len(sent) + 1) = BlockSize * Len(sent) + BlockSize
      <4>. HIDE DEF sent
      <4>. QED BY <1>2
    <3>. QED BY <3>1, <3>2
  <2>5. Len(block) >= BlockSize \/ n + Len(block) >= t.declared BY <1>7 DEF Full
  <2>6. m = i + 1 \/ m >= t.declared
    <3>. HIDE DEF n, m, block, filling
    <3>1. CASE Len(block) >= BlockSize
      <4>1. Len(filling) + 1 = BlockSize BY <1>2, <1>3, <1>5, <3>1
      <4>. QED BY <1>2, <1>5, <1>6, <2>4, <4>1
    <3>2. CASE n + Len(block) >= t.declared
      BY <1>2, <1>3, <1>5, <2>4, <3>2
    <3>. QED BY <2>5, <3>1, <3>2
  <2>7. Len(y.filling) < BlockSize BY <1>2, <2>2
  <2>. QED BY <2>2, <2>3, <2>6, <2>7 DEF ReadUpTo
<1>8. CASE ~Full(block, Len(sent), t.declared)
  <2> DEFINE y == Reads(t, x, i + 1)
  <2>1. y = [sent |-> sent, filling |-> block] BY <1>8 DEF Reads
  <2>2. y.sent = sent /\ y.filling = block BY <2>1
  <2>3. Len(block) < BlockSize /\ n + Len(block) < t.declared
    <3>1. ~(Len(block) >= BlockSize) /\ ~(BlockSize * Len(sent) + Len(block) >= t.declared)
      BY <1>8 DEF Full
    <3>2. Len(block) \in Nat BY <1>2, <1>3
    <3>. HIDE DEF block, n
    <3>. QED BY <1>2, <3>1, <3>2 DEF n
  <2>4. block # <<>>
    <3>. HIDE DEF filling, block
    <3>. QED BY <1>2, <1>3
  <2>5. n + Len(block) = i + 1
    <3>. HIDE DEF n, block, filling
    <3>1. CASE filling = <<>> BY <1>2, <1>3, <1>5, <1>6, <2>3, <3>1
    <3>2. CASE filling # <<>> BY <1>2, <1>3, <1>5, <3>2
    <3>. QED BY <3>1, <3>2
  <2>. QED BY <1>4, <2>2, <2>3, <2>4, <2>5 DEF ReadUpTo
<1>. QED BY <1>7, <1>8

\* The blocks put together are the registers of a file that holds no fewer than it
\* declares.
LEMMA BlocksFacts ==
  ASSUME NEW t, t.size \in Nat, t.declared \in Nat
  PROVE  /\ Blocks(t) \in Seq(Seq(Nat))
         /\ t.declared <= t.size => FlattenSeq(Blocks(t)) = Whole(t.size)
<1>1. PICK g \in [0..t.size -> BlockState] :
           /\ g[0] = [sent |-> <<>>, filling |-> <<>>]
           /\ \A i \in 1..t.size : g[i] = Reads(t, g[i - 1], i)
           /\ Blocks(t) = g[t.size].sent
  BY BlocksUnfold
<1>2. g[t.size] \in BlockState BY <1>1
<1>3. Blocks(t) \in Seq(Seq(Nat)) BY <1>1, <1>2 DEF BlockState
<1>4. \A i \in 0..t.size : ReadUpTo(t, g[i], i)
  <2> DEFINE T == {i \in Nat : i \in 0..t.size => ReadUpTo(t, g[i], i)}
  <2>1. 0 \in T
    <3>1. g[0].sent = <<>> /\ g[0].filling = <<>> BY <1>1
    <3>2. FlattenSeq(g[0].sent) \o g[0].filling = <<>>
      <4>1. FlattenSeq(g[0].sent) = <<>> BY <3>1, FlattenEmpty
      <4>. QED BY <3>1, <4>1
    <3>3. Whole(0) = <<>> BY DEF Whole
    <3>4. BlockSize * Len(g[0].sent) = 0 /\ Len(g[0].filling) = 0 /\ BlockSize > 0
      BY <3>1, SizesAssumption
    <3>. QED BY <3>1, <3>2, <3>3, <3>4 DEF ReadUpTo
  <2>2. ASSUME NEW i \in Nat, i \in T PROVE i + 1 \in T
    <3>1. SUFFICES ASSUME i + 1 \in 0..t.size PROVE ReadUpTo(t, g[i + 1], i + 1) OBVIOUS
    <3>2. i \in 0..t.size /\ i + 1 \in 1..t.size /\ (i + 1) - 1 = i BY <3>1
    <3>3. g[i + 1] = Reads(t, g[i], i + 1) BY <1>1, <3>2
    <3>4. g[i] \in BlockState /\ ReadUpTo(t, g[i], i) BY <2>2, <3>2
    <3>. QED BY <3>3, <3>4, ReadsOn
  <2>. HIDE DEF T
  <2>3. Nat \subseteq T BY <2>1, <2>2, Induct
  <2>. QED BY <2>3 DEF T
<1>5. ASSUME t.declared <= t.size PROVE FlattenSeq(Blocks(t)) = Whole(t.size)
  <2>1. ReadUpTo(t, g[t.size], t.size) BY <1>4
  <2>2. g[t.size].filling = <<>> BY <1>5, <2>1 DEF ReadUpTo
  <2>3. FlattenSeq(Blocks(t)) \o <<>> = Whole(t.size) BY <1>1, <2>1, <2>2 DEF ReadUpTo
  <2>4. FlattenSeq(Blocks(t)) \in Seq(Nat) BY <1>3, FlattenType
  <2>. QED BY <2>3, <2>4
<1>. QED BY <1>3, <1>5

\* The blocks all have to be acknowledged, but those of the 459 registers.
LEMMA FixFacts ==
  ASSUME NEW t, t.size \in Nat, t.declared \in Nat
  PROVE  LET s == FixScript(t)
         IN  /\ s \in Seq(StepsOf({t.name}))
             /\ t.name # "fix.459" => \A i \in 1..Len(s) : s[i].must
             /\ t.declared <= t.size => Given(s, Len(s)) = Whole(t.size)
<1> DEFINE b == Blocks(t)
           n == Len(b)
           X == {t.name}
           must == t.name # "fix.459"
           first == Step(t.name, <<>>, TRUE)
           rest == [k \in 1..n |-> Step(t.name, b[k], must)]
           s == FixScript(t)
<1>1. b \in Seq(Seq(Nat)) /\ n \in Nat /\ DOMAIN b = 1..n BY BlocksFacts
<1>2. s = (IF t.declared = 0 THEN <<first>> ELSE <<>>) \o rest BY <1>1 DEF FixScript
<1>3. rest \in Seq(StepsOf(X)) /\ Len(rest) = n
  <2>1. \A k \in 1..n : b[k] \in Seq(Nat)
    <3>. HIDE DEF b
    <3>. QED BY <1>1
  <2>2. rest \in [1..n -> StepsOf(X)] BY <2>1, StepType
  <2>. HIDE DEF rest, n, X
  <2>. QED BY <1>1, <2>2, FunctionIsSeq
<1>4. first \in StepsOf(X)
  <2>1. <<>> \in Seq(Nat) OBVIOUS
  <2>. QED BY <2>1, StepType
<1>5. \A k \in 1..n : rest[k].units = b[k] /\ (must => rest[k].must) BY DEF Step
<1>6. first.units = <<>> /\ first.must BY DEF Step
<1>. HIDE DEF X, b, n, rest, first, s, must
<1>7. Given(rest, n) = FlattenSeq(b)
  <2>1. HasUnits(rest, n) BY <1>3, StepsHaveUnits
  <2>2. n \in 0..n BY <1>1
  <2>3. Units(rest, n) \in Seq(Seq(Nat)) /\ Len(Units(rest, n)) = n BY <2>1, <2>2, UnitsAreSeqs
  <2>4. \A k \in 1..n : Units(rest, n)[k] = b[k] BY <1>5 DEF Units
  <2>5. Len(b) = n BY DEF n
  <2>6. Units(rest, n) = b BY <1>1, <2>3, <2>4, <2>5, SeqEqual
  <2>. QED BY <2>6 DEF Given
<1>8. t.declared <= t.size => FlattenSeq(b) = Whole(t.size) BY BlocksFacts DEF b
<1>9. CASE t.declared # 0
  <2>1. s = rest
    <3>1. <<>> \o rest = rest BY <1>3, ConcatEmptySeq
    <3>. QED BY <1>2, <1>9, <3>1
  <2>. QED BY <1>3, <1>5, <1>7, <1>8, <2>1 DEF s, X, must
<1>10. CASE t.declared = 0
  <2>1. /\ s \in Seq(StepsOf(X)) /\ Len(s) = n + 1 /\ s[1] = first
        /\ \A k \in 1..n : s[k + 1] = rest[k]
    <3>1. s = <<first>> \o rest BY <1>2, <1>10
    <3>. QED BY <1>1, <1>3, <1>4, <3>1
  <2>2. HasUnits(s, n + 1) /\ HasUnits(rest, n) BY <1>3, <2>1, StepsHaveUnits
  <2>3. \A k \in 0..n : Given(s, k + 1) = Given(rest, k)
    <3> DEFINE T == {k \in Nat : k <= n => Given(s, k + 1) = Given(rest, k)}
    <3>1. 0 \in T
      <4>1. 0 \in 0..((n + 1) - 1) /\ 0 + 1 = 1 BY <1>1
      <4>2. Given(s, 0 + 1) = Given(s, 0) \o s[0 + 1].units BY <2>2, <4>1, GivenNext
      <4>3. Given(s, 0 + 1) = <<>> BY <1>6, <2>1, <4>1, <4>2, GivenNone
      <4>. QED BY <4>3, GivenNone
    <3>2. ASSUME NEW k \in Nat, k \in T PROVE k + 1 \in T
      <4>1. SUFFICES ASSUME k + 1 <= n PROVE Given(s, (k + 1) + 1) = Given(rest, k + 1) OBVIOUS
      <4>2. /\ k <= n /\ k + 1 \in 1..n /\ k + 1 \in 0..((n + 1) - 1) /\ k \in 0..(n - 1)
        BY <1>1, <4>1
      <4>3. Given(s, (k + 1) + 1) = Given(s, k + 1) \o s[(k + 1) + 1].units
        BY <2>2, <4>2, GivenNext
      <4>4. Given(rest, k + 1) = Given(rest, k) \o rest[k + 1].units BY <2>2, <4>2, GivenNext
      <4>5. Given(s, k + 1) = Given(rest, k) BY <3>2, <4>2
      <4>6. s[(k + 1) + 1] = rest[k + 1] BY <2>1, <4>2
      <4>. QED BY <4>3, <4>4, <4>5, <4>6
    <3>. HIDE DEF T
    <3>3. Nat \subseteq T BY <3>1, <3>2, Induct
    <3>. QED BY <1>1, <3>3 DEF T
  <2>4. Given(s, Len(s)) = Given(rest, n)
    <3>1. n \in 0..n BY <1>1
    <3>. QED BY <2>1, <2>3, <3>1
  <2>5. ASSUME must, NEW i \in 1..Len(s) PROVE s[i].must
    <3>1. CASE i = 1 BY <1>6, <2>1, <3>1
    <3>2. CASE i # 1
      <4>1. i - 1 \in 1..n /\ (i - 1) + 1 = i BY <1>1, <2>1, <3>2
      <4>. QED BY <1>5, <2>1, <2>5, <4>1
    <3>. QED BY <3>1, <3>2
  <2>. QED BY <1>7, <1>8, <2>1, <2>4, <2>5 DEF s, X, must
<1>. QED BY <1>9, <1>10

-----------------------------------------------------------------------------
(* Settings and repetitions *)

\* A setter reads, then writes the settings it was given values for, and perhaps
\* more.
LEMMA SetterFacts ==
  ASSUME NEW f \in Family, NEW t, t.name \in SetterNames
  PROVE  LET s == Script(f, t)
         IN  /\ \E X : s \in Seq(StepsOf(X))
             /\ Len(s) = 2 /\ s[1].must /\ s[2].must
             /\ s[1].op = "GetLidarConfig"
             /\ s[2].op \in {"SetLidarConfig", "SetLidarWaveMode", "SetLidarSyncMode", "SetLidarNetInfo"}
             /\ s[2].op = "SetLidarNetInfo" => f # "helios" /\ t.name \notin {"setWaveMode", "setTimeSyncMode"}
             /\ Own(t.name) \subseteq Scope(s[2].op, t.name)
<1> DEFINE read == Step("GetLidarConfig", <<>>, TRUE)
           set == IF f = "helios" THEN "SetLidarConfig" ELSE
                  CASE t.name = "setWaveMode" -> "SetLidarWaveMode"
                    [] t.name = "setTimeSyncMode" -> "SetLidarSyncMode"
                    [] OTHER -> "SetLidarNetInfo"
           write == Step(set, <<>>, TRUE)
           s == Script(f, t)
<1>1. s = <<read, write>> BY ScriptCases DEF ReadModifyWrite
<1>2. /\ set \in {"SetLidarConfig", "SetLidarWaveMode", "SetLidarSyncMode", "SetLidarNetInfo"}
      /\ set = "SetLidarNetInfo" => f # "helios" /\ t.name \notin {"setWaveMode", "setTimeSyncMode"}
  OBVIOUS
<1>3. Own(t.name) \subseteq Scope(set, t.name)
  <2>1. CASE f = "helios"
    BY <2>1 DEF Own, Scope, ConfigSetting, NetSetting, SetterNames
  <2>2. CASE f # "helios"
    <3>1. CASE t.name = "setWaveMode"
      BY <2>2, <3>1 DEF Own, Scope
    <3>2. CASE t.name = "setTimeSyncMode"
      BY <2>2, <3>2 DEF Own, Scope
    <3>3. CASE t.name \in {"setIpPort", "setLidarNetInfo"}
      BY <2>2, <3>3 DEF Own, Scope, NetSetting
    <3>. QED BY <3>1, <3>2, <3>3 DEF SetterNames
  <2>. QED BY <2>1, <2>2
<1>. HIDE DEF set
<1>4. /\ read.op = "GetLidarConfig" /\ read.must
      /\ write.op = set /\ write.must
  BY DEF Step
<1>5. s \in Seq(StepsOf({"GetLidarConfig", set}))
  <2>1. <<>> \in Seq(Nat) OBVIOUS
  <2>2. read \in StepsOf({"GetLidarConfig", set}) /\ write \in StepsOf({"GetLidarConfig", set})
    BY <2>1, StepType
  <2>. HIDE DEF read, write
  <2>. QED BY <1>1, <2>2
<1>6. Len(s) = 2 /\ s[1] = read /\ s[2] = write BY <1>1
<1>. HIDE DEF s, read, write
<1>. QED BY <1>2, <1>3, <1>4, <1>5, <1>6 DEF s

\* A repetition writes what is its own; the last write of openLaser counts.
LEMMA RepeatFacts ==
  ASSUME NEW f, NEW t, t.name \in RepeatNames
  PROVE  LET s == Script(f, t)
         IN  /\ s \in Seq(StepsOf({"CtrlEyeSafe", "writeRegData.bot", "readRegData.bot"}))
             /\ \A i \in 1..Len(s) : Scope(s[i].op, t.name) \subseteq Own(t.name)
             /\ t.name = "openLaser" =>
                  /\ Len(s) = OpenWrites + 2
                  /\ \A i \in 1..Len(s) : s[i].must <=> i = Len(s)
                  /\ s[Len(s)].op = "writeRegData.bot"
                  /\ Own(t.name) = {"laser"} /\ Scope("writeRegData.bot", t.name) = {"laser"}
<1> DEFINE ops == {"CtrlEyeSafe", "writeRegData.bot", "readRegData.bot"}
           last == t.name = "ctrlEyeSafe"
           one == Step("CtrlEyeSafe", <<>>, FALSE)
           two == Step("CtrlEyeSafe", <<>>, last)
           rest == RepeatScript(t)
           s == Script(f, t)
<1>1. s = <<one, two>> \o rest BY ScriptCases
<1>2. /\ rest \in Seq(RepeatSteps)
      /\ t.name = "ctrlEyeSafe" => rest = <<>>
      /\ t.name = "openLaser" =>
           /\ Len(rest) = OpenWrites
           /\ \A i \in 1..OpenWrites : rest[i] = Step("writeRegData.bot", <<>>, i = OpenWrites)
  BY Repetition
<1>3. RepeatSteps \subseteq StepsOf(ops)
  <2>1. {<<>>} \subseteq Seq(Nat) OBVIOUS
  <2>. HIDE DEF ops
  <2>. QED BY <2>1 DEF RepeatSteps, StepsOf, ops
<1>4. rest \in Seq(StepsOf(ops)) BY <1>2, <1>3, SeqMonotonic
<1>5. one \in StepsOf(ops) /\ two \in StepsOf(ops)
  <2>1. <<>> \in Seq(Nat) OBVIOUS
  <2>. QED BY <2>1, StepType
<1>6. one.op = "CtrlEyeSafe" /\ two.op = "CtrlEyeSafe" /\ ~one.must /\ (two.must <=> last)
  BY DEF Step
<1>. HIDE DEF one, two, rest, s, ops, last
<1>7. /\ s \in Seq(StepsOf(ops)) /\ Len(rest) \in Nat /\ Len(s) = Len(rest) + 2
      /\ s[1] = one /\ s[2] = two
      /\ \A i \in 3..Len(s) : s[i] = rest[i - 2]
  BY <1>1, <1>4, <1>5
<1>8. ASSUME NEW i \in 1..Len(s) PROVE Scope(s[i].op, t.name) \subseteq Own(t.name)
  <2>0. s[i] \in StepsOf(ops) BY <1>7
  <2>1. s[i].op \in ops BY <2>0 DEF StepsOf
  <2>2. CASE s[i].op # "writeRegData.bot"
    <3>1. Scope(s[i].op, t.name) = {} BY <2>1, <2>2 DEF Scope, ops
    <3>. QED BY <3>1
  <2>3. CASE s[i].op = "writeRegData.bot"
    <3>1. Scope(s[i].op, t.name) = {"laser"} BY <2>3 DEF Scope
    <3>2. t.name # "ctrlEyeSafe"
      <4>1. SUFFICES ASSUME t.name = "ctrlEyeSafe" PROVE FALSE OBVIOUS
      <4>2. Len(s) = 2 BY <1>2, <1>7, <4>1
      <4>0. i = 1 \/ i = 2 BY <4>2
      <4>3. s[i] = one \/ s[i] = two BY <1>7, <4>0
      <4>. QED BY <1>6, <2>3, <4>3
    <3>3. Own(t.name) = {"laser"} BY <3>2 DEF Own, RepeatNames
    <3>. QED BY <3>1, <3>3
  <2>. QED BY <2>2, <2>3
<1>9. ASSUME t.name = "openLaser"
      PROVE  /\ Len(s) = OpenWrites + 2
             /\ \A i \in 1..Len(s) : s[i].must <=> i = Len(s)
             /\ s[Len(s)].op = "writeRegData.bot"
             /\ Own(t.name) = {"laser"} /\ Scope("writeRegData.bot", t.name) = {"laser"}
  <2>1. OpenWrites \in Nat /\ OpenWrites > 0 /\ Len(s) = OpenWrites + 2
    BY <1>2, <1>7, <1>9, RepeatsAssumption
  <2>2. ASSUME NEW i \in 1..Len(s) PROVE s[i].must <=> i = Len(s)
    <3>1. CASE i \in {1, 2}
      <4>1. ~last /\ i # Len(s) BY <1>9, <2>1, <3>1 DEF last
      <4>. QED BY <1>6, <1>7, <3>1, <4>1
    <3>2. CASE i \notin {1, 2}
      <4>1. i \in 3..Len(s) /\ i - 2 \in 1..OpenWrites /\ (i - 2 = OpenWrites <=> i = Len(s))
        BY <2>1, <3>2
      <4>2. s[i] = Step("writeRegData.bot", <<>>, i - 2 = OpenWrites) BY <1>2, <1>7, <1>9, <4>1
      <4>3. s[i].must = (i - 2 = OpenWrites) BY <4>2 DEF Step
      <4>. QED BY <4>1, <4>3
    <3>. QED BY <3>1, <3>2
  <2>3. s[Len(s)].op = "writeRegData.bot"
    <3>1. Len(s) \in 3..Len(s) /\ Len(s) - 2 \in 1..OpenWrites BY <2>1
    <3>2. s[Len(s)] = Step("writeRegData.bot", <<>>, Len(s) - 2 = OpenWrites)
      BY <1>2, <1>7, <1>9, <3>1
    <3>. QED BY <3>2 DEF Step
  <2>4. Own(t.name) = {"laser"} /\ Scope("writeRegData.bot", t.name) = {"laser"}
    BY <1>9 DEF Own, Scope, RepeatNames
  <2>. QED BY <2>1, <2>2, <2>3, <2>4
<1>. QED BY <1>7, <1>8, <1>9 DEF s, ops

-----------------------------------------------------------------------------
(* All scripts *)

\* What the driver relies on of the script of operation t.
WellFormed(s, name) ==
  /\ \E X : s \in Seq(StepsOf(X))
  /\ \A i \in 1..Len(s) :
       Scope(s[i].op, name) \subseteq Own(name) \/ (name \in SetterNames /\ i = 2)

\* The other exchanges write nothing.
LEMMA NoScope ==
  ASSUME NEW o, NEW name,
         o \notin {"SetLidarConfig", "SetLidarNetInfo", "SetLidarWaveMode", "SetLidarSyncMode", "writeRegData.bot"}
  PROVE  Scope(o, name) = {}
BY DEF Scope

\* The exchanges of updates.
LEMMA UpdateOps ==
  \A name \in UpdateNames, i \in 1..3 :
    UpdateSteps[name][i] \in {
      "update.app.request", "update.app.data", "update.app.checksum",
      "update.top.request", "update.top.data", "update.top.checksum",
      "update.bot.request", "update.bot.data", "update.bot.checksum",
      "update.patch.request", "update.patch.data", "update.patch.checksum",
      "update.system.request", "update.config.data", "update.system.checksum", "update.system.data"}
<1> TAKE name \in UpdateNames, i \in 1..3
<1>1. i \in {1, 2, 3} OBVIOUS
<1>2. name \in {"app", "top", "bot", "patch", "config", "system"} BY NamesDiffer
<1>. QED BY <1>1, <1>2 DEF UpdateSteps

\* Every script is one the driver can go through: only the second step of a setter
\* writes what the user gave no value for.
LEMMA ScriptWellFormed ==
  ASSUME NEW f \in Family, NEW t \in Tasks[f]
  PROVE  WellFormed(Script(f, t), t.name)
<1> DEFINE s == Script(f, t)
<1>0. t.size \in Nat /\ t.declared \in Nat BY TaskFields
<1>1. CASE t.name \in SetterNames
  <2>1. /\ \E X : s \in Seq(StepsOf(X))
        /\ Len(s) = 2 /\ s[1].op = "GetLidarConfig"
    BY <1>1, SetterFacts
  <2>2. Scope("GetLidarConfig", t.name) = {} BY NoScope
  <2>3. \A i \in 1..Len(s) : i = 1 \/ i = 2 BY <2>1
  <2>. HIDE DEF s
  <2>. QED BY <1>1, <2>1, <2>2, <2>3 DEF WellFormed, s
<1>2. CASE t.name \in RepeatNames
  BY <1>2, RepeatFacts DEF WellFormed
<1>3. CASE t.name \in UpdateNames
  <2>1. s = UpdateScript(t) BY <1>3, ScriptCases
  <2>2. \E X : s \in Seq(StepsOf(X))
    <3> DEFINE X == {UpdateSteps[t.name][1], UpdateSteps[t.name][2], UpdateSteps[t.name][3]}
    <3>1. UpdateScript(t) \in Seq(StepsOf(X)) BY <1>0, <1>3, UpdateFacts
    <3>. HIDE DEF X, s
    <3>. QED BY <2>1, <3>1
  <2>3. \A i \in 1..Len(s) : \E j \in 1..3 : s[i].op = UpdateSteps[t.name][j]
    <3> DEFINE c == ChunkCount(t.size)
    <3>1. /\ Len(s) = c + 2
          /\ \A i \in 1..(c + 2) :
               s[i].op = UpdateSteps[t.name][IF i = 1 THEN 1 ELSE IF i = c + 2 THEN 3 ELSE 2]
      BY <1>0, <1>3, <2>1, UpdateFacts
    <3>2. \A i \in 1..(c + 2) : (IF i = 1 THEN 1 ELSE IF i = c + 2 THEN 3 ELSE 2) \in 1..3 OBVIOUS
    <3>. HIDE DEF c, s
    <3>. QED BY <3>1, <3>2
  <2>4. \A i \in 1..Len(s) : Scope(s[i].op, t.name) = {}
    <3> TAKE i \in 1..Len(s)
    <3>1. PICK j \in 1..3 : s[i].op = UpdateSteps[t.name][j] BY <2>3
    <3> DEFINE o == s[i].op
    <3>2. o \in {
      "update.app.request", "update.app.data", "update.app.checksum",
      "update.top.request", "update.top.data", "update.top.checksum",
      "update.bot.request", "update.bot.data", "update.bot.checksum",
      "update.patch.request", "update.patch.data", "update.patch.checksum",
      "update.system.request", "update.config.data", "update.system.checksum", "update.system.data"}
      BY <1>3, <3>1, UpdateOps
    <3>. HIDE DEF o
    <3>3. o \notin {"SetLidarConfig", "SetLidarNetInfo", "SetLidarWaveMode", "SetLidarSyncMode", "writeRegData.bot"}
      BY <3>2
    <3>4. Scope(o, t.name) = {} BY <3>3, NoScope
    <3>. QED BY <3>4 DEF o
  <2>. QED BY <2>2, <2>4 DEF WellFormed
<1>4. CASE t.name \in FixNames
  <2>1. s = FixScript(t) BY <1>4, ScriptCases
  <2>2. s \in Seq(StepsOf({t.name})) BY <1>0, <2>1, FixFacts
  <2>3. \A i \in 1..Len(s) : s[i].op = t.name
    <3>. HIDE DEF s
    <3>1. \A i \in 1..Len(s) : s[i] \in StepsOf({t.name}) BY <2>2
    <3>. QED BY <3>1 DEF StepsOf
  <2>4. Scope(t.name, t.name) = {} BY <1>4, NoScope DEF FixNames
  <2>. HIDE DEF s
  <2>. QED BY <2>2, <2>3, <2>4 DEF WellFormed, s
<1>5. CASE t.name \notin UNION {SetterNames, RepeatNames, UpdateNames, FixNames}
  <2> DEFINE one == Step(t.name, <<>>, TRUE)
  <2>1. s = <<one>> BY <1>5, ScriptCases
  <2>2. <<>> \in Seq(Nat) OBVIOUS
  <2>3. one \in StepsOf({t.name}) BY <2>2, StepType
  <2>4. one.op = t.name BY DEF Step
  <2>5. Own(t.name) = Scope(t.name, t.name) BY <1>5 DEF Own, SetterNames, RepeatNames
  <2>6. s \in Seq(StepsOf({t.name})) /\ Len(s) = 1 /\ s[1] = one
    <3>. HIDE DEF one, s
    <3>. QED BY <2>1, <2>3
  <2>7. \A i \in 1..Len(s) : s[i].op = t.name
    <3>. HIDE DEF s, one
    <3>1. \A i \in 1..Len(s) : i = 1 BY <2>6
    <3>. QED BY <2>4, <2>6, <3>1
  <2>. HIDE DEF s
  <2>. QED BY <2>5, <2>6, <2>7 DEF WellFormed, s
<1>. QED BY <1>1, <1>2, <1>3, <1>4, <1>5

-----------------------------------------------------------------------------
(* AiryCom and the updates it does not recognise *)

\* The requests of updates are in the table of updates ...
LEMMA AiryUpdateRequest ==
  \A r \in AiryRequests :
    r[1] \in {"update.app.request", "update.top.request", "update.bot.request"} => r \in AiryUpdateRequests
<1> SUFFICES ASSUME NEW r \in AiryRequests,
                    r[1] \in {"update.app.request", "update.top.request", "update.bot.request"},
                    r \notin AiryUpdateRequests
             PROVE  FALSE
  OBVIOUS
<1>1. r \notin AiryWriteRequests /\ r \notin AiryReadRequests
  BY DEF AiryWriteRequests, AiryReadRequests
<1>2. r \notin AirySettingRequests BY DEF AirySettingRequests
<1>3. r \notin AiryAngleRequests /\ r \notin AiryInfoRequests
  BY DEF AiryAngleRequests, AiryInfoRequests
<1>4. r \notin AiryFixRequests /\ r \notin AiryModeRequests
  BY DEF AiryFixRequests, AiryModeRequests
<1>5. r \notin AiryEventLogRequests /\ r \notin AiryDaemonLogRequests
  BY DEF AiryEventLogRequests, AiryDaemonLogRequests
<1>6. r \notin AirySupplementRequests /\ r \notin AiryDetectionRequests
  BY DEF AirySupplementRequests, AiryDetectionRequests
<1>. QED BY <1>1, <1>2, <1>3, <1>4, <1>5, <1>6 DEF AiryRequests

\* ... and AiryCom has no acknowledgement for them, ...
LEMMA NoAiryUpdateAck ==
  \A a \in AiryAcks : a[1] \notin {"UPDATE.05.C1", "UPDATE.08.C1", "UPDATE.07.C1"}
<1>1. \A a \in AiryParamAcks : a[1] \notin {"UPDATE.05.C1", "UPDATE.08.C1", "UPDATE.07.C1"}
  BY DEF AiryParamAcks
<1>2. \A a \in AiryInfoAcks \cup AiryBotAcks : a[1] \notin {"UPDATE.05.C1", "UPDATE.08.C1", "UPDATE.07.C1"}
  BY DEF AiryInfoAcks, AiryBotAcks
<1>3. \A a \in AiryUpdateAcks : a[1] \notin {"UPDATE.05.C1", "UPDATE.08.C1", "UPDATE.07.C1"}
  BY DEF AiryUpdateAcks, UpdateAcks
<1>4. \A a \in AiryMotorTopAcks : a[1] \notin {"UPDATE.05.C1", "UPDATE.08.C1", "UPDATE.07.C1"}
  BY DEF AiryMotorTopAcks, TopAcks
<1>5. \A a \in AiryOtherAcks : a[1] \notin {"UPDATE.05.C1", "UPDATE.08.C1", "UPDATE.07.C1"}
  BY DEF AiryOtherAcks, OtherLogAcks
<1>. QED BY <1>1, <1>2, <1>3, <1>4, <1>5 DEF AiryAcks

\* ... so they are not recognised.
LEMMA AiryRequestUnrecognised ==
  ASSUME NEW o \in Exchanges["airy"],
         o \in {"update.app.request", "update.top.request", "update.bot.request"}
  PROVE  ~Recognises("airy", o)
<1> DEFINE r == CHOOSE q \in Requests["airy"] : q[1] = o
<1>0. Requests["airy"] = AiryRequests /\ Acks["airy"] = AiryAcks BY DEF Requests, Acks
<1>1. \E q \in Requests["airy"] : q[1] = o BY DEF Exchanges, Family
<1>2. r \in AiryRequests /\ r[1] = o BY <1>0, <1>1
<1>3. CommandOf("airy", o) = r[2] BY DEF CommandOf
<1>. HIDE DEF r
<1>4. r \in AiryUpdateRequests BY <1>2, AiryUpdateRequest
<1>5. r[2] \in {"UPDATE.05.C1", "UPDATE.08.C1", "UPDATE.07.C1"} BY <1>2, <1>4
   DEF AiryUpdateRequests
<1>6. Raises("airy", r[2]) = {} BY <1>0, <1>5, NoAiryUpdateAck DEF Raises
<1>. QED BY <1>3, <1>6 DEF Recognises

\* AiryCom does not have the updates of Ruby4Com.
LEMMA Ruby4UpdatesNotAiry ==
  ASSUME NEW o \in {"update.patch.request", "update.patch.data", "update.patch.checksum",
                    "update.system.request", "update.config.data", "update.system.checksum", "update.system.data"}
  PROVE  o \notin Exchanges["airy"]
<1> SUFFICES ASSUME NEW r \in AiryRequests, r[1] = o PROVE FALSE
  BY DEF Exchanges, Family, Requests
<1>1. r \notin AiryWriteRequests /\ r \notin AiryReadRequests
  BY DEF AiryWriteRequests, AiryReadRequests
<1>2. r \notin AirySettingRequests BY DEF AirySettingRequests
<1>3. r \notin AiryAngleRequests /\ r \notin AiryInfoRequests
  BY DEF AiryAngleRequests, AiryInfoRequests
<1>4. r \notin AiryFixRequests /\ r \notin AiryModeRequests
  BY DEF AiryFixRequests, AiryModeRequests
<1>5. r \notin AiryEventLogRequests /\ r \notin AiryDaemonLogRequests
  BY DEF AiryEventLogRequests, AiryDaemonLogRequests
<1>6. r \notin AirySupplementRequests /\ r \notin AiryDetectionRequests
  BY DEF AirySupplementRequests, AiryDetectionRequests
<1>7. r \notin AiryUpdateRequests BY DEF AiryUpdateRequests
<1>. QED BY <1>1, <1>2, <1>3, <1>4, <1>5, <1>6, <1>7 DEF AiryRequests

\* A step of an update that AiryCom has and gets to is its request.
LEMMA AiryUpdatesStop ==
  ASSUME NEW name \in UpdateNames, NEW i \in 1..3,
         UpdateSteps[name][i] \in Exchanges["airy"], UpdateSteps[name][i] \notin AiryUnreached
  PROVE  ~Recognises("airy", UpdateSteps[name][i])
<1> DEFINE o == UpdateSteps[name][i]
<1>1. o \in {
      "update.app.request", "update.app.data", "update.app.checksum",
      "update.top.request", "update.top.data", "update.top.checksum",
      "update.bot.request", "update.bot.data", "update.bot.checksum",
      "update.patch.request", "update.patch.data", "update.patch.checksum",
      "update.system.request", "update.config.data", "update.system.checksum", "update.system.data"}
  BY UpdateOps
<1>. HIDE DEF o
<1>2. o \in Exchanges["airy"] /\ o \notin AiryUnreached BY DEF o
<1>3. o \in {"update.app.request", "update.top.request", "update.bot.request"}
  BY <1>1, <1>2, Ruby4UpdatesNotAiry DEF AiryUnreached
<1>4. ~Recognises("airy", o) BY <1>2, <1>3, AiryRequestUnrecognised
<1>. QED BY <1>4 DEF o

\* The rest of an update is no operation of its own ...
LEMMA UnreachedAreSteps == AiryUnreached \cap Ops["airy"] = {}
<1> SUFFICES ASSUME NEW o \in AiryUnreached PROVE o \in Steps["airy"]
  BY DEF Ops, Family
<1>1. \E r \in AiryUpdateRequests :
        r[1] = o /\ r[3] \in {"UPDATE_SEND_DATA", "UPDATE_CHECKSUM"} /\ r[1] # "getUpdateStatus"
  BY DEF AiryUnreached, AiryUpdateRequests
<1>2. AiryUpdateRequests \subseteq Requests["airy"] BY DEF Requests, AiryRequests
<1>. QED BY <1>1, <1>2 DEF Steps, Family

\* ... and only comes after the request of an update.
LEMMA UnreachedOnlyInUpdates ==
  ASSUME NEW t \in Tasks["airy"], NEW i \in 1..Len(Script("airy", t)),
         Script("airy", t)[i].op \in AiryUnreached
  PROVE  t.name \in UpdateNames /\ i # 1
<1> DEFINE s == Script("airy", t)
<1>0. /\ "airy" \in Family
      /\ t.size \in Nat /\ t.declared \in Nat
      /\ t.name \notin UNION {SetterNames, RepeatNames, UpdateNames, FixNames} => t.name \in Ops["airy"]
  BY TaskFields DEF Family
<1>1. CASE t.name \in SetterNames
  <2>1. Len(s) = 2 /\ s[1].op = "GetLidarConfig"
        /\ s[2].op \in {"SetLidarConfig", "SetLidarWaveMode", "SetLidarSyncMode", "SetLidarNetInfo"}
    BY <1>0, <1>1, SetterFacts
  <2>2. i = 1 \/ i = 2 BY <2>1
  <2>. HIDE DEF s
  <2>3. s[i].op \notin AiryUnreached BY <2>1, <2>2 DEF AiryUnreached
  <2>. QED BY <2>3 DEF s
<1>2. CASE t.name \in RepeatNames
  <2> DEFINE X == {"CtrlEyeSafe", "writeRegData.bot", "readRegData.bot"}
  <2>1. s \in Seq(StepsOf(X)) BY <1>2, RepeatFacts
  <2>2. s[i] \in StepsOf(X)
    <3>1. i \in 1..Len(s) OBVIOUS
    <3>. HIDE DEF s, X
    <3>. QED BY <2>1, <3>1
  <2>. HIDE DEF s
  <2>3. s[i].op \notin AiryUnreached BY <2>2 DEF AiryUnreached, StepsOf
  <2>. QED BY <2>3 DEF s
<1>3. CASE t.name \in UpdateNames
  <2>1. s = UpdateScript(t) BY <1>3, ScriptCases
  <2>2. s[1].op = UpdateSteps[t.name][1]
    <3> DEFINE c == ChunkCount(t.size)
    <3>1. /\ c \in Nat
          /\ \A j \in 1..(c + 2) :
               s[j].op = UpdateSteps[t.name][IF j = 1 THEN 1 ELSE IF j = c + 2 THEN 3 ELSE 2]
      BY <1>0, <1>3, <2>1, UpdateFacts
    <3>. HIDE DEF c, s
    <3>2. 1 \in 1..(c + 2) BY <3>1
    <3>. QED BY <3>1, <3>2
  <2>3. t.name \in {"app", "top", "bot", "patch", "config", "system"} BY <1>3, NamesDiffer
  <2>4. UpdateSteps[t.name][1] \notin AiryUnreached BY <2>3 DEF UpdateSteps, AiryUnreached
  <2>. HIDE DEF s
  <2>5. s[i].op \in AiryUnreached BY DEF s
  <2>. QED BY <1>3, <2>2, <2>4, <2>5
<1>4. CASE t.name \in FixNames
  <2>1. s = FixScript(t) BY <1>4, ScriptCases
  <2>2. s \in Seq(StepsOf({t.name})) BY <1>0, <2>1, FixFacts
  <2>3. s[i] \in StepsOf({t.name})
    <3>1. i \in 1..Len(s) OBVIOUS
    <3>. HIDE DEF s
    <3>. QED BY <2>2, <3>1
  <2>. HIDE DEF s
  <2>4. s[i].op \notin AiryUnreached BY <1>4, <2>3 DEF AiryUnreached, StepsOf, FixNames
  <2>. QED BY <2>4 DEF s
<1>5. CASE t.name \notin UNION {SetterNames, RepeatNames, UpdateNames, FixNames}
  <2> DEFINE one == Step(t.name, <<>>, TRUE)
  <2>1. s = <<one>> BY <1>5, ScriptCases
  <2>2. one.op = t.name BY DEF Step
  <2>3. i \in 1..Len(s) OBVIOUS
  <2>. HIDE DEF s, one
  <2>4. i = 1 BY <2>1, <2>3
  <2>5. s[i].op = t.name BY <2>1, <2>2, <2>4
  <2>6. t.name \in AiryUnreached BY <2>5 DEF s
  <2>. QED BY <1>0, <1>5, <2>6, UnreachedAreSteps
<1>. QED BY <1>1, <1>2, <1>3, <1>4, <1>5

\* The steps of an update.
LEMMA UpdateStepOps ==
  ASSUME NEW f \in Family, NEW t \in Tasks[f], t.name \in UpdateNames, NEW i \in 1..Len(Script(f, t))
  PROVE  /\ Script(f, t)[i].must
         /\ \E j \in 1..3 : Script(f, t)[i].op = UpdateSteps[t.name][j]
<1> DEFINE s == Script(f, t)
           c == ChunkCount(t.size)
<1>0. t.size \in Nat BY TaskFields
<1>1. s = UpdateScript(t) BY ScriptCases
<1>2. /\ Len(s) = c + 2
      /\ \A j \in 1..(c + 2) :
           s[j].must /\ s[j].op = UpdateSteps[t.name][IF j = 1 THEN 1 ELSE IF j = c + 2 THEN 3 ELSE 2]
  BY <1>0, <1>1, UpdateFacts
<1>3. i \in 1..Len(s) OBVIOUS
<1>. HIDE DEF s, c
<1>4. s[i].must /\ s[i].op = UpdateSteps[t.name][IF i = 1 THEN 1 ELSE IF i = c + 2 THEN 3 ELSE 2]
  BY <1>2, <1>3
<1>5. \E j \in 1..3 : s[i].op = UpdateSteps[t.name][j]
  <2>1. CASE i = 1 BY <1>4, <2>1
  <2>2. CASE i # 1 /\ i = c + 2 BY <1>4, <2>2
  <2>3. CASE i # 1 /\ i # c + 2 BY <1>4, <2>3
  <2>. QED BY <2>1, <2>2, <2>3
<1>. QED BY <1>4, <1>5 DEF s

-----------------------------------------------------------------------------
(* Exchanges in the steps of the driver *)

\* A step of the driver is a step of TcpCom and the lidar, or none of theirs.
LEMMA StepProjects == [DriverNext]_allVars => [Next]_vars
<1> SUFFICES ASSUME [DriverNext]_allVars PROVE [Next]_vars OBVIOUS
<1>1. CASE Ask BY <1>1 DEF Ask
<1>2. CASE NextExchange
  BY <1>2 DEF NextExchange, Next, Caller, Begin, BeginBroken
<1>3. CASE Finish BY <1>3 DEF Finish
<1>4. CASE Obey BY <1>4 DEF Obey, Next, Lidar
<1>5. CASE Exchange BY <1>5 DEF Exchange, Next, Caller, Lidar
<1>6. CASE Done \/ UNCHANGED allVars BY <1>6 DEF Done, allVars
<1>. QED BY <1>1, <1>2, <1>3, <1>4, <1>5, <1>6 DEF DriverNext

\* The driver on top of the exchanges implements CommandExchange: LidarCtrlDriver
\* makes one exchange at a time and waits for it.
THEOREM ImplementsExchange == DriverSpec => Spec
<1>1. DriverInit => Init BY DEF DriverInit
<1>. QED BY <1>1, StepProjects, PTL DEF DriverSpec, Spec

\* What CommandExchange promises of single calls holds of the calls that the
\* operations of LidarCtrlDriver are made of: however late replies are, each one
\* confirms at most one call that waits for it, ...
THEOREM ConfirmedOnceInOperations == DriverSpec => []OneReplyOneSuccess
BY ImplementsExchange, OneReplyOneSuccessAlways, PTL

\* ... when they are prompt, a getter reads the reply to its own request, ...
THEOREM OwnPayloadInOperations ==
  ASSUME Prompt, EveryBuilderLowers
  PROVE  DriverSpec => []OwnPayload
BY ImplementsExchange, OwnPayloadAlways, PTL

\* ... and when moreover the lidar refuses nothing, TRUE means carried out.
THEOREM ConfirmedWereDoneInOperations ==
  ASSUME Prompt, EveryBuilderLowers, "refuse" \notin Faults
  PROVE  DriverSpec => ConfirmedWereDone
BY ImplementsExchange, ConfirmedWereDoneAlways, PTL

-----------------------------------------------------------------------------
(* What the exchanges keep *)

\* Only the call in progress has no result.
AllReturned == \A n \in 1..callNo : result[n].value = "none" => n = callNo /\ pc # "idle"

\* AllReturned is inductive, relative to Wire.
LEMMA AllReturnedStep == Wire /\ AllReturned /\ [Next]_vars => AllReturned'
<1> SUFFICES ASSUME Wire, AllReturned, [Next]_vars PROVE AllReturned' OBVIOUS
<1>0. /\ callNo \in Nat /\ Len(op) = callNo
      /\ result \in Seq(CallResult) /\ Len(result) = callNo
  BY DEF Wire, TypeOK, CallResult
<1>1. ASSUME NEW o \in UsedOps, Begin(o) PROVE AllReturned'
  <2>1. /\ callNo' = callNo + 1 /\ pc' = "wait" /\ result' = Append(result, NotReturned)
        /\ pc = "idle"
    BY <1>1 DEF Begin
  <2>2. \A n \in 1..callNo : result'[n] = result[n] BY <1>0, <2>1
  <2>3. \A n \in 1..callNo' : n = callNo' \/ n \in 1..callNo BY <1>0, <2>1
  <2>. QED BY <2>1, <2>2, <2>3 DEF AllReturned
<1>2. ASSUME NEW o \in UsedOps, BeginBroken(o) PROVE AllReturned'
  <2>1. /\ callNo' = callNo + 1 /\ pc = "idle" BY <1>2 DEF BeginBroken
  <2>2. \A n \in 1..callNo' : n = callNo' \/ n \in 1..callNo BY <1>0, <2>1
  <2>3. CASE result' = Append(result, [value |-> "false", data |-> NoCall])
    <3> DEFINE out == [value |-> "false", data |-> NoCall]
    <3>1. out.value # "none" OBVIOUS
    <3>. HIDE DEF out
    <3>2. result' = Append(result, out) BY <2>3 DEF out
    <3>3. \A n \in 1..callNo : result'[n] = result[n] BY <1>0, <3>2
    <3>4. result'[callNo'] = out BY <1>0, <2>1, <3>2
    <3>. QED BY <2>1, <2>2, <3>1, <3>3, <3>4 DEF AllReturned
  <2>4. CASE result' = Append(result, NotReturned) /\ pc' = "crashed"
    <3>1. \A n \in 1..callNo : result'[n] = result[n] BY <1>0, <2>4
    <3>. QED BY <2>1, <2>2, <2>4, <3>1 DEF AllReturned
  <2>. QED BY <1>2, <2>3, <2>4 DEF BeginBroken
<1>3. CASE Poll \/ Extract \/ Timeout
  <2>1. callNo' = callNo BY <1>3 DEF Poll, Extract, Timeout
  <2>2. CASE UNCHANGED result /\ pc' # "idle" BY <2>1, <2>2 DEF AllReturned
  <2>3. ASSUME NEW value \in {"true", "false"}, NEW data, Return(value, data) PROVE AllReturned'
    <3> DEFINE out == [value |-> value, data |-> data]
    <3>1. out.value # "none" OBVIOUS
    <3>2. result' = [result EXCEPT ![callNo] = out] BY <2>3 DEF Return
    <3>. HIDE DEF out
    <3>3. \A n \in 1..callNo : n # callNo => result'[n] = result[n] BY <1>0, <3>2
    <3>4. \A n \in 1..callNo : n = callNo => result'[n] = out BY <1>0, <3>2
    <3>. QED BY <2>1, <3>1, <3>3, <3>4 DEF AllReturned
  <2>. QED BY <1>3, <2>2, <2>3 DEF Poll, Extract, Timeout
<1>4. CASE Lidar \/ Reader \/ Finished
  BY <1>4
     DEF AllReturned, Lidar, CarryOut, Refuse, Ignore, Answer, Reader, Store, Dispatch,
         Finished, vars, callerVars
<1>5. CASE UNCHANGED vars BY <1>5 DEF AllReturned, vars, callerVars
<1>. QED BY <1>1, <1>2, <1>3, <1>4, <1>5 DEF Next, Caller

\* GetLidarConfig waits for the state of a reply that fills the configuration.
LEMMA ConfigRequest ==
  ASSUME NEW f \in {"airy", "ruby4", "helios"}
  PROVE  /\ "GetLidarConfig" \in Exchanges[f] => StateOf(f, "GetLidarConfig") = "GET_ALL_CONFIG"
         /\ "GetLidarConfig" \in Exchanges[f] => FillsRegBack(f, CommandOf(f, "GetLidarConfig"))
         /\ \A cmd : "GET_ALL_CONFIG" \in Raises(f, cmd) => FillsRegBack(f, cmd)
         /\ "rebootLidar" \in Exchanges[f] => StateOf(f, "rebootLidar") # "GET_ALL_CONFIG"
<1>1. \A r \in Requests[f] :
        /\ r[1] = "GetLidarConfig" => r[3] = "GET_ALL_CONFIG" /\ (f = "helios" => r[2] = "READ_CONFIG")
        /\ r[1] = "rebootLidar" => r[3] # "GET_ALL_CONFIG"
  <2>1. CASE f = "airy"
    <3> SUFFICES ASSUME NEW r \in AiryRequests, r[1] \in {"GetLidarConfig", "rebootLidar"}
                 PROVE  r[3] = "GET_ALL_CONFIG" <=> r[1] = "GetLidarConfig"
      BY <2>1 DEF Requests
    <3>1. r \notin AiryWriteRequests /\ r \notin AiryReadRequests /\ r \notin AirySettingRequests
      BY DEF AiryWriteRequests, AiryReadRequests, AirySettingRequests
    <3>2. r \notin AiryAngleRequests /\ r \notin AiryUpdateRequests /\ r \notin AiryFixRequests
      BY DEF AiryAngleRequests, AiryUpdateRequests, AiryFixRequests
    <3>3. r \notin AiryEventLogRequests /\ r \notin AiryDaemonLogRequests
      BY DEF AiryEventLogRequests, AiryDaemonLogRequests
    <3>4. r \notin AirySupplementRequests /\ r \notin AiryDetectionRequests
      BY DEF AirySupplementRequests, AiryDetectionRequests
    <3>5. r \in AiryInfoRequests \/ r \in AiryModeRequests BY <3>1, <3>2, <3>3, <3>4
       DEF AiryRequests
    <3>. QED BY <3>5 DEF AiryInfoRequests, AiryModeRequests
  <2>2. CASE f = "ruby4"
    <3> SUFFICES ASSUME NEW r \in Ruby4Requests, r[1] \in {"GetLidarConfig", "rebootLidar"}
                 PROVE  r[3] = "GET_ALL_CONFIG" <=> r[1] = "GetLidarConfig"
      BY <2>2 DEF Requests
    <3>1. r \notin Ruby4WriteRequests /\ r \notin Ruby4ReadRequests /\ r \notin Ruby4SettingRequests
      BY DEF AiryWriteRequests, AiryReadRequests, Ruby4WriteRequests, Ruby4ReadRequests, Ruby4SettingRequests
    <3>2. r \notin Ruby4UpdateRequests BY DEF Ruby4UpdateRequests
    <3>3. r \notin Ruby4EventLogRequests /\ r \notin Ruby4DaemonLogRequests
      BY DEF Ruby4EventLogRequests, Ruby4DaemonLogRequests, AiryEventLogRequests, AiryDaemonLogRequests
    <3>4. r \in Ruby4InfoRequests \/ r \in Ruby4ModeRequests BY <3>1, <3>2, <3>3
       DEF Ruby4Requests
    <3>. QED BY <3>4 DEF Ruby4InfoRequests, Ruby4ModeRequests
  <2>3. CASE f = "helios"
    <3> SUFFICES ASSUME NEW r \in HeliosRequests, r[1] \in {"GetLidarConfig", "rebootLidar"}
                 PROVE  /\ r[3] = "GET_ALL_CONFIG" <=> r[1] = "GetLidarConfig"
                        /\ r[1] = "GetLidarConfig" => r[2] = "READ_CONFIG"
      BY <2>3 DEF Requests
    <3>1. r \notin HeliosRegisterRequests /\ r \notin HeliosAngleRequests /\ r \notin HeliosLogRequests
      BY DEF HeliosRegisterRequests, HeliosAngleRequests, HeliosLogRequests
    <3>2. r \in HeliosConfigRequests \/ r \in HeliosModeRequests BY <3>1 DEF HeliosRequests
    <3>. QED BY <3>2 DEF HeliosConfigRequests, HeliosModeRequests
  <2>. QED BY <2>1, <2>2, <2>3
<1>2. ASSUME NEW o, o \in Exchanges[f]
      PROVE  \E r \in Requests[f] : r[1] = o /\ CommandOf(f, o) = r[2] /\ StateOf(f, o) = r[3]
  <2> DEFINE r == CHOOSE q \in Requests[f] : q[1] = o
  <2>1. \E q \in Requests[f] : q[1] = o BY <1>2 DEF Exchanges, Family
  <2>2. r \in Requests[f] /\ r[1] = o BY <2>1
  <2>3. CommandOf(f, o) = r[2] /\ StateOf(f, o) = r[3] BY DEF CommandOf, StateOf
  <2>. HIDE DEF r
  <2>. QED BY <2>2, <2>3
<1>3. <<"READ_CONFIG", "GET_ALL_CONFIG">> \in HeliosDataAcks
      /\ \A a \in HeliosAcks : a[2] = "GET_ALL_CONFIG" => a \in HeliosDataAcks
  BY DEF HeliosDataAcks, HeliosPlainAcks, HeliosAcks
<1>4. \E a \in HeliosDataAcks : a[1] = "READ_CONFIG" BY <1>3
<1>5. "GetLidarConfig" \in Exchanges[f] => StateOf(f, "GetLidarConfig") = "GET_ALL_CONFIG"
  BY <1>1, <1>2
<1>6. "GetLidarConfig" \in Exchanges[f] => FillsRegBack(f, CommandOf(f, "GetLidarConfig"))
  BY <1>1, <1>2, <1>4 DEF FillsRegBack
<1>7. ASSUME NEW cmd, "GET_ALL_CONFIG" \in Raises(f, cmd) PROVE FillsRegBack(f, cmd)
  <2>1. CASE f \in {"airy", "ruby4"} BY <2>1 DEF FillsRegBack
  <2>2. CASE f = "helios"
    <3>1. Acks[f] = HeliosAcks BY <2>2 DEF Acks
    <3>2. PICK a \in HeliosAcks : a[1] = cmd /\ a[2] = "GET_ALL_CONFIG" BY <1>7, <3>1 DEF Raises
    <3>. QED BY <1>3, <2>2, <3>2 DEF FillsRegBack
  <2>. QED BY <2>1, <2>2
<1>8. "rebootLidar" \in Exchanges[f] => StateOf(f, "rebootLidar") # "GET_ALL_CONFIG"
  BY <1>1, <1>2
<1>. QED BY <1>5, <1>6, <1>7, <1>8

\* Only exchanges of the protocol class are made.
Known == \A n \in 1..callNo : op[n] \in Exchanges[family]

\* The wrappers that drop the result of sendData never return FALSE.
NeverFalse == \A n \in 1..callNo : result[n].value = "false" => op[n] \notin IgnoresReply

\* Known is inductive, relative to Wire.
LEMMA KnownStep == Wire /\ Known /\ [Next]_vars => Known'
<1> SUFFICES ASSUME Wire, Known, [Next]_vars PROVE Known' OBVIOUS
<1>0. callNo \in Nat /\ Len(op) = callNo /\ op \in Seq(UsedOps) BY DEF Wire, TypeOK
<1>1. ASSUME NEW o \in UsedOps, Begin(o) \/ BeginBroken(o) PROVE Known'
  <2>1. /\ callNo' = callNo + 1 /\ op' = Append(op, o) /\ family' = family
        /\ o \in Exchanges[family]
    BY <1>1 DEF Begin, BeginBroken
  <2>2. \A n \in 1..callNo' : op'[n] = IF n = callNo' THEN o ELSE op[n] BY <1>0, <2>1
  <2>3. \A n \in 1..callNo' : n = callNo' \/ n \in 1..callNo BY <1>0, <2>1
  <2>. QED BY <2>1, <2>2, <2>3 DEF Known
<1>2. CASE UNCHANGED <<family, callNo, op>> BY <1>2 DEF Known
<1>3. CASE Poll \/ Extract \/ Timeout BY <1>2, <1>3 DEF Poll, Extract, Timeout
<1>4. CASE Lidar \/ Reader \/ Finished
  BY <1>2, <1>4
     DEF Lidar, CarryOut, Refuse, Ignore, Answer, Reader, Store, Dispatch, Finished, vars,
         callerVars
<1>5. CASE UNCHANGED vars BY <1>2, <1>5 DEF vars, callerVars
<1>. QED BY <1>1, <1>3, <1>4, <1>5 DEF Next, Caller

\* The configuration that GetLidarConfig returns is that of some reply.
ConfigRead ==
  family # "mems" =>
    /\ parsing # NoReply /\ FillsRegBack(family, command(parsing.call)) => regBack # NoReply
    /\ "GET_ALL_CONFIG" \in raised => regBack # NoReply
    /\ pc = "extract" /\ op[callNo] = "GetLidarConfig" => regBack # NoReply
    /\ \A n \in 1..callNo :
         op[n] = "GetLidarConfig" /\ result[n].value = "true" => result[n].data # NoCall

\* NeverFalse is inductive, relative to Wire.
LEMMA NeverFalseStep == Wire /\ NeverFalse /\ [Next]_vars => NeverFalse'
<1> SUFFICES ASSUME Wire, NeverFalse, [Next]_vars PROVE NeverFalse' OBVIOUS
<1>0. /\ callNo \in Nat /\ Len(op) = callNo /\ op \in Seq(UsedOps)
      /\ result \in Seq(CallResult) /\ Len(result) = callNo
  BY DEF Wire, TypeOK, CallResult
<1>1. ASSUME NEW o \in UsedOps, NEW out, callNo' = callNo + 1, op' = Append(op, o), result' = Append(result, out),
             out.value = "false" => o \notin IgnoresReply
      PROVE NeverFalse'
  <2>1. \A n \in 1..callNo : op'[n] = op[n] /\ result'[n] = result[n] BY <1>0, <1>1
  <2>2. op'[callNo'] = o /\ result'[callNo'] = out BY <1>0, <1>1
  <2>3. \A n \in 1..callNo' : n = callNo' \/ n \in 1..callNo BY <1>0, <1>1
  <2>. QED BY <1>1, <2>1, <2>2, <2>3 DEF NeverFalse
<1>2. ASSUME NEW o \in UsedOps, Begin(o) PROVE NeverFalse'
  BY <1>1, <1>2 DEF Begin, NotReturned
<1>3. ASSUME NEW o \in UsedOps, BeginBroken(o) PROVE NeverFalse'
  <2>1. o \notin IgnoresReply BY <1>3 DEF BeginBroken, MissingReturn, IgnoresReply
  <2>. QED BY <1>1, <1>3, <2>1 DEF BeginBroken
<1>4. CASE UNCHANGED <<callNo, op, result>> BY <1>4 DEF NeverFalse
<1>5. ASSUME NEW value, NEW data, Return(value, data), UNCHANGED <<callNo, op>>,
             callNo \in 1..callNo, value = "false" => op[callNo] \notin IgnoresReply
      PROVE  NeverFalse'
  <2> DEFINE out == [value |-> value, data |-> data]
  <2>1. out.value = value OBVIOUS
  <2>2. result' = [result EXCEPT ![callNo] = out] BY <1>5 DEF Return
  <2>. HIDE DEF out
  <2>3. \A n \in 1..callNo : n # callNo => result'[n] = result[n] BY <1>0, <2>2
  <2>4. result'[callNo] = out BY <1>0, <1>5, <2>2
  <2>. QED BY <1>5, <2>1, <2>3, <2>4 DEF NeverFalse
<1>6. CASE Poll
  <2>1. callNo \in 1..callNo /\ UNCHANGED <<callNo, op>> BY <1>6 DEF Poll, Wire, InRange
  <2>2. CASE UNCHANGED result BY <1>4, <2>1, <2>2
  <2>3. CASE Return("true", NoCall) BY <1>5, <2>1, <2>3
  <2>. QED BY <1>6, <2>2, <2>3 DEF Poll
<1>7. CASE Extract
  <2>1. callNo \in 1..callNo /\ UNCHANGED <<callNo, op>> BY <1>7 DEF Extract, Wire, InRange
  <2>2. CASE op[callNo] \notin IgnoresReply BY <1>5, <1>7, <2>1, <2>2 DEF Extract
  <2>3. CASE op[callNo] \in IgnoresReply
    <3>1. ~ChecksCode(family, op[callNo]) BY <2>3, NoPayloadUnread DEF ChecksCode
    <3>2. Return("true", regBack.call) BY <1>7, <3>1 DEF Extract
    <3>. QED BY <1>5, <2>1, <3>2
  <2>. QED BY <2>2, <2>3
<1>8. CASE Timeout
  <2>1. callNo \in 1..callNo /\ UNCHANGED <<callNo, op>> BY <1>8 DEF Timeout, Wire, InRange
  <2>. QED BY <1>5, <1>8, <2>1 DEF Timeout
<1>9. CASE Lidar \/ Reader \/ Finished
  BY <1>4, <1>9
     DEF Lidar, CarryOut, Refuse, Ignore, Answer, Reader, Store, Dispatch, Finished, vars,
         callerVars
<1>10. CASE UNCHANGED vars BY <1>4, <1>10 DEF vars, callerVars
<1>. QED BY <1>2, <1>3, <1>6, <1>7, <1>8, <1>9, <1>10 DEF Next, Caller

\* ConfigRead is inductive, relative to Wire and Known.
LEMMA ConfigReadStep == Wire /\ Known /\ ConfigRead /\ [Next]_vars => ConfigRead'
<1> SUFFICES ASSUME Wire, Known, ConfigRead, [Next]_vars, family' # "mems" PROVE ConfigRead'
  BY DEF ConfigRead
<1> DEFINE get == "GetLidarConfig"
           cfg == "GET_ALL_CONFIG"
           Has(n) == op[n] = get /\ result[n].value = "true" => result[n].data # NoCall
<1>0. /\ callNo \in Nat /\ Len(op) = callNo /\ op \in Seq(UsedOps)
      /\ result \in Seq(CallResult) /\ Len(result) = callNo
      /\ family' = family
      /\ family \in {"airy", "ruby4", "helios"}
  BY OpsStay, FamiliesAssumption DEF Wire, TypeOK, CallResult, Family
<1>c. /\ parsing # NoReply /\ FillsRegBack(family, command(parsing.call)) => regBack # NoReply
      /\ cfg \in raised => regBack # NoReply
      /\ pc = "extract" /\ op[callNo] = get => regBack # NoReply
      /\ \A n \in 1..callNo : Has(n)
  BY <1>0 DEF ConfigRead
<1>r. /\ get \in Exchanges[family] => StateOf(family, get) = cfg
      /\ get \in Exchanges[family] => FillsRegBack(family, CommandOf(family, get))
      /\ \A cmd : cfg \in Raises(family, cmd) => FillsRegBack(family, cmd)
      /\ "rebootLidar" \in Exchanges[family] => StateOf(family, "rebootLidar") # cfg
  BY <1>0, ConfigRequest
<1>1. ASSUME NEW o \in UsedOps, Begin(o) \/ BeginBroken(o) PROVE ConfigRead'
  <2>1. /\ callNo' = callNo + 1 /\ op' = Append(op, o) /\ raised' = Lower(o) /\ o \in Exchanges[family]
        /\ pc' # "extract" /\ UNCHANGED <<regBack, parsing>>
        /\ \E out : out.value # "true" /\ result' = Append(result, out)
    BY <1>1 DEF Begin, BeginBroken, NotReturned
  <2>2. PICK out : out.value # "true" /\ result' = Append(result, out) BY <2>1
  <2>3. \A n \in 1..callNo : op'[n] = op[n] /\ result'[n] = result[n] BY <1>0, <2>1, <2>2
  <2>4. result'[callNo'] = out BY <1>0, <2>1, <2>2
  <2>5. \A n \in 1..callNo' : n = callNo' \/ n \in 1..callNo BY <1>0, <2>1
  <2>6. \A n \in 1..callNo' : Has(n)' BY <1>c, <2>2, <2>3, <2>4, <2>5
  <2>7. cfg \in raised' => cfg \in raised
    <3>1. CASE PreRaised(family, o) BY <1>r, <2>1, <3>1 DEF PreRaised, Lower
    <3>2. CASE ~PreRaised(family, o) BY <2>1, <3>2 DEF Lower
    <3>. QED BY <3>1, <3>2
  <2>8. parsing # NoReply => command(parsing.call)' = command(parsing.call)
    <3>1. parsing # NoReply => parsing.call \in 1..callNo BY DEF Wire, RepliesOnce, TypeOK
    <3>. QED BY <1>0, <2>1, <2>3, <3>1 DEF command
  <2>. QED BY <1>0, <1>c, <2>1, <2>6, <2>7, <2>8 DEF ConfigRead
<1>2. ASSUME UNCHANGED <<callNo, op, result, pc, raised, regBack, parsing>> PROVE ConfigRead'
  BY <1>0, <1>2 DEF ConfigRead, command
<1>3. ASSUME NEW value, NEW data, Return(value, data), UNCHANGED <<callNo, op, raised, regBack, parsing>>,
             callNo \in 1..callNo, value = "true" /\ op[callNo] = get => data # NoCall
      PROVE  ConfigRead'
  <2> DEFINE out == [value |-> value, data |-> data]
  <2>1. out.value = value /\ out.data = data OBVIOUS
  <2>2. result' = [result EXCEPT ![callNo] = out] /\ pc' = "idle" BY <1>3 DEF Return
  <2>. HIDE DEF out
  <2>3. \A n \in 1..callNo : n # callNo => result'[n] = result[n] BY <1>0, <2>2
  <2>4. result'[callNo] = out BY <1>0, <1>3, <2>2
  <2>5. \A n \in 1..callNo' : Has(n)' BY <1>3, <1>c, <2>1, <2>3, <2>4
  <2>. QED BY <1>0, <1>3, <1>c, <2>2, <2>5 DEF ConfigRead, command
<1>4. CASE Poll
  <2>1. callNo \in 1..callNo /\ UNCHANGED <<callNo, op, raised, regBack, parsing>>
    BY <1>4 DEF Poll, Wire, InRange, sharedVars
  <2>2. CASE op[callNo] \in Getters
    <3>1. op[callNo] = get => regBack # NoReply
      BY <1>4, <1>c, <1>r, <2>1 DEF Poll, awaited, Known
    <3>2. UNCHANGED result BY <1>4, <2>2 DEF Poll
    <3>. QED BY <1>0, <1>c, <2>1, <3>1, <3>2 DEF ConfigRead, command
  <2>3. CASE op[callNo] \notin Getters
    <3>1. op[callNo] # get BY <2>3 DEF Getters
    <3>. QED BY <1>3, <1>4, <2>1, <2>3, <3>1 DEF Poll
  <2>. QED BY <2>2, <2>3
<1>5. CASE Extract
  <2>1. callNo \in 1..callNo /\ UNCHANGED <<callNo, op, raised, regBack, parsing>>
    BY <1>5 DEF Extract, Wire, InRange, sharedVars
  <2>2. op[callNo] = get => regBack.call # NoCall
    <3>1. regBack \in Reply \cup {NoReply} BY DEF Wire, TypeOK
    <3>2. op[callNo] = get => regBack # NoReply BY <1>5, <1>c DEF Extract
    <3>3. \A r \in Reply : r.call # NoCall BY DEF Reply, Call, NoCall
    <3>. QED BY <3>1, <3>2, <3>3
  <2>. QED BY <1>3, <1>5, <2>1, <2>2 DEF Extract
<1>6. CASE Timeout
  <2>1. callNo \in 1..callNo /\ UNCHANGED <<callNo, op, raised, regBack, parsing>>
    BY <1>6 DEF Timeout, Wire, InRange, sharedVars
  <2>2. op[callNo] = get => op[callNo] \notin IgnoresReply BY DEF IgnoresReply
  <2>. QED BY <1>3, <1>6, <2>1, <2>2 DEF Timeout
<1>7. CASE Lidar \/ Finished
  BY <1>2, <1>7
     DEF Lidar, CarryOut, Refuse, Ignore, Answer, Finished, vars, callerVars, sharedVars
<1>8. CASE Store
  <2>1. /\ UNCHANGED <<callNo, op, result, pc, raised>>
        /\ toHost # <<>> /\ parsing' = Head(toHost)
        /\ regBack' = IF FillsRegBack(family, command(Head(toHost).call)) THEN Head(toHost) ELSE regBack
    BY <1>8 DEF Store, callerVars
  <2>2. Head(toHost) # NoReply
    <3>1. toHost \in Seq(Reply) BY DEF Wire, TypeOK
    <3>2. Head(toHost) \in Reply BY <2>1, <3>1
    <3>3. NoReply \notin Reply BY DEF NoReply, Reply, Call, NoCall
    <3>. QED BY <3>2, <3>3
  <2>3. regBack # NoReply => regBack' # NoReply BY <2>1, <2>2
  <2>4. parsing' # NoReply /\ FillsRegBack(family', command(parsing.call)') => regBack' # NoReply
    BY <1>0, <2>1, <2>2 DEF command
  <2>. QED BY <1>0, <1>c, <2>1, <2>3, <2>4 DEF ConfigRead
<1>9. CASE Dispatch
  <2>1. /\ UNCHANGED <<callNo, op, result, pc, regBack>>
        /\ parsing # NoReply /\ parsing' = NoReply
        /\ raised' = raised \cup Raises(family, command(parsing.call))
    BY <1>9 DEF Dispatch, callerVars
  <2>2. cfg \in raised' => regBack # NoReply BY <1>c, <1>r, <2>1
  <2>. QED BY <1>0, <1>c, <2>1, <2>2 DEF ConfigRead
<1>10. CASE UNCHANGED vars BY <1>2, <1>10 DEF vars, callerVars, sharedVars
<1>. QED BY <1>1, <1>4, <1>5, <1>6, <1>7, <1>8, <1>9, <1>10 DEF Next, Caller, Reader

-----------------------------------------------------------------------------
(* Types, and what an operation has come to *)

\* Values for some of the settings.
Writes == UNION {[S -> 0..MaxTasks] : S \in SUBSET Setting}

\* What a request carries.
Carried == [task : Nat, fields : Writes, units : Seq(Nat)]

\* Operations are asked for one at a time; the one in hand has come to a step of
\* its script.
Counts ==
  /\ asked \in Seq(Tasks[family]) /\ Len(asked) <= MaxTasks
  /\ returned \in Seq({"true", "false"})
  /\ Len(returned) <= Len(asked) /\ Len(asked) <= Len(returned) + 1
  /\ at \in Nat
  /\ Working => at <= Len(script)

\* Every call carries a request, and the lidar has a configuration.
Carrying ==
  /\ payload \in Seq(Carried) /\ Len(payload) = callNo
  /\ \A n \in 1..callNo : payload[n].task \in 1..Len(asked)
  /\ settings \in Configuration
  /\ reported \in [Call -> Configuration]

\* The last call is the exchange the operation in progress has come to.
LastCall ==
  /\ pc # "idle" => Working /\ at > 0
  /\ Working /\ at > 0 =>
       /\ callNo > 0
       /\ op[callNo] = script[at].op
       /\ payload[callNo].task = Len(asked)
       /\ payload[callNo].units = script[at].units
       /\ DOMAIN payload[callNo].fields = Scope(op[callNo], task.name)

\* The invariant of the driver.
DriverInv == Wire /\ AllReturned /\ Known /\ NeverFalse /\ ConfigRead /\ Counts /\ Carrying /\ LastCall

\* Nothing has been asked for yet.
LEMMA DriverInitial == DriverInit => DriverInv
<1> SUFFICES ASSUME DriverInit PROVE DriverInv OBVIOUS
<1>0. Init /\ callNo = 0 BY DEF DriverInit, Init
<1>1. Wire BY <1>0, WireInit
<1>2. AllReturned /\ Known /\ NeverFalse BY <1>0 DEF AllReturned, Known, NeverFalse
<1>3. ConfigRead BY <1>0 DEF Init, ConfigRead
<1>4. Len(asked) = 0 /\ Len(returned) = 0 /\ ~Working BY DEF DriverInit, Working
<1>5. Counts BY <1>4, MaxTasksAssumption DEF DriverInit, Counts
<1>6. Carrying
  <2>1. settings \in Configuration BY MaxTasksAssumption DEF DriverInit, Configuration
  <2>. QED BY <1>0, <2>1 DEF DriverInit, Carrying
<1>7. LastCall BY <1>0, <1>4 DEF LastCall, Init
<1>. QED BY <1>1, <1>2, <1>3, <1>5, <1>6, <1>7 DEF DriverInv

\* The exchanges alone.
LEMMA ExchangeInvStep ==
  Wire /\ AllReturned /\ Known /\ NeverFalse /\ ConfigRead /\ [DriverNext]_allVars =>
    (Wire /\ AllReturned /\ Known /\ NeverFalse /\ ConfigRead)'
BY StepProjects, WireStep, AllReturnedStep, KnownStep, NeverFalseStep, ConfigReadStep

\* The operation in progress.
LEMMA InHand ==
  ASSUME Wire, Counts, Working
  PROVE  /\ task \in Tasks[family] /\ family \in Family
         /\ Len(asked) \in 1..Len(asked) /\ task = asked[Len(asked)]
         /\ WellFormed(script, task.name)
<1>1. family \in Family BY FamiliesAssumption DEF Wire, TypeOK
<1>2. asked \in Seq(Tasks[family]) /\ Len(asked) \in 1..Len(asked) BY DEF Counts, Working
<1>3. task = asked[Len(asked)] BY DEF task, Last
<1>4. task \in Tasks[family] BY <1>2, <1>3
<1>. QED BY <1>1, <1>2, <1>3, <1>4, ScriptWellFormed DEF script

\* The steps of the operation in hand.
LEMMA StepInHand ==
  ASSUME Wire, Counts, Working, NEW i \in 1..Len(script)
  PROVE  /\ script[i].units \in Seq(Nat) /\ script[i].must \in BOOLEAN
         /\ Scope(script[i].op, task.name) \subseteq Own(task.name) \/ (task.name \in SetterNames /\ i = 2)
<1>1. WellFormed(script, task.name) BY InHand
<1>2. PICK X : script \in Seq(StepsOf(X)) BY <1>1 DEF WellFormed
<1>3. script[i] \in StepsOf(X) BY <1>2
<1>. QED BY <1>1, <1>3 DEF WellFormed, StepsOf

\* A setter writes what it read.
LEMMA HasRead ==
  ASSUME DriverInv, Working, pc = "idle", ~Over, at + 1 = 2, task.name \in SetterNames
  PROVE  /\ callNo \in 1..callNo /\ op[callNo] = "GetLidarConfig" /\ family # "mems"
         /\ result[callNo].value = "true"
         /\ result[callNo].data \in Call
<1>1. at = 1 /\ Working /\ family \in Family /\ task \in Tasks[family] /\ callNo \in Nat
  BY InHand DEF DriverInv, Counts, Wire, TypeOK
<1>2. /\ script[1].op = "GetLidarConfig" /\ script[1].must
      /\ family # "mems"
  BY <1>1, SetterFacts, TaskFields DEF script
<1>3. callNo \in 1..callNo /\ op[callNo] = "GetLidarConfig" BY <1>1, <1>2
   DEF DriverInv, LastCall
<1>4. result[callNo].value = "true" BY <1>1, <1>2 DEF Over, Succeeded
<1>5. result[callNo].data # NoCall BY <1>2, <1>3, <1>4 DEF DriverInv, ConfigRead
<1>6. result \in Seq(CallResult) /\ Len(result) = callNo
  BY DEF DriverInv, Wire, TypeOK, CallResult
<1>7. result[callNo] \in CallResult BY <1>3, <1>6
<1>. QED BY <1>2, <1>3, <1>4, <1>5, <1>7 DEF CallResult, Call

\* The next request carries values for the settings it writes.
LEMMA FieldsType ==
  ASSUME DriverInv, Working, pc = "idle", ~Over, at + 1 \in 1..Len(script)
  PROVE  LET fields == Fields(script[at + 1].op, task.name, Read)
         IN  /\ fields \in Writes
             /\ DOMAIN fields = Scope(script[at + 1].op, task.name)
<1> DEFINE S == Scope(script[at + 1].op, task.name)
           fields == Fields(script[at + 1].op, task.name, Read)
<1>1. fields = [s \in S |-> IF s \in Own(task.name) THEN Len(asked) ELSE Read[s]] BY DEF Fields
<1>2. Len(asked) \in 0..MaxTasks BY MaxTasksAssumption DEF DriverInv, Counts
<1>3. S \subseteq Setting BY DEF Scope, Setting, ConfigSetting, NetSetting
<1>4. \A s \in S : s \notin Own(task.name) => Read[s] \in 0..MaxTasks
  <2>1. SUFFICES ASSUME ~(S \subseteq Own(task.name)) PROVE Read \in Configuration
    BY <1>3 DEF Configuration
  <2>2. task.name \in SetterNames /\ at + 1 = 2 BY <2>1, StepInHand DEF DriverInv
  <2>3. result[callNo].data \in Call BY <2>2, HasRead
  <2>4. at # 0 BY <2>2
  <2>. QED BY <2>3, <2>4 DEF Read, DriverInv, Carrying
<1>5. fields \in [S -> 0..MaxTasks] BY <1>1, <1>2, <1>4
<1>. HIDE DEF fields, S
<1>6. fields \in Writes /\ DOMAIN fields = S BY <1>3, <1>5 DEF Writes
<1>. QED BY <1>6 DEF fields, S

\* The part of DriverInv about the driver.
Shape == Counts /\ Carrying /\ LastCall

\* Ask keeps it: nothing of the operation has been done yet.
LEMMA AskShape ==
  ASSUME DriverInv, Ask
  PROVE  Shape'
<1>1. PICK t \in Tasks[family] : asked' = Append(asked, t) BY DEF Ask
<1>2. /\ at' = 0 /\ pc = "idle" /\ Len(asked) < MaxTasks
      /\ UNCHANGED <<vars, returned, payload, settings, reported>>
      /\ ~Working
  BY DEF Ask, lidarVars
<1>3. /\ family' = family /\ callNo' = callNo /\ pc' = "idle" /\ op' = op
      /\ family \in Family
  BY <1>2, FamiliesAssumption DEF vars, callerVars, DriverInv, Wire, TypeOK
<1>4. /\ asked \in Seq(Tasks[family]) /\ Len(asked) = Len(returned)
      /\ asked' \in Seq(Tasks[family]) /\ Len(asked') = Len(asked) + 1
      /\ asked'[Len(asked')] = t
      /\ Len(asked') \in Nat
  BY <1>1, <1>2 DEF DriverInv, Counts, Working
<1>5. Len(script') \in Nat
  <2>1. task' = t BY <1>4 DEF task, Last
  <2>2. WellFormed(Script(family, t), t.name) BY <1>3, ScriptWellFormed
  <2>3. PICK X : Script(family, t) \in Seq(StepsOf(X)) BY <2>2 DEF WellFormed
  <2>. QED BY <1>3, <2>1, <2>3 DEF script
<1>6. Counts'
  BY <1>2, <1>3, <1>4, <1>5, MaxTasksAssumption DEF DriverInv, Counts, Working
<1>7. Carrying'
  BY <1>2, <1>3, <1>4 DEF DriverInv, Carrying
<1>8. LastCall' BY <1>2, <1>3 DEF LastCall
<1>. QED BY <1>6, <1>7, <1>8 DEF Shape

\* Where the next exchange is in the script.
LEMMA NextInHand ==
  ASSUME DriverInv, Working, ~Over
  PROVE  at + 1 \in 1..Len(script) /\ at \in Nat
<1>1. at \in Nat /\ at <= Len(script) /\ at # Len(script) BY DEF DriverInv, Counts, Over
<1>2. WellFormed(script, task.name) BY InHand DEF DriverInv
<1>3. Len(script) \in Nat
  <2>1. PICK X : script \in Seq(StepsOf(X)) BY <1>2 DEF WellFormed
  <2>. QED BY <2>1
<1>. QED BY <1>1, <1>3

\* What the next request carries.
Request == [task |-> Len(asked), fields |-> Fields(script[at + 1].op, task.name, Read),
            units |-> script[at + 1].units]

\* What the next exchange does.
LEMMA NextCarries ==
  ASSUME DriverInv, NextExchange
  PROVE  /\ Working /\ pc = "idle" /\ ~Over /\ at + 1 \in 1..Len(script)
         /\ Request \in Carried
         /\ payload' = Append(payload, Request)
         /\ payload' \in Seq(Carried) /\ Len(payload') = callNo'
         /\ callNo \in Nat /\ callNo' = callNo + 1
         /\ \A n \in 1..callNo : payload'[n] = payload[n]
         /\ payload'[callNo'] = Request
         /\ at' = at + 1 /\ at \in Nat
         /\ op' = Append(op, script[at + 1].op) /\ op'[callNo'] = script[at + 1].op
         /\ UNCHANGED <<asked, returned, settings, reported, family, task, script>>
<1>1. /\ Working /\ pc = "idle" /\ ~Over /\ at' = at + 1
      /\ UNCHANGED <<asked, returned, settings, reported>>
      /\ Begin(script[at + 1].op) \/ BeginBroken(script[at + 1].op)
      /\ payload' = Append(payload, Request)
  BY DEF NextExchange, Request, lidarVars
<1>2. at + 1 \in 1..Len(script) /\ at \in Nat BY <1>1, NextInHand
<1>3. Request \in Carried
  <2>1. script[at + 1].units \in Seq(Nat) BY <1>1, <1>2, StepInHand DEF DriverInv
  <2>2. Fields(script[at + 1].op, task.name, Read) \in Writes BY <1>1, <1>2, FieldsType
  <2>3. Len(asked) \in Nat BY DEF DriverInv, Counts
  <2>. QED BY <2>1, <2>2, <2>3 DEF Request, Carried
<1>. HIDE DEF Request
<1>4. callNo' = callNo + 1 /\ op' = Append(op, script[at + 1].op) /\ family' = family
  BY <1>1 DEF Begin, BeginBroken
<1>5. callNo \in Nat /\ op \in Seq(UsedOps) /\ Len(op) = callNo BY DEF DriverInv, Wire, TypeOK
<1>6. payload \in Seq(Carried) /\ Len(payload) = callNo BY DEF DriverInv, Carrying
<1>7. op'[callNo'] = script[at + 1].op
  <2> DEFINE o == script[at + 1].op
  <2>. HIDE DEF o
  <2>1. op' = Append(op, o) BY <1>4 DEF o
  <2>2. op'[callNo'] = o BY <1>4, <1>5, <2>1
  <2>. QED BY <2>2 DEF o
<1>8. UNCHANGED <<task, script>> BY <1>1, <1>4 DEF task, script
<1>9. /\ payload' \in Seq(Carried) /\ Len(payload') = callNo'
      /\ \A n \in 1..callNo : payload'[n] = payload[n]
      /\ payload'[callNo'] = Request
  BY <1>1, <1>3, <1>4, <1>5, <1>6
<1>. QED BY <1>1, <1>2, <1>3, <1>4, <1>5, <1>7, <1>8, <1>9

\* NextExchange keeps it.
LEMMA NextShape ==
  ASSUME DriverInv, NextExchange
  PROVE  Shape'
<1>1. /\ Working /\ pc = "idle" /\ ~Over /\ at + 1 \in 1..Len(script)
      /\ payload' \in Seq(Carried) /\ Len(payload') = callNo'
      /\ callNo \in Nat /\ callNo' = callNo + 1
      /\ \A n \in 1..callNo : payload'[n] = payload[n]
      /\ payload'[callNo'] = Request
      /\ at' = at + 1 /\ at \in Nat
      /\ op'[callNo'] = script[at + 1].op
      /\ UNCHANGED <<asked, returned, settings, reported, family, task, script>>
  BY NextCarries
<1>2. Working' /\ Len(asked) \in 1..Len(asked) BY <1>1, InHand DEF Working, DriverInv
<1>3. /\ Request.task = Len(asked) /\ Request.units = script[at + 1].units
      /\ DOMAIN Request.fields = Scope(script[at + 1].op, task.name)
  BY <1>1, FieldsType DEF Request
<1>. HIDE DEF Request
<1>4. Counts' BY <1>1 DEF DriverInv, Counts
<1>5. Carrying'
  <2>1. \A n \in 1..callNo' : n = callNo' \/ n \in 1..callNo BY <1>1
  <2>2. \A n \in 1..callNo' : payload'[n].task \in 1..Len(asked)
    BY <1>1, <1>2, <1>3, <2>1 DEF DriverInv, Carrying
  <2>. QED BY <1>1, <2>2 DEF DriverInv, Carrying
<1>6. LastCall' BY <1>1, <1>2, <1>3 DEF LastCall
<1>. QED BY <1>4, <1>5, <1>6 DEF Shape

\* Finish keeps it, and the operation returns TRUE or FALSE.
LEMMA FinishShape ==
  ASSUME DriverInv, Finish
  PROVE  /\ Shape'
         /\ Outcome \in {"true", "false"}
         /\ returned' = Append(returned, Outcome) /\ Len(returned') = Len(asked)
         /\ UNCHANGED <<vars, asked, at, payload, settings, reported>>
         /\ ~Working'
<1>1. /\ Working /\ pc = "idle"
      /\ returned' = Append(returned, Outcome)
      /\ UNCHANGED <<vars, asked, at, payload, settings, reported>>
  BY DEF Finish, lidarVars
<1>2. Outcome \in {"true", "false"}
  <2>1. CASE at = 0 \/ ~script[at].must BY <2>1 DEF Outcome
  <2>2. CASE at # 0 /\ script[at].must
    <3>1. callNo > 0 /\ callNo \in Nat BY <1>1, <2>2
       DEF DriverInv, Counts, LastCall, Wire, TypeOK
    <3>2. result \in Seq(CallResult) /\ Len(result) = callNo /\ callNo \in 1..callNo
      BY <3>1 DEF DriverInv, Wire, TypeOK, CallResult
    <3>3. result[callNo] \in CallResult BY <3>2
    <3>4. result[callNo].value # "none" BY <1>1, <3>2 DEF DriverInv, AllReturned
    <3>. QED BY <2>2, <3>3, <3>4 DEF Outcome, CallResult
  <2>. QED BY <2>1, <2>2
<1>. HIDE DEF Outcome
<1>3. /\ returned' \in Seq({"true", "false"}) /\ Len(returned') = Len(returned) + 1
      /\ Len(asked) = Len(returned) + 1
  BY <1>1, <1>2 DEF DriverInv, Counts, Working
<1>4. ~Working' BY <1>1, <1>3 DEF Working
<1>5. family' = family /\ pc' = pc /\ callNo' = callNo BY <1>1 DEF vars, callerVars
<1>6. Counts' BY <1>1, <1>3, <1>4, <1>5 DEF DriverInv, Counts
<1>7. Carrying' BY <1>1, <1>5 DEF DriverInv, Carrying
<1>8. LastCall' BY <1>1, <1>4, <1>5 DEF LastCall
<1>. QED BY <1>1, <1>2, <1>3, <1>4, <1>6, <1>7, <1>8 DEF Shape

\* The request the lidar obeys.
LEMMA ObeyFacts ==
  ASSUME DriverInv, Obey
  PROVE  LET n == Head(toLidar)
         IN  /\ n \in 1..callNo /\ n \in Call /\ n \notin answered /\ toLidar # <<>>
             /\ n \notin done /\ done' = done \cup {n}
             /\ payload[n].fields \in Writes
             /\ settings' = [s \in Setting |-> IF s \in DOMAIN payload[n].fields
                                               THEN payload[n].fields[s] ELSE settings[s]]
             /\ reported' = [reported EXCEPT ![n] = settings]
             /\ UNCHANGED <<asked, returned, at, payload, callerVars, task, script>>
<1> DEFINE n == Head(toLidar)
<1>1. /\ toLidar # <<>> /\ toLidar' = Tail(toLidar) /\ done' = done \cup {n}
      /\ settings' = [s \in Setting |-> IF s \in DOMAIN payload[n].fields
                                        THEN payload[n].fields[s] ELSE settings[s]]
      /\ reported' = [reported EXCEPT ![n] = settings]
      /\ UNCHANGED <<asked, returned, at, payload, callerVars>>
  BY DEF Obey, CarryOut, Answer, driverVars
<1>2. n \in 1..callNo /\ n \in Call /\ n \notin answered BY <1>1, Took DEF DriverInv
<1>3. n \notin done BY <1>2 DEF DriverInv, Wire, TypeOK
<1>4. payload[n] \in Carried BY <1>2 DEF DriverInv, Carrying
<1>5. payload[n].fields \in Writes BY <1>4 DEF Carried
<1>6. UNCHANGED <<task, script>> BY <1>1 DEF task, script, callerVars
<1>. QED BY <1>1, <1>2, <1>3, <1>5, <1>6

\* Obey keeps it.
LEMMA ObeyShape ==
  ASSUME DriverInv, Obey
  PROVE  Shape'
<1> DEFINE n == Head(toLidar)
           fields == payload[n].fields
<1>1. /\ n \in Call
      /\ fields \in Writes
      /\ settings' = [s \in Setting |-> IF s \in DOMAIN fields THEN fields[s] ELSE settings[s]]
      /\ reported' = [reported EXCEPT ![n] = settings]
      /\ UNCHANGED <<asked, returned, at, payload, callerVars, task, script>>
  BY ObeyFacts
<1>2. family' = family /\ callNo' = callNo /\ op' = op /\ pc' = pc BY <1>1 DEF callerVars
<1>. HIDE DEF fields, n
<1>3. settings' \in Configuration
  <2>1. \A s \in DOMAIN fields : fields[s] \in 0..MaxTasks BY <1>1 DEF Writes
  <2>. QED BY <1>1, <2>1 DEF DriverInv, Carrying, Configuration
<1>4. reported' \in [Call -> Configuration] BY <1>1 DEF DriverInv, Carrying
<1>5. Counts' BY <1>1, <1>2 DEF DriverInv, Counts, Working
<1>6. Carrying' BY <1>1, <1>2, <1>3, <1>4 DEF DriverInv, Carrying
<1>7. LastCall' BY <1>1, <1>2 DEF DriverInv, LastCall, Working
<1>. QED BY <1>5, <1>6, <1>7 DEF Shape

\* The steps of TcpCom leave the driver alone.
LEMMA ExchangeFacts ==
  ASSUME Exchange
  PROVE  /\ UNCHANGED <<asked, returned, at, payload, settings, reported, family, callNo, op, task, script, done>>
         /\ pc = "idle" => pc' = "idle"
         /\ pc = "crashed" => pc' = "crashed"
<1>1. /\ UNCHANGED <<asked, returned, at, payload, settings, reported>>
      /\ Poll \/ Extract \/ Timeout \/ Reader \/ Refuse \/ Ignore
  BY DEF Exchange, driverVars, lidarVars
<1>2. /\ UNCHANGED <<family, callNo, op, done>>
      /\ pc \in {"idle", "crashed"} => pc' = pc
  BY <1>1
     DEF Poll, Extract, Timeout, Reader, Store, Dispatch, Refuse, Ignore, Answer, callerVars,
         wireVars
<1>. QED BY <1>1, <1>2 DEF task, script

\* Exchange keeps it.
LEMMA ExchangeShape ==
  ASSUME DriverInv, Exchange
  PROVE  Shape'
<1>1. /\ UNCHANGED <<asked, returned, at, payload, settings, reported, family, callNo, op, task, script>>
      /\ pc = "idle" => pc' = "idle"
  BY ExchangeFacts
<1>2. Working' = Working BY <1>1 DEF Working
<1>3. Counts' BY <1>1, <1>2 DEF DriverInv, Counts
<1>4. Carrying' BY <1>1 DEF DriverInv, Carrying
<1>5. LastCall' BY <1>1, <1>2 DEF DriverInv, LastCall
<1>. QED BY <1>3, <1>4, <1>5 DEF Shape

\* DriverInv is inductive.
LEMMA DriverInvStep == DriverInv /\ [DriverNext]_allVars => DriverInv'
<1> SUFFICES ASSUME DriverInv, [DriverNext]_allVars PROVE DriverInv' OBVIOUS
<1>1. (Wire /\ AllReturned /\ Known /\ NeverFalse /\ ConfigRead)' BY ExchangeInvStep
   DEF DriverInv
<1>2. CASE UNCHANGED allVars
  <2>1. UNCHANGED <<asked, returned, at, payload, settings, reported, family, callNo, op, pc>>
    BY <1>2 DEF allVars, vars, callerVars, driverVars, lidarVars
  <2>2. UNCHANGED <<task, script, Working>> BY <2>1 DEF task, script, Working
  <2>. QED BY <1>1, <2>1, <2>2 DEF DriverInv, Counts, Carrying, LastCall
<1>3. CASE Ask \/ NextExchange \/ Finish \/ Obey \/ Exchange
  BY <1>1, <1>3, AskShape, NextShape, FinishShape, ObeyShape, ExchangeShape DEF DriverInv, Shape
<1>. QED BY <1>2, <1>3 DEF DriverNext, Done

\* DriverInv is an invariant.
LEMMA DriverInvariant == DriverSpec => []DriverInv
BY DriverInitial, DriverInvStep, PTL DEF DriverSpec

\* The variables of the driver keep their types: operations are asked for one after
\* the other, the one in hand is at a step of its script, and the lidar only ever
\* gets settings with a value, so a setter writes back only what it has read.  This
\* holds however late the replies are and whatever the lidar does.
THEOREM DriverTypeCorrectness == DriverSpec => []DriverTypeOK
<1>1. DriverInv => DriverTypeOK
  <2> SUFFICES ASSUME DriverInv PROVE DriverTypeOK OBVIOUS
  <2>1. TypeOK BY DEF DriverInv, Wire
  <2>2. \A k \in DOMAIN asked : asked[k] \in Tasks[family]
    <3>1. asked \in Seq(Tasks[family]) BY DEF DriverInv, Counts
    <3>. QED BY <3>1
  <2>3. Working => at \in 0..Len(script)
    <3> SUFFICES ASSUME Working PROVE at \in 0..Len(script) OBVIOUS
    <3>1. WellFormed(script, task.name) BY InHand DEF DriverInv
    <3>2. PICK X : script \in Seq(StepsOf(X)) BY <3>1 DEF WellFormed
    <3>. QED BY <3>2 DEF DriverInv, Counts
  <2>. QED BY <2>1, <2>2, <2>3 DEF DriverTypeOK, DriverInv, Counts, Carrying
<1>. QED BY <1>1, DriverInvariant, PTL

-----------------------------------------------------------------------------
(* What is carried out succeeds *)

\* AiryCom's updates end with their request.
NotReached == family = "airy" => \A n \in 1..callNo : op[n] \notin AiryUnreached

\* The request of an update of AiryCom is not recognised.
LEMMA NotReachedNext ==
  ASSUME PromptInv, DriverInv, NotReached, NextExchange, family = "airy"
  PROVE  script[at + 1].op \notin AiryUnreached
<1> SUFFICES ASSUME script[at + 1].op \in AiryUnreached PROVE FALSE OBVIOUS
<1>1. Working /\ pc = "idle" /\ ~Over /\ at + 1 \in 1..Len(script) /\ at \in Nat BY NextCarries
<1>2. task \in Tasks["airy"] /\ "airy" \in Family /\ script = Script("airy", task)
  BY <1>1, InHand DEF DriverInv, script
<1>3. task.name \in UpdateNames /\ at + 1 # 1
  <2> DEFINE i == at + 1
  <2>1. i \in 1..Len(Script("airy", task)) /\ Script("airy", task)[i].op \in AiryUnreached
    BY <1>1, <1>2
  <2>. HIDE DEF i
  <2>2. task.name \in UpdateNames /\ i # 1 BY <1>2, <2>1, UnreachedOnlyInUpdates
  <2>. QED BY <2>2 DEF i
<1>4. at \in 1..Len(script) /\ at > 0 BY <1>1, <1>3
<1>5. script[at].must /\ \E j \in 1..3 : script[at].op = UpdateSteps[task.name][j]
  <2>1. at \in 1..Len(Script("airy", task)) BY <1>2, <1>4
  <2>. QED BY <1>2, <1>3, <2>1, UpdateStepOps
<1>6. PICK j \in 1..3 : script[at].op = UpdateSteps[task.name][j] BY <1>5
<1>7. result[callNo].value = "true" BY <1>1, <1>4, <1>5 DEF Over, Succeeded
<1>8. callNo \in 1..callNo /\ op[callNo] = UpdateSteps[task.name][j]
  BY <1>1, <1>4, <1>6 DEF DriverInv, LastCall, Wire, TypeOK
<1>9. UpdateSteps[task.name][j] \in Exchanges["airy"] /\ UpdateSteps[task.name][j] \notin AiryUnreached
  BY <1>8 DEF DriverInv, Known, NotReached
<1>10. ~Recognises("airy", op[callNo]) BY <1>3, <1>8, <1>9, AiryUpdatesStop
<1>11. ~Unconditional(callNo)
  <2>1. op[callNo] \notin IgnoresReply
    <3> DEFINE o == UpdateSteps[task.name][j]
    <3>1. o \in {
      "update.app.request", "update.app.data", "update.app.checksum",
      "update.top.request", "update.top.data", "update.top.checksum",
      "update.bot.request", "update.bot.data", "update.bot.checksum",
      "update.patch.request", "update.patch.data", "update.patch.checksum",
      "update.system.request", "update.config.data", "update.system.checksum", "update.system.data"}
      BY <1>3, UpdateOps
    <3>. HIDE DEF o
    <3>2. o \notin IgnoresReply BY <3>1 DEF IgnoresReply
    <3>. QED BY <1>8, <3>2 DEF o
  <2>. QED BY <2>1 DEF Unconditional, PreRaised
<1>12. Recognised(callNo) BY <1>7, <1>8, <1>11 DEF PromptInv, Results
<1>. QED BY <1>10, <1>12 DEF Recognised, Recognises, awaited, command

\* NotReached is inductive.
LEMMA NotReachedStep == PromptInv /\ DriverInv /\ NotReached /\ [DriverNext]_allVars => NotReached'
<1> SUFFICES ASSUME PromptInv, DriverInv, NotReached, [DriverNext]_allVars PROVE NotReached' OBVIOUS
<1>1. CASE NextExchange
  <2>1. /\ op' = Append(op, script[at + 1].op) /\ callNo' = callNo + 1 /\ callNo \in Nat
        /\ op'[callNo'] = script[at + 1].op /\ family' = family
    BY <1>1, NextCarries
  <2>2. \A n \in 1..callNo : op'[n] = op[n]
    <3>1. [Next]_vars BY StepProjects
    <3>. QED BY <3>1, OpsStay DEF DriverInv
  <2>3. \A n \in 1..callNo' : n = callNo' \/ n \in 1..callNo BY <2>1
  <2>4. family = "airy" => script[at + 1].op \notin AiryUnreached BY <1>1, NotReachedNext
  <2>. QED BY <2>1, <2>2, <2>3, <2>4 DEF NotReached
<1>2. CASE UNCHANGED <<family, callNo, op>> BY <1>2 DEF NotReached
<1>3. CASE Ask \/ Finish \/ Done \/ UNCHANGED allVars
  BY <1>2, <1>3 DEF Ask, Finish, Done, allVars, vars, callerVars
<1>4. CASE Obey BY <1>2, <1>4 DEF Obey, CarryOut, Answer, callerVars
<1>5. CASE Exchange BY <1>2, <1>5, ExchangeFacts
<1>. QED BY <1>1, <1>3, <1>4, <1>5 DEF DriverNext

\* What is recognised, the rest of AiryCom's updates left aside, succeeds.
LEMMA SuccessFollows == PromptInv /\ DriverInv /\ NotReached => CarriedOutSucceeds
<1> SUFFICES ASSUME PromptInv, DriverInv, NotReached, NEW n \in done, result[n].value = "false"
             PROVE  op[n] \in Unrecognised[family]
  BY DEF CarriedOutSucceeds
<1>1. n \in 1..callNo /\ family \in Family
  BY FamiliesAssumption DEF DriverInv, Wire, TypeOK
<1>2. ~Recognises(family, op[n]) BY <1>1
   DEF PromptInv, Results, Recognised, Recognises, awaited, command
<1>3. op[n] \in Exchanges[family] BY <1>1 DEF DriverInv, Known
<1>4. op[n] # "getUpdateStatus" BY <1>1 DEF DriverInv, NeverFalse, IgnoresReply
<1>5. ~(family = "airy" /\ op[n] \in AiryUnreached) BY <1>1 DEF NotReached
<1>. QED BY <1>1, <1>2, <1>3, <1>4, <1>5, Tables

\* The invariant of the driver when replies are prompt.
PromptDriverInv == PromptInv /\ DriverInv /\ NotReached

\* It is one: replies are prompt, and every builder lowers the state it waits for.
LEMMA PromptDriverInvariant ==
  ASSUME Prompt, EveryBuilderLowers
  PROVE  DriverSpec => []PromptDriverInv
<1>1. DriverInit => NotReached BY DEF DriverInit, Init, NotReached
<1>. QED
  BY <1>1, NotReachedStep, PromptInvariant, ImplementsExchange, DriverInvariant, PTL
     DEF DriverSpec, PromptDriverInv

\* When replies are prompt, a call that the lidar has carried out returns TRUE, but
\* those whose acknowledgement the protocol class does not recognise.
THEOREM CarriedOutSucceedsAlways ==
  ASSUME Prompt, EveryBuilderLowers
  PROVE  DriverSpec => []CarriedOutSucceeds
BY SuccessFollows, PromptDriverInvariant, PTL DEF PromptDriverInv

-----------------------------------------------------------------------------
(* Settings are kept *)

\* TRUE of a getter that looks at the response code.
Sound ==
  /\ \A n \in 1..callNo :
       result[n].value = "true" /\ ChecksCode(family, op[n]) /\ op[n] \notin IgnoresResult => n \in done
  /\ family \in {"helios", "mems"} => answered = done

\* Sound is inductive when replies are prompt.
LEMMA SoundStep == PromptInv /\ Sound /\ [Next]_vars => Sound'
<1> SUFFICES ASSUME PromptInv, Sound, [Next]_vars PROVE Sound' OBVIOUS
<1>0. /\ callNo \in Nat /\ Len(op) = callNo /\ op \in Seq(UsedOps)
      /\ result \in Seq(CallResult) /\ Len(result) = callNo
      /\ family' = family
  BY OpsStay DEF PromptInv, Wire, TypeOK, CallResult
<1>1. done \subseteq done'
  BY DEF Next, Caller, Begin, BeginBroken, Poll, Extract, Timeout, Lidar, CarryOut, Refuse, Ignore, Answer,
         Reader, Store, Dispatch, Finished, vars, wireVars
<1>2. family \in {"helios", "mems"} => answered' = done'
  BY <1>0
     DEF Sound, Next, Caller, Begin, BeginBroken, Poll, Extract, Timeout, Lidar, CarryOut,
         Refuse, Ignore,
         Answer, Reader, Store, Dispatch, Finished, vars, wireVars
<1> DEFINE Fine(n) == result[n].value = "true" /\ ChecksCode(family, op[n]) /\ op[n] \notin IgnoresResult => n \in done
<1>3. ASSUME \A n \in 1..callNo' : Fine(n)' PROVE Sound'
  BY <1>0, <1>2, <1>3 DEF Sound
<1>4. CASE UNCHANGED <<callNo, op, result>> BY <1>0, <1>1, <1>3, <1>4 DEF Sound
<1>5. ASSUME NEW o \in UsedOps, Begin(o) \/ BeginBroken(o) PROVE Sound'
  <2>1. /\ callNo' = callNo + 1 /\ op' = Append(op, o)
        /\ \E out : out.value # "true" /\ result' = Append(result, out)
    BY <1>5 DEF Begin, BeginBroken, NotReturned
  <2>2. PICK out : out.value # "true" /\ result' = Append(result, out) BY <2>1
  <2>3. \A n \in 1..callNo : op'[n] = op[n] /\ result'[n] = result[n] BY <1>0, <2>1, <2>2
  <2>4. result'[callNo'] = out BY <1>0, <2>1, <2>2
  <2>5. \A n \in 1..callNo' : n = callNo' \/ n \in 1..callNo BY <1>0, <2>1
  <2>6. \A n \in 1..callNo' : Fine(n)' BY <1>0, <1>1, <2>2, <2>3, <2>4, <2>5 DEF Sound
  <2>. QED BY <1>3, <2>6
<1>6. ASSUME NEW value, NEW data, Return(value, data), UNCHANGED <<callNo, op, done>>, callNo \in 1..callNo,
             value = "true" /\ ChecksCode(family, op[callNo]) /\ op[callNo] \notin IgnoresResult => callNo \in done
      PROVE  Sound'
  <2> DEFINE out == [value |-> value, data |-> data]
  <2>1. out.value = value OBVIOUS
  <2>2. result' = [result EXCEPT ![callNo] = out] BY <1>6 DEF Return
  <2>. HIDE DEF out
  <2>3. \A n \in 1..callNo : n # callNo => result'[n] = result[n] BY <1>0, <2>2
  <2>4. result'[callNo] = out BY <1>0, <1>6, <2>2
  <2>5. \A n \in 1..callNo' : Fine(n)' BY <1>0, <1>6, <2>1, <2>3, <2>4 DEF Sound
  <2>. QED BY <1>3, <2>5
<1>7. CASE Poll
  <2>1. callNo \in 1..callNo /\ UNCHANGED <<callNo, op, done>> BY <1>7
     DEF Poll, PromptInv, Wire, InRange, wireVars
  <2>2. CASE op[callNo] \in Getters BY <1>4, <1>7, <2>1, <2>2 DEF Poll
  <2>3. CASE op[callNo] \notin Getters
    <3>1. ~ChecksCode(family, op[callNo]) BY <2>3 DEF ChecksCode
    <3>. QED BY <1>6, <1>7, <2>1, <2>3, <3>1 DEF Poll
  <2>. QED BY <2>2, <2>3
<1>8. CASE Extract
  <2>1. callNo \in 1..callNo /\ UNCHANGED <<callNo, op, done>> BY <1>8
     DEF Extract, PromptInv, Wire, InRange, wireVars
  <2>2. ASSUME ChecksCode(family, op[callNo]), op[callNo] \notin IgnoresResult, regBack.code = "ok"
        PROVE  callNo \in done
    <3>1. FillsRegBack(family, command(callNo)) BY <2>2, CodesFill
    <3>2. regBack.call = callNo BY <1>8, <3>1 DEF PromptInv, Alone, Extract, Held
    <3>3. regBack # NoReply BY <1>0, <2>1, <3>2 DEF NoReply, NoCall
    <3>. QED BY <2>2, <3>2, <3>3 DEF PromptInv, Codes
  <2>. QED BY <1>6, <1>8, <2>1, <2>2 DEF Extract
<1>9. CASE Timeout
  <2>1. callNo \in 1..callNo /\ UNCHANGED <<callNo, op, done>> BY <1>9
     DEF Timeout, PromptInv, Wire, InRange, wireVars
  <2>2. op[callNo] \in IgnoresReply => ~ChecksCode(family, op[callNo]) BY NoPayloadUnread
     DEF ChecksCode
  <2>. QED BY <1>6, <1>9, <2>1, <2>2 DEF Timeout
<1>10. CASE Lidar \/ Reader \/ Finished
  BY <1>4, <1>10
     DEF Lidar, CarryOut, Refuse, Ignore, Answer, Reader, Store, Dispatch, Finished, vars,
         callerVars
<1>11. CASE UNCHANGED vars BY <1>4, <1>11 DEF vars, callerVars
<1>. QED BY <1>5, <1>7, <1>8, <1>9, <1>10, <1>11 DEF Next, Caller

-----------------------------------------------------------------------------
\* The last request and the lidar's configuration.
Writing ==
  Working /\ at > 0 =>
    LET fields == payload[callNo].fields
    IN  /\ callNo \notin done /\ pc = "wait" =>
             \A s \in DOMAIN fields : s \notin Own(task.name) => fields[s] = settings[s]
        /\ callNo \in done /\ DOMAIN fields = {} => reported[callNo] = settings
        /\ callNo \in done => \A s \in DOMAIN fields : settings[s] = fields[s]
        /\ \A s \in DOMAIN fields : s \in Own(task.name) => fields[s] = Len(asked)

\* The invariant for settings.
KeptInv == PromptDriverInv /\ Sound /\ Writing

\* When replies are prompt, the request the lidar obeys is the last one.
LEMMA ObeysLast ==
  ASSUME PromptDriverInv, Obey
  PROVE  /\ Head(toLidar) = callNo /\ pc = "wait" /\ Working /\ at > 0
         /\ callNo \in 1..callNo /\ callNo \in Call /\ callNo \notin done /\ done' = done \cup {callNo}
<1>1. /\ toLidar # <<>> /\ Head(toLidar) \in 1..callNo /\ Head(toLidar) \in Call
      /\ Head(toLidar) \notin done /\ done' = done \cup {Head(toLidar)}
  BY ObeyFacts DEF PromptDriverInv
<1>2. pc = "wait" /\ toLidar = <<callNo>>
  BY <1>1 DEF PromptDriverInv, PromptInv, Alone, Settled, Waiting, OnTheWire
<1>3. Head(toLidar) = callNo BY <1>2
<1>4. Working /\ at > 0 BY <1>2 DEF PromptDriverInv, DriverInv, LastCall
<1>. QED BY <1>1, <1>2, <1>3, <1>4

\* A setter's second request carries the settings the lidar has.
LEMMA ReadIsCurrent ==
  ASSUME KeptInv, Working, pc = "idle", ~Over, at + 1 = 2, task.name \in SetterNames
  PROVE  Read = settings
<1>1. /\ callNo \in 1..callNo /\ op[callNo] = "GetLidarConfig" /\ family # "mems"
      /\ result[callNo].value = "true"
  BY HasRead DEF KeptInv, PromptDriverInv
<1>2. at = 1 /\ family \in {"airy", "ruby4", "helios"}
  BY <1>1, FamiliesAssumption
     DEF KeptInv, PromptDriverInv, DriverInv, Counts, Wire, TypeOK, Family
<1>3. FillsRegBack(family, command(callNo))
  BY <1>1, <1>2, ConfigRequest DEF KeptInv, PromptDriverInv, DriverInv, Known, command
<1>4. result[callNo].data = callNo
  BY <1>1, <1>3 DEF KeptInv, PromptDriverInv, PromptInv, Results, Getters
<1>5. callNo \in done
  <2>1. CASE family = "helios"
    <3>1. ~Unconditional(callNo) BY <1>1 DEF Unconditional, IgnoresReply, PreRaised
    <3>2. callNo \in answered BY <1>1, <3>1 DEF KeptInv, PromptDriverInv, PromptInv, Results
    <3>. QED BY <2>1, <3>2 DEF KeptInv, Sound
  <2>2. CASE family \in {"airy", "ruby4"}
    <3>1. ChecksCode(family, op[callNo]) BY <1>1, <2>2 DEF ChecksCode, Getters
    <3>2. op[callNo] \notin IgnoresResult BY <1>1 DEF IgnoresResult
    <3>. QED BY <1>1, <3>1, <3>2 DEF KeptInv, Sound
  <2>. QED BY <1>2, <2>1, <2>2
<1>6. DOMAIN payload[callNo].fields = {}
  <2>1. DOMAIN payload[callNo].fields = Scope("GetLidarConfig", task.name)
    BY <1>1, <1>2 DEF KeptInv, PromptDriverInv, DriverInv, LastCall
  <2>2. Scope("GetLidarConfig", task.name) = {} BY NoScope
  <2>. QED BY <2>1, <2>2
<1>7. reported[callNo] = settings BY <1>2, <1>5, <1>6 DEF KeptInv, Writing
<1>. QED BY <1>2, <1>4, <1>7 DEF Read

\* Writing is inductive.
LEMMA WritingStep ==
  ASSUME Prompt, EveryBuilderLowers
  PROVE  KeptInv /\ [DriverNext]_allVars => Writing'
<1> SUFFICES ASSUME KeptInv, [DriverNext]_allVars PROVE Writing' OBVIOUS
<1> USE DEF KeptInv, PromptDriverInv
<1>1. CASE Ask BY <1>1 DEF Ask, Writing
<1>2. CASE NextExchange
  <2> DEFINE o == script[at + 1].op
             fields == Fields(o, task.name, Read)
  <2>1. /\ Working /\ pc = "idle" /\ ~Over /\ at + 1 \in 1..Len(script)
        /\ callNo \in Nat /\ callNo' = callNo + 1
        /\ payload'[callNo'] = Request
        /\ UNCHANGED <<asked, settings, task>>
    BY <1>2, NextCarries
  <2>2. Request.fields = fields BY DEF Request
  <2>3. /\ DOMAIN fields = Scope(o, task.name)
        /\ \A s \in DOMAIN fields : fields[s] = IF s \in Own(task.name) THEN Len(asked) ELSE Read[s]
    BY DEF Fields
  <2>4. callNo' \notin done'
    <3>1. done' = done BY <1>2 DEF NextExchange, Begin, BeginBroken, wireVars
    <3>. QED BY <2>1, <3>1 DEF DriverInv, Wire, TypeOK
  <2>5. ASSUME NEW s \in DOMAIN fields, s \notin Own(task.name) PROVE fields[s] = settings[s]
    <3>1. task.name \in SetterNames /\ at + 1 = 2 BY <2>1, <2>3, <2>5, StepInHand DEF DriverInv
    <3>2. Read = settings BY <2>1, <3>1, ReadIsCurrent
    <3>. QED BY <2>3, <2>5, <3>2
  <2>. HIDE DEF fields, Request
  <2>. QED BY <2>1, <2>2, <2>3, <2>4, <2>5 DEF Writing
<1>3. CASE Finish
  <2>1. ~Working' BY <1>3, FinishShape
  <2>. QED BY <2>1 DEF Writing
<1>4. CASE Obey
  <2> DEFINE fields == payload[callNo].fields
  <2>1. /\ Working /\ at > 0 /\ callNo \in Call /\ done' = done \cup {callNo} /\ Head(toLidar) = callNo
    BY <1>4, ObeysLast
  <2>2. /\ fields \in Writes
        /\ settings' = [s \in Setting |-> IF s \in DOMAIN fields THEN fields[s] ELSE settings[s]]
        /\ reported' = [reported EXCEPT ![callNo] = settings]
        /\ UNCHANGED <<asked, payload, callNo, task>>
    BY <1>4, <2>1, ObeyFacts DEF callerVars
  <2>3. payload'[callNo'].fields = fields BY <2>2
  <2>4. callNo' \in done' BY <2>1, <2>2
  <2>. HIDE DEF fields
  <2>5. DOMAIN fields \subseteq Setting BY <2>2 DEF Writes
  <2>6. \A s \in DOMAIN fields : settings'[s] = fields[s] BY <2>2, <2>5
  <2>7. DOMAIN fields = {} => reported'[callNo'] = settings'
    <3>1. reported'[callNo] = settings BY <2>1, <2>2 DEF DriverInv, Carrying
    <3>2. DOMAIN fields = {} => settings' = settings
      BY <2>2 DEF DriverInv, Carrying, Configuration
    <3>. QED BY <2>2, <3>1, <3>2
  <2>8. \A s \in DOMAIN fields : s \in Own(task.name) => fields[s] = Len(asked)
    BY <2>1 DEF Writing, fields
  <2>. QED BY <2>2, <2>3, <2>4, <2>6, <2>7, <2>8 DEF Writing
<1>5. CASE Exchange
  <2>1. UNCHANGED <<asked, returned, at, payload, settings, reported, callNo, task, done>>
    BY <1>5, ExchangeFacts
  <2>2. pc' = "wait" => pc = "wait"
    BY <1>5
       DEF Exchange, Poll, Extract, Timeout, Return, Reader, Store, Dispatch, Refuse, Ignore,
           Answer, callerVars
  <2>. QED BY <2>1, <2>2 DEF Writing, Working
<1>6. CASE Done \/ UNCHANGED allVars
  <2>1. UNCHANGED <<asked, returned, at, payload, settings, reported, callNo, pc, done>>
    BY <1>6 DEF Done, allVars, vars, callerVars, wireVars, driverVars, lidarVars
  <2>2. task' = task BY <2>1 DEF task
  <2>. QED BY <2>1, <2>2 DEF Writing, Working
<1>. QED BY <1>1, <1>2, <1>3, <1>4, <1>5, <1>6 DEF DriverNext

\* KeptInv is an invariant.
LEMMA KeptInvariant ==
  ASSUME Prompt, EveryBuilderLowers
  PROVE  DriverSpec => []KeptInv
<1>1. DriverInit => Sound /\ Writing
  <2> SUFFICES ASSUME DriverInit PROVE Sound /\ Writing OBVIOUS
  <2>1. callNo = 0 /\ answered = {} /\ done = {} /\ at = 0 BY DEF DriverInit, Init
  <2>. QED BY <2>1 DEF Sound, Writing
<1>2. PromptDriverInv /\ Sound /\ [DriverNext]_allVars => Sound'
  BY SoundStep, StepProjects DEF PromptDriverInv
<1>3. PromptDriverInv /\ Sound /\ Writing /\ [DriverNext]_allVars => Writing'
  BY WritingStep DEF KeptInv
<1>. QED BY <1>1, <1>2, <1>3, PromptDriverInvariant, PTL DEF DriverSpec, KeptInv

\* What a step does to the lidar's configuration.
Kept ==
  \A s \in Setting : settings'[s] # settings[s] => settings'[s] = Len(asked) /\ s \in Own(task.name)

\* No step changes a setting that was not asked for.
LEMMA KeptStep == KeptInv /\ [DriverNext]_allVars => [Kept]_allVars
<1> SUFFICES ASSUME KeptInv, [DriverNext]_allVars PROVE Kept \/ UNCHANGED allVars OBVIOUS
<1> USE DEF KeptInv, PromptDriverInv
<1>1. CASE settings' = settings BY <1>1 DEF Kept
<1>2. CASE Obey
  <2> DEFINE fields == payload[callNo].fields
  <2>1. /\ Working /\ at > 0 /\ Head(toLidar) = callNo /\ pc = "wait" /\ callNo \notin done
    BY <1>2, ObeysLast
  <2>2. settings' = [s \in Setting |-> IF s \in DOMAIN fields THEN fields[s] ELSE settings[s]]
    BY <1>2, <2>1, ObeyFacts
  <2>3. \A s \in DOMAIN fields : fields[s] = IF s \in Own(task.name) THEN Len(asked) ELSE settings[s]
    BY <2>1 DEF Writing
  <2>. HIDE DEF fields
  <2>. QED BY <2>2, <2>3 DEF Kept
<1>3. CASE Ask \/ Finish \/ Done \/ UNCHANGED allVars
  BY <1>1, <1>3 DEF Ask, Finish, Done, allVars, lidarVars
<1>4. CASE NextExchange BY <1>1, <1>4 DEF NextExchange, lidarVars
<1>5. CASE Exchange BY <1>1, <1>5, ExchangeFacts
<1>. QED BY <1>2, <1>3, <1>4, <1>5 DEF DriverNext

\* When replies are prompt, setIpPort, setWaveMode, setTimeSyncMode and
\* setLidarNetInfo leave the rest of the configuration as it is, though they write
\* it back: what they read is what the lidar has.
THEOREM SettingsKeptAlways ==
  ASSUME Prompt, EveryBuilderLowers
  PROVE  DriverSpec => SettingsKept
<1>1. KeptInv /\ [DriverNext]_allVars => [\A s \in Setting :
         settings'[s] # settings[s] => settings'[s] = Len(asked) /\ s \in Own(task.name)]_allVars
  BY KeptStep DEF Kept
<1>. QED BY <1>1, KeptInvariant, PTL DEF DriverSpec, SettingsKept

-----------------------------------------------------------------------------
(* What the lidar was given *)

\* What the lidar was given by operation k in the first m calls, whose requests
\* are p and of which it carried out those of d.
Deliveries(p, d, k, m) == [n \in 1..m |-> IF n \in d /\ p[n].task = k THEN p[n].units ELSE <<>>]

\* The first m requests carry units.
CarryUnits(p, m) == m \in Nat /\ \A n \in 1..m : p[n].units \in Seq(Nat)

\* What m calls give is m sequences.
LEMMA DeliveriesType ==
  ASSUME NEW p, NEW d, NEW k, NEW m, CarryUnits(p, m)
  PROVE  Deliveries(p, d, k, m) \in Seq(Seq(Nat)) /\ Len(Deliveries(p, d, k, m)) = m
<1>1. m \in Nat BY DEF CarryUnits
<1>2. <<>> \in Seq(Nat) OBVIOUS
<1>3. Deliveries(p, d, k, m) \in [1..m -> Seq(Nat)] BY <1>2 DEF Deliveries, CarryUnits
<1>. HIDE DEF Deliveries
<1>. QED BY <1>1, <1>3, FunctionIsSeq

\* The last request counts if it was carried out.
LEMMA LastDelivery ==
  ASSUME NEW p, NEW d, NEW k, NEW m, CarryUnits(p, m), m > 0
  PROVE  /\ FlattenSeq(Deliveries(p, d, k, m - 1)) \in Seq(Nat)
         /\ m \in d /\ p[m].task = k =>
              FlattenSeq(Deliveries(p, d, k, m)) = FlattenSeq(Deliveries(p, d, k, m - 1)) \o p[m].units
         /\ m \notin d \/ p[m].task # k =>
              FlattenSeq(Deliveries(p, d, k, m)) = FlattenSeq(Deliveries(p, d, k, m - 1))
<1> DEFINE last == IF m \in d /\ p[m].task = k THEN p[m].units ELSE <<>>
           front == Deliveries(p, d, k, m - 1)
           all == Deliveries(p, d, k, m)
<1>1. m \in 1..m /\ m - 1 \in Nat /\ m \in Nat BY DEF CarryUnits
<1>2. front \in Seq(Seq(Nat)) /\ Len(front) = m - 1
  <2>1. CarryUnits(p, m - 1) BY <1>1 DEF CarryUnits
  <2>. QED BY <2>1, DeliveriesType
<1>3. all \in Seq(Seq(Nat)) /\ Len(all) = m BY DeliveriesType
<1>5. last \in Seq(Nat)
  <2>1. <<>> \in Seq(Nat) OBVIOUS
  <2>. QED BY <1>1, <2>1 DEF CarryUnits
<1>6. \A n \in 1..(m - 1) : all[n] = front[n] BY <1>1 DEF Deliveries
<1>7. all[m] = last BY <1>1 DEF Deliveries
<1>. HIDE DEF last, front, all
<1>9. all = Append(front, last)
  <2> DEFINE more == Append(front, last)
  <2>1. /\ more \in Seq(Seq(Nat)) /\ Len(more) = m
        /\ \A n \in 1..(m - 1) : more[n] = front[n]
        /\ more[m] = last
    BY <1>1, <1>2, <1>5, AppendProperties
  <2>2. \A n \in 1..m : n \in 1..(m - 1) \/ n = m BY <1>1
  <2>3. \A n \in 1..m : all[n] = more[n] BY <1>6, <1>7, <2>1, <2>2
  <2>. HIDE DEF more
  <2>4. all = more BY <1>3, <2>1, <2>3, SeqEqual
  <2>. QED BY <2>4 DEF more
<1>10. FlattenSeq(all) = FlattenSeq(front) \o last BY <1>2, <1>5, <1>9, FlattenAppend
<1>11. FlattenSeq(front) \in Seq(Nat) BY <1>2, FlattenType
<1>12. CASE m \in d /\ p[m].task = k
  <2>1. last = p[m].units BY <1>12 DEF last
  <2>. QED BY <1>10, <1>11, <1>12, <2>1 DEF front, all
<1>13. CASE ~(m \in d /\ p[m].task = k)
  <2>1. last = <<>> BY <1>13 DEF last
  <2>2. FlattenSeq(front) \o <<>> = FlattenSeq(front) BY <1>11, ConcatEmptySeq
  <2>. QED BY <1>10, <1>11, <1>13, <2>1, <2>2 DEF front, all
<1>. QED BY <1>12, <1>13

\* Calls after the m-th do not matter.
LEMMA SameDeliveries ==
  ASSUME NEW p, NEW q, NEW d, NEW e, NEW k, NEW m \in Nat,
         \A n \in 1..m : (n \in d <=> n \in e) /\ p[n] = q[n]
  PROVE  Deliveries(p, d, k, m) = Deliveries(q, e, k, m)
BY DEF Deliveries

\* An operation without requests has given nothing.
LEMMA NoDeliveries ==
  ASSUME NEW p, NEW d, NEW k, NEW m, CarryUnits(p, m), \A n \in 1..m : p[n].task # k
  PROVE  FlattenSeq(Deliveries(p, d, k, m)) = <<>>
<1>1. Deliveries(p, d, k, m) \in Seq(Seq(Nat)) /\ Len(Deliveries(p, d, k, m)) = m
  BY DeliveriesType
<1>2. \A n \in 1..m : Deliveries(p, d, k, m)[n] = <<>> BY DEF Deliveries
<1>. HIDE DEF Deliveries
<1>. QED BY <1>1, <1>2, FlattenNothing

\* Delivered is what all calls have given.
LEMMA DeliveredUnfolds ==
  ASSUME DriverInv, NEW k
  PROVE  /\ CarryUnits(payload, callNo)
         /\ Delivered(k) = FlattenSeq(Deliveries(payload, done, k, callNo))
<1>1. callNo \in Nat BY DEF DriverInv, Wire, TypeOK
<1>2. \A n \in 1..callNo : payload[n] \in Carried BY <1>1 DEF DriverInv, Carrying
<1>. QED BY <1>1, <1>2 DEF Delivered, Deliveries, CarryUnits, Carried

\* A request that is only written gives the lidar nothing.
LEMMA NextDelivers ==
  ASSUME DriverInv, NextExchange, NEW k
  PROVE  Delivered(k)' = Delivered(k)
<1>1. /\ callNo \in Nat /\ callNo' = callNo + 1
      /\ payload' \in Seq(Carried) /\ Len(payload') = callNo'
      /\ \A n \in 1..callNo : payload'[n] = payload[n]
  BY NextCarries
<1>2. done' = done /\ done \subseteq 1..callNo
  BY DEF NextExchange, Begin, BeginBroken, wireVars, DriverInv, Wire, TypeOK
<1>3. callNo' \notin done' /\ callNo' > 0 /\ callNo' - 1 = callNo BY <1>1, <1>2
<1>4. Delivered(k)' = FlattenSeq(Deliveries(payload', done', k, callNo'))
  BY DEF Delivered, Deliveries
<1>5. CarryUnits(payload', callNo')
  <2>1. \A n \in 1..callNo' : payload'[n] \in Carried BY <1>1
  <2>. QED BY <1>1, <2>1 DEF CarryUnits, Carried
<1>6. FlattenSeq(Deliveries(payload', done', k, callNo')) = FlattenSeq(Deliveries(payload', done', k, callNo))
  <2> DEFINE p == payload'
             d == done'
             m == callNo'
  <2>1. CarryUnits(p, m) /\ m > 0 /\ m \notin d /\ m - 1 = callNo BY <1>3, <1>5
  <2>. HIDE DEF p, d, m
  <2>2. FlattenSeq(Deliveries(p, d, k, m)) = FlattenSeq(Deliveries(p, d, k, m - 1))
    BY <2>1, LastDelivery
  <2>. QED BY <2>1, <2>2 DEF p, d, m
<1>7. Deliveries(payload', done', k, callNo) = Deliveries(payload, done, k, callNo)
  BY <1>1, <1>2, SameDeliveries
<1>8. Delivered(k) = FlattenSeq(Deliveries(payload, done, k, callNo)) BY DeliveredUnfolds
<1>. QED BY <1>4, <1>6, <1>7, <1>8

\* The lidar is given what the last request carries, by the operation in hand.
LEMMA ObeyDelivers ==
  ASSUME PromptDriverInv, Obey, NEW k
  PROVE  /\ Delivered(k) \in Seq(Nat)
         /\ k = Len(asked) => Delivered(k)' = Delivered(k) \o script[at].units
         /\ k # Len(asked) => Delivered(k)' = Delivered(k)
<1> USE DEF PromptDriverInv
<1>1. /\ Working /\ at > 0 /\ callNo \in 1..callNo /\ callNo \notin done /\ done' = done \cup {callNo}
      /\ Head(toLidar) = callNo
  BY ObeysLast
<1>2. payload' = payload /\ callNo' = callNo /\ callNo > 0 /\ callNo \in Nat
  BY <1>1, ObeyFacts DEF callerVars, DriverInv, Wire, TypeOK
<1>3. payload[callNo].task = Len(asked) /\ payload[callNo].units = script[at].units
  BY <1>1 DEF DriverInv, LastCall
<1> DEFINE front == FlattenSeq(Deliveries(payload, done, k, callNo - 1))
<1>4. CarryUnits(payload, callNo) /\ Delivered(k) = FlattenSeq(Deliveries(payload, done, k, callNo))
  BY DeliveredUnfolds
<1>5. front \in Seq(Nat) /\ Delivered(k) = front
  <2>1. front \in Seq(Nat) BY <1>2, <1>4, LastDelivery
  <2>2. FlattenSeq(Deliveries(payload, done, k, callNo)) = FlattenSeq(Deliveries(payload, done, k, callNo - 1))
    <3>1. CarryUnits(payload, callNo) /\ callNo > 0 /\ callNo \notin done BY <1>1, <1>2, <1>4
    <3>. QED BY <3>1, LastDelivery
  <2>. QED BY <1>4, <2>1, <2>2
<1>6. Delivered(k)' = FlattenSeq(Deliveries(payload, done', k, callNo)) BY <1>2
   DEF Delivered, Deliveries
<1>7. Deliveries(payload, done', k, callNo - 1) = Deliveries(payload, done, k, callNo - 1)
  <2>1. callNo - 1 \in Nat /\ \A n \in 1..(callNo - 1) : n \in done' <=> n \in done
    BY <1>1, <1>2
  <2>. QED BY <2>1, SameDeliveries
<1>8. /\ k = Len(asked) => Delivered(k)' = front \o script[at].units
      /\ k # Len(asked) => Delivered(k)' = front
  <2> DEFINE d == done'
  <2>1. callNo \in d /\ callNo > 0 /\ CarryUnits(payload, callNo) BY <1>1, <1>2, <1>4
  <2>. HIDE DEF d
  <2>2. /\ payload[callNo].task = k =>
             FlattenSeq(Deliveries(payload, d, k, callNo)) =
               FlattenSeq(Deliveries(payload, d, k, callNo - 1)) \o payload[callNo].units
        /\ payload[callNo].task # k =>
             FlattenSeq(Deliveries(payload, d, k, callNo)) = FlattenSeq(Deliveries(payload, d, k, callNo - 1))
    <3>1. CASE payload[callNo].task = k BY <2>1, <3>1, LastDelivery
    <3>2. CASE payload[callNo].task # k BY <2>1, <3>2, LastDelivery
    <3>. QED BY <3>1, <3>2
  <2>. QED BY <1>3, <1>6, <1>7, <2>2 DEF d
<1>. HIDE DEF front
<1>. QED BY <1>5, <1>8

\* No other step gives the lidar anything.
LEMMA OthersDeliver ==
  ASSUME [DriverNext]_allVars, ~NextExchange, ~Obey, NEW k
  PROVE  Delivered(k)' = Delivered(k)
<1>1. UNCHANGED <<callNo, payload, done>>
  <2>1. CASE Ask \/ Finish \/ Done \/ UNCHANGED allVars
    BY <2>1 DEF Ask, Finish, Done, allVars, vars, callerVars, wireVars, driverVars
  <2>2. CASE Exchange BY <2>2, ExchangeFacts
  <2>. QED BY <2>1, <2>2 DEF DriverNext
<1>. QED BY <1>1 DEF Delivered

-----------------------------------------------------------------------------
(* TRUE means written *)

\* Operations that send a file and look at every acknowledgement.
Sending == (UpdateNames \cup FixNames) \ {"fix.459"}

\* Every exchange of such an operation counts, and its TRUE is not for free.
LEMMA SendingFacts ==
  ASSUME NEW f \in Family, NEW t \in Tasks[f], t.name \in Sending
  PROVE  LET s == Script(f, t)
         IN  /\ \A i \in 1..Len(s) : s[i].must /\ s[i].op \notin IgnoresReply /\ s[i].op # "rebootLidar"
             /\ t.name \in UpdateNames \/ t.declared <= t.size => Given(s, Len(s)) = Whole(t.size)
             /\ HasUnits(s, Len(s))
<1> DEFINE s == Script(f, t)
<1>0. t.size \in Nat /\ t.declared \in Nat BY TaskFields
<1>1. CASE t.name \in UpdateNames
  <2>1. s = UpdateScript(t) BY <1>1, ScriptCases
  <2>2. Given(s, Len(s)) = Whole(t.size) BY <1>0, <1>1, <2>1, UpdateFacts
  <2>3. ASSUME NEW i \in 1..Len(s)
        PROVE  s[i].must /\ s[i].op \notin IgnoresReply /\ s[i].op # "rebootLidar"
    <3>1. s[i].must /\ \E j \in 1..3 : s[i].op = UpdateSteps[t.name][j] BY <1>1, UpdateStepOps
    <3>2. PICK j \in 1..3 : s[i].op = UpdateSteps[t.name][j] BY <3>1
    <3> DEFINE o == UpdateSteps[t.name][j]
    <3>3. o \in {
      "update.app.request", "update.app.data", "update.app.checksum",
      "update.top.request", "update.top.data", "update.top.checksum",
      "update.bot.request", "update.bot.data", "update.bot.checksum",
      "update.patch.request", "update.patch.data", "update.patch.checksum",
      "update.system.request", "update.config.data", "update.system.checksum", "update.system.data"}
      BY <1>1, UpdateOps
    <3>. HIDE DEF o, s
    <3>4. o \notin IgnoresReply /\ o # "rebootLidar" BY <3>3 DEF IgnoresReply
    <3>. QED BY <3>1, <3>2, <3>4 DEF o
  <2>4. HasUnits(s, Len(s))
    <3> DEFINE X == {UpdateSteps[t.name][1], UpdateSteps[t.name][2], UpdateSteps[t.name][3]}
    <3>1. UpdateScript(t) \in Seq(StepsOf(X)) BY <1>0, <1>1, UpdateFacts
    <3>. HIDE DEF X, s
    <3>. QED BY <2>1, <3>1, StepsHaveUnits
  <2>. HIDE DEF s
  <2>. QED BY <2>2, <2>3, <2>4 DEF s
<1>2. CASE t.name \in FixNames \ {"fix.459"}
  <2>1. s = FixScript(t) BY <1>2, ScriptCases
  <2>2. /\ s \in Seq(StepsOf({t.name}))
        /\ \A i \in 1..Len(s) : s[i].must
        /\ t.declared <= t.size => Given(s, Len(s)) = Whole(t.size)
    BY <1>0, <1>2, <2>1, FixFacts
  <2>3. \A i \in 1..Len(s) : s[i].op = t.name
    <3>. HIDE DEF s
    <3>1. \A i \in 1..Len(s) : s[i] \in StepsOf({t.name}) BY <2>2
    <3>. QED BY <3>1 DEF StepsOf
  <2>4. t.name \notin IgnoresReply /\ t.name # "rebootLidar" BY <1>2 DEF FixNames, IgnoresReply
  <2>5. HasUnits(s, Len(s)) BY <2>2, StepsHaveUnits
  <2>6. t.name \notin UpdateNames BY <1>2, NamesDiffer
  <2>. HIDE DEF s
  <2>. QED BY <2>2, <2>3, <2>4, <2>5, <2>6 DEF s
<1>. QED BY <1>1, <1>2, NamesDiffer DEF Sending

\* What the operation in hand has given the lidar.
Giving ==
  Working /\ task.name \in Sending =>
    Delivered(Len(asked)) = IF at = 0 \/ callNo \in done THEN Given(script, at) ELSE Given(script, at - 1)

\* A call whose TRUE is not for free was carried out.
LEMMA TrueWasDone ==
  ASSUME KeptInv, AllCarriedOut, callNo \in 1..callNo, result[callNo].value = "true", ~Unconditional(callNo)
  PROVE  callNo \in done
BY DEF KeptInv, PromptDriverInv, PromptInv, Results, AllCarriedOut

\* Giving is inductive.
LEMMA GivingStep == KeptInv /\ AllCarriedOut /\ Giving /\ [DriverNext]_allVars => Giving'
<1> SUFFICES ASSUME KeptInv, AllCarriedOut, Giving, [DriverNext]_allVars PROVE Giving' OBVIOUS
<1> USE DEF KeptInv, PromptDriverInv
<1>1. CASE Ask
  <2>1. /\ at' = 0 /\ UNCHANGED <<callNo, payload, done>> /\ Len(asked') = Len(asked) + 1 /\ Len(asked) \in Nat
    BY <1>1 DEF Ask, vars, callerVars, wireVars, DriverInv, Counts
  <2>2. Delivered(Len(asked))' = FlattenSeq(Deliveries(payload, done, Len(asked'), callNo))
    BY <2>1 DEF Delivered, Deliveries
  <2>3. \A n \in 1..callNo : payload[n].task # Len(asked')
    <3>1. \A n \in 1..callNo : payload[n].task \in 1..Len(asked) BY DEF DriverInv, Carrying
    <3>. QED BY <2>1, <3>1
  <2>4. FlattenSeq(Deliveries(payload, done, Len(asked'), callNo)) = <<>>
    <3>1. CarryUnits(payload, callNo) BY DeliveredUnfolds
    <3>. QED BY <2>3, <3>1, NoDeliveries
  <2>5. Given(script', at') = <<>> BY <2>1, GivenNone
  <2>. QED BY <2>1, <2>2, <2>4, <2>5 DEF Giving
<1>2. CASE NextExchange
  <2>1. /\ Working /\ pc = "idle" /\ ~Over /\ at + 1 \in 1..Len(script) /\ at' = at + 1 /\ at \in Nat
        /\ callNo' = callNo + 1 /\ callNo \in Nat
        /\ UNCHANGED <<asked, task, script>>
    BY <1>2, NextCarries
  <2>2. SUFFICES ASSUME task.name \in Sending
                 PROVE  Delivered(Len(asked))' = Given(script, at)
    <3>1. done' = done BY <1>2 DEF NextExchange, Begin, BeginBroken, wireVars
    <3>2. callNo' \notin done' /\ at' # 0 /\ at' - 1 = at BY <2>1, <3>1
       DEF DriverInv, Wire, TypeOK
    <3>. QED BY <2>1, <2>2, <3>2 DEF Giving
  <2>3. Delivered(Len(asked))' = Delivered(Len(asked))
    <3> DEFINE k == Len(asked)
    <3>1. k' = k BY <2>1
    <3>. HIDE DEF k
    <3>2. \A j : Delivered(j)' = Delivered(j) BY <1>2, NextDelivers
    <3>3. Delivered(k)' = Delivered(k)
      <4>1. PICK j : j = k OBVIOUS
      <4>2. Delivered(j)' = Delivered(j) BY <3>2
      <4>3. Delivered(k)' = Delivered(j)' BY <3>1, <4>1 DEF Delivered
      <4>. QED BY <4>1, <4>2, <4>3
    <3>. QED BY <3>3 DEF k
  <2>4. at = 0 \/ callNo \in done
    <3> SUFFICES ASSUME at # 0 PROVE callNo \in done OBVIOUS
    <3>1. family \in Family /\ task \in Tasks[family] BY <2>1, InHand DEF DriverInv
    <3>2. at \in 1..Len(script) BY <2>1
    <3>3. script[at].must /\ script[at].op \notin IgnoresReply /\ script[at].op # "rebootLidar"
      BY <2>2, <3>1, <3>2, SendingFacts DEF script
    <3>4. callNo \in 1..callNo /\ op[callNo] = script[at].op BY <2>1 DEF DriverInv, LastCall
    <3>5. result[callNo].value = "true" BY <2>1, <3>3 DEF Over, Succeeded
    <3>6. ~Unconditional(callNo) BY <3>3, <3>4 DEF Unconditional, PreRaised
    <3>. QED BY <3>4, <3>5, <3>6, TrueWasDone
  <2>. QED BY <2>1, <2>2, <2>3, <2>4 DEF Giving
<1>3. CASE Finish
  <2>1. ~Working' BY <1>3, FinishShape
  <2>. QED BY <2>1 DEF Giving
<1>4. CASE Obey
  <2>1. /\ Working /\ at > 0 /\ callNo \notin done /\ done' = done \cup {callNo}
    BY <1>4, ObeysLast
  <2>2. UNCHANGED <<asked, returned, at, callNo, task, script>> BY <1>4, ObeyFacts
     DEF callerVars
  <2>3. SUFFICES ASSUME task.name \in Sending PROVE Delivered(Len(asked))' = Given(script, at)
    <3>1. callNo' \in done' BY <2>1, <2>2
    <3>. QED BY <2>2, <2>3, <3>1 DEF Giving
  <2>4. Delivered(Len(asked)) = Given(script, at - 1) BY <2>1, <2>3 DEF Giving
  <2>5. Delivered(Len(asked))' = Delivered(Len(asked)) \o script[at].units
    <3>1. PICK j : j = Len(asked) OBVIOUS
    <3>2. Delivered(j)' = Delivered(j) \o script[at].units BY <1>4, <3>1, ObeyDelivers
    <3>3. Delivered(Len(asked))' = Delivered(j)' BY <2>2, <3>1 DEF Delivered
    <3>. QED BY <3>1, <3>2, <3>3
  <2>6. Given(script, at) = Given(script, at - 1) \o script[at].units
    <3>1. family \in Family /\ task \in Tasks[family] BY <2>1, InHand DEF DriverInv
    <3>2. HasUnits(script, Len(script)) BY <2>3, <3>1, SendingFacts DEF script
    <3>3. at \in Nat /\ at <= Len(script) /\ Len(script) \in Nat BY <2>1, <3>2
       DEF DriverInv, Counts, HasUnits
    <3>4. at - 1 \in 0..(Len(script) - 1) /\ (at - 1) + 1 = at BY <2>1, <3>3
    <3>. QED BY <3>2, <3>4, GivenNext
  <2>. QED BY <2>4, <2>5, <2>6
<1>5. CASE Exchange \/ Done \/ UNCHANGED allVars
  <2>1. UNCHANGED <<asked, returned, at, callNo, payload, done, task, script>>
    <3>1. CASE Exchange BY <3>1, ExchangeFacts
    <3>2. CASE Done \/ UNCHANGED allVars
      <4>1. UNCHANGED <<asked, returned, at, callNo, payload, done, family>>
        BY <3>2 DEF Done, allVars, vars, callerVars, wireVars, driverVars, lidarVars
      <4>. QED BY <4>1 DEF task, script
    <3>. QED BY <1>5, <3>1, <3>2
  <2>2. Delivered(Len(asked))' = Delivered(Len(asked)) BY <2>1 DEF Delivered
  <2>. QED BY <2>1, <2>2 DEF Giving, Working
<1>. QED BY <1>1, <1>2, <1>3, <1>4, <1>5 DEF DriverNext

\* Operations whose TRUE says that the lidar has the settings asked for.
SettingsCount(f, name) ==
  \/ name \in SetterNames /\ (f = "helios" \/ name \in {"setWaveMode", "setTimeSyncMode"})
  \/ name = "openLaser"

\* What TrueMeansWritten says of operation k.
WrittenBy(k) ==
  LET t == asked[k]
  IN  /\ SettingsCount(family, t.name) => \A s \in Own(t.name) : settings[s] >= k
      /\ t.name \in UpdateNames => Delivered(k) = Whole(t.size)
      /\ t.name \in FixNames \ {"fix.459"} /\ t.declared <= t.size => Delivered(k) = Whole(t.size)

\* TrueMeansWritten, operation by operation.
LEMMA WrittenUnfolds ==
  TrueMeansWritten <=> \A k \in DOMAIN returned : returned[k] = "true" => WrittenBy(k)
BY DEF TrueMeansWritten, WrittenBy, SettingsCount

\* The last exchange of an operation that returns TRUE was made.
LEMMA EndsWell ==
  ASSUME KeptInv, Finish, Outcome = "true", task.name # "closeLaser"
  PROVE  at = Len(script)
<1>1. Working /\ Over BY DEF Finish, MayBeOff, ReadLaser
<1>2. ~SeenOff BY DEF SeenOff, ReadLaser
<1>3. ~(at > 0 /\ script[at].must /\ ~Succeeded)
  <2>1. at > 0 => at # 0 BY DEF KeptInv, PromptDriverInv, DriverInv, Counts
  <2>. QED BY <2>1 DEF Outcome, Succeeded
<1>. QED BY <1>1, <1>2, <1>3 DEF Over

\* The last exchange of an operation that returns TRUE was carried out, if it counts.
LEMMA LastCounts ==
  ASSUME KeptInv, AllCarriedOut, Finish, Outcome = "true", at > 0, script[at].must,
         script[at].op \notin IgnoresReply, script[at].op # "rebootLidar"
  PROVE  callNo \in done /\ callNo \in 1..callNo /\ op[callNo] = script[at].op
<1>1. Working /\ at # 0 BY DEF Finish, KeptInv, PromptDriverInv, DriverInv, Counts
<1>2. callNo \in 1..callNo /\ op[callNo] = script[at].op
  BY <1>1 DEF KeptInv, PromptDriverInv, DriverInv, LastCall, Wire, TypeOK
<1>3. result[callNo].value = "true" BY <1>1 DEF Outcome
<1>4. ~Unconditional(callNo) BY <1>2 DEF Unconditional, PreRaised
<1>. QED BY <1>2, <1>3, <1>4, TrueWasDone

\* An operation on settings that returns TRUE has just written them.
LEMMA SettingsWritten ==
  ASSUME KeptInv, AllCarriedOut, Finish, Outcome = "true", SettingsCount(family, task.name)
  PROVE  \A s \in Own(task.name) : settings[s] = Len(asked)
<1> USE DEF KeptInv, PromptDriverInv
<1>1. Working /\ family \in Family /\ at \in Nat BY InHand DEF Finish, DriverInv, Counts
<1>2. task.name # "closeLaser" BY DEF SettingsCount, SetterNames
<1>3. at = Len(script) BY <1>2, EndsWell
<1>4. /\ at > 0 /\ script[at].must
      /\ script[at].op \in {"SetLidarConfig", "SetLidarWaveMode", "SetLidarSyncMode", "writeRegData.bot"}
      /\ Own(task.name) \subseteq Scope(script[at].op, task.name)
  <2>1. CASE task.name \in SetterNames
    <3>1. /\ Len(script) = 2 /\ script[2].must
          /\ script[2].op \in {"SetLidarConfig", "SetLidarWaveMode", "SetLidarSyncMode", "SetLidarNetInfo"}
          /\ script[2].op = "SetLidarNetInfo" =>
               family # "helios" /\ task.name \notin {"setWaveMode", "setTimeSyncMode"}
          /\ Own(task.name) \subseteq Scope(script[2].op, task.name)
      BY <1>1, <2>1, SetterFacts DEF script
    <3>2. task.name # "openLaser" BY <2>1 DEF SetterNames
    <3>3. script[2].op # "SetLidarNetInfo" BY <3>1, <3>2 DEF SettingsCount
    <3>. QED BY <1>3, <3>1, <3>3
  <2>2. CASE task.name = "openLaser"
    <3>1. task.name \in RepeatNames BY <2>2 DEF RepeatNames
    <3>2. /\ Len(script) = OpenWrites + 2
          /\ \A i \in 1..Len(script) : script[i].must <=> i = Len(script)
          /\ script[Len(script)].op = "writeRegData.bot"
          /\ Own(task.name) = {"laser"} /\ Scope("writeRegData.bot", task.name) = {"laser"}
      BY <2>2, <3>1, RepeatFacts DEF script
    <3>3. at > 0 /\ at \in 1..Len(script) BY <1>3, <3>2, RepeatsAssumption
    <3>. QED BY <1>3, <3>2, <3>3
  <2>. QED BY <2>1, <2>2 DEF SettingsCount
<1>5. script[at].op \notin IgnoresReply /\ script[at].op # "rebootLidar" BY <1>4
   DEF IgnoresReply
<1>6. callNo \in done /\ callNo \in 1..callNo /\ op[callNo] = script[at].op
  BY <1>4, <1>5, LastCounts
<1>7. DOMAIN payload[callNo].fields = Scope(script[at].op, task.name)
  BY <1>1, <1>4, <1>6 DEF DriverInv, LastCall
<1>. QED BY <1>1, <1>4, <1>6, <1>7 DEF Writing

\* An operation that sends a file and returns TRUE has given the lidar all of it.
LEMMA FileWritten ==
  ASSUME KeptInv, AllCarriedOut, Giving, Finish, Outcome = "true", task.name \in Sending,
         task.name \in UpdateNames \/ task.declared <= task.size
  PROVE  Delivered(Len(asked)) = Whole(task.size)
<1> USE DEF KeptInv, PromptDriverInv
<1>1. Working /\ family \in Family /\ task \in Tasks[family] /\ at \in Nat BY InHand
   DEF Finish, DriverInv, Counts
<1>2. /\ \A i \in 1..Len(script) :
           script[i].must /\ script[i].op \notin IgnoresReply /\ script[i].op # "rebootLidar"
      /\ Given(script, Len(script)) = Whole(task.size)
  BY <1>1, SendingFacts DEF script
<1>3. task.name # "closeLaser" BY NamesDiffer DEF Sending, FixNames
<1>4. at = Len(script) BY <1>3, EndsWell
<1>5. at = 0 \/ callNo \in done
  <2> SUFFICES ASSUME at # 0 PROVE callNo \in done OBVIOUS
  <2>1. at > 0 /\ at \in 1..Len(script) BY <1>1, <1>4
  <2>. QED BY <1>2, <2>1, LastCounts
<1>. QED BY <1>1, <1>2, <1>4, <1>5 DEF Giving

\* What operations that returned have done stays done.
LEMMA WrittenStays ==
  ASSUME KeptInv, [DriverNext]_allVars, NEW k \in DOMAIN returned, WrittenBy(k)
  PROVE  WrittenBy(k)'
<1> USE DEF KeptInv, PromptDriverInv
<1>1. /\ k \in 1..Len(returned) /\ Len(returned) \in Nat /\ Len(asked) \in Nat /\ Len(returned) <= Len(asked)
      /\ asked \in Seq(Tasks[family])
  BY DEF DriverInv, Counts
<1>2. family' = family
  <2>1. [Next]_vars BY StepProjects
  <2>. QED BY <2>1, OpsStay DEF DriverInv
<1>3. asked'[k] = asked[k]
  <2>1. CASE Ask BY <1>1, <2>1 DEF Ask
  <2>2. CASE NextExchange BY <2>2, NextCarries
  <2>3. CASE Obey BY <2>3, ObeyFacts
  <2>4. CASE Exchange BY <2>4, ExchangeFacts
  <2>5. CASE Finish \/ Done \/ UNCHANGED allVars BY <2>5 DEF Finish, Done, allVars, driverVars
  <2>. QED BY <2>1, <2>2, <2>3, <2>4, <2>5 DEF DriverNext
<1>4. Delivered(k)' = Delivered(k)
  <2>1. CASE NextExchange BY <2>1, NextDelivers
  <2>2. CASE Obey
    <3>1. Working BY <2>2, ObeysLast
    <3>2. k # Len(asked) BY <1>1, <3>1 DEF Working
    <3>. QED BY <2>2, <3>2, ObeyDelivers
  <2>3. CASE ~NextExchange /\ ~Obey BY <2>3, OthersDeliver
  <2>. QED BY <2>1, <2>2, <2>3
<1>5. \A s \in Setting : settings[s] >= k => settings'[s] >= k
  <2> SUFFICES ASSUME NEW s \in Setting, settings[s] >= k PROVE settings'[s] >= k OBVIOUS
  <2>1. CASE settings'[s] = settings[s] BY <2>1
  <2>2. CASE settings'[s] # settings[s]
    <3>1. settings' # settings BY <2>2
    <3>2. Kept BY <3>1, KeptStep DEF allVars, lidarVars
    <3>3. settings'[s] = Len(asked) BY <2>2, <3>2 DEF Kept
    <3>. QED BY <1>1, <3>3
  <2>. QED BY <2>1, <2>2
<1>6. \A name : Own(name) \subseteq Setting
  <2> TAKE name
  <2>1. \A o : Scope(o, name) \subseteq Setting BY DEF Scope, Setting, ConfigSetting, NetSetting
  <2>2. Scope(name, name) \subseteq Setting BY <2>1
  <2>3. {"ip", "dest", "mac", "wave", "sync", "laser"} \subseteq Setting
    BY DEF Setting, ConfigSetting, NetSetting
  <2>4. \/ Own(name) \subseteq {"ip", "dest", "mac", "wave", "sync", "laser"}
        \/ Own(name) = Scope(name, name)
    <3>. HIDE DEF Scope
    <3>. QED BY DEF Own
  <2>. QED BY <2>2, <2>3, <2>4
<1>. QED BY <1>2, <1>3, <1>4, <1>5, <1>6 DEF WrittenBy

\* TrueMeansWritten is inductive, relative to the other invariants.
LEMMA TrueMeansWrittenStep ==
  KeptInv /\ AllCarriedOut /\ Giving /\ TrueMeansWritten /\ [DriverNext]_allVars => TrueMeansWritten'
<1> SUFFICES ASSUME KeptInv, AllCarriedOut, Giving, TrueMeansWritten, [DriverNext]_allVars
             PROVE  TrueMeansWritten'
  OBVIOUS
<1>1. \A k \in DOMAIN returned : returned[k] = "true" => WrittenBy(k) BY WrittenUnfolds
<1>2. SUFFICES \A k \in DOMAIN returned' : returned'[k] = "true" => WrittenBy(k)'
  BY DEF TrueMeansWritten, WrittenBy, SettingsCount
<1>3. CASE returned' = returned BY <1>1, <1>3, WrittenStays
<1>4. CASE Finish
  <2>1. /\ returned' = Append(returned, Outcome) /\ Outcome \in {"true", "false"}
        /\ Len(returned') = Len(asked) /\ UNCHANGED <<vars, asked, at, payload, settings, reported>>
    BY <1>4, FinishShape DEF KeptInv, PromptDriverInv
  <2>2. returned \in Seq({"true", "false"}) BY DEF KeptInv, PromptDriverInv, DriverInv, Counts
  <2>. HIDE DEF Outcome
  <2>3. /\ DOMAIN returned' = 1..(Len(returned) + 1) /\ Len(returned) \in Nat
        /\ Len(asked) = Len(returned) + 1
        /\ returned'[Len(returned) + 1] = Outcome
        /\ \A k \in 1..Len(returned) : returned'[k] = returned[k]
        /\ DOMAIN returned = 1..Len(returned)
    BY <2>1, <2>2
  <2>4. ASSUME Outcome = "true" PROVE WrittenBy(Len(asked))'
    <3>1. task = asked[Len(asked)] /\ Len(asked) \in Nat BY <2>3 DEF task, Last
    <3>2. UNCHANGED <<family, asked, settings, Delivered(Len(asked))>>
      BY <2>1 DEF vars, callerVars, wireVars, Delivered
    <3>3. SettingsCount(family, task.name) => \A s \in Own(task.name) : settings[s] = Len(asked)
      BY <1>4, <2>4, SettingsWritten
    <3>4. /\ task.name \in UpdateNames => Delivered(Len(asked)) = Whole(task.size)
          /\ task.name \in FixNames \ {"fix.459"} /\ task.declared <= task.size =>
               Delivered(Len(asked)) = Whole(task.size)
      BY <1>4, <2>4, FileWritten, NamesDiffer DEF Sending, FixNames
    <3>5. WrittenBy(Len(asked)) BY <3>1, <3>3, <3>4 DEF WrittenBy
    <3>. QED BY <3>2, <3>5 DEF WrittenBy
  <2>5. ASSUME NEW k \in DOMAIN returned', returned'[k] = "true" PROVE WrittenBy(k)'
    <3>1. CASE k \in 1..Len(returned) BY <1>1, <2>3, <2>5, <3>1, WrittenStays
    <3>2. CASE k = Len(returned) + 1
      <4>1. k = Len(asked) /\ Outcome = "true" BY <2>3, <2>5, <3>2
      <4>2. UNCHANGED asked BY <2>1
      <4>. QED BY <2>4, <4>1, <4>2
    <3>. QED BY <2>3, <3>1, <3>2
  <2>. QED BY <2>5
<1>5. Finish \/ returned' = returned
  <2>1. CASE Ask \/ Done \/ UNCHANGED allVars BY <2>1 DEF Ask, Done, allVars, driverVars
  <2>2. CASE NextExchange BY <2>2 DEF NextExchange
  <2>3. CASE Obey BY <2>3 DEF Obey, driverVars
  <2>4. CASE Exchange BY <2>4 DEF Exchange, driverVars
  <2>. QED BY <2>1, <2>2, <2>3, <2>4 DEF DriverNext
<1>. QED BY <1>3, <1>4, <1>5

\* When replies are prompt and no request is refused, TRUE means that the lidar has
\* it all: the settings asked for, the laser on, the whole image in its order, every
\* register of the file, whatever the length of the image and of the chunks, the
\* registers a file declares and holds, and the size of the blocks.
THEOREM TrueMeansWrittenAlways ==
  ASSUME Prompt, EveryBuilderLowers, "refuse" \notin Faults
  PROVE  DriverSpec => []TrueMeansWritten
<1>1. DriverInit => AllCarriedOut /\ Giving /\ TrueMeansWritten
  <2> SUFFICES ASSUME DriverInit PROVE AllCarriedOut /\ Giving /\ TrueMeansWritten OBVIOUS
  <2>1. answered = {} /\ done = {} /\ returned = <<>> /\ asked = <<>> BY DEF DriverInit, Init
  <2>2. DOMAIN returned = {} /\ ~Working BY <2>1 DEF Working
  <2>. QED BY <2>1, <2>2 DEF AllCarriedOut, Giving, TrueMeansWritten
<1>2. AllCarriedOut /\ [DriverNext]_allVars => AllCarriedOut'
  BY StepProjects, AllCarriedOutStep
<1>. QED BY <1>1, <1>2, GivingStep, TrueMeansWrittenStep, KeptInvariant, PTL DEF DriverSpec
=============================================================================
