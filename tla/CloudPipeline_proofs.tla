------------------------ MODULE CloudPipeline_proofs ------------------------
(***************************************************************************)
(* Theorems about CloudPipeline for any chains, destinations and messages. *)
(*                                                                         *)
(* Ownership of buffers is a fact about five values of one chain - its two *)
(* queues, the number of buffers made, and the buffers its two threads     *)
(* hold - so it is stated as a predicate of those values and shown to be   *)
(* kept by each of the five ways a buffer changes hands.  The inductive    *)
(* invariant then has three independent parts: the chains, the device      *)
(* information, and stop().                                                *)
(*                                                                         *)
(* Last, CloudPipeline implements CloudDelivery.  The buffers of a chain   *)
(* that wait hold consecutive messages, the last one the message published *)
(* last; the buffer being sent holds the one before them, and destinations *)
(* before procDst have been given it.  That a waiting buffer keeps its     *)
(* message while the driver fills another one is what ownership is for.    *)
(***************************************************************************)
EXTENDS CloudPipeline, TLAPS

\* q is a sequence of buffers, none beyond the a-th.
Within(q, a) == q \in Seq(Nat) /\ \A i \in DOMAIN q : q[i] \in 1..a

\* Queues f and m, a buffers made, the driver holding d and the processing
\* thread p: every buffer 1..a is counted in one place, and no place twice.
Owned(f, m, a, d, p) ==
  /\ a \in Nat /\ d \in 0..a /\ p \in 0..a
  /\ Within(f, a) /\ Within(m, a)
  /\ Distinct(f) /\ Distinct(m) /\ Apart(f, m)
  /\ d # NoBuf => Outside(d, f) /\ Outside(d, m) /\ d # p
  /\ p # NoBuf => Outside(p, f) /\ Outside(p, m)
  /\ a = Len(f) + Len(m) + Held(d) + Held(p)

\* Removing the first buffer of a queue leaves the others in order.
LEMMA TailOfQueue ==
  ASSUME NEW q \in Seq(Nat), q # <<>>
  PROVE  /\ Head(q) = q[1] /\ 1 \in DOMAIN q
         /\ Tail(q) \in Seq(Nat)
         /\ Len(Tail(q)) = Len(q) - 1
         /\ DOMAIN q = 1..Len(q) /\ DOMAIN Tail(q) = 1..(Len(q) - 1)
         /\ \A i \in DOMAIN Tail(q) : i + 1 \in DOMAIN q /\ Tail(q)[i] = q[i + 1]
OBVIOUS

\* Adding a buffer to a queue leaves the others where they were.
LEMMA AppendToQueue ==
  ASSUME NEW q \in Seq(Nat), NEW b \in Nat
  PROVE  /\ Append(q, b) \in Seq(Nat)
         /\ Len(Append(q, b)) = Len(q) + 1
         /\ DOMAIN q = 1..Len(q) /\ DOMAIN Append(q, b) = 1..(Len(q) + 1)
         /\ \A i \in DOMAIN q : Append(q, b)[i] = q[i]
         /\ Append(q, b)[Len(q) + 1] = b
OBVIOUS

\* What is left of a queue without its first buffer.
LEMMA TailOwned ==
  ASSUME NEW q, NEW a \in Nat, Within(q, a), Distinct(q), q # <<>>
  PROVE  /\ Within(Tail(q), a) /\ Distinct(Tail(q))
         /\ Head(q) \in 1..a /\ Outside(Head(q), Tail(q))
         /\ Len(Tail(q)) = Len(q) - 1 /\ Len(q) \in Nat
         /\ \A b : Outside(b, q) => Outside(b, Tail(q)) /\ Head(q) # b
         /\ \A r : Apart(q, r) => Apart(Tail(q), r) /\ Outside(Head(q), r)
         /\ \A r : Apart(r, q) => Apart(r, Tail(q)) /\ Outside(Head(q), r)
<1>1. q \in Seq(Nat) BY DEF Within
<1>2. /\ Head(q) = q[1] /\ 1 \in DOMAIN q
      /\ Tail(q) \in Seq(Nat)
      /\ Len(Tail(q)) = Len(q) - 1
      /\ DOMAIN q = 1..Len(q) /\ DOMAIN Tail(q) = 1..(Len(q) - 1)
      /\ \A i \in DOMAIN Tail(q) : i + 1 \in DOMAIN q /\ Tail(q)[i] = q[i + 1]
  BY <1>1, TailOfQueue
<1>3. Within(Tail(q), a) /\ Head(q) \in 1..a BY <1>2 DEF Within
<1>4. Distinct(Tail(q)) /\ Outside(Head(q), Tail(q))
  <2>1. \A i \in DOMAIN Tail(q) : i \in Nat /\ i # 0 /\ i + 1 # 1
    BY <1>1, <1>2
  <2>2. ASSUME NEW i \in DOMAIN Tail(q), NEW j \in DOMAIN Tail(q), Tail(q)[i] = Tail(q)[j]
        PROVE  i = j
    <3>1. q[i + 1] = q[j + 1] /\ i + 1 \in DOMAIN q /\ j + 1 \in DOMAIN q BY <1>2, <2>2
    <3>2. i + 1 = j + 1 BY <3>1 DEF Distinct
    <3>. QED BY <2>1, <3>2
  <2>3. ASSUME NEW i \in DOMAIN Tail(q) PROVE Tail(q)[i] # Head(q)
    <3>1. i + 1 \in DOMAIN q /\ Tail(q)[i] = q[i + 1] BY <1>2
    <3>. QED BY <1>2, <2>1, <3>1 DEF Distinct
  <2>. QED BY <2>2, <2>3 DEF Distinct, Outside
<1>5. \A b : Outside(b, q) => Outside(b, Tail(q)) /\ Head(q) # b
  BY <1>2 DEF Outside
<1>6. \A r : Apart(q, r) => Apart(Tail(q), r) /\ Outside(Head(q), r)
  BY <1>2 DEF Outside, Apart
<1>7. \A r : Apart(r, q) => Apart(r, Tail(q)) /\ Outside(Head(q), r)
  BY <1>2 DEF Outside, Apart
<1>. QED BY <1>1, <1>2, <1>3, <1>4, <1>5, <1>6, <1>7

\* What becomes of a queue that is given a buffer it does not hold.
LEMMA AppendOwned ==
  ASSUME NEW q, NEW a \in Nat, NEW b \in 1..a, Within(q, a), Distinct(q), Outside(b, q)
  PROVE  /\ Within(Append(q, b), a) /\ Distinct(Append(q, b))
         /\ Len(Append(q, b)) = Len(q) + 1 /\ Len(q) \in Nat
         /\ \A e : Outside(e, q) /\ e # b => Outside(e, Append(q, b))
         /\ \A r : Apart(q, r) /\ Outside(b, r) => Apart(Append(q, b), r)
         /\ \A r : Apart(r, q) /\ Outside(b, r) => Apart(r, Append(q, b))
<1>1. q \in Seq(Nat) /\ b \in Nat BY DEF Within
<1>2. /\ Append(q, b) \in Seq(Nat)
      /\ Len(Append(q, b)) = Len(q) + 1
      /\ DOMAIN q = 1..Len(q) /\ DOMAIN Append(q, b) = 1..(Len(q) + 1)
      /\ \A i \in DOMAIN q : Append(q, b)[i] = q[i]
      /\ Append(q, b)[Len(q) + 1] = b
  BY <1>1, AppendToQueue
<1>3. \A i \in DOMAIN Append(q, b) : i \in DOMAIN q \/ i = Len(q) + 1
  BY <1>1, <1>2
<1>4. Within(Append(q, b), a) BY <1>2, <1>3 DEF Within
<1>5. Distinct(Append(q, b)) BY <1>2, <1>3 DEF Distinct, Outside
<1>6. \A e : Outside(e, q) /\ e # b => Outside(e, Append(q, b))
  BY <1>2, <1>3 DEF Outside
<1>7. \A r : Apart(q, r) /\ Outside(b, r) => Apart(Append(q, b), r)
  BY <1>2, <1>3 DEF Outside, Apart
<1>8. \A r : Apart(r, q) /\ Outside(b, r) => Apart(r, Append(q, b))
  BY <1>2, <1>3 DEF Outside, Apart
<1>. QED BY <1>1, <1>2, <1>4, <1>5, <1>6, <1>7, <1>8

\* The driver takes a recycled buffer.
LEMMA TakeFree ==
  ASSUME NEW f, NEW m, NEW a, NEW p, Owned(f, m, a, NoBuf, p), f # <<>>
  PROVE  Owned(Tail(f), m, a, Head(f), p)
<1>1. /\ a \in Nat /\ p \in 0..a /\ Within(f, a) /\ Within(m, a)
      /\ Distinct(f) /\ Distinct(m) /\ Apart(f, m)
      /\ p # NoBuf => Outside(p, f) /\ Outside(p, m)
      /\ a = Len(f) + Len(m) + Held(NoBuf) + Held(p)
  BY DEF Owned
<1>2. /\ Within(Tail(f), a) /\ Distinct(Tail(f))
      /\ Head(f) \in 1..a /\ Outside(Head(f), Tail(f))
      /\ Len(Tail(f)) = Len(f) - 1 /\ Len(f) \in Nat
      /\ \A b : Outside(b, f) => Outside(b, Tail(f)) /\ Head(f) # b
      /\ \A r : Apart(f, r) => Apart(Tail(f), r) /\ Outside(Head(f), r)
  BY <1>1, TailOwned
<1>3. Apart(Tail(f), m) /\ Outside(Head(f), m) BY <1>1, <1>2
<1>4. p # NoBuf => Outside(p, Tail(f)) /\ Head(f) # p BY <1>1, <1>2
<1>5. Head(f) # NoBuf /\ Held(NoBuf) = 0 /\ Held(Head(f)) = 1 /\ Held(p) \in Nat
  BY <1>2 DEF NoBuf, Held
<1>6. Len(m) \in Nat BY <1>1 DEF Within
<1>7. a = Len(Tail(f)) + Len(m) + Held(Head(f)) + Held(p) BY <1>1, <1>2, <1>5, <1>6
<1>8. Head(f) \in 0..a BY <1>1, <1>2
<1>. QED BY <1>1, <1>2, <1>3, <1>4, <1>5, <1>7, <1>8 DEF Owned

\* The driver makes a buffer because none is free.
LEMMA TakeNew ==
  ASSUME NEW m, NEW a, NEW p, Owned(<<>>, m, a, NoBuf, p)
  PROVE  Owned(<<>>, m, a + 1, a + 1, p)
<1>1. /\ a \in Nat /\ p \in 0..a /\ Within(m, a) /\ Distinct(m)
      /\ p # NoBuf => Outside(p, m)
      /\ a = Len(<<>>) + Len(m) + Held(NoBuf) + Held(p)
  BY DEF Owned
<1>2. Within(m, a + 1) /\ Outside(a + 1, m) BY <1>1 DEF Within, Outside
<1>3. a + 1 # NoBuf /\ a + 1 # p /\ a + 1 \in Nat /\ a + 1 \in 0..(a + 1) /\ p \in 0..(a + 1)
  BY <1>1 DEF NoBuf
<1>4. /\ Within(<<>>, a + 1) /\ Distinct(<<>>) /\ Apart(<<>>, m)
      /\ Outside(a + 1, <<>>) /\ Outside(p, <<>>)
  BY DEF Within, Distinct, Apart, Outside
<1>5. Held(NoBuf) = 0 /\ Held(a + 1) = 1 /\ Held(p) \in Nat /\ Len(m) \in Nat /\ Len(<<>>) = 0
  BY <1>1, <1>3 DEF Held, Within
<1>6. a + 1 = Len(<<>>) + Len(m) + Held(a + 1) + Held(p) BY <1>1, <1>5
<1>. QED BY <1>1, <1>2, <1>3, <1>4, <1>6 DEF Owned

\* The driver hands its buffer over.
LEMMA HandOver ==
  ASSUME NEW f, NEW m, NEW a, NEW d, NEW p, Owned(f, m, a, d, p), d # NoBuf
  PROVE  Owned(f, Append(m, d), a, NoBuf, p)
<1>1. /\ a \in Nat /\ d \in 0..a /\ p \in 0..a /\ Within(f, a) /\ Within(m, a)
      /\ Distinct(f) /\ Distinct(m) /\ Apart(f, m)
      /\ Outside(d, f) /\ Outside(d, m) /\ d # p
      /\ p # NoBuf => Outside(p, f) /\ Outside(p, m)
      /\ a = Len(f) + Len(m) + Held(d) + Held(p)
  BY DEF Owned
<1>2. d \in 1..a /\ NoBuf \in 0..a BY <1>1 DEF NoBuf
<1>3. /\ Within(Append(m, d), a) /\ Distinct(Append(m, d))
      /\ Len(Append(m, d)) = Len(m) + 1 /\ Len(m) \in Nat
      /\ \A e : Outside(e, m) /\ e # d => Outside(e, Append(m, d))
      /\ \A r : Apart(r, m) /\ Outside(d, r) => Apart(r, Append(m, d))
  BY <1>1, <1>2, AppendOwned
<1>4. Apart(f, Append(m, d)) BY <1>1, <1>3
<1>5. p # NoBuf => Outside(p, Append(m, d)) BY <1>1, <1>3
<1>6. Held(d) = 1 /\ Held(NoBuf) = 0 /\ Held(p) \in Nat /\ Len(f) \in Nat
  BY <1>1 DEF Held, Within
<1>7. a = Len(f) + Len(Append(m, d)) + Held(NoBuf) + Held(p) BY <1>1, <1>3, <1>6
<1>. QED BY <1>1, <1>2, <1>3, <1>4, <1>5, <1>7 DEF Owned

\* The processing thread takes the oldest message.
LEMMA TakeMessage ==
  ASSUME NEW f, NEW m, NEW a, NEW d, Owned(f, m, a, d, NoBuf), m # <<>>
  PROVE  Owned(f, Tail(m), a, d, Head(m)) /\ Head(m) # NoBuf
<1>1. /\ a \in Nat /\ d \in 0..a /\ Within(f, a) /\ Within(m, a)
      /\ Distinct(f) /\ Distinct(m) /\ Apart(f, m)
      /\ d # NoBuf => Outside(d, f) /\ Outside(d, m)
      /\ a = Len(f) + Len(m) + Held(d) + Held(NoBuf)
  BY DEF Owned
<1>2. /\ Within(Tail(m), a) /\ Distinct(Tail(m))
      /\ Head(m) \in 1..a /\ Outside(Head(m), Tail(m))
      /\ Len(Tail(m)) = Len(m) - 1 /\ Len(m) \in Nat
      /\ \A b : Outside(b, m) => Outside(b, Tail(m)) /\ Head(m) # b
      /\ \A r : Apart(r, m) => Apart(r, Tail(m)) /\ Outside(Head(m), r)
  BY <1>1, TailOwned
<1>3. Apart(f, Tail(m)) /\ Outside(Head(m), f) BY <1>1, <1>2
<1>4. d # NoBuf => Outside(d, Tail(m)) /\ d # Head(m) BY <1>1, <1>2
<1>5. Head(m) # NoBuf /\ Held(NoBuf) = 0 /\ Held(Head(m)) = 1 /\ Held(d) \in Nat /\ Len(f) \in Nat
  BY <1>1, <1>2 DEF NoBuf, Held, Within
<1>6. a = Len(f) + Len(Tail(m)) + Held(d) + Held(Head(m)) BY <1>1, <1>2, <1>5
<1>7. Head(m) \in 0..a BY <1>1, <1>2
<1>. QED BY <1>1, <1>2, <1>3, <1>4, <1>5, <1>6, <1>7 DEF Owned

\* The processing thread recycles its buffer.
LEMMA Recycle ==
  ASSUME NEW f, NEW m, NEW a, NEW d, NEW p, Owned(f, m, a, d, p), p # NoBuf
  PROVE  Owned(Append(f, p), m, a, d, NoBuf)
<1>1. /\ a \in Nat /\ d \in 0..a /\ p \in 0..a /\ Within(f, a) /\ Within(m, a)
      /\ Distinct(f) /\ Distinct(m) /\ Apart(f, m)
      /\ d # NoBuf => Outside(d, f) /\ Outside(d, m) /\ d # p
      /\ Outside(p, f) /\ Outside(p, m)
      /\ a = Len(f) + Len(m) + Held(d) + Held(p)
  BY DEF Owned
<1>2. p \in 1..a /\ NoBuf \in 0..a BY <1>1 DEF NoBuf
<1>3. /\ Within(Append(f, p), a) /\ Distinct(Append(f, p))
      /\ Len(Append(f, p)) = Len(f) + 1 /\ Len(f) \in Nat
      /\ \A e : Outside(e, f) /\ e # p => Outside(e, Append(f, p))
      /\ \A r : Apart(f, r) /\ Outside(p, r) => Apart(Append(f, p), r)
  BY <1>1, <1>2, AppendOwned
<1>4. Apart(Append(f, p), m) BY <1>1, <1>3
<1>5. d # NoBuf => Outside(d, Append(f, p)) /\ d # NoBuf BY <1>1, <1>3
<1>6. Held(p) = 1 /\ Held(NoBuf) = 0 /\ Held(d) \in Nat /\ Len(m) \in Nat
  BY <1>1 DEF Held, Within
<1>7. a = Len(Append(f, p)) + Len(m) + Held(d) + Held(NoBuf) BY <1>1, <1>3, <1>6
<1>. QED BY <1>1, <1>2, <1>3, <1>4, <1>5, <1>7 DEF Owned

-----------------------------------------------------------------------------
(* The inductive invariant *)

\* Every buffer of chain c has one owner; no more buffers wait or are being
\* sent than were put, which bounds the pool by MaxMsgs; the processing thread
\* holds a buffer just while it sends, the driver only for a message to come.
ChainInv(c) ==
  /\ Owned(freeQ[c], msgQ[c], allocated[c], drvBuf[c], procBuf[c])
  /\ Len(msgQ[c]) + Held(procBuf[c]) <= published[c]
  /\ procPc[c] = "send" <=> procBuf[c] # NoBuf
  /\ drvBuf[c] # NoBuf => published[c] < MaxMsgs

Chains == \A c \in Chain : ChainInv(c)

\* Destinations below infoDst have been given the information, once; it exists
\* only after every destination is registered.
InfoInv ==
  /\ \A d \in Dst : infoSent[d] = IF d < infoDst THEN 1 ELSE 0
  /\ infoPc \in {"check", "poll"} => infoDst = 1
  /\ infoPc = "send" => difop
  /\ infoPc = "done" /\ infoDst > 1 => infoDst = NDst + 1
  /\ difop => driver # "created"
  /\ driver # "created" => nReg = NDst

\* The threads joined so far have ended, and stop() returns having joined all.
StopInv ==
  /\ stopPc # "idle" => driver = "stopped"
  /\ \A i \in 1..nJoined : ThreadDone(JoinOrder[i])
  /\ stopPc \in {"returned", "terminated"} => nJoined = Len(JoinOrder)

IInv == TypeOK /\ Chains /\ InfoInv /\ StopInv

-----------------------------------------------------------------------------
(* Buffers *)

\* A step of another chain, or of no chain, leaves a chain's buffers alone.
LEMMA OtherChain ==
  ASSUME NEW c \in Chain, ChainInv(c),
         /\ freeQ'[c] = freeQ[c] /\ msgQ'[c] = msgQ[c]
         /\ allocated'[c] = allocated[c] /\ drvBuf'[c] = drvBuf[c]
         /\ procBuf'[c] = procBuf[c] /\ published'[c] = published[c]
         /\ procPc'[c] = procPc[c] \/ (procPc[c] # "send" /\ procPc'[c] # "send")
  PROVE  ChainInv(c)'
BY DEF ChainInv

\* The driver takes a buffer, recycled or new.
LEMMA ChainGet ==
  ASSUME TypeOK, NEW c \in Chain, ChainInv(c), NEW e \in Chain, getBuffer(e)
  PROVE  ChainInv(c)'
<1>. USE DEF chainVars, procVars
<1>1. CASE c # e
  BY <1>1, OtherChain DEF TypeOK, ChainTypes, ProcTypes, getBuffer, TakeBuffer
<1>2. CASE c = e /\ freeQ[e] # <<>>
  <2>1. /\ freeQ'[c] = Tail(freeQ[c]) /\ drvBuf'[c] = Head(freeQ[c])
        /\ UNCHANGED <<allocated, msgQ, procBuf, published, procPc>>
    BY <1>2 DEF TypeOK, ChainTypes, ProcTypes, getBuffer, TakeBuffer
  <2>2. Owned(freeQ[c], msgQ[c], allocated[c], NoBuf, procBuf[c]) /\ published[c] < MaxMsgs
    BY <1>2 DEF getBuffer, ChainInv
  <2>. QED BY <1>2, <2>1, <2>2, TakeFree DEF ChainInv
<1>3. CASE c = e /\ freeQ[e] = <<>>
  <2>1. /\ allocated'[c] = allocated[c] + 1 /\ drvBuf'[c] = allocated[c] + 1
        /\ UNCHANGED <<freeQ, msgQ, procBuf, published, procPc>>
    BY <1>3 DEF TypeOK, ChainTypes, ProcTypes, getBuffer, TakeBuffer
  <2>2. Owned(<<>>, msgQ[c], allocated[c], NoBuf, procBuf[c]) /\ published[c] < MaxMsgs
    BY <1>3 DEF getBuffer, ChainInv
  <2>. QED BY <1>3, <2>1, <2>2, TakeNew DEF ChainInv
<1>. QED BY <1>1, <1>2, <1>3

\* The driver puts the buffer it has filled.
LEMMA ChainPut ==
  ASSUME TypeOK, NEW c \in Chain, ChainInv(c), NEW e \in Chain, putBuffer(e)
  PROVE  ChainInv(c)'
<1>. USE DEF chainVars, procVars
<1>1. CASE c # e
  BY <1>1, OtherChain DEF TypeOK, ChainTypes, ProcTypes, putBuffer
<1>2. CASE c = e
  <2>1. /\ msgQ'[c] = Append(msgQ[c], drvBuf[c]) /\ drvBuf'[c] = NoBuf
        /\ published'[c] = published[c] + 1
        /\ UNCHANGED <<freeQ, allocated, procBuf, procPc>>
    BY <1>2 DEF TypeOK, ChainTypes, ProcTypes, putBuffer
  <2>2. Owned(freeQ[c], msgQ[c], allocated[c], drvBuf[c], procBuf[c]) /\ drvBuf[c] # NoBuf
    BY <1>2 DEF putBuffer, ChainInv
  <2>3. msgQ[c] \in Seq(Nat) /\ drvBuf[c] \in Nat /\ published[c] \in Nat
    BY <2>2 DEF Owned, Within, TypeOK, ChainTypes, ProcTypes
  <2>4. Len(msgQ'[c]) = Len(msgQ[c]) + 1 /\ Len(msgQ[c]) \in Nat
    BY <2>1, <2>3, AppendToQueue
  <2>5. Held(procBuf[c]) \in Nat BY DEF Held
  <2>6. Len(msgQ'[c]) + Held(procBuf[c]) <= published'[c]
    BY <2>1, <2>3, <2>4, <2>5 DEF ChainInv
  <2>. QED BY <2>1, <2>2, <2>6, HandOver DEF ChainInv
<1>. QED BY <1>1, <1>2

\* The processing thread takes a message, or finds none.
LEMMA ChainPop ==
  ASSUME TypeOK, NEW c \in Chain, ChainInv(c), NEW e \in Chain, ProcPop(e)
  PROVE  ChainInv(c)'
<1>1. CASE c # e \/ msgQ[e] = <<>>
  BY <1>1, OtherChain DEF TypeOK, ChainTypes, ProcTypes, ProcPop
<1>2. CASE c = e /\ msgQ[e] # <<>>
  <2>1. /\ msgQ'[c] = Tail(msgQ[c]) /\ procBuf'[c] = Head(msgQ[c]) /\ procPc'[c] = "send"
        /\ UNCHANGED <<freeQ, allocated, drvBuf, published>>
    BY <1>2 DEF TypeOK, ChainTypes, ProcTypes, ProcPop
  <2>2. procBuf[c] = NoBuf /\ Owned(freeQ[c], msgQ[c], allocated[c], drvBuf[c], NoBuf)
    BY <1>2 DEF ProcPop, ChainInv
  <2>3. Owned(freeQ[c], Tail(msgQ[c]), allocated[c], drvBuf[c], Head(msgQ[c])) /\ Head(msgQ[c]) # NoBuf
    BY <1>2, <2>2, TakeMessage
  <2>4. Len(Tail(msgQ[c])) = Len(msgQ[c]) - 1 /\ Len(msgQ[c]) \in Nat
    BY <1>2, <2>2, TailOfQueue DEF Owned, Within
  <2>5. published[c] \in Nat BY DEF TypeOK, ChainTypes, ProcTypes
  <2>6. Len(msgQ'[c]) + Held(procBuf'[c]) <= published'[c]
    BY <2>1, <2>2, <2>3, <2>4, <2>5 DEF ChainInv, Held
  <2>. QED BY <2>1, <2>3, <2>6 DEF ChainInv
<1>. QED BY <1>1, <1>2

\* The processing thread recycles the buffer it has sent.
LEMMA ChainRecycle ==
  ASSUME TypeOK, NEW c \in Chain, ChainInv(c), NEW e \in Chain, ProcRecycle(e)
  PROVE  ChainInv(c)'
<1>1. CASE c # e
  BY <1>1, OtherChain DEF TypeOK, ChainTypes, ProcTypes, ProcRecycle
<1>2. CASE c = e
  <2>1. /\ freeQ'[c] = Append(freeQ[c], procBuf[c]) /\ procBuf'[c] = NoBuf /\ procPc'[c] = "check"
        /\ UNCHANGED <<msgQ, allocated, drvBuf, published>>
    BY <1>2 DEF TypeOK, ChainTypes, ProcTypes, ProcRecycle
  <2>2. procBuf[c] # NoBuf BY <1>2 DEF ProcRecycle, ChainInv
  <2>3. Owned(freeQ'[c], msgQ'[c], allocated'[c], drvBuf'[c], procBuf'[c])
    BY <2>1, <2>2, Recycle DEF ChainInv
  <2>4. Len(msgQ[c]) \in Nat /\ published[c] \in Nat BY DEF TypeOK, ChainTypes, ProcTypes
  <2>5. Len(msgQ'[c]) + Held(procBuf'[c]) <= published'[c]
    BY <2>1, <2>2, <2>4 DEF ChainInv, Held
  <2>. QED BY <2>1, <2>3, <2>5 DEF ChainInv
<1>. QED BY <1>1, <1>2

\* Every step keeps every chain's buffers in order.
LEMMA ChainStep ==
  ASSUME TypeOK, Chains, [Next]_vars
  PROVE  Chains'
<1>. SUFFICES ASSUME NEW c \in Chain PROVE ChainInv(c)'
  BY DEF Chains
<1>. USE DEF chainVars, procVars, pollVars, ctlVars
<1>1. ChainInv(c) BY DEF Chains
<1>2. ASSUME UNCHANGED <<freeQ, msgQ, allocated, drvBuf, published, procPc, procBuf>>
      PROVE  ChainInv(c)'
  BY <1>1, <1>2, OtherChain
<1>3. ASSUME NEW e \in Chain, getBuffer(e) PROVE ChainInv(c)' BY <1>1, <1>3, ChainGet
<1>4. ASSUME NEW e \in Chain, Fill(e) PROVE ChainInv(c)' BY <1>2, <1>4 DEF Fill
<1>5. ASSUME NEW e \in Chain, putBuffer(e) PROVE ChainInv(c)' BY <1>1, <1>5, ChainPut
<1>6. ASSUME NEW e \in Chain, ProcCheck(e) PROVE ChainInv(c)'
  BY <1>1, <1>6, OtherChain DEF ProcCheck, TypeOK, ChainTypes, ProcTypes
<1>7. ASSUME NEW e \in Chain, ProcPop(e) PROVE ChainInv(c)' BY <1>1, <1>7, ChainPop
<1>8. ASSUME NEW e \in Chain, ProcSend(e) PROVE ChainInv(c)' BY <1>2, <1>8 DEF ProcSend
<1>9. ASSUME NEW e \in Chain, ProcRecycle(e) PROVE ChainInv(c)' BY <1>1, <1>9, ChainRecycle
<1>10. ASSUME regPointCloudCallback \/ start \/ DecodeDifop PROVE ChainInv(c)'
  BY <1>2, <1>10 DEF regPointCloudCallback, start, DecodeDifop
<1>11. ASSUME Temp \/ Info PROVE ChainInv(c)'
  BY <1>2, <1>11 DEF Temp, TempSleep, TempSend, Info, InfoCheck, InfoPoll, InfoSend
<1>12. ASSUME Stop PROVE ChainInv(c)'
  BY <1>2, <1>12 DEF Stop, StopDriver, SetExit, Join, JoinAgain
<1>13. ASSUME UNCHANGED vars PROVE ChainInv(c)' BY <1>2, <1>13 DEF vars
<1>. QED
  BY <1>3, <1>4, <1>5, <1>6, <1>7, <1>8, <1>9, <1>10, <1>11, <1>12, <1>13
  DEF Next, DriverStep, Proc, Ended

-----------------------------------------------------------------------------
(* Types *)

\* The pool never outgrows the messages put: a new buffer's id is in Buf.
LEMMA PoolBound ==
  ASSUME TypeOK, NEW c \in Chain, ChainInv(c), freeQ[c] = <<>>, drvBuf[c] = NoBuf,
         published[c] < MaxMsgs
  PROVE  allocated[c] + 1 \in Buf
<1>1. /\ allocated[c] \in Nat
      /\ allocated[c] = Len(<<>>) + Len(msgQ[c]) + Held(NoBuf) + Held(procBuf[c])
  BY DEF ChainInv, Owned
<1>2. Len(<<>>) = 0 /\ Len(msgQ[c]) \in Nat /\ published[c] \in Nat
  BY DEF TypeOK, ChainTypes, ProcTypes
<1>3. Held(NoBuf) = 0 /\ Held(procBuf[c]) \in Nat BY DEF Held
<1>4. allocated[c] <= published[c] BY <1>1, <1>2, <1>3 DEF ChainInv
<1>. QED BY <1>1, <1>2, <1>4, MaxMsgsAssumption DEF Buf

\* The driver's steps keep the types of the chains.
LEMMA TypeDriver ==
  ASSUME TypeOK, Chains, NEW c \in Chain, DriverStep(c)
  PROVE  ChainTypes'
<1>1. ChainTypes BY DEF TypeOK
<1>2. CASE getBuffer(c) /\ freeQ[c] # <<>>
  <2>1. Head(freeQ[c]) \in Buf /\ Tail(freeQ[c]) \in Seq(Buf) BY <1>1, <1>2 DEF ChainTypes
  <2>. QED BY <1>1, <1>2, <2>1 DEF getBuffer, TakeBuffer, ChainTypes
<1>3. CASE getBuffer(c) /\ freeQ[c] = <<>>
  <2>1. allocated[c] + 1 \in Buf BY <1>3, PoolBound DEF getBuffer, Chains
  <2>2. allocated[c] + 1 \in Nat BY <1>1 DEF ChainTypes
  <2>. QED BY <1>1, <1>3, <2>1, <2>2 DEF getBuffer, TakeBuffer, ChainTypes
<1>4. CASE Fill(c)
  <2>1. drvBuf[c] \in Buf /\ published[c] + 1 \in Nat
    BY <1>1, <1>4, MaxMsgsAssumption DEF Fill, ChainTypes
  <2>. QED BY <1>1, <1>4, <2>1 DEF Fill, ChainTypes
<1>5. CASE putBuffer(c)
  <2>1. drvBuf[c] \in Buf BY <1>1, <1>5 DEF putBuffer, ChainTypes
  <2>2. Append(msgQ[c], drvBuf[c]) \in Seq(Buf) BY <1>1, <2>1 DEF ChainTypes
  <2>3. published[c] < MaxMsgs BY <1>5 DEF putBuffer, Chains, ChainInv
  <2>4. published[c] + 1 \in 0..MaxMsgs BY <1>1, <2>3, MaxMsgsAssumption DEF ChainTypes
  <2>. QED BY <1>1, <1>5, <2>2, <2>4 DEF putBuffer, ChainTypes
<1>. QED BY <1>2, <1>3, <1>4, <1>5 DEF DriverStep, getBuffer

\* The processing threads' steps keep the types of the chains.
LEMMA TypeProc ==
  ASSUME TypeOK, Chains, NEW c \in Chain, Proc(c)
  PROVE  ChainTypes' /\ ProcTypes'
<1>1. ChainTypes /\ ProcTypes /\ nReg \in 0..NDst BY DEF TypeOK, CtlTypes
<1>2. CASE ProcCheck(c)
  BY <1>1, <1>2 DEF ProcCheck, chainVars, ChainTypes, ProcTypes
<1>3. CASE ProcPop(c)
  <2>1. msgQ[c] # <<>> => Head(msgQ[c]) \in Buf /\ Tail(msgQ[c]) \in Seq(Buf)
    BY <1>1 DEF ChainTypes
  <2>2. ChainTypes' BY <1>1, <1>3, <2>1 DEF ProcPop, ChainTypes
  <2>3. 1 \in 1..(NDst + 1) BY NDstAssumption
  <2>4. ProcTypes' BY <1>1, <1>3, <2>1, <2>3 DEF ProcPop, ProcTypes
  <2>. QED BY <2>2, <2>4
<1>4. CASE ProcSend(c)
  <2>1. procBuf[c] \in Buf BY <1>1, <1>4 DEF ProcSend, Chains, ChainInv, ProcTypes
  <2>2. procDst[c] \in Dst /\ procDst[c] + 1 \in 1..(NDst + 1)
    BY <1>1, <1>4, NDstAssumption DEF ProcSend, MoreDestinations, ProcTypes, Dst
  <2>3. content[c][procBuf[c]] \in Nat BY <1>1, <2>1 DEF ChainTypes
  <2>4. Append(delivered[c][procDst[c]], content[c][procBuf[c]]) \in Seq(Nat)
    BY <1>1, <2>2, <2>3 DEF ProcTypes
  <2>5. ProcTypes' BY <1>1, <1>4, <2>2, <2>4 DEF ProcSend, ProcTypes
  <2>. QED BY <1>1, <1>4, <2>5 DEF ProcSend, chainVars, ChainTypes
<1>5. CASE ProcRecycle(c)
  <2>1. procBuf[c] \in Buf BY <1>1, <1>5 DEF ProcRecycle, Chains, ChainInv, ProcTypes
  <2>2. Append(freeQ[c], procBuf[c]) \in Seq(Buf) BY <1>1, <2>1 DEF ChainTypes
  <2>3. ChainTypes' BY <1>1, <1>5, <2>2 DEF ProcRecycle, ChainTypes
  <2>4. ProcTypes' BY <1>1, <1>5 DEF ProcRecycle, ProcTypes
  <2>. QED BY <2>3, <2>4
<1>. QED BY <1>2, <1>3, <1>4, <1>5 DEF Proc

\* Every step keeps the types.
LEMMA TypeStep ==
  ASSUME TypeOK, Chains, [Next]_vars
  PROVE  TypeOK'
<1>1. ChainTypes /\ ProcTypes /\ PollTypes /\ CtlTypes BY DEF TypeOK
<1>2. ASSUME NEW c \in Chain, DriverStep(c) PROVE TypeOK'
  <2>1. ChainTypes' BY <1>2, TypeDriver
  <2>2. UNCHANGED <<procVars, pollVars, ctlVars>>
    BY <1>2 DEF DriverStep, getBuffer, Fill, putBuffer
  <2>. QED BY <1>1, <2>1, <2>2
       DEF TypeOK, ProcTypes, PollTypes, CtlTypes, procVars, pollVars, ctlVars
<1>3. ASSUME NEW c \in Chain, Proc(c) PROVE TypeOK'
  <2>1. ChainTypes' /\ ProcTypes' BY <1>3, TypeProc
  <2>2. UNCHANGED <<pollVars, ctlVars>>
    BY <1>3 DEF Proc, ProcCheck, ProcPop, ProcSend, ProcRecycle
  <2>. QED BY <1>1, <2>1, <2>2 DEF TypeOK, PollTypes, CtlTypes, pollVars, ctlVars
<1>4. ASSUME UNCHANGED <<chainVars, procVars>> PROVE ChainTypes' /\ ProcTypes'
  BY <1>1, <1>4 DEF ChainTypes, ProcTypes, chainVars, procVars
<1>5. ASSUME regPointCloudCallback \/ start \/ DecodeDifop PROVE TypeOK'
  <2>1. CtlTypes'
    <3>1. CASE regPointCloudCallback
      <4>1. nReg + 1 \in 0..NDst
        BY <1>1, <3>1, NDstAssumption DEF regPointCloudCallback, CtlTypes
      <4>. QED BY <1>1, <3>1, <4>1 DEF regPointCloudCallback, CtlTypes
    <3>2. CASE start \/ DecodeDifop BY <1>1, <3>2 DEF start, DecodeDifop, CtlTypes
    <3>. QED BY <1>5, <3>1, <3>2
  <2>2. UNCHANGED <<chainVars, procVars, pollVars>>
    BY <1>5 DEF regPointCloudCallback, start, DecodeDifop
  <2>. QED BY <1>1, <1>4, <2>1, <2>2 DEF TypeOK, PollTypes, pollVars
<1>6. ASSUME Temp \/ Info PROVE TypeOK'
  <2>1. PollTypes'
    <3>1. CASE InfoSend
      <4>1. infoDst <= nReg => infoDst \in Dst /\ infoDst + 1 \in 1..(NDst + 1)
        BY <1>1, NDstAssumption DEF PollTypes, CtlTypes, Dst
      <4>. QED BY <1>1, <3>1, <4>1 DEF InfoSend, PollTypes
    <3>2. CASE Temp \/ InfoCheck \/ InfoPoll
      BY <1>1, <3>2 DEF Temp, TempSleep, TempSend, InfoCheck, InfoPoll, PollTypes
    <3>. QED BY <1>6, <3>1, <3>2 DEF Info
  <2>2. UNCHANGED <<chainVars, procVars, ctlVars>>
    BY <1>6 DEF Temp, TempSleep, TempSend, Info, InfoCheck, InfoPoll, InfoSend
  <2>. QED BY <1>1, <1>4, <2>1, <2>2 DEF TypeOK, CtlTypes, ctlVars
<1>7. ASSUME Stop PROVE TypeOK'
  <2>1. Len(JoinOrder) \in Nat BY DEF JoinOrder
  <2>2. CtlTypes'
    <3>1. CASE StopDriver BY <1>1, <3>1 DEF StopDriver, CtlTypes
    <3>2. CASE SetExit BY <1>1, <3>2 DEF SetExit, CtlTypes
    <3>3. CASE Join
      <4>1. nJoined + 1 \in 0..Len(JoinOrder) BY <1>1, <2>1, <3>3 DEF Join, CtlTypes
      <4>. QED BY <1>1, <3>3, <4>1 DEF Join, CtlTypes
    <3>4. CASE JoinAgain BY <1>1, <3>4 DEF JoinAgain, CtlTypes
    <3>. QED BY <1>7, <3>1, <3>2, <3>3, <3>4 DEF Stop
  <2>3. UNCHANGED <<chainVars, procVars, pollVars>>
    BY <1>7 DEF Stop, StopDriver, SetExit, Join, JoinAgain
  <2>. QED BY <1>1, <1>4, <2>2, <2>3 DEF TypeOK, PollTypes, pollVars
<1>8. ASSUME UNCHANGED vars PROVE TypeOK'
  BY <1>1, <1>4, <1>8
  DEF vars, TypeOK, PollTypes, CtlTypes, pollVars, ctlVars
<1>. QED BY <1>2, <1>3, <1>5, <1>6, <1>7, <1>8 DEF Next, Ended

-----------------------------------------------------------------------------
(* Device information *)

\* Every step keeps InfoInv.
LEMMA InfoStep ==
  ASSUME TypeOK, InfoInv, [Next]_vars
  PROVE  InfoInv'
<1>1. /\ nReg \in 0..NDst /\ infoDst \in 1..(NDst + 1) /\ infoSent \in [Dst -> Nat]
      /\ infoPc \in {"check", "poll", "send", "done"}
  BY DEF TypeOK, PollTypes, CtlTypes
<1>2. ASSUME UNCHANGED <<infoPc, infoDst, infoSent, nReg, driver, difop>> PROVE InfoInv'
  BY <1>2 DEF InfoInv
<1>3. ASSUME NEW c \in Chain, DriverStep(c) \/ Proc(c) PROVE InfoInv'
  BY <1>2, <1>3
  DEF DriverStep, getBuffer, Fill, putBuffer, Proc, ProcCheck, ProcPop, ProcSend, ProcRecycle,
      pollVars, ctlVars
<1>4. CASE regPointCloudCallback
  BY <1>1, <1>4 DEF regPointCloudCallback, pollVars, InfoInv
<1>5. CASE start BY <1>5 DEF start, MayStart, pollVars, InfoInv
<1>6. CASE DecodeDifop BY <1>6 DEF DecodeDifop, pollVars, InfoInv
<1>7. CASE Temp BY <1>2, <1>7 DEF Temp, TempSleep, TempSend, ctlVars
<1>8. CASE InfoCheck BY <1>8 DEF InfoCheck, ctlVars, InfoInv
<1>9. CASE InfoPoll BY <1>9 DEF InfoPoll, ctlVars, InfoInv
<1>10. CASE InfoSend
  <2>1. nReg = NDst /\ difop BY <1>10 DEF InfoSend, InfoInv
  <2>2. CASE infoDst <= nReg
    <3>1. /\ infoSent' = [infoSent EXCEPT ![infoDst] = @ + 1] /\ infoDst' = infoDst + 1
          /\ infoPc = "send" /\ UNCHANGED <<infoPc, nReg, driver, difop>>
      BY <1>10, <2>2 DEF InfoSend, ctlVars
    <3>2. infoDst \in Dst /\ infoSent[infoDst] = 0 BY <1>1, <2>1, <2>2 DEF Dst, InfoInv
    <3>3. ASSUME NEW d \in Dst PROVE infoSent'[d] = IF d < infoDst' THEN 1 ELSE 0
      <4>1. infoSent[d] = IF d < infoDst THEN 1 ELSE 0 BY DEF InfoInv
      <4>2. d \in Nat /\ infoDst \in Nat BY <1>1 DEF Dst
      <4>3. CASE d = infoDst BY <1>1, <3>1, <3>2, <4>2, <4>3
      <4>4. CASE d # infoDst
        <5>1. infoSent'[d] = infoSent[d] BY <1>1, <3>1, <4>4
        <5>2. d < infoDst <=> d < infoDst + 1 BY <4>2, <4>4
        <5>. QED BY <3>1, <4>1, <5>1, <5>2
      <4>. QED BY <4>3, <4>4
    <3>. QED BY <3>1, <3>3 DEF InfoInv
  <2>3. CASE ~(infoDst <= nReg)
    <3>1. infoDst = NDst + 1 BY <1>1, <2>1, <2>3, NDstAssumption
    <3>2. infoPc' = "done" /\ UNCHANGED <<infoSent, infoDst, nReg, driver, difop>>
      BY <1>10, <2>3 DEF InfoSend, ctlVars
    <3>. QED BY <3>1, <3>2 DEF InfoInv
  <2>. QED BY <2>2, <2>3
<1>11. CASE StopDriver BY <1>11 DEF StopDriver, pollVars, InfoInv
<1>12. CASE SetExit \/ Join \/ JoinAgain
  BY <1>2, <1>12 DEF SetExit, Join, JoinAgain, pollVars
<1>13. CASE UNCHANGED vars BY <1>2, <1>13 DEF vars, pollVars, ctlVars
<1>. QED
  BY <1>3, <1>4, <1>5, <1>6, <1>7, <1>8, <1>9, <1>10, <1>11, <1>12, <1>13
  DEF Next, Info, Stop, Ended

-----------------------------------------------------------------------------
(* stop *)

\* The threads of the source.
Thread == Chain \cup {"temperature", "deviceInfo"}

\* stop() joins every thread.
LEMMA JoinsEveryThread ==
  /\ Len(JoinOrder) \in Nat
  /\ \A i \in 1..Len(JoinOrder) : JoinOrder[i] \in Thread
  /\ \A t \in Thread : \E i \in 1..Len(JoinOrder) : JoinOrder[i] = t
<1>1. CASE "imu" \in Chain
  <2>1. /\ Len(JoinOrder) = 4 /\ JoinOrder[1] = "cloud" /\ JoinOrder[2] = "imu"
        /\ JoinOrder[3] = "temperature" /\ JoinOrder[4] = "deviceInfo"
    BY <1>1 DEF JoinOrder
  <2>2. 1..4 = {1, 2, 3, 4} OBVIOUS
  <2>. QED BY <1>1, <2>1, <2>2, ChainAssumption DEF Thread
<1>2. CASE "imu" \notin Chain
  <2>1. /\ Len(JoinOrder) = 3 /\ JoinOrder[1] = "cloud"
        /\ JoinOrder[2] = "temperature" /\ JoinOrder[3] = "deviceInfo"
    BY <1>2 DEF JoinOrder
  <2>2. 1..3 = {1, 2, 3} OBVIOUS
  <2>. QED BY <1>2, <2>1, <2>2, ChainAssumption DEF Thread
<1>. QED BY <1>1, <1>2

\* A thread whose function has returned does nothing any more.
LEMMA ThreadStaysDone ==
  ASSUME TypeOK, [Next]_vars, NEW t \in Thread, ThreadDone(t)
  PROVE  ThreadDone(t)'
<1>1. t \in Chain => t # "temperature" /\ t # "deviceInfo" BY ChainAssumption
<1>2. procPc \in [Chain -> {"check", "pop", "send", "done"}] BY DEF TypeOK, ProcTypes
<1>3. ASSUME tempPc = "done" PROVE tempPc' = "done"
  BY <1>3
  DEF Next, vars, regPointCloudCallback, start, DecodeDifop, DriverStep, getBuffer, Fill, putBuffer,
      Proc, ProcCheck, ProcPop, ProcSend, ProcRecycle, Temp, TempSleep, TempSend, Info, InfoCheck,
      InfoPoll, InfoSend, Stop, StopDriver, SetExit, Join, JoinAgain, Ended, pollVars
<1>4. ASSUME infoPc = "done" PROVE infoPc' = "done"
  BY <1>4
  DEF Next, vars, regPointCloudCallback, start, DecodeDifop, DriverStep, getBuffer, Fill, putBuffer,
      Proc, ProcCheck, ProcPop, ProcSend, ProcRecycle, Temp, TempSleep, TempSend, Info, InfoCheck,
      InfoPoll, InfoSend, Stop, StopDriver, SetExit, Join, JoinAgain, Ended, pollVars
<1>5. ASSUME t \in Chain, procPc[t] = "done" PROVE procPc'[t] = "done"
  <2>1. ASSUME NEW c \in Chain, Proc(c) PROVE procPc'[t] = "done"
    BY <1>2, <1>5, <2>1 DEF Proc, ProcCheck, ProcPop, ProcSend, ProcRecycle
  <2>. QED BY <1>5, <2>1
       DEF Next, vars, regPointCloudCallback, start, DecodeDifop, DriverStep, getBuffer, Fill,
           putBuffer, Temp, TempSleep, TempSend, Info, InfoCheck, InfoPoll, InfoSend, Stop,
           StopDriver, SetExit, Join, JoinAgain, Ended, procVars
<1>6. CASE t = "temperature" BY <1>1, <1>3, <1>6 DEF ThreadDone
<1>7. CASE t = "deviceInfo" BY <1>1, <1>4, <1>7 DEF ThreadDone
<1>8. CASE t \in Chain BY <1>1, <1>5, <1>8 DEF ThreadDone
<1>. QED BY <1>6, <1>7, <1>8 DEF Thread

\* Every step keeps StopInv.
LEMMA StopStep ==
  ASSUME TypeOK, StopInv, [Next]_vars
  PROVE  StopInv'
<1>1. nJoined \in 0..Len(JoinOrder) /\ Len(JoinOrder) \in Nat
  BY JoinsEveryThread DEF TypeOK, CtlTypes
<1>2. \A i \in 1..nJoined : ThreadDone(JoinOrder[i])'
  <2>1. SUFFICES ASSUME NEW i \in 1..nJoined PROVE ThreadDone(JoinOrder[i])'
    OBVIOUS
  <2>2. i \in 1..Len(JoinOrder) BY <1>1
  <2>3. JoinOrder[i] \in Thread BY <2>2, JoinsEveryThread
  <2>4. ThreadDone(JoinOrder[i]) BY DEF StopInv
  <2>. QED BY <2>3, <2>4, ThreadStaysDone
<1>3. ASSUME UNCHANGED <<stopPc, driver, nJoined>> PROVE StopInv'
  BY <1>2, <1>3 DEF StopInv
<1>4. ASSUME NEW c \in Chain, DriverStep(c) \/ Proc(c) PROVE StopInv'
  BY <1>3, <1>4
  DEF DriverStep, getBuffer, Fill, putBuffer, Proc, ProcCheck, ProcPop, ProcSend, ProcRecycle, ctlVars
<1>5. CASE regPointCloudCallback \/ DecodeDifop
  BY <1>3, <1>5 DEF regPointCloudCallback, DecodeDifop
<1>6. CASE start
  <2>1. stopPc = "idle" /\ UNCHANGED <<stopPc, nJoined>> BY <1>6 DEF start, MayStart, StopInv
  <2>. QED BY <1>2, <2>1 DEF StopInv
<1>7. CASE Temp \/ Info
  BY <1>3, <1>7 DEF Temp, TempSleep, TempSend, Info, InfoCheck, InfoPoll, InfoSend, ctlVars
<1>8. CASE StopDriver \/ SetExit
  BY <1>2, <1>8 DEF StopDriver, SetExit, StopInv
<1>9. CASE Join
  <2>1. /\ nJoined' = nJoined + 1 /\ ThreadDone(JoinOrder[nJoined + 1])
        /\ stopPc' = IF LastJoin THEN "returned" ELSE "join"
        /\ stopPc = "join" /\ UNCHANGED driver
    BY <1>9 DEF Join
  <2>2. nJoined + 1 \in 1..Len(JoinOrder) BY <1>1, <1>9 DEF Join
  <2>3. ASSUME NEW i \in 1..nJoined' PROVE ThreadDone(JoinOrder[i])'
    <3>1. i \in 1..nJoined \/ i = nJoined + 1 BY <1>1, <2>1
    <3>2. CASE i = nJoined + 1
      <4>1. JoinOrder[i] \in Thread BY <2>2, <3>2, JoinsEveryThread
      <4>2. ThreadDone(JoinOrder[i]) BY <2>1, <3>2
      <4>. QED BY <4>1, <4>2, ThreadStaysDone
    <3>. QED BY <1>2, <3>1, <3>2
  <2>4. stopPc' \in {"returned", "terminated"} => nJoined' = Len(JoinOrder)
    BY <2>1 DEF LastJoin
  <2>. QED BY <2>1, <2>3, <2>4 DEF StopInv
<1>10. CASE JoinAgain BY <1>2, <1>10 DEF JoinAgain, StopInv
<1>11. CASE UNCHANGED vars BY <1>3, <1>11 DEF vars, ctlVars
<1>. QED BY <1>4, <1>5, <1>6, <1>7, <1>8, <1>9, <1>10, <1>11 DEF Next, Stop, Ended

-----------------------------------------------------------------------------
(* Theorems *)

\* Before anything happens there are no buffers, no destinations and no stop.
LEMMA InitIInv ==
  ASSUME Init
  PROVE  IInv
<1>1. TypeOK
  <2>1. 0 \in 0..Len(JoinOrder) BY JoinsEveryThread
  <2>2. 1 \in 1..(NDst + 1) /\ 0 \in 0..NDst /\ 0 \in 0..MaxMsgs
    BY NDstAssumption, MaxMsgsAssumption
  <2>3. ChainTypes BY <2>2 DEF Init, ChainTypes
  <2>4. ProcTypes BY <2>2 DEF Init, ProcTypes
  <2>5. PollTypes /\ CtlTypes BY <2>1, <2>2 DEF Init, PollTypes, CtlTypes
  <2>. QED BY <2>3, <2>4, <2>5 DEF TypeOK
<1>2. Chains
  <2>1. SUFFICES ASSUME NEW c \in Chain PROVE ChainInv(c)
    BY DEF Chains
  <2>2. /\ freeQ[c] = <<>> /\ msgQ[c] = <<>> /\ allocated[c] = 0 /\ drvBuf[c] = NoBuf
        /\ procBuf[c] = NoBuf /\ published[c] = 0 /\ procPc[c] = "check"
    BY DEF Init
  <2>3. Owned(<<>>, <<>>, 0, NoBuf, NoBuf)
    BY DEF Owned, Within, Distinct, Apart, Held, NoBuf
  <2>. QED BY <2>2, <2>3 DEF ChainInv, Held
<1>3. InfoInv
  <2>1. \A d \in Dst : ~(d < 1) BY DEF Dst
  <2>. QED BY <2>1 DEF Init, InfoInv
<1>4. StopInv
  <2>1. 1..0 = {} OBVIOUS
  <2>. QED BY <2>1 DEF Init, StopInv
<1>. QED BY <1>1, <1>2, <1>3, <1>4 DEF IInv

\* The inductive invariant holds of every behaviour.
THEOREM Invariant == Spec => []IInv
<1>1. Init => IInv BY InitIInv
<1>2. IInv /\ [Next]_vars => IInv'
  BY TypeStep, ChainStep, InfoStep, StopStep DEF IInv
<1>. QED BY <1>1, <1>2, PTL DEF Spec

\* No queue, thread or counter of the source ever leaves its type; in
\* particular no buffer beyond one per message put is ever made.
THEOREM TypeCorrectness == Spec => []TypeOK
<1>1. IInv => TypeOK BY DEF IInv
<1>. QED BY <1>1, Invariant, PTL

\* SingleOwner, for any chains, destinations and messages: getPointCloud never
\* returns a cloud that waits in point_cloud_queue_ or is being sent.
THEOREM SingleOwnerAlways == Spec => []SingleOwner
<1>1. IInv => SingleOwner
  BY DEF IInv, Chains, ChainInv, Owned, SingleOwner
<1>. QED BY <1>1, Invariant, PTL

\* NoBufferLost, for any chains, destinations and messages: processPointCloud
\* and processImuData recycle every buffer they take.
THEOREM NoBufferLostAlways == Spec => []NoBufferLost
<1>1. IInv => NoBufferLost
  BY DEF IInv, Chains, ChainInv, Owned, NoBufferLost
<1>. QED BY <1>1, Invariant, PTL

\* DeviceInfoToAll, for any number of destinations: pollDeviceInfo serves each
\* of them once, although its thread runs before they are registered.
THEOREM DeviceInfoToAllAlways == Spec => []DeviceInfoToAll
<1>1. IInv => DeviceInfoToAll
  <2>1. SUFFICES ASSUME IInv PROVE DeviceInfoToAll
    OBVIOUS
  <2>2. /\ infoDst \in 1..(NDst + 1)
        /\ \A d \in Dst : infoSent[d] = IF d < infoDst THEN 1 ELSE 0
        /\ infoPc = "done" /\ infoDst > 1 => infoDst = NDst + 1
    BY <2>1 DEF IInv, TypeOK, PollTypes, InfoInv
  <2>3. \A d \in Dst : d \in Nat /\ d >= 1 /\ d < NDst + 1 BY NDstAssumption DEF Dst
  <2>4. \A d \in Dst : infoSent[d] <= 1 BY <2>2
  <2>5. ASSUME infoPc = "done", NEW d \in Dst, infoSent[d] > 0
        PROVE  \A e \in Dst : infoSent[e] = 1
    <3>1. d < infoDst BY <2>2, <2>5
    <3>2. infoDst > 1 BY <2>2, <2>3, <3>1
    <3>. QED BY <2>2, <2>3, <2>5, <3>2
  <2>. QED BY <2>4, <2>5 DEF DeviceInfoToAll
<1>. QED BY <1>1, Invariant, PTL

\* QuietAfterStop, for any chains: stop() returns only when the driver and
\* every thread of the source have stopped.
THEOREM QuietAfterStopAlways == Spec => []QuietAfterStop
<1>1. IInv => QuietAfterStop
  <2>1. SUFFICES ASSUME IInv, stopPc \in {"returned", "terminated"}
                 PROVE  /\ driver = "stopped" /\ tempPc = "done" /\ infoPc = "done"
                        /\ \A c \in Chain : procPc[c] = "done"
    BY DEF QuietAfterStop
  <2>2. driver = "stopped" /\ \A i \in 1..Len(JoinOrder) : ThreadDone(JoinOrder[i])
    BY <2>1 DEF IInv, StopInv
  <2>3. \A t \in Thread : ThreadDone(t) BY <2>2, JoinsEveryThread
  <2>. QED BY <2>2, <2>3 DEF ThreadDone, Thread
<1>. QED BY <1>1, Invariant, PTL

-----------------------------------------------------------------------------
(* Delivery in order *)

\* Messages of chain c the processing thread has taken.
Taken(c) == published[c] - Len(msgQ[c])

\* Destination d is still to be given the message being sent.
Owes(c, d) == procBuf[c] # NoBuf /\ procDst[c] <= d

\* Waiting buffers hold the messages after those taken, in order; the buffer
\* being sent holds the last one taken; a destination lacks at most that one.
OrderInv(c) ==
  /\ \A i \in DOMAIN msgQ[c] : content[c][msgQ[c][i]] = Taken(c) + i
  /\ procBuf[c] # NoBuf => content[c][procBuf[c]] = Taken(c)
  /\ \A d \in Dst : Len(delivered[c][d]) = Taken(c) - (IF Owes(c, d) THEN 1 ELSE 0)
  /\ published[c] > 0 => driver # "created"

Orders == \A c \in Chain : OrderInv(c)

-----------------------------------------------------------------------------
\* What the steps of a chain know of its values.
LEMMA ChainFacts ==
  ASSUME IInv, NEW c \in Chain
  PROVE  /\ msgQ[c] \in Seq(Nat) /\ Len(msgQ[c]) \in Nat /\ DOMAIN msgQ[c] = 1..Len(msgQ[c])
         /\ published[c] \in Nat /\ Taken(c) \in Nat
         /\ \A d \in Dst : delivered[c][d] \in Seq(Nat) /\ Len(delivered[c][d]) \in Nat
         /\ drvBuf[c] \in Nat /\ procBuf[c] \in Nat /\ procDst[c] \in Nat
         /\ procBuf[c] # NoBuf => Taken(c) > 0
<1>1. ChainTypes /\ ProcTypes /\ ChainInv(c) BY DEF IInv, TypeOK, Chains
<1>2. msgQ[c] \in Seq(Nat) BY <1>1 DEF ChainInv, Owned, Within
<1>3. Len(msgQ[c]) \in Nat /\ DOMAIN msgQ[c] = 1..Len(msgQ[c]) BY <1>2
<1>4. published[c] \in Nat BY <1>1 DEF ChainTypes
<1>5. Held(procBuf[c]) \in Nat /\ (procBuf[c] # NoBuf => Held(procBuf[c]) = 1) BY DEF Held
<1>6. Len(msgQ[c]) + Held(procBuf[c]) <= published[c] BY <1>1 DEF ChainInv
<1>7. \A d \in Dst : delivered[c][d] \in Seq(Nat) BY <1>1 DEF ProcTypes
<1>8. \A d \in Dst : Len(delivered[c][d]) \in Nat BY <1>7
<1>9. drvBuf[c] \in Nat /\ procBuf[c] \in Nat /\ procDst[c] \in Nat
  BY <1>1 DEF ChainTypes, ProcTypes, Buf, NoBuf
<1>10. Taken(c) \in Nat /\ (procBuf[c] # NoBuf => Taken(c) > 0)
  BY <1>3, <1>4, <1>5, <1>6 DEF Taken
<1>. QED BY <1>2, <1>3, <1>4, <1>7, <1>8, <1>9, <1>10

\* A step that leaves what OrderInv reads of chain c keeps it.
LEMMA OrderKept ==
  ASSUME NEW c \in Chain, OrderInv(c),
         /\ msgQ'[c] = msgQ[c] /\ content'[c] = content[c] /\ published'[c] = published[c]
         /\ procBuf'[c] = procBuf[c] /\ procDst'[c] = procDst[c] /\ delivered'[c] = delivered[c],
         driver # "created" => driver' # "created"
  PROVE  OrderInv(c)'
BY DEF OrderInv, Taken, Owes

\* Filling the driver's buffer changes no message that waits or is being sent.
LEMMA OrderFill ==
  ASSUME IInv, NEW c \in Chain, OrderInv(c), Fill(c)
  PROVE  OrderInv(c)'
<1>1. ChainTypes /\ ChainInv(c) BY DEF IInv, TypeOK, Chains
<1>2. /\ content' = [content EXCEPT ![c][drvBuf[c]] = published[c] + 1]
      /\ drvBuf[c] # NoBuf
      /\ UNCHANGED <<msgQ, published, procBuf, procDst, delivered, driver>>
  BY DEF Fill, procVars, ctlVars
<1>3. \A b : b # drvBuf[c] => content'[c][b] = content[c][b]
  BY <1>1, <1>2 DEF ChainTypes
<1>4. Outside(drvBuf[c], msgQ[c]) /\ drvBuf[c] # procBuf[c]
  BY <1>1, <1>2 DEF ChainInv, Owned
<1>. QED BY <1>2, <1>3, <1>4 DEF OrderInv, Taken, Owes, Outside

\* The message put is the last of those that wait.
LEMMA OrderPut ==
  ASSUME IInv, NEW c \in Chain, OrderInv(c), putBuffer(c)
  PROVE  OrderInv(c)'
<1>1. ChainTypes BY DEF IInv, TypeOK
<1>2. /\ msgQ'[c] = Append(msgQ[c], drvBuf[c]) /\ published'[c] = published[c] + 1
      /\ content[c][drvBuf[c]] = published[c] + 1 /\ driver = "running"
      /\ UNCHANGED <<content, procBuf, procDst, delivered, driver>>
  BY <1>1 DEF putBuffer, procVars, ctlVars, ChainTypes
<1>3. /\ msgQ[c] \in Seq(Nat) /\ drvBuf[c] \in Nat /\ published[c] \in Nat
      /\ Len(msgQ[c]) \in Nat
  BY ChainFacts
<1>4. /\ Len(msgQ'[c]) = Len(msgQ[c]) + 1 /\ DOMAIN msgQ'[c] = 1..(Len(msgQ[c]) + 1)
      /\ \A i \in DOMAIN msgQ[c] : msgQ'[c][i] = msgQ[c][i]
      /\ msgQ'[c][Len(msgQ[c]) + 1] = drvBuf[c] /\ DOMAIN msgQ[c] = 1..Len(msgQ[c])
  BY <1>2, <1>3, AppendToQueue
<1>5. Taken(c)' = Taken(c) BY <1>2, <1>3, <1>4 DEF Taken
<1>6. ASSUME NEW i \in DOMAIN msgQ'[c] PROVE content[c][msgQ'[c][i]] = Taken(c) + i
  <2>1. CASE i = Len(msgQ[c]) + 1 BY <1>2, <1>3, <1>4, <2>1 DEF Taken
  <2>2. CASE i # Len(msgQ[c]) + 1
    <3>1. i \in DOMAIN msgQ[c] BY <1>3, <1>4, <2>2
    <3>. QED BY <1>4, <3>1 DEF OrderInv
  <2>. QED BY <2>1, <2>2
<1>. QED BY <1>2, <1>5, <1>6 DEF OrderInv, Owes

\* The message taken is the first of those that wait.
LEMMA OrderPop ==
  ASSUME IInv, NEW c \in Chain, OrderInv(c), ProcPop(c)
  PROVE  OrderInv(c)'
<1>1. ChainTypes /\ ProcTypes /\ ChainInv(c) BY DEF IInv, TypeOK, Chains
<1>2. CASE msgQ[c] = <<>>
  BY <1>2, OrderKept DEF ProcPop, ctlVars
<1>3. CASE msgQ[c] # <<>>
  <2>1. /\ msgQ'[c] = Tail(msgQ[c]) /\ procBuf'[c] = Head(msgQ[c]) /\ procDst'[c] = 1
        /\ procPc[c] = "pop"
        /\ UNCHANGED <<content, published, delivered, driver>>
    BY <1>1, <1>3 DEF ProcPop, ctlVars, ChainTypes, ProcTypes
  <2>2. procBuf[c] = NoBuf BY <1>1, <2>1 DEF ChainInv
  <2>3. msgQ[c] \in Seq(Nat) /\ Len(msgQ[c]) \in Nat /\ published[c] \in Nat BY ChainFacts
  <2>4. /\ Head(msgQ[c]) = msgQ[c][1] /\ 1 \in DOMAIN msgQ[c]
        /\ Len(msgQ'[c]) = Len(msgQ[c]) - 1 /\ DOMAIN msgQ'[c] = 1..(Len(msgQ[c]) - 1)
        /\ \A i \in DOMAIN msgQ'[c] : i + 1 \in DOMAIN msgQ[c] /\ msgQ'[c][i] = msgQ[c][i + 1]
    BY <1>3, <2>1, <2>3, TailOfQueue
  <2>5. Taken(c)' = Taken(c) + 1 /\ Taken(c) \in Int BY <2>1, <2>3, <2>4 DEF Taken
  <2>6. content[c][Head(msgQ[c])] = Taken(c) + 1 BY <2>4 DEF OrderInv
  <2>7. ASSUME NEW i \in DOMAIN msgQ'[c] PROVE content[c][msgQ'[c][i]] = Taken(c) + 1 + i
    <3>1. content[c][msgQ[c][i + 1]] = Taken(c) + (i + 1) BY <2>4 DEF OrderInv
    <3>2. i \in Int /\ msgQ'[c][i] = msgQ[c][i + 1] BY <2>3, <2>4
    <3>3. Taken(c) + (i + 1) = Taken(c) + 1 + i BY <2>5, <3>2
    <3>. QED BY <3>1, <3>2, <3>3
  <2>8. procBuf'[c] # NoBuf
    <3>1. Head(msgQ[c]) \in Buf BY <1>1, <1>3 DEF ChainTypes
    <3>. QED BY <2>1, <3>1 DEF Buf, NoBuf
  <2>9. ASSUME NEW d \in Dst PROVE Len(delivered[c][d]) = Taken(c)' - 1 /\ Owes(c, d)'
    <3>1. Len(delivered[c][d]) = Taken(c) BY <2>2, <2>5 DEF OrderInv, Owes
    <3>2. 1 <= d BY DEF Dst
    <3>. QED BY <2>1, <2>5, <2>8, <3>1, <3>2 DEF Owes
  <2>. QED BY <2>1, <2>5, <2>6, <2>7, <2>9 DEF OrderInv
<1>. QED BY <1>2, <1>3

\* procDst is given the message being sent.
LEMMA OrderSend ==
  ASSUME IInv, NEW c \in Chain, OrderInv(c), ProcSend(c)
  PROVE  OrderInv(c)'
<1>1. ProcTypes /\ ChainInv(c) /\ nReg \in 0..NDst BY DEF IInv, TypeOK, CtlTypes, Chains
<1>2. procBuf[c] # NoBuf BY <1>1 DEF ProcSend, ChainInv
<1>3. procDst[c] \in Dst BY <1>1, NDstAssumption DEF ProcSend, MoreDestinations, ProcTypes, Dst
<1>4. /\ delivered'[c] = [delivered[c] EXCEPT
                            ![procDst[c]] = Append(@, content[c][procBuf[c]])]
      /\ procDst'[c] = procDst[c] + 1
      /\ UNCHANGED <<msgQ, content, published, procBuf, driver>>
  BY <1>1 DEF ProcSend, chainVars, ctlVars, ProcTypes
<1>5. Taken(c)' = Taken(c) /\ Taken(c) \in Nat BY <1>4, ChainFacts DEF Taken
<1>6. ASSUME NEW d \in Dst
      PROVE  Len(delivered'[c][d]) = Taken(c)' - (IF Owes(c, d)' THEN 1 ELSE 0)
  <2>1. delivered[c][d] \in Seq(Nat) /\ delivered[c] \in [Dst -> Seq(Nat)] BY <1>1 DEF ProcTypes
  <2>2. d \in Nat /\ procDst[c] \in Nat BY <1>3 DEF Dst
  <2>3. CASE d = procDst[c]
    <3>1. Len(delivered[c][d]) = Taken(c) - 1 BY <1>2, <2>2, <2>3 DEF OrderInv, Owes
    <3>2. delivered'[c][d] = Append(delivered[c][d], content[c][procBuf[c]])
      BY <1>4, <2>1, <2>3
    <3>3. Len(delivered'[c][d]) = Taken(c) BY <1>5, <2>1, <3>1, <3>2
    <3>4. ~Owes(c, d)' BY <1>4, <2>2, <2>3 DEF Owes
    <3>. QED BY <1>5, <3>3, <3>4
  <2>4. CASE d # procDst[c]
    <3>1. delivered'[c][d] = delivered[c][d] BY <1>4, <2>1, <2>4
    <3>2. Owes(c, d)' <=> Owes(c, d) BY <1>4, <2>2, <2>4 DEF Owes
    <3>. QED BY <1>5, <3>1, <3>2 DEF OrderInv
  <2>. QED BY <2>3, <2>4
<1>. QED BY <1>4, <1>5, <1>6 DEF OrderInv

\* A buffer is recycled when no destination lacks its message any more.
LEMMA OrderRecycle ==
  ASSUME IInv, NEW c \in Chain, OrderInv(c), ProcRecycle(c)
  PROVE  OrderInv(c)'
<1>1. ProcTypes /\ ChainInv(c) /\ InfoInv BY DEF IInv, TypeOK, Chains
<1>2. procBuf[c] # NoBuf BY <1>1 DEF ProcRecycle, ChainInv
<1>3. published[c] > 0 BY <1>2, ChainFacts DEF Taken
<1>4. nReg = NDst BY <1>1, <1>3 DEF OrderInv, InfoInv
<1>5. \A d \in Dst : ~Owes(c, d)
  BY <1>4, NDstAssumption, ChainFacts DEF ProcRecycle, MoreDestinations, Owes, Dst
<1>6. /\ procBuf'[c] = NoBuf
      /\ UNCHANGED <<msgQ, content, published, procDst, delivered, driver>>
  BY <1>1 DEF ProcRecycle, ctlVars, ProcTypes
<1>7. \A d \in Dst : ~Owes(c, d)' BY <1>6 DEF Owes
<1>. QED BY <1>5, <1>6, <1>7 DEF OrderInv, Taken

\* Every step keeps the order of every chain.
LEMMA OrderStep ==
  ASSUME IInv, Orders, [Next]_vars
  PROVE  Orders'
<1>. SUFFICES ASSUME NEW c \in Chain PROVE OrderInv(c)'
  BY DEF Orders
<1>. USE DEF chainVars, procVars, pollVars, ctlVars
<1>1. OrderInv(c) /\ ChainTypes /\ ProcTypes BY DEF Orders, IInv, TypeOK
<1>2. ASSUME UNCHANGED <<msgQ, content, published, procBuf, procDst, delivered>>,
             driver # "created" => driver' # "created"
      PROVE  OrderInv(c)'
  BY <1>1, <1>2, OrderKept
<1>3. ASSUME NEW e \in Chain, DriverStep(e) \/ Proc(e), c # e PROVE OrderInv(c)'
  BY <1>1, <1>3, OrderKept
  DEF DriverStep, getBuffer, TakeBuffer, Fill, putBuffer, Proc, ProcCheck, ProcPop, ProcSend,
      ProcRecycle, ChainTypes, ProcTypes
<1>4. CASE getBuffer(c) \/ ProcCheck(c) BY <1>2, <1>4 DEF getBuffer, ProcCheck
<1>5. CASE Fill(c) BY <1>1, <1>5, OrderFill
<1>6. CASE putBuffer(c) BY <1>1, <1>6, OrderPut
<1>7. CASE ProcPop(c) BY <1>1, <1>7, OrderPop
<1>8. CASE ProcSend(c) BY <1>1, <1>8, OrderSend
<1>9. CASE ProcRecycle(c) BY <1>1, <1>9, OrderRecycle
<1>10. ASSUME NEW e \in Chain, DriverStep(e) \/ Proc(e) PROVE OrderInv(c)'
  BY <1>3, <1>4, <1>5, <1>6, <1>7, <1>8, <1>9, <1>10 DEF DriverStep, Proc
<1>11. CASE regPointCloudCallback \/ start \/ DecodeDifop
  BY <1>2, <1>11 DEF regPointCloudCallback, start, DecodeDifop
<1>12. CASE Temp \/ Info
  BY <1>2, <1>12 DEF Temp, TempSleep, TempSend, Info, InfoCheck, InfoPoll, InfoSend
<1>13. CASE Stop
  BY <1>2, <1>13 DEF Stop, StopDriver, SetExit, Join, JoinAgain
<1>14. CASE UNCHANGED vars BY <1>2, <1>14 DEF vars
<1>. QED BY <1>10, <1>11, <1>12, <1>13, <1>14 DEF Next, Ended

\* Before anything happens nothing waits and nothing was delivered.
LEMMA InitOrders ==
  ASSUME Init
  PROVE  Orders
<1>. SUFFICES ASSUME NEW c \in Chain PROVE OrderInv(c)
  BY DEF Orders
<1>1. /\ msgQ[c] = <<>> /\ published[c] = 0 /\ procBuf[c] = NoBuf
      /\ \A d \in Dst : delivered[c][d] = <<>>
  BY DEF Init
<1>2. Len(<<>>) = 0 /\ DOMAIN <<>> = {} OBVIOUS
<1>3. Taken(c) = 0
  <2>1. Len(msgQ[c]) = 0 BY <1>1, <1>2
  <2>2. 0 - 0 = 0 OBVIOUS
  <2>. QED BY <1>1, <2>1, <2>2 DEF Taken
<1>. QED BY <1>1, <1>2, <1>3 DEF OrderInv, Owes

\* Waiting messages and destinations stay in the order of publication.
THEOREM OrdersAlways == Spec => [](IInv /\ Orders)
<1>1. Init => IInv /\ Orders BY InitIInv, InitOrders
<1>2. IInv /\ Orders /\ [Next]_vars => (IInv /\ Orders)'
  BY TypeStep, ChainStep, InfoStep, StopStep, OrderStep DEF IInv
<1>. QED BY <1>1, <1>2, PTL DEF Spec

-----------------------------------------------------------------------------
(* The refinement *)

\* putBuffer publishes; every other step of the driver is hidden.
LEMMA DriverRefines ==
  ASSUME IInv, NEW c \in Chain, DriverStep(c)
  PROVE  Abstract!Publish(c) \/ UNCHANGED Abstract!vars
BY DEF DriverStep, getBuffer, Fill, putBuffer, procVars, Abstract!Publish, Abstract!vars

\* Each destination served is a delivery of its next message; taking and
\* recycling buffers is hidden.
LEMMA ProcRefines ==
  ASSUME IInv, Orders, NEW c \in Chain, Proc(c)
  PROVE  (\E d \in Abstract!Dst : Abstract!Deliver(c, d)) \/ UNCHANGED Abstract!vars
<1>1. CASE ProcCheck(c) \/ ProcPop(c) \/ ProcRecycle(c)
  BY <1>1 DEF ProcCheck, ProcPop, ProcRecycle, chainVars, Abstract!vars
<1>2. CASE ProcSend(c)
  <2>1. ProcTypes /\ ChainInv(c) /\ OrderInv(c) /\ nReg \in 0..NDst
    BY DEF IInv, TypeOK, CtlTypes, Chains, Orders
  <2>2. procBuf[c] # NoBuf BY <1>2, <2>1 DEF ProcSend, ChainInv
  <2>3. procDst[c] \in Dst
    BY <1>2, <2>1, NDstAssumption DEF ProcSend, MoreDestinations, ProcTypes, Dst
  <2>4. Len(msgQ[c]) \in Nat /\ published[c] \in Nat /\ Taken(c) \in Nat /\ procDst[c] \in Nat
    BY ChainFacts
  <2>5. Taken(c) <= published[c] BY <2>4 DEF Taken
  <2>6. Len(delivered[c][procDst[c]]) = Taken(c) - 1
    BY <2>1, <2>2, <2>3, <2>4 DEF OrderInv, Owes
  <2>7. \A e \in Dst : Len(delivered[c][procDst[c]]) <= Len(delivered[c][e])
    <3>1. SUFFICES ASSUME NEW e \in Dst
                   PROVE  Len(delivered[c][procDst[c]]) <= Len(delivered[c][e])
      OBVIOUS
    <3>2. Len(delivered[c][e]) = Taken(c) - 1 \/ Len(delivered[c][e]) = Taken(c)
      BY <2>1, <2>4 DEF OrderInv
    <3>. QED BY <2>4, <2>6, <3>2
  <2>8. content[c][procBuf[c]] = Len(delivered[c][procDst[c]]) + 1
    BY <2>1, <2>2, <2>4, <2>6 DEF OrderInv
  <2>9. /\ delivered' = [delivered EXCEPT ![c][procDst[c]] = Append(@, Len(@) + 1)]
        /\ published' = published
    BY <1>2, <2>8 DEF ProcSend, chainVars
  <2>10. Len(delivered[c][procDst[c]]) < published[c] BY <2>4, <2>5, <2>6
  <2>11. Abstract!Deliver(c, procDst[c])
    BY <2>7, <2>9, <2>10 DEF Abstract!Deliver, Abstract!Dst, Dst
  <2>. QED BY <2>3, <2>11 DEF Abstract!Dst, Dst
<1>. QED BY <1>1, <1>2 DEF Proc

\* Every step of a source is a step of CloudDelivery or hidden from it.
LEMMA StepRefines ==
  ASSUME IInv, Orders, [Next]_vars
  PROVE  [Abstract!Next]_(Abstract!vars)
<1>1. ASSUME NEW c \in Chain, DriverStep(c) PROVE [Abstract!Next]_(Abstract!vars)
  BY <1>1, DriverRefines DEF Abstract!Next
<1>2. ASSUME NEW c \in Chain, Proc(c) PROVE [Abstract!Next]_(Abstract!vars)
  BY <1>2, ProcRefines DEF Abstract!Next
<1>3. ASSUME UNCHANGED <<published, delivered>> PROVE [Abstract!Next]_(Abstract!vars)
  BY <1>3 DEF Abstract!vars
<1>4. CASE regPointCloudCallback \/ start \/ DecodeDifop \/ Temp \/ Info \/ Stop \/ UNCHANGED vars
  BY <1>3, <1>4
  DEF regPointCloudCallback, start, DecodeDifop, Temp, TempSleep, TempSend, Info, InfoCheck,
      InfoPoll, InfoSend, Stop, StopDriver, SetExit, Join, JoinAgain, vars, chainVars, procVars
<1>. QED BY <1>1, <1>2, <1>4 DEF Next, Ended

\* DeliversInOrder, for any chains, destinations and messages: whatever stop(),
\* registration and recycling do, a destination is given every message once,
\* unchanged and in the order the driver put them.
THEOREM ImplementsDelivery == Spec => DeliversInOrder
<1>1. Init => Abstract!Init BY DEF Init, Abstract!Init, Abstract!Dst, Dst
<1>2. IInv /\ Orders /\ [Next]_vars => [Abstract!Next]_(Abstract!vars) BY StepRefines
<1>. QED BY <1>1, <1>2, OrdersAlways, PTL DEF Spec, DeliversInOrder, Abstract!Spec
=============================================================================
