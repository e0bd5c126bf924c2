------------------------- MODULE LogTransfer_proofs -------------------------
(***************************************************************************)
(* Theorems about LogTransfer for any classes, kinds of log and paces, any *)
(* number of pieces and any number of logs read.                           *)
(*                                                                         *)
(* IInv says of a call to a paced lidar that either its request was not    *)
(* taken up (Asked), or at most the piece sent last is on its way          *)
(* (OnTheWay), how far it has come (Reading), and what the log has by then *)
(* (SoFar).  HeliosCom has every piece but the one on its way (HeliosLog). *)
(* AiryCom and Ruby4Com have an unmixed copy of every piece before the one *)
(* sent last, in order (AiryLog): the turn of each was over before the     *)
(* next was sent, and a getter that begins while reg_back_data_ is at rest *)
(* copies one piece.  LogInOrder is about the step that returns TRUE, when *)
(* the last piece was sent and copied.                                     *)
(***************************************************************************)
EXTENDS LogTransfer, Integers, SequenceTheorems, TLAPS

\* What the lidar has sent, and what was copied, are pieces.
PiecesInv ==
  /\ sending.piece.no <= sending.piece.total
  /\ ~sending.over => sending.piece \in Piece /\ sending.piece.no < sending.piece.total
  /\ raised \/ phase # "idle" => regHead \in Piece
  /\ pc \in {"copy", "lower"} => tmpHead \in Piece
  /\ pc = "lower" => family = "helios"

\* reg_back_data_ holds the header of a piece of this log.
Live == raised \/ phase # "idle"

Sent == sending.piece.no

\* A piece of the log being read that was sent.
Mine(p) == p.call = callNo /\ p.total = sending.piece.total /\ p.no <= Sent

\* The request was written and not taken up.
Asked ==
  /\ toLidar = <<callNo>> /\ sending.over /\ toHost = <<>> /\ ~Live
  /\ pc = "wait" /\ log = <<>> /\ tmpHead = NoPiece

\* At most the piece sent last is on its way.
OnTheWay ==
  /\ toLidar = <<>>
  /\ sending.piece.call = callNo
  /\ Live => Mine(regHead)
  /\ toHost # <<>> => toHost = <<sending.piece>> /\ (Live => regHead.no < Sent)
  /\ ~sending.over /\ Sent = 0 => toHost = <<>> /\ ~Live

PieceOf(i) == [call |-> callNo, no |-> i, total |-> sending.piece.total]
Copy(i) == [head |-> PieceOf(i), body |-> PieceOf(i), extent |-> "whole", again |-> FALSE]

\* The piece sent last is on its way, in the hands of the reading thread, or
\* at rest in reg_back_data_ for the getters, and is copied when its turn is over.
Reading ==
  /\ phase # "idle" => toHost = <<>> /\ regHead = sending.piece /\ parsing = sending.piece
  /\ phase = "stored" => regBody = sending.piece
  /\ Sent > 0 /\ turn # "sent" =>
       phase = "idle" /\ toHost = <<>> /\ regHead = sending.piece /\ regBody = sending.piece
  /\ Sent > 0 /\ turn = "begun" =>
       pc \in {"copy", "lower"} /\ (kind = "event" => tmpHead = sending.piece)
  /\ Sent > 0 /\ turn = "over" /\ family = "helios" => ~raised

\* HeliosCom: a piece stays in reg_back_data_ until it is taken.
HeliosLog ==
  /\ Live \/ toHost # <<>> => Sent > 0
  /\ raised => phase = "idle" /\ regBody = sending.piece
  /\ Live => toHost = <<>> /\ regHead = sending.piece
  /\ phase # "idle" => parsing = sending.piece
  /\ phase = "stored" => regBody = sending.piece
  /\ pc \in {"copy", "lower"} => raised /\ tmpHead = sending.piece
  /\ log = [i \in 1..(IF pc = "lower" \/ ~(Live \/ toHost # <<>>) THEN Sent ELSE Sent - 1) |-> Copy(i)]

\* The headers of l are of the pieces of one log, none after piece most, in order.
InOrder(l, call, total, most) ==
  \A i \in DOMAIN l :
    /\ l[i].head.call = call /\ l[i].head.total = total /\ l[i].head.no <= most
    /\ \A j \in DOMAIN l : i < j => l[i].head.no <= l[j].head.no

\* l has an unmixed copy of every piece before the n-th.
CopiedBefore(l, call, total, n) ==
  \A k \in 1..(n - 1) :
    LET piece == [call |-> call, no |-> k, total |-> total]
    IN  \E i \in DOMAIN l : l[i].head = piece /\ l[i].body = piece

\* The next entry of the log has the header tmpHead.
Headed == pc = "copy" \/ KeepsHead

\* AiryCom and Ruby4Com: the headers copied are in order; of a log whose headers
\* are not kept, all pieces but the last one sent were copied, and that one too
\* once its turn is over.
AiryLog ==
  /\ log # <<>> \/ Headed => raised
  /\ Headed => /\ Mine(tmpHead) /\ tmpHead.no <= regHead.no
               /\ InOrder(log, callNo, sending.piece.total, tmpHead.no)
  /\ InOrder(log, callNo, sending.piece.total, regHead.no)
  /\ kind = "event" =>
       /\ CopiedBefore(log, callNo, sending.piece.total, Sent)
       /\ turn = "over" => CopiedBefore(log, callNo, sending.piece.total, Sent + 1)

SoFar == IF family = "helios" THEN HeliosLog ELSE AiryLog

Underway == paced /\ pc # "idle" => Asked \/ (OnTheWay /\ Reading /\ SoFar)

IInv == TypeOK /\ PiecesInv /\ Underway /\ LogInOrder

-----------------------------------------------------------------------------
(* Types *)

Typed == TypeOK /\ PiecesInv

\* Entries of a log.
Entry == [head : Piece, body : Piece \cup {NoPiece},
          extent : {"whole", "cut", "fixed"}, again : BOOLEAN]

\* The fields of pieces.
LEMMA PieceFields ==
  /\ \A p \in Piece : p.call \in Call /\ p.no \in 0..MaxPieces /\ p.total \in 1..MaxPieces /\ p.call # 0
  /\ NoPiece \notin Piece /\ ~IsLast(NoPiece)
  /\ \A p \in Piece, q \in Piece \cup {NoPiece} :
       p.call = q.call /\ p.no = q.no /\ p.total = q.total => p = q
  BY DEF Piece, NoPiece, Call, IsLast

\* A call that returns.
LEMMA Returns ==
  ASSUME Typed, pc # "idle", NEW value \in {"true", "false"}, Return(value)
  PROVE  /\ result' \in Seq({"true", "false"}) /\ Len(result') = callNo /\ pc' = "idle"
         /\ result' # <<>> /\ Last(result') = value
<1>1. result \in Seq({"true", "false"}) /\ Len(result) = callNo - 1 /\ callNo \in Nat
  BY MaxCallsAssumption DEF Typed, TypeOK
<1>2. result' = Append(result, value) /\ pc' = "idle" BY DEF Return
<1>. QED BY <1>1, <1>2 DEF Last

\* What is sent next.
LEMMA NextPiece ==
  ASSUME Typed, ~sending.over
  PROVE  LET next == [sending.piece EXCEPT !.no = @ + 1]
         IN  /\ next \in Piece /\ next.call = sending.piece.call /\ next.no = Sent + 1
             /\ next.total = sending.piece.total /\ next.no <= next.total
             /\ IsLast(next) <=> Sent + 1 = sending.piece.total
<1> DEFINE s == sending.piece
<1>1. s \in Piece /\ s.no < s.total BY DEF Typed, PiecesInv
<1>2. s = [call |-> s.call, no |-> s.no, total |-> s.total] BY <1>1 DEF Piece
<1>3. s.call \in Call /\ s.no \in 0..MaxPieces /\ s.total \in 1..MaxPieces BY <1>1 DEF Piece
<1>4. MaxPieces \in Nat BY MaxPiecesAssumption
<1>. HIDE DEF s
<1>5. [s EXCEPT !.no = @ + 1] = [call |-> s.call, no |-> s.no + 1, total |-> s.total] BY <1>2
<1>6. s.no + 1 \in 0..MaxPieces /\ s.no + 1 <= s.total BY <1>1, <1>3, <1>4
<1>. QED BY <1>3, <1>5, <1>6 DEF s, Piece, Sent, IsLast

\* Nothing was asked for.
LEMMA Initial == Init => Typed
<1> SUFFICES ASSUME Init PROVE Typed OBVIOUS
<1>1. /\ callNo \in 0..MaxCalls /\ <<>> \in Seq(Entry)
      /\ <<>> \in Seq({"true", "false"}) /\ Len(<<>>) = 0
      /\ <<>> \in Seq(Call) /\ <<>> \in Seq(Piece)
  BY MaxCallsAssumption DEF Init
<1>2. turn = "over" /\ sending \in [piece : Piece \cup {NoPiece}, over : BOOLEAN] BY DEF Init
<1>5. /\ {tmpHead, regHead, regBody, parsing} \subseteq Piece \cup {NoPiece}
      /\ phase # "idle" <=> parsing # NoPiece
  BY DEF Init
<1>3. TypeOK
  <2>1. /\ family \in Families /\ kind \in Kinds /\ paced \in Paces /\ raised \in BOOLEAN
        /\ pc = "idle" /\ phase = "idle" /\ callNo = 0
        /\ log = <<>> /\ result = <<>> /\ toLidar = <<>> /\ toHost = <<>>
    BY DEF Init
  <2>. QED BY <1>1, <1>2, <1>5, <2>1 DEF TypeOK, Entry
<1>4. PiecesInv BY DEF Init, PiecesInv, NoPiece
<1>. QED BY <1>3, <1>4 DEF Typed

\* Typed is inductive: one lemma for each group of actions.
LEMMA BeginTyped == ASSUME Typed, Begin PROVE Typed'
<1>1. /\ callNo \in 0..MaxCalls /\ callNo < MaxCalls /\ MaxCalls \in Nat /\ callNo' = callNo + 1
      /\ Len(result) = callNo /\ result' = result /\ pc' = "wait" /\ log' = <<>>
      /\ toLidar \in Seq(Call) /\ toLidar' = Append(toLidar, callNo + 1)
  BY MaxCallsAssumption DEF Begin, Typed, TypeOK
<1>2. callNo' \in 0..MaxCalls /\ callNo' \in Call /\ Len(result') = callNo' - 1 BY <1>1 DEF Call
<1>3. toLidar' \in Seq(Call) BY <1>1, <1>2
<1>4. /\ <<>> \in Seq(Entry)
      /\ {tmpHead', regHead', regBody', parsing'} \subseteq Piece \cup {NoPiece}
      /\ raised' = FALSE /\ pc' # "idle"
  <2>1. tmpHead' = NoPiece /\ UNCHANGED <<regHead, regBody, parsing>> BY DEF Begin, readerVars
  <2>. QED BY <1>1, <2>1 DEF Begin, Typed, TypeOK
<1>6. /\ log' \in Seq([head : Piece, body : Piece \cup {NoPiece},
                      extent : {"whole", "cut", "fixed"}, again : BOOLEAN])
      /\ turn' \in {"sent", "due", "begun", "over"}
  BY <1>1, <1>4 DEF Begin, Entry, Typed, TypeOK
<1>7. TypeOK' BY <1>1, <1>2, <1>3, <1>4, <1>6 DEF Begin, Typed, TypeOK, kindVars, readerVars
<1>5. PiecesInv' BY <1>1, <1>4 DEF Begin, Typed, PiecesInv, kindVars, readerVars
<1>. QED BY <1>5, <1>7 DEF Typed

\* The log k has the copies of l, and at most one more.
Grown(l, k) ==
  /\ l \in Seq(Entry) /\ k \in Seq(Entry) /\ k # <<>> /\ Len(k) \in {Len(l), Len(l) + 1}
  /\ \A i \in 1..Len(l) : k[i].head = l[i].head /\ k[i].body = l[i].body

\* The copy a getter is at.
NextEntry == [head |-> tmpHead, body |-> regBody, extent |-> Extent[family], again |-> FALSE]

\* A getter's copy is at the end of the log, whether it is made again or not.
LEMMA Logged ==
  ASSUME Typed, CopyBody
  PROVE  /\ Grown(log, log') /\ Last(log').head = tmpHead /\ Last(log').body = regBody
         /\ ~Repeats => log' = Append(log, NextEntry)
<1>1. log \in Seq(Entry) BY DEF Typed, TypeOK, Entry
<1>2. NextEntry \in Entry /\ NextEntry.head = tmpHead /\ NextEntry.body = regBody
  <2>1. Extent[family] \in {"whole", "cut", "fixed"}
    BY FamiliesAssumption DEF Extent, Typed, TypeOK
  <2>2. tmpHead \in Piece /\ regBody \in Piece \cup {NoPiece}
    BY DEF CopyBody, Typed, TypeOK, PiecesInv
  <2>. QED BY <2>1, <2>2 DEF NextEntry, Entry
<1>3. CASE ~Repeats
  <2>1. log' = Append(log, NextEntry) BY <1>3 DEF CopyBody, NextEntry
  <2>. QED BY <1>1, <1>2, <2>1 DEF Grown, Last
<1>4. CASE Repeats
  <2> DEFINE n == Len(log)
             e == [log[n] EXCEPT !.again = TRUE]
  <2>1. n \in Nat /\ n \in 1..n /\ log[n].head = tmpHead /\ log[n].body = regBody
    BY <1>1, <1>4 DEF Repeats, Last
  <2>2. log[n] \in Entry BY <1>1, <2>1
  <2>3. e \in Entry /\ e.head = log[n].head /\ e.body = log[n].body BY <2>2 DEF Entry
  <2>4. log' = [log EXCEPT ![n] = e] BY <1>4 DEF CopyBody
  <2>. HIDE DEF e, n
  <2>5. \A i \in 1..n : log'[i] = IF i = n THEN e ELSE log[i] BY <1>1, <2>4 DEF n
  <2>6. log' \in Seq(Entry) /\ Len(log') = n BY <1>1, <2>1, <2>3, <2>4, ExceptSeq DEF n
  <2>7. log' # <<>> /\ log'[n] = e BY <2>1, <2>5, <2>6
  <2>. QED BY <1>1, <1>4, <2>1, <2>3, <2>5, <2>6, <2>7 DEF Grown, Last, n
<1>. QED BY <1>3, <1>4

\* An entry of the log has the header of a piece; its body may be none yet.
LEMMA CallerTyped == ASSUME Typed, Caller PROVE Typed'
<1>1. CASE SeeRaised
  BY <1>1 DEF SeeRaised, Typed, TypeOK, PiecesInv, kindVars, regVars, readerVars, wireVars
<1>2. CASE GiveUp
  <2>1. Return("false") /\ pc # "idle" /\ "false" \in {"true", "false"} BY <1>2 DEF GiveUp
  <2>2. result' \in Seq({"true", "false"}) /\ Len(result') = callNo /\ pc' = "idle"
    BY <2>1, Returns
  <2>. QED BY <1>2, <2>2
     DEF GiveUp, Typed, TypeOK, PiecesInv, kindVars, regVars, readerVars, wireVars
<1>3. CASE CopyHead
  <2>1. regHead \in Piece BY <1>3 DEF CopyHead, Available, Typed, PiecesInv
  <2>2. tmpHead' \in Piece BY <1>3, <2>1 DEF CopyHead, KeepsHead, Typed, TypeOK
  <2>. QED BY <1>3, <2>2
     DEF CopyHead, Typed, TypeOK, PiecesInv, kindVars, regVars, readerVars, wireVars
<1>4. CASE CopyBody
  <2>4. log' \in Seq(Entry) BY <1>4, Logged DEF Grown
  <2>1. turn' \in {"sent", "due", "begun", "over"} BY <1>4 DEF CopyBody, TurnOver, Typed, TypeOK
  <2>5. CASE pc' = "lower" /\ UNCHANGED result /\ family = "helios"
    BY <1>4, <2>1, <2>4, <2>5
       DEF CopyBody, Typed, TypeOK, PiecesInv, Entry, kindVars, regVars, readerVars, wireVars
  <2>6. CASE pc' = "poll" /\ UNCHANGED result
    BY <1>4, <2>1, <2>4, <2>6
       DEF CopyBody, Typed, TypeOK, PiecesInv, Entry, kindVars, regVars, readerVars, wireVars
  <2>7. CASE Return("true")
    <3>1. result' \in Seq({"true", "false"}) /\ Len(result') = callNo /\ pc' = "idle"
      BY <1>4, <2>7, Returns DEF CopyBody
    <3>. QED BY <1>4, <2>1, <2>4, <3>1
       DEF CopyBody, Typed, TypeOK, PiecesInv, Entry, kindVars, regVars, readerVars, wireVars
  <2>. QED BY <1>4, <2>5, <2>6, <2>7 DEF CopyBody, Judge
<1>5. CASE LowerState
  <2>4. turn' \in {"sent", "due", "begun", "over"}
    BY <1>5 DEF LowerState, TurnOver, Typed, TypeOK
  <2>1. CASE pc' = "poll" /\ UNCHANGED result
    BY <1>5, <2>1, <2>4 DEF LowerState, Typed, TypeOK, PiecesInv, kindVars, readerVars, wireVars
  <2>2. CASE Return("true")
    <3>1. result' \in Seq({"true", "false"}) /\ Len(result') = callNo /\ pc' = "idle"
      BY <1>5, <2>2, Returns DEF LowerState
    <3>. QED BY <1>5, <2>4, <3>1
       DEF LowerState, Typed, TypeOK, PiecesInv, kindVars, readerVars, wireVars
  <2>. QED BY <1>5, <2>1, <2>2 DEF LowerState, Judge
<1>. QED BY <1>1, <1>2, <1>3, <1>4, <1>5 DEF Caller

\* The reading thread takes up what was sent.
LEMMA ReaderTyped == ASSUME Typed, Reader PROVE Typed'
<1>1. CASE StoreHead
  <2>1. toHost \in Seq(Piece) /\ toHost # <<>> BY <1>1 DEF StoreHead, Typed, TypeOK
  <2>2. Head(toHost) \in Piece /\ Tail(toHost) \in Seq(Piece) BY <2>1
  <2>3. Head(toHost) # NoPiece BY <2>2, PieceFields
  <2>. QED BY <1>1, <2>2, <2>3
     DEF StoreHead, StoresHead, Typed, TypeOK, PiecesInv, kindVars, callerVars
<1>2. CASE StoreBody
  BY <1>2 DEF StoreBody, Typed, TypeOK, PiecesInv, kindVars, callerVars, wireVars
<1>3. CASE Raise
  <2>1. turn' \in {"sent", "due", "begun", "over"} BY <1>3 DEF Raise, Turns, Typed, TypeOK
  <2>. QED BY <1>3, <2>1 DEF Raise, Typed, TypeOK, PiecesInv, kindVars, callerVars, wireVars
<1>. QED BY <1>1, <1>2, <1>3 DEF Reader

\* The lidar sends pieces up to the number of pieces.
LEMMA LidarTyped == ASSUME Typed, Lidar PROVE Typed'
<1>0. toHost \in Seq(Piece) /\ toLidar \in Seq(Call) BY DEF Typed, TypeOK
<1>1. CASE TakeUp
  <2>1. PICK total \in 1..MaxPieces :
          sending' = [piece |-> [call |-> Head(toLidar), no |-> 0, total |-> total], over |-> FALSE]
    BY <1>1 DEF TakeUp
  <2>2. Head(toLidar) \in Call /\ Tail(toLidar) \in Seq(Call) BY <1>0, <1>1 DEF TakeUp
  <2>3. MaxPieces \in Nat /\ 0 \in 0..MaxPieces BY MaxPiecesAssumption
  <2>4. sending'.piece \in Piece /\ sending'.piece.no < sending'.piece.total
        /\ sending' \in [piece : Piece \cup {NoPiece}, over : BOOLEAN]
    BY <2>1, <2>2, <2>3 DEF Piece
  <2>. QED BY <1>1, <2>2, <2>4
     DEF TakeUp, Typed, TypeOK, PiecesInv, kindVars, callerVars, regVars, readerVars
<1>2. CASE SendPiece
  <2> DEFINE next == [sending.piece EXCEPT !.no = @ + 1]
  <2>1. /\ next \in Piece /\ next.no <= next.total /\ (IsLast(next) <=> next.no = next.total)
        /\ next.no \in Nat /\ next.total \in Nat
    BY <1>2, NextPiece DEF SendPiece, IsLast, Piece
  <2>2. sending' = [piece |-> next, over |-> IsLast(next)] /\ toHost' = Append(toHost, next)
    BY <1>2 DEF SendPiece
  <2>. HIDE DEF next
  <2>3. toHost' \in Seq(Piece) BY <1>0, <2>1, <2>2
  <2>4. IsLast(next) \in BOOLEAN BY DEF IsLast
  <2>5. /\ sending' \in [piece : Piece \cup {NoPiece}, over : BOOLEAN]
        /\ sending'.piece = next /\ sending'.over = IsLast(next)
    BY <2>1, <2>2, <2>4
  <2>6. sending'.piece.no <= sending'.piece.total
        /\ (~sending'.over => sending'.piece \in Piece /\ sending'.piece.no < sending'.piece.total)
    BY <2>1, <2>5
  <2>7. turn' \in {"sent", "due", "begun", "over"} BY <1>2 DEF SendPiece, Turns, Typed, TypeOK
  <2>. QED BY <1>2, <2>3, <2>5, <2>6, <2>7
       DEF SendPiece, Typed, TypeOK, PiecesInv, kindVars, callerVars, regVars, readerVars
<1>3. CASE Refuse
  <2>1. sending.piece \in Piece BY <1>3 DEF Refuse, Typed, PiecesInv
  <2>2. toHost' \in Seq(Piece) BY <1>0, <1>3, <2>1 DEF Refuse
  <2>3. sending' = [sending EXCEPT !.over = TRUE] /\ sending \in [piece : Piece \cup {NoPiece}, over : BOOLEAN]
    BY <1>3 DEF Refuse, Typed, TypeOK
  <2>4. /\ sending' \in [piece : Piece \cup {NoPiece}, over : BOOLEAN]
        /\ sending'.piece = sending.piece /\ sending'.over
    BY <2>3
  <2>. QED BY <1>3, <2>2, <2>4
     DEF Refuse, Typed, TypeOK, PiecesInv, kindVars, callerVars, regVars, readerVars
<1>4. CASE FallSilent
  <2>1. sending' = [sending EXCEPT !.over = TRUE] /\ sending \in [piece : Piece \cup {NoPiece}, over : BOOLEAN]
    BY <1>4 DEF FallSilent, Typed, TypeOK
  <2>2. /\ sending' \in [piece : Piece \cup {NoPiece}, over : BOOLEAN]
        /\ sending'.piece = sending.piece /\ sending'.over
    BY <2>1
  <2>. QED BY <1>4, <2>2
     DEF FallSilent, Typed, TypeOK, PiecesInv, kindVars, callerVars, regVars, readerVars
<1>. QED BY <1>1, <1>2, <1>3, <1>4 DEF Lidar

\* Typed is inductive.
LEMMA TypedStep == Typed /\ [Next]_vars => Typed'
<1>1. Typed /\ UNCHANGED vars => Typed'
  BY DEF Typed, TypeOK, PiecesInv, vars, kindVars, callerVars, regVars, readerVars, wireVars
<1>. QED BY <1>1, BeginTyped, CallerTyped, ReaderTyped, LidarTyped DEF Next, Finished

-----------------------------------------------------------------------------
(* A call to a paced lidar *)

\* Values of the state.
LEMMA Values ==
  ASSUME Typed
  PROVE  /\ log \in Seq(Entry) /\ Len(log) \in Nat /\ DOMAIN log = 1..Len(log)
         /\ toHost \in Seq(Piece) /\ toLidar \in Seq(Call)
         /\ sending.piece \in Piece \cup {NoPiece}
         /\ Sent \in Nat /\ callNo \in Nat
         /\ \A q \in Piece \cup {NoPiece} : q.no \in Nat /\ q.total \in Nat
<1>1. \A q \in Piece \cup {NoPiece} : q.no \in Nat /\ q.total \in Nat
  BY MaxPiecesAssumption DEF Piece, NoPiece
<1>. QED BY <1>1, MaxCallsAssumption DEF Typed, TypeOK, Entry, Sent

\* A call that begins has nothing of an earlier one under way.
LEMMA BeginUnderway == ASSUME Typed, paced, Begin PROVE Underway'
<1>1. Settled BY DEF Begin
<1>2. /\ toLidar = <<>> /\ toLidar' = Append(toLidar, callNo + 1) /\ callNo' = callNo + 1
      /\ sending' = sending /\ sending.over /\ toHost' = <<>> /\ raised' = FALSE /\ phase' = "idle"
      /\ pc' = "wait" /\ log' = <<>> /\ tmpHead' = NoPiece
  BY <1>1 DEF Begin, Settled, readerVars
<1>3. toLidar' = <<callNo'>> BY <1>2
<1>. QED BY <1>2, <1>3 DEF Underway, Asked, Live

\* sendData sees the state raised: the caller moves on, and nothing else changes.
LEMMA SeeRaisedUnderway == ASSUME Typed, Underway, paced, SeeRaised PROVE Underway'
<1>1. ~Asked /\ pc = "wait" /\ pc' = "poll" BY DEF SeeRaised, Asked, Live
<1>2. OnTheWay /\ Reading /\ SoFar BY <1>1 DEF Underway
<1>3. UNCHANGED <<kindVars, callNo, tmpHead, log, result, regVars, readerVars, wireVars, turn>>
  BY DEF SeeRaised
<1>4. OnTheWay' BY <1>2, <1>3 DEF OnTheWay, Live, Mine, Sent, regVars, readerVars, wireVars
<1>5. HeliosLog => HeliosLog'
  BY <1>1, <1>3 DEF HeliosLog, Live, Sent, Copy, PieceOf, regVars, readerVars, wireVars
<1>6. AiryLog => AiryLog'
  BY <1>1, <1>3
     DEF AiryLog, Headed, KeepsHead, Mine, Sent, Copy, PieceOf, regVars, readerVars, wireVars,
         kindVars
<1>8. Reading' BY <1>1, <1>2, <1>3 DEF Reading, Sent, kindVars, regVars, readerVars, wireVars
<1>7. SoFar' BY <1>2, <1>3, <1>5, <1>6 DEF SoFar, kindVars
<1>. QED BY <1>4, <1>7, <1>8 DEF Underway

\* The header copied is that of reg_back_data_, or stays the one in front.
LEMMA CopyHeadUnderway == ASSUME Typed, Underway, paced, CopyHead PROVE Underway'
<1>1. ~Asked /\ pc = "poll" /\ pc' = "copy" /\ raised BY DEF CopyHead, Asked, Available
<1>2. OnTheWay /\ Reading /\ SoFar BY <1>1 DEF Underway
<1>3. UNCHANGED <<kindVars, callNo, log, result, regVars, readerVars, wireVars>> BY DEF CopyHead
<1>4. OnTheWay' BY <1>2, <1>3 DEF OnTheWay, Live, Mine, Sent, regVars, readerVars, wireVars
<1>7. turn' = IF turn = "due" THEN "begun" ELSE turn BY DEF CopyHead
<1>8. Reading'
  <2>1. kind = "event" => tmpHead' = regHead BY DEF CopyHead, KeepsHead
  <2>. QED BY <1>1, <1>2, <1>3, <1>7, <2>1 DEF Reading, Sent, kindVars, regVars, readerVars, wireVars
<1>5. CASE family = "helios"
  <2>1. HeliosLog /\ tmpHead' = regHead BY <1>2, <1>5 DEF SoFar, CopyHead, KeepsHead
  <2>2. HeliosLog'
    BY <1>1, <1>3, <2>1 DEF HeliosLog, Live, Sent, Copy, PieceOf, regVars, readerVars, wireVars
  <2>. QED BY <1>3, <1>4, <1>5, <1>8, <2>2 DEF Underway, SoFar, kindVars
<1>6. CASE family # "helios"
  <2>1. AiryLog BY <1>2, <1>6 DEF SoFar
  <2>2. Mine(regHead) /\ regHead.no \in Nat /\ regHead # NoPiece
    BY <1>1, <1>2, Values, PieceFields DEF OnTheWay, Live, Typed, PiecesInv
  <2>3. Mine(tmpHead') /\ tmpHead'.no <= regHead.no /\ InOrder(log, callNo, sending.piece.total, tmpHead'.no)
    <3>1. CASE KeepsHead /\ tmpHead' = tmpHead BY <2>1, <3>1 DEF AiryLog, Headed
    <3>2. CASE tmpHead' = regHead BY <2>1, <2>2, <3>2 DEF AiryLog
    <3>. QED BY <3>1, <3>2 DEF CopyHead
  <2>4. AiryLog' BY <1>1, <1>3, <1>7, <2>1, <2>3 DEF AiryLog, Mine, Sent, kindVars, regVars, wireVars
  <2>. QED BY <1>3, <1>4, <1>6, <1>8, <2>4 DEF Underway, SoFar, kindVars
<1>. QED BY <1>5, <1>6

\* The piece sent last, by its fields.
LEMMA SentLast ==
  ASSUME Typed, OnTheWay, sending.piece \in Piece
  PROVE  sending.piece = PieceOf(Sent)
  BY DEF OnTheWay, PieceOf, Sent, Piece

\* HeliosCom takes one more piece.
LEMMA HeliosCopies ==
  ASSUME Typed, OnTheWay, HeliosLog, CopyBody, family = "helios"
  PROVE  HeliosLog' /\ pc' = "lower"
<1>1. pc = "copy" /\ raised /\ tmpHead = sending.piece /\ regBody = sending.piece /\ Sent > 0 /\ toHost = <<>>
      /\ phase = "idle"
  BY DEF CopyBody, HeliosLog, Live
<1>2. tmpHead \in Piece BY <1>1 DEF Typed, PiecesInv
<1>3. tmpHead = PieceOf(Sent) BY <1>1, <1>2, SentLast
<1>4. UNCHANGED <<callNo, tmpHead, regVars, readerVars, wireVars>> /\ pc' = "lower"
  BY <1>1 DEF CopyBody
<1>5. Sent \in Nat /\ Sent - 1 \in Nat BY <1>1, Values
<1>6. log = [i \in 1..(Sent - 1) |-> Copy(i)] BY <1>1 DEF HeliosLog, Live
<1>10. log' = Append(log, Copy(Sent))
  <2>1. log # <<>> => Last(log).head.no = Sent - 1
    <3>1. Len(log) = Sent - 1 BY <1>5, <1>6, Values
    <3>2. log # <<>> => log[Len(log)] = Copy(Sent - 1) BY <1>5, <1>6, <3>1
    <3>. QED BY <3>1, <3>2 DEF Last, Copy, PieceOf
  <2>2. tmpHead.no = Sent BY <1>3 DEF PieceOf
  <2>3. ~Repeats BY <1>5, <2>1, <2>2 DEF Repeats
  <2>4. NextEntry = Copy(Sent) BY <1>1, <1>3 DEF NextEntry, Extent, Copy
  <2>. QED BY <2>3, <2>4, Logged
<1>7. log' = [i \in 1..Sent |-> Copy(i)]
  <2> DEFINE n == Sent - 1
             all == [i \in 1..Sent |-> Copy(i)]
  <2>1. n \in Nat /\ Sent = n + 1 BY <1>5
  <2>2. Len(log) = n /\ log \in Seq(Entry) BY <1>5, <1>6, Values
  <2>3. Len(log') = n + 1 /\ \A i \in 1..n : log'[i] = log[i] BY <1>10, <2>2
  <2>4. log'[n + 1] = Copy(Sent) BY <1>10, <2>2
  <2>5. \A i \in 1..Sent : log'[i] = Copy(i) BY <1>6, <2>1, <2>3, <2>4
  <2>6. log' \in Seq(Entry)
    <3>1. Copy(Sent) \in Entry BY <1>2, <1>3 DEF Copy, Entry
    <3>. QED BY <1>10, <2>2, <3>1
  <2>7. DOMAIN log' = 1..Sent BY <2>1, <2>3, <2>6
  <2>. QED BY <2>5, <2>6, <2>7
<1>8. Sent' = Sent /\ \A i : Copy(i)' = Copy(i) BY <1>4 DEF Sent, Copy, PieceOf, wireVars
<1>9. log' = [i \in 1..Sent' |-> Copy(i)'] BY <1>7, <1>8
<1>. QED BY <1>1, <1>4, <1>8, <1>9 DEF HeliosLog, Live, regVars, readerVars, wireVars

\* The order is kept by one more header, the greatest so far.
LEMMA OneMore ==
  ASSUME NEW l, NEW k, Grown(l, k), NEW call, NEW total,
         Last(k).head.call = call, Last(k).head.total = total,
         InOrder(l, call, total, Last(k).head.no)
  PROVE  InOrder(k, call, total, Last(k).head.no)
<1> DEFINE m == Len(l)
           n == Len(k)
           most == Last(k).head.no
<1>0. l \in Seq(Entry) /\ k \in Seq(Entry) /\ k # <<>> /\ n \in {m, m + 1} BY DEF Grown
<1>1. /\ m \in Nat /\ n \in Nat /\ DOMAIN l = 1..m /\ DOMAIN k = 1..n
      /\ n \in {m, m + 1} /\ n > 0
      /\ \A i \in 1..m : k[i].head = l[i].head
      /\ k[n].head.call = call /\ k[n].head.total = total /\ k[n].head.no = most
  <2>1. m \in Nat /\ n \in Nat /\ DOMAIN l = 1..m /\ DOMAIN k = 1..n /\ n > 0 BY <1>0
  <2>. QED BY <1>0, <2>1 DEF Grown, Last
<1>2. \A i \in 1..n : i \in 1..m \/ i = n
  <2>. HIDE DEF m, n
  <2>. QED BY <1>1
<1>3. most \in Nat
  <2>1. \A i \in 1..n : k[i] \in Entry BY <1>0
  <2>2. n \in 1..n
    <3>. HIDE DEF n, m
    <3>. QED BY <1>1
  <2>3. k[n] \in Entry BY <2>1, <2>2
  <2>4. k[n].head.no \in 0..MaxPieces BY <2>3 DEF Entry, Piece
  <2>5. most \in 0..MaxPieces BY <1>1, <2>4
  <2>. HIDE DEF most
  <2>. QED BY <2>5, MaxPiecesAssumption
<1>. HIDE DEF m, n, most
<1>4. \A i \in 1..m : /\ l[i].head.call = call /\ l[i].head.total = total /\ l[i].head.no <= most
                      /\ \A j \in 1..m : i < j => l[i].head.no <= l[j].head.no
  BY <1>1 DEF InOrder, most
<1>5. ASSUME NEW i \in 1..n
      PROVE  /\ k[i].head.call = call /\ k[i].head.total = total /\ k[i].head.no <= most
             /\ \A j \in 1..n : i < j => k[i].head.no <= k[j].head.no
  <2>1. CASE i \in 1..m
    <3>1. k[i].head = l[i].head BY <1>1, <2>1
    <3>2. ASSUME NEW j \in 1..n, i < j PROVE k[i].head.no <= k[j].head.no
      <4>1. CASE j \in 1..m BY <1>1, <1>4, <2>1, <3>2, <4>1
      <4>2. CASE j = n BY <1>1, <1>4, <2>1, <4>2
      <4>. QED BY <1>2, <4>1, <4>2
    <3>. QED BY <1>4, <2>1, <3>1, <3>2
  <2>2. CASE i = n
    <3>1. \A j \in 1..n : ~(i < j) BY <1>1, <2>2
    <3>. QED BY <1>1, <1>3, <2>2, <3>1
  <2>. QED BY <1>2, <2>1, <2>2
<1>. QED BY <1>1, <1>5 DEF InOrder, most

\* No copy is lost when one more is made.
LEMMA KeepsCopies ==
  ASSUME NEW l, NEW k, Grown(l, k), NEW call, NEW total, NEW n, CopiedBefore(l, call, total, n)
  PROVE  CopiedBefore(k, call, total, n)
<1> SUFFICES ASSUME NEW c \in 1..(n - 1), NEW p, p = [call |-> call, no |-> c, total |-> total]
             PROVE  \E i \in DOMAIN k : k[i].head = p /\ k[i].body = p
  BY DEF CopiedBefore
<1>1. PICK i \in DOMAIN l : l[i].head = p /\ l[i].body = p BY DEF CopiedBefore
<1>2. i \in DOMAIN k /\ k[i].head = l[i].head /\ k[i].body = l[i].body BY DEF Grown
<1>. QED BY <1>1, <1>2

\* An unmixed copy of the n-th piece is one more piece copied.
LEMMA OneCopied ==
  ASSUME NEW k \in Seq(Entry), k # <<>>, NEW call, NEW total, NEW n \in Nat,
         CopiedBefore(k, call, total, n), NEW p, p = [call |-> call, no |-> n, total |-> total],
         Last(k).head = p, Last(k).body = p
  PROVE  CopiedBefore(k, call, total, n + 1)
<1> SUFFICES ASSUME NEW c \in 1..((n + 1) - 1), NEW q, q = [call |-> call, no |-> c, total |-> total]
             PROVE  \E i \in DOMAIN k : k[i].head = q /\ k[i].body = q
  BY DEF CopiedBefore
<1>1. CASE c = n
  <2>1. Len(k) \in DOMAIN k /\ k[Len(k)].head = p /\ k[Len(k)].body = p BY DEF Last
  <2>. QED BY <1>1, <2>1
<1>2. CASE c \in 1..(n - 1) BY <1>2 DEF CopiedBefore
<1>. QED BY <1>1, <1>2

\* A bound on the pieces can be raised.
LEMMA RaisedBound ==
  ASSUME NEW l \in Seq(Entry), NEW call, NEW total, NEW most \in Nat, NEW more \in Nat, most <= more,
         InOrder(l, call, total, most)
  PROVE  InOrder(l, call, total, more)
<1>1. ASSUME NEW i \in DOMAIN l PROVE l[i].head.no <= more
  <2>1. l[i] \in Entry OBVIOUS
  <2>2. l[i].head.no \in Nat BY <2>1, MaxPiecesAssumption DEF Entry, Piece
  <2>. QED BY <2>2 DEF InOrder
<1>. QED BY <1>1 DEF InOrder

\* AiryCom and Ruby4Com copy once more: what AiryLog says of the log, with the
\* header of this copy as the greatest.
AiryCopied ==
  /\ log' # <<>> /\ Last(log').head = tmpHead
  /\ InOrder(log', callNo, sending.piece.total, tmpHead.no)
  /\ kind = "event" =>
       /\ CopiedBefore(log', callNo, sending.piece.total, Sent)
       /\ turn \in {"begun", "over"} => CopiedBefore(log', callNo, sending.piece.total, Sent + 1)

\* AiryCopied is what a step of a getter of AiryCom or Ruby4Com leaves.
LEMMA AiryCopies ==
  ASSUME Typed, OnTheWay, Reading, AiryLog, CopyBody, family # "helios"
  PROVE  AiryCopied
<1>1. pc = "copy" /\ raised BY DEF CopyBody, AiryLog, Headed
<1>2. tmpHead \in Piece /\ tmpHead.call = callNo /\ tmpHead.total = sending.piece.total
      /\ InOrder(log, callNo, sending.piece.total, tmpHead.no)
  BY <1>1 DEF AiryLog, Headed, Mine, Typed, PiecesInv
<1>3. Grown(log, log') /\ Last(log').head = tmpHead /\ Last(log').body = regBody BY Logged
<1>4. InOrder(log', callNo, sending.piece.total, tmpHead.no) BY <1>2, <1>3, OneMore
<1>5. Sent \in Nat /\ log' \in Seq(Entry) /\ log' # <<>> BY <1>3, Values DEF Grown
<1>6. ASSUME kind = "event" PROVE CopiedBefore(log', callNo, sending.piece.total, Sent)
  BY <1>3, <1>6, KeepsCopies DEF AiryLog
<1>7. ASSUME kind = "event", turn = "over"
      PROVE  CopiedBefore(log', callNo, sending.piece.total, Sent + 1)
  BY <1>3, <1>7, KeepsCopies DEF AiryLog
<1>8. ASSUME kind = "event", turn = "begun"
      PROVE  CopiedBefore(log', callNo, sending.piece.total, Sent + 1)
  <2>1. CASE Sent = 0 BY <2>1 DEF CopiedBefore
  <2>2. CASE Sent > 0
    <3>1. tmpHead = sending.piece /\ regBody = sending.piece BY <1>8, <2>2 DEF Reading
    <3>2. sending.piece = PieceOf(Sent) BY <1>2, <3>1, SentLast
    <3>3. CopiedBefore(log', callNo, sending.piece.total, Sent) BY <1>6, <1>8
    <3>. QED BY <1>3, <1>5, <3>1, <3>2, <3>3, OneCopied DEF PieceOf
  <2>. QED BY <1>5, <2>1, <2>2
<1>. QED BY <1>3, <1>4, <1>5, <1>6, <1>7, <1>8 DEF AiryCopied

\* A getter has copied the body too.
LEMMA CopyBodyUnderway == ASSUME Typed, Underway, paced, CopyBody PROVE Underway'
<1>1. pc = "copy" /\ ~Asked BY DEF CopyBody, Asked
<1>2. OnTheWay /\ Reading /\ SoFar BY <1>1 DEF Underway
<1>3. UNCHANGED <<kindVars, callNo, tmpHead, regVars, readerVars, wireVars>> BY DEF CopyBody
<1>4. OnTheWay' BY <1>2, <1>3 DEF OnTheWay, Live, Mine, Sent, regVars, readerVars, wireVars
<1>5. CASE family = "helios"
  <2>1. HeliosLog' /\ pc' = "lower" BY <1>2, <1>5, HeliosCopies DEF SoFar
  <2>2. turn' = turn BY <1>5 DEF CopyBody
  <2>3. Reading' BY <1>2, <1>3, <2>1, <2>2 DEF Reading, Sent, kindVars, regVars, readerVars, wireVars
  <2>. QED BY <1>3, <1>4, <1>5, <2>1, <2>3 DEF Underway, SoFar, kindVars
<1>6. CASE family # "helios"
  <2>1. AiryLog /\ AiryCopied BY <1>2, <1>6, AiryCopies DEF SoFar
  <2>4. turn' = IF turn = "begun" THEN "over" ELSE turn BY <1>6 DEF CopyBody, TurnOver
  <2>5. Reading' BY <1>2, <1>3, <1>6, <2>4 DEF Reading, Sent, kindVars, regVars, readerVars, wireVars
  <2>2. CASE pc' = "idle" BY <2>2 DEF Underway
  <2>3. CASE pc' = "poll"
    <3>1. raised /\ tmpHead.no <= regHead.no BY <1>1, <2>1
       DEF AiryLog, Headed, KeepsHead, kindVars
    <3>2. tmpHead.no \in Nat /\ regHead.no \in Nat BY Values DEF Typed, TypeOK
    <3>3. log' \in Seq(Entry)
      <4>1. Typed' BY CallerTyped DEF Caller
      <4>. QED BY <4>1 DEF Typed, TypeOK, Entry
    <3>4. InOrder(log', callNo, sending.piece.total, regHead.no)
      <4>1. InOrder(log', callNo, sending.piece.total, tmpHead.no) BY <2>1 DEF AiryCopied
      <4>. QED BY <3>1, <3>2, <3>3, <4>1, RaisedBound
    <3>5. kind = "event" =>
            /\ CopiedBefore(log', callNo, sending.piece.total, Sent)
            /\ turn' = "over" => CopiedBefore(log', callNo, sending.piece.total, Sent + 1)
      BY <2>1, <2>4 DEF AiryCopied
    <3>6. InOrder(log', callNo, sending.piece.total, tmpHead.no) BY <2>1 DEF AiryCopied
    <3>7. Mine(tmpHead)' BY <1>1, <1>3, <2>1 DEF AiryLog, Headed, Mine, Sent, wireVars
    <3>8. AiryLog' BY <1>3, <3>1, <3>4, <3>5, <3>6, <3>7 DEF AiryLog, Sent, kindVars, regVars, wireVars
    <3>. QED BY <1>3, <1>4, <1>6, <2>5, <3>8 DEF Underway, SoFar, kindVars
  <2>. QED BY <1>6, <2>2, <2>3 DEF CopyBody, Judge, Return
<1>. QED BY <1>5, <1>6

\* HeliosCom lowers the state when it has taken a piece.
LEMMA LowerUnderway == ASSUME Typed, Underway, paced, LowerState PROVE Underway'
<1>1. pc = "lower" /\ ~Asked /\ family = "helios" BY DEF LowerState, Asked, Typed, PiecesInv
<1>2. OnTheWay /\ Reading /\ HeliosLog BY <1>1 DEF Underway, SoFar
<1>3. UNCHANGED <<kindVars, callNo, tmpHead, log, regHead, regBody, readerVars, wireVars>>
      /\ raised' = FALSE /\ pc' \in {"idle", "poll"}
  BY DEF LowerState, Judge, Return
<1>4. raised /\ phase = "idle" /\ toHost = <<>> BY <1>1, <1>2 DEF HeliosLog, Live
<1>5. ~Live' BY <1>3, <1>4 DEF Live, readerVars
<1>6. OnTheWay' BY <1>2, <1>3, <1>4, <1>5 DEF OnTheWay, wireVars
<1>7. HeliosLog' BY <1>1, <1>2, <1>3, <1>4, <1>5
   DEF HeliosLog, Sent, Copy, PieceOf, readerVars, wireVars
<1>9. turn' = IF turn = "begun" THEN "over" ELSE turn BY DEF LowerState, TurnOver
<1>8. Reading' BY <1>2, <1>3, <1>4, <1>9 DEF Reading, Sent, kindVars, readerVars, wireVars
<1>. QED BY <1>1, <1>3, <1>6, <1>7, <1>8 DEF Underway, SoFar, kindVars

\* The reading thread takes a piece up, stores it and raises the state.
LEMMA StoreHeadUnderway == ASSUME Typed, Underway, paced, StoreHead, pc # "idle" PROVE Underway'
<1>1. ~Asked /\ phase = "idle" /\ toHost # <<>> BY DEF StoreHead, Asked
<1>2. OnTheWay /\ Reading /\ SoFar BY <1>1 DEF Underway
<1>3. /\ toHost = <<sending.piece>> /\ toHost' = <<>> /\ regHead' = sending.piece
      /\ parsing' = sending.piece /\ phase' = "head"
      /\ UNCHANGED <<kindVars, callerVars, raised, regBody, toLidar, sending, turn>>
  <2>1. toHost = <<sending.piece>> BY <1>1, <1>2 DEF OnTheWay
  <2>2. Head(toHost) = sending.piece /\ Tail(toHost) = <<>> BY <2>1
  <2>. QED BY <2>1, <2>2 DEF StoreHead, StoresHead
<1>4. sending.piece \in Piece
  <2>1. toHost \in Seq(Piece) /\ Len(toHost) = 1 BY <1>3, Values
  <2>. QED BY <1>3, <2>1
<1>5. OnTheWay'
  <2>1. Mine(sending.piece) BY <1>2, Values DEF OnTheWay, Mine, Sent
  <2>2. ~sending.over => Sent # 0 BY <1>1, <1>2 DEF OnTheWay
  <2>. QED BY <1>2, <1>3, <2>1, <2>2 DEF OnTheWay, Mine, Sent, callerVars
<1>8. Reading' BY <1>1, <1>2, <1>3 DEF Reading, Sent
<1>6. CASE family = "helios"
  <2>1. HeliosLog BY <1>2, <1>6 DEF SoFar
  <2>2. ~raised /\ ~Live BY <1>1, <2>1 DEF HeliosLog, Live
  <2>3. HeliosLog'
    BY <1>1, <1>3, <2>1, <2>2 DEF HeliosLog, Live, Sent, Copy, PieceOf, callerVars
  <2>. QED BY <1>3, <1>5, <1>6, <1>8, <2>3 DEF Underway, SoFar, kindVars
<1>7. CASE family # "helios"
  <2>1. AiryLog BY <1>2, <1>7 DEF SoFar
  <2>2. regHead.no \in Nat /\ Sent \in Nat /\ log \in Seq(Entry) /\ regHead'.no = Sent
    BY <1>3, Values DEF Typed, TypeOK, Sent
  <2>3. CASE raised
    <3>1. regHead.no <= Sent BY <1>1, <1>2, <2>2, <2>3 DEF OnTheWay, Live
    <3>2. InOrder(log, callNo, sending.piece.total, Sent) BY <2>1, <2>2, <3>1, RaisedBound
       DEF AiryLog
    <3>3. pc = "copy" => tmpHead.no <= Sent
      <4>1. tmpHead.no \in Nat BY Values DEF Typed, TypeOK
      <4>. QED BY <2>1, <2>2, <3>1, <4>1 DEF AiryLog, Headed, KeepsHead, kindVars
    <3>4. AiryLog' BY <1>3, <2>1, <2>2, <3>2, <3>3
       DEF AiryLog, Headed, KeepsHead, Mine, Sent, callerVars, kindVars
    <3>. QED BY <1>3, <1>5, <1>7, <1>8, <3>4 DEF Underway, SoFar, kindVars
  <2>4. CASE ~raised
    <3>1. log = <<>> /\ pc # "copy" BY <2>1, <2>4 DEF AiryLog, Headed, KeepsHead, kindVars
    <3>2. InOrder(log, callNo, sending.piece.total, Sent) BY <3>1 DEF InOrder
    <3>3. AiryLog' BY <1>3, <2>1, <2>2, <3>1, <3>2
       DEF AiryLog, Headed, KeepsHead, Mine, Sent, callerVars, kindVars
    <3>. QED BY <1>3, <1>5, <1>7, <1>8, <3>3 DEF Underway, SoFar, kindVars
  <2>. QED BY <2>3, <2>4
<1>. QED BY <1>6, <1>7

\* The body follows the header.
LEMMA StoreBodyUnderway == ASSUME Typed, Underway, paced, StoreBody, pc # "idle" PROVE Underway'
<1>1. ~Asked /\ phase = "head" BY DEF StoreBody, Asked, Live
<1>2. OnTheWay /\ Reading /\ SoFar BY <1>1 DEF Underway
<1>3. /\ regBody' = parsing /\ phase' = "stored"
      /\ UNCHANGED <<kindVars, callerVars, raised, regHead, parsing, wireVars, turn>>
  BY DEF StoreBody
<1>4. OnTheWay' BY <1>1, <1>2, <1>3 DEF OnTheWay, Live, Mine, Sent, callerVars, wireVars
<1>5. HeliosLog => HeliosLog'
  BY <1>1, <1>3 DEF HeliosLog, Live, Sent, Copy, PieceOf, callerVars, wireVars
<1>6. AiryLog => AiryLog' BY <1>3
   DEF AiryLog, Headed, KeepsHead, Mine, Sent, callerVars, wireVars, kindVars
<1>7. Reading' BY <1>1, <1>2, <1>3 DEF Reading, Sent, wireVars
<1>. QED BY <1>2, <1>3, <1>4, <1>5, <1>6, <1>7 DEF Underway, SoFar, kindVars

\* The piece stored is there to be taken.
LEMMA RaiseUnderway == ASSUME Typed, Underway, paced, Raise, pc # "idle" PROVE Underway'
<1>1. ~Asked /\ phase = "stored" BY DEF Raise, Asked, Live
<1>2. OnTheWay /\ Reading /\ SoFar BY <1>1 DEF Underway
<1>3. /\ raised' = TRUE /\ phase' = "idle"
      /\ UNCHANGED <<kindVars, callerVars, regHead, regBody, wireVars>>
      /\ turn' = "due"
  BY DEF Raise, Turns
<1>4. OnTheWay' BY <1>1, <1>2, <1>3 DEF OnTheWay, Live, Mine, Sent, callerVars, wireVars
<1>5. HeliosLog => HeliosLog'
  BY <1>1, <1>3 DEF HeliosLog, Live, Sent, Copy, PieceOf, callerVars, wireVars
<1>6. AiryLog => AiryLog' BY <1>3
   DEF AiryLog, Headed, KeepsHead, Mine, Sent, callerVars, wireVars, kindVars
<1>7. Reading' BY <1>1, <1>2, <1>3 DEF Reading, Sent, wireVars
<1>. QED BY <1>2, <1>3, <1>4, <1>5, <1>6, <1>7 DEF Underway, SoFar, kindVars

\* The lidar takes the request up.
LEMMA TakeUpUnderway == ASSUME Typed, Underway, paced, TakeUp, pc # "idle" PROVE Underway'
<1>1. Asked BY DEF TakeUp, OnTheWay, Underway
<1>2. PICK total \in 1..MaxPieces :
        sending' = [piece |-> [call |-> Head(toLidar), no |-> 0, total |-> total], over |-> FALSE]
  BY DEF TakeUp
<1>3. /\ toLidar' = <<>> /\ sending'.piece.call = callNo /\ Sent' = 0
      /\ UNCHANGED <<kindVars, callerVars, regVars, readerVars, toHost, turn>>
  BY <1>1, <1>2 DEF TakeUp, Asked, Sent
<1>4. OnTheWay' BY <1>1, <1>3 DEF OnTheWay, Asked, Live, callerVars, regVars, readerVars
<1>5. HeliosLog'
  BY <1>1, <1>3 DEF HeliosLog, Asked, Live, callerVars, regVars, readerVars
<1>6. AiryLog'
  BY <1>1, <1>3
     DEF AiryLog, Headed, KeepsHead, Asked, Live, InOrder, CopiedBefore, callerVars, regVars,
         readerVars, kindVars
<1>7. Reading' BY <1>1, <1>3 DEF Reading, Asked, Live, readerVars
<1>. QED BY <1>4, <1>5, <1>6, <1>7 DEF Underway, SoFar

\* A paced lidar sends a piece when the turn of the one before is over: nothing
\* is on its way then, and the log has a copy of it.
LEMMA Gone ==
  ASSUME Typed, OnTheWay, Reading, SoFar, ~sending.over,
         Sent = 0 \/ turn = "over"
  PROVE  /\ toHost = <<>> /\ phase = "idle"
         /\ family = "helios" => ~Live /\ log = [i \in 1..Sent |-> Copy(i)]
         /\ family # "helios" /\ kind = "event" =>
              CopiedBefore(log, callNo, sending.piece.total, Sent + 1)
<1>1. Sent \in Nat BY Values
<1>2. CASE Sent = 0
  <2>1. toHost = <<>> /\ ~Live BY <1>2 DEF OnTheWay
  <2>2. family = "helios" => log = [i \in 1..Sent |-> Copy(i)] BY <2>1 DEF SoFar, HeliosLog
  <2>3. CopiedBefore(log, callNo, sending.piece.total, Sent + 1) BY <1>2 DEF CopiedBefore
  <2>. QED BY <2>1, <2>2, <2>3 DEF Live
<1>3. CASE turn = "over" /\ Sent > 0
  <2>1. toHost = <<>> /\ phase = "idle" /\ (family = "helios" => ~raised)
    BY <1>3 DEF Reading
  <2>2. CASE family = "helios"
    <3>1. HeliosLog /\ ~Live BY <2>1, <2>2 DEF SoFar, Live
    <3>2. pc # "lower" BY <2>1, <2>2, <3>1 DEF HeliosLog
    <3>3. log = [i \in 1..Sent |-> Copy(i)] BY <2>1, <3>1 DEF HeliosLog
    <3>. QED BY <2>1, <2>2, <3>1, <3>3
  <2>3. CASE family # "helios" BY <1>3, <2>1, <2>3 DEF SoFar, AiryLog
  <2>. QED BY <2>2, <2>3
<1>. QED BY <1>1, <1>2, <1>3

\* The next piece goes on its way alone.
LEMMA SendPieceUnderway == ASSUME Typed, Underway, paced, SendPiece, pc # "idle" PROVE Underway'
<1> DEFINE next == [sending.piece EXCEPT !.no = @ + 1]
<1>1. ~Asked /\ ~sending.over BY DEF SendPiece, Asked
<1>2. OnTheWay /\ Reading /\ SoFar BY <1>1 DEF Underway
<1>3. /\ next \in Piece /\ next.call = sending.piece.call /\ next.no = Sent + 1
      /\ next.total = sending.piece.total
  BY <1>1, NextPiece
<1>4. /\ toHost' = Append(toHost, next) /\ sending' = [piece |-> next, over |-> IsLast(next)]
      /\ Sent = 0 \/ turn = "over"
      /\ turn' = "sent"
      /\ UNCHANGED <<kindVars, callerVars, regVars, readerVars, toLidar>>
  BY DEF SendPiece, Sent, Turns
<1>. HIDE DEF next
<1>5. /\ sending'.piece = next /\ Sent' = Sent + 1 /\ sending'.piece.total = sending.piece.total
      /\ sending'.piece.call = sending.piece.call
  BY <1>3, <1>4 DEF Sent
<1>6. Sent \in Nat /\ regHead.no \in Nat /\ tmpHead.no \in Nat BY Values DEF Typed, TypeOK
<1>7. /\ toHost = <<>> /\ phase = "idle"
      /\ family = "helios" => ~Live /\ log = [i \in 1..Sent |-> Copy(i)]
      /\ family # "helios" /\ kind = "event" =>
           CopiedBefore(log, callNo, sending.piece.total, Sent + 1)
  BY <1>1, <1>2, <1>4, Gone
<1>8. toHost' = <<next>> BY <1>4, <1>7
<1>9. OnTheWay'
  BY <1>2, <1>4, <1>5, <1>6, <1>8
     DEF OnTheWay, Live, Mine, Sent, callerVars, regVars, readerVars
<1>12. Reading' BY <1>4, <1>7 DEF Reading, readerVars
<1>10. CASE family = "helios"
  <2>1. HeliosLog /\ ~Live BY <1>2, <1>7, <1>10 DEF SoFar
  <2>2. \A i : Copy(i)' = Copy(i) BY <1>4, <1>5 DEF Copy, PieceOf, callerVars
  <2>3. log' = [i \in 1..(Sent' - 1) |-> Copy(i)']
    <3>1. Sent' - 1 = Sent /\ log' = log BY <1>4, <1>5, <1>6 DEF callerVars
    <3>. QED BY <1>7, <1>10, <2>2, <3>1
  <2>4. ~Live' /\ pc' \notin {"copy", "lower"} /\ toHost' # <<>>
    BY <1>4, <1>8, <2>1 DEF Live, HeliosLog, callerVars, regVars, readerVars
  <2>5. HeliosLog' BY <1>5, <1>6, <2>3, <2>4 DEF HeliosLog, Live
  <2>. QED BY <1>4, <1>9, <1>10, <1>12, <2>5 DEF Underway, SoFar, kindVars
<1>11. CASE family # "helios"
  <2>1. AiryLog BY <1>2, <1>11 DEF SoFar
  <2>2. UNCHANGED <<family, kind, callNo, tmpHead, log, pc, raised, regHead>>
        /\ sending'.piece.total = sending.piece.total
    BY <1>4, <1>5 DEF kindVars, callerVars, regVars
  <2>3. Headed' = Headed BY <2>2 DEF Headed, KeepsHead
  <2>4. \A q : q.no \in Nat /\ Mine(q) => Mine(q)'
    BY <1>5, <1>6, <2>2 DEF Mine
  <2>5. kind = "event" => CopiedBefore(log, callNo, sending.piece.total, Sent')
    BY <1>5, <1>7, <1>11
  <2>6. Headed => Mine(tmpHead)' BY <1>5, <1>6, <2>1, <2>2 DEF AiryLog, Mine
  <2>7. AiryLog' BY <1>4, <2>1, <2>2, <2>3, <2>5, <2>6 DEF AiryLog
  <2>. QED BY <1>4, <1>9, <1>11, <1>12, <2>7 DEF Underway, SoFar, kindVars
<1>. QED BY <1>10, <1>11

\* A refusal is sent when nothing was, and the state is not raised.
LEMMA RefuseUnderway == ASSUME Typed, Underway, paced, Refuse, pc # "idle" PROVE Underway'
<1>1. ~Asked /\ ~sending.over BY DEF Refuse, Asked
<1>2. OnTheWay /\ Reading /\ SoFar BY <1>1 DEF Underway
<1>3. Sent = 0 /\ family # "helios" /\ toHost = <<>> /\ ~Live BY <1>1, <1>2
   DEF Refuse, OnTheWay, Sent
<1>4. /\ toHost' = <<sending.piece>> /\ sending'.piece = sending.piece /\ sending'.over
      /\ UNCHANGED <<kindVars, callerVars, regVars, readerVars, toLidar, turn>>
  <2>1. sending' = [sending EXCEPT !.over = TRUE] /\ toHost' = Append(toHost, sending.piece)
    BY DEF Refuse
  <2>2. sending \in [piece : Piece \cup {NoPiece}, over : BOOLEAN] BY DEF Typed, TypeOK
  <2>. QED BY <1>3, <2>1, <2>2 DEF Refuse
<1>5. OnTheWay'
  BY <1>2, <1>3, <1>4 DEF OnTheWay, Live, Mine, Sent, callerVars, regVars, readerVars
<1>6. AiryLog'
  BY <1>2, <1>3, <1>4
     DEF SoFar, AiryLog, Headed, KeepsHead, Mine, Sent, Live, kindVars, callerVars, regVars,
         readerVars
<1>7. Reading' BY <1>3, <1>4 DEF Reading, Sent, Live, readerVars
<1>. QED BY <1>3, <1>4, <1>5, <1>6, <1>7 DEF Underway, SoFar, kindVars

\* A lidar that falls silent leaves what was sent.
LEMMA FallSilentUnderway == ASSUME Typed, Underway, paced, FallSilent, pc # "idle" PROVE Underway'
<1>1. ~Asked /\ ~sending.over BY DEF FallSilent, Asked
<1>2. OnTheWay /\ Reading /\ SoFar BY <1>1 DEF Underway
<1>3. /\ sending'.piece = sending.piece /\ sending'.over
      /\ UNCHANGED <<kindVars, callerVars, regVars, readerVars, toLidar, toHost, turn>>
  <2>1. sending' = [sending EXCEPT !.over = TRUE] BY DEF FallSilent
  <2>2. sending \in [piece : Piece \cup {NoPiece}, over : BOOLEAN] BY DEF Typed, TypeOK
  <2>. QED BY <2>1, <2>2 DEF FallSilent
<1>4. OnTheWay'
  BY <1>2, <1>3 DEF OnTheWay, Live, Mine, Sent, callerVars, regVars, readerVars
<1>5. HeliosLog => HeliosLog'
  BY <1>3 DEF HeliosLog, Live, Sent, Copy, PieceOf, callerVars, regVars, readerVars
<1>6. AiryLog => AiryLog'
  BY <1>3 DEF AiryLog, Headed, KeepsHead, Mine, Sent, kindVars, callerVars, regVars
<1>7. Reading' BY <1>2, <1>3 DEF Reading, Sent, kindVars, callerVars, regVars, readerVars
<1>. QED BY <1>2, <1>3, <1>4, <1>5, <1>6, <1>7 DEF Underway, SoFar, kindVars

\* Underway is inductive, relative to Typed.
LEMMA UnderwayStep == ASSUME IInv, Typed, Next PROVE Underway'
<1>1. CASE ~paced'  BY <1>1 DEF Underway
<1>2. CASE pc' = "idle" BY <1>2 DEF Underway
<1>3. CASE paced' /\ pc' # "idle"
  <2>1. paced /\ Underway
    BY <1>3 DEF IInv, Next, Begin, Caller, SeeRaised, GiveUp, CopyHead, CopyBody, LowerState,
      Reader, StoreHead, StoreBody, Raise, Lidar, TakeUp, SendPiece, Refuse, FallSilent, Finished, vars, kindVars
  <2>2. CASE Begin BY <2>1, <2>2, BeginUnderway
  <2>3. CASE Caller
    <3>1. ~GiveUp BY <1>3 DEF GiveUp, Return
    <3>. QED
      BY <2>1, <2>3, <3>1, SeeRaisedUnderway, CopyHeadUnderway, CopyBodyUnderway, LowerUnderway
       DEF Caller
  <2>4. CASE Reader
    <3>1. pc # "idle" BY <1>3, <2>4 DEF Reader, StoreHead, StoreBody, Raise, callerVars
    <3>. QED BY <2>1, <2>4, <3>1, StoreHeadUnderway, StoreBodyUnderway, RaiseUnderway DEF Reader
  <2>5. CASE Lidar
    <3>1. pc # "idle" BY <1>3, <2>5 DEF Lidar, TakeUp, SendPiece, Refuse, FallSilent, callerVars
    <3>. QED
      BY <2>1, <2>5, <3>1, TakeUpUnderway, SendPieceUnderway, RefuseUnderway, FallSilentUnderway
       DEF Lidar
  <2>6. CASE Finished BY <1>3, <2>6 DEF Finished, vars, callerVars
  <2>. QED BY <2>2, <2>3, <2>4, <2>5, <2>6 DEF Next
<1>. QED BY <1>1, <1>2, <1>3

-----------------------------------------------------------------------------
(* What a log that TRUE is returned for says *)

\* Whole copies whose headers are in order stand in the order of their pieces.
LEMMA Positions ==
  ASSUME NEW l \in Seq(Entry), NEW call, NEW total \in Nat, NEW most,
         InOrder(l, call, total, most), CopiedBefore(l, call, total, total)
  PROVE  LET piece(i) == [call |-> call, no |-> i, total |-> total]
             whole == {i \in DOMAIN l : l[i].head = l[i].body}
         IN  \E at \in [1..(total - 1) -> whole] :
               \A i \in 1..(total - 1) :
                 /\ l[at[i]].head = piece(i)
                 /\ i > 1 => at[i - 1] < at[i]
<1> DEFINE piece(i) == [call |-> call, no |-> i, total |-> total]
           whole == {i \in DOMAIN l : l[i].head = l[i].body}
           isCopy(e, i) == e.head = piece(i) /\ e.body = piece(i)
           place(i) == CHOOSE t \in DOMAIN l : isCopy(l[t], i)
           at == [i \in 1..(total - 1) |-> place(i)]
<1>1. ASSUME NEW i \in 1..(total - 1)
      PROVE  at[i] \in DOMAIN l /\ isCopy(l[at[i]], i)
  <2>1. \E t \in DOMAIN l : isCopy(l[t], i) BY DEF CopiedBefore
  <2>2. place(i) \in DOMAIN l /\ isCopy(l[place(i)], i) BY <2>1
  <2>3. at[i] = place(i) OBVIOUS
  <2>. QED BY <2>2, <2>3
<1>. HIDE DEF at, place
<1>2. ASSUME NEW i \in 1..(total - 1)
      PROVE  at[i] \in whole /\ l[at[i]].head = piece(i) /\ l[at[i]].head.no = i
  <2>1. piece(i).no = i OBVIOUS
  <2>2. at[i] \in DOMAIN l /\ l[at[i]].head = piece(i) /\ l[at[i]].body = piece(i) BY <1>1
  <2>. HIDE DEF piece
  <2>. QED BY <2>1, <2>2
<1>3. at \in [1..(total - 1) -> whole] BY <1>2 DEF at
<1>4. ASSUME NEW i \in 1..(total - 1), i > 1 PROVE at[i - 1] < at[i]
  <2>1. i - 1 \in 1..(total - 1) /\ i \in Nat BY <1>4
  <2>2. at[i] \in DOMAIN l /\ at[i - 1] \in DOMAIN l BY <1>2, <2>1
  <2>3. l[at[i]].head.no = i /\ l[at[i - 1]].head.no = i - 1 BY <1>2, <2>1
  <2>4. at[i] # at[i - 1] BY <2>1, <2>3
  <2>5. ~(at[i] < at[i - 1])
    <3>1. at[i] < at[i - 1] => i <= i - 1 BY <2>2, <2>3 DEF InOrder
    <3>. QED BY <2>1, <3>1
  <2>6. at[i] \in Nat /\ at[i - 1] \in Nat BY <2>2
  <2>. QED BY <2>4, <2>5, <2>6
<1>. QED BY <1>2, <1>3, <1>4

\* LogInOrder of a call that has just returned TRUE.
Complete(l, call, head, fam, knd) ==
  LET total == head.total
      piece(i) == [call |-> call, no |-> i, total |-> total]
      whole == {i \in DOMAIN l : l[i].head = l[i].body}
  IN  IF fam = "helios"
      THEN l = [i \in 1..total |-> [head |-> piece(i), body |-> piece(i),
                                    extent |-> "whole", again |-> FALSE]]
      ELSE knd = "event" =>
             /\ \E at \in [1..(total - 1) -> whole] :
                  \A i \in 1..(total - 1) :
                    /\ l[at[i]].head = piece(i)
                    /\ i > 1 => at[i - 1] < at[i]
             /\ Last(l).head = piece(total)

\* LogInOrder in these words.
LEMMA ByComplete == LogInOrder <=> (Got /\ paced => Complete(log, callNo, tmpHead, family, kind))
  BY DEF LogInOrder, Complete, Unmixed

\* The last piece: all of them were sent.
LEMMA AllSent ==
  ASSUME Typed, OnTheWay, Mine(tmpHead), tmpHead \in Piece, IsLast(tmpHead), tmpHead.no <= Sent
  PROVE  Sent = tmpHead.total /\ tmpHead.total = sending.piece.total
<1>1. sending.piece.no <= sending.piece.total /\ sending.piece.no \in Nat /\ sending.piece.total \in Nat
  BY Values DEF Typed, PiecesInv
<1>. QED BY <1>1 DEF Mine, IsLast, Sent

\* AiryCom and Ruby4Com return TRUE after the copy of the last piece.
LEMMA AiryComplete ==
  ASSUME Typed, Underway, paced, CopyBody, Got', family # "helios"
  PROVE  Complete(log', callNo, tmpHead, family, kind)
<1>1. pc = "copy" /\ ~Asked BY DEF CopyBody, Asked
<1>2. OnTheWay /\ Reading /\ AiryLog BY <1>1 DEF Underway, SoFar
<1>3. IsLast(tmpHead) BY DEF CopyBody, Judge, Got
<1>4. AiryCopied BY <1>2, AiryCopies
<1>5. Mine(tmpHead) /\ tmpHead \in Piece BY <1>1, <1>2 DEF AiryLog, Headed, Typed, PiecesInv
<1>6. Sent = tmpHead.total /\ tmpHead.total = sending.piece.total BY <1>2, <1>3, <1>5, AllSent
   DEF Mine
<1>7. log' \in Seq(Entry)
  <2>1. Typed' BY CallerTyped DEF Caller
  <2>. QED BY <2>1 DEF Typed, TypeOK, Entry
<1>8. tmpHead = [call |-> callNo, no |-> tmpHead.total, total |-> tmpHead.total] /\ tmpHead.total \in Nat
  BY <1>3, <1>5 DEF Mine, IsLast, Piece
<1>9. /\ InOrder(log', callNo, tmpHead.total, tmpHead.no)
      /\ kind = "event" => CopiedBefore(log', callNo, tmpHead.total, tmpHead.total)
      /\ Last(log').head = tmpHead
  BY <1>4, <1>6 DEF AiryCopied
<1>. QED BY <1>7, <1>8, <1>9, Positions DEF Complete

\* HeliosCom returns TRUE when it has lowered the state after the last piece.
LEMMA HeliosComplete ==
  ASSUME Typed, Underway, paced, LowerState, Got'
  PROVE  Complete(log, callNo, tmpHead, family, kind)
<1>1. pc = "lower" /\ ~Asked /\ family = "helios" BY DEF LowerState, Asked, Typed, PiecesInv
<1>2. OnTheWay /\ HeliosLog BY <1>1 DEF Underway, SoFar
<1>3. IsLast(tmpHead) BY DEF LowerState, Judge, Got
<1>4. tmpHead = sending.piece /\ tmpHead \in Piece /\ log = [i \in 1..Sent |-> Copy(i)]
  BY <1>1, <1>2 DEF HeliosLog, Typed, PiecesInv
<1>5. Sent = tmpHead.total BY <1>3, <1>4 DEF IsLast, Sent
<1>. QED BY <1>1, <1>4, <1>5 DEF Complete, Copy, PieceOf

\* LogInOrder is inductive, relative to IInv.
LEMMA LogInOrderStep == ASSUME IInv, Typed, [Next]_vars PROVE LogInOrder'
<1>1. CASE UNCHANGED <<family, kind, paced, pc, callNo, tmpHead, log, result>>
  BY <1>1, ByComplete DEF IInv, LogInOrder, Got, Unmixed
<1>2. CASE pc' # "idle" BY <1>2 DEF LogInOrder, Got
<1>3. CASE GiveUp
  <2>1. pc # "idle" /\ Return("false") BY <1>3 DEF GiveUp
  <2>2. Last(result') = "false" BY <2>1, Returns
  <2>. QED BY <2>2 DEF LogInOrder, Got
<1>4. CASE CopyBody
  <2>1. SUFFICES ASSUME Got', paced' PROVE Complete(log', callNo', tmpHead', family', kind')
    BY DEF LogInOrder, Complete, Unmixed
  <2>2. UNCHANGED <<family, kind, paced, callNo, tmpHead>> /\ Underway
    BY <1>4 DEF CopyBody, kindVars, IInv
  <2>3. family # "helios" BY <1>4, <2>1 DEF CopyBody, Got
  <2>. QED BY <1>4, <2>1, <2>2, <2>3, AiryComplete
<1>5. CASE LowerState
  <2>1. SUFFICES ASSUME Got', paced' PROVE Complete(log', callNo', tmpHead', family', kind')
    BY DEF LogInOrder, Complete, Unmixed
  <2>2. UNCHANGED <<family, kind, paced, callNo, tmpHead, log>> /\ Underway
    BY <1>5 DEF LowerState, kindVars, IInv
  <2>. QED BY <1>5, <2>1, <2>2, HeliosComplete
<1>. QED
  BY <1>1, <1>2, <1>3, <1>4, <1>5 DEF Next, Begin, Caller, SeeRaised, CopyHead,
    Reader, StoreHead, StoreBody, Raise, Lidar, TakeUp, SendPiece, Refuse, FallSilent, Finished,
    vars, kindVars, callerVars

-----------------------------------------------------------------------------
\* IInv is an invariant: a call to a paced lidar has the pieces of its log, and
\* only these, in reg_back_data_ and in what its getter has copied.
THEOREM Invariant == Spec => []IInv
<1>1. Init => IInv
  BY Initial DEF Typed, IInv, Init, Underway, LogInOrder, Got
<1>2. IInv /\ [Next]_vars => IInv'
  <2> SUFFICES ASSUME IInv, [Next]_vars PROVE IInv' OBVIOUS
  <2>1. Typed /\ Typed' BY TypedStep DEF IInv, Typed
  <2>2. Underway'
    <3>1. CASE UNCHANGED vars
      BY <3>1
         DEF IInv, Underway, Asked, OnTheWay, Reading, SoFar, HeliosLog, AiryLog, Headed, KeepsHead,
             Live, Sent, Mine,
         Copy, PieceOf, vars, kindVars, callerVars, regVars, readerVars, wireVars
    <3>. QED BY <2>1, <3>1, UnderwayStep
  <2>3. LogInOrder' BY <2>1, LogInOrderStep
  <2>. QED BY <2>1, <2>2, <2>3 DEF IInv, Typed
<1>. QED BY <1>1, <1>2, PTL DEF Spec

\* The state of LogTransfer has its types: a getter never copies out a header
\* that no piece had, and every call has returned once when the next begins.
THEOREM TypeCorrectness == Spec => []TypeOK
<1>1. IInv => TypeOK BY DEF IInv
<1>. QED BY <1>1, Invariant, PTL

\* A log that readEventLog or one of its like returns TRUE for, from a paced
\* lidar, has every piece: HeliosCom each one once, whole and in order, the other
\* classes, of a log other than a monitor log, all but the last whole and in order,
\* and the header of the last.
THEOREM LogInOrderAlways == Spec => []LogInOrder
<1>1. IInv => LogInOrder BY DEF IInv
<1>. QED BY <1>1, Invariant, PTL
=============================================================================
