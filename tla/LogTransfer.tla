---------------------------- MODULE LogTransfer ----------------------------
(***************************************************************************)
(* Reading a log: one request, then pieces until the last.                 *)
(*                                                                         *)
(* Every piece carries the number of pieces and its own.  The reading      *)
(* thread copies a piece to reg_back_data_ and raises the state of the     *)
(* log; TcpCom polls a getter of the protocol class every 2 ms, which      *)
(* copies reg_back_data_ out while the state is raised.  Neither holds a   *)
(* lock, so both copies are two steps, header and body.  The getters of    *)
(* HeliosCom lower the state after their copy; those of AiryCom and        *)
(* Ruby4Com never do, and give the same piece again until the next one is  *)
(* there.  How far a getter copies is the class's: HeliosCom takes the     *)
(* whole piece, AiryCom leaves out its last five bytes, and Ruby4Com takes *)
(* the same number of bytes of every piece.  Pieces are long enough to     *)
(* have a header then.                                                     *)
(*                                                                         *)
(* The lidar is external.  A paced one leaves time after each piece for    *)
(* one call of the getter, the caller never gives up a piece that is       *)
(* coming, and the user asks for a log when nothing is under way; any      *)
(* lidar may fall silent.                                                  *)
(***************************************************************************)
EXTENDS Naturals, Sequences, SequencesExt

CONSTANTS
  Families,   \* \subseteq {"airy", "ruby4", "helios"}
  Kinds,      \* \subseteq {"event", "monitor"}; configuration and daemon logs are as event
  Paces,      \* \subseteq BOOLEAN: whether the lidar is paced
  MaxPieces,  \* bound: pieces of a log
  MaxCalls    \* bound: logs read

ASSUME FamiliesAssumption == Families \subseteq {"airy", "ruby4", "helios"}
ASSUME KindsAssumption == Kinds \subseteq {"event", "monitor"}
ASSUME PacesAssumption == Paces \subseteq BOOLEAN
ASSUME MaxPiecesAssumption == MaxPieces \in Nat \ {0}
ASSUME MaxCallsAssumption == MaxCalls \in Nat

VARIABLES
  family, kind, paced,
  pc,         \* "idle", "wait" (sendData), "poll", "copy" (in a getter), "lower" (HeliosCom)
  callNo,     \* logs asked for
  tmpHead,    \* the header at the front of tmpData, or NoPiece
  log,        \* recvData: where each copy has its header and its body from, how
              \* far it reaches, and whether it was made again and again
  result,     \* result[n]: what call n returned
  raised,     \* the state of the log
  regHead, regBody,  \* the pieces reg_back_data_ has its header and its body from
  parsing,    \* the piece the reading thread is at, or NoPiece
  phase,      \* "idle", "head" (header copied) or "stored" (body too)
  toLidar,    \* requests written, by the number of their call
  sending,    \* the last piece sent of the log being sent, and whether it is over
  toHost,     \* pieces sent
  turn        \* auxiliary: the piece sent last was "sent", is "due" since its state
              \* was raised, a getter has "begun" on it since, and is "over"

kindVars   == <<family, kind, paced>>
callerVars == <<pc, callNo, tmpHead, log, result>>
regVars    == <<raised, regHead, regBody>>
readerVars == <<parsing, phase>>
wireVars   == <<toLidar, sending, toHost>>
vars == <<kindVars, callerVars, regVars, readerVars, wireVars, turn>>

Call == 1..MaxCalls

\* A piece of the log of a call; piece 0 is a refusal.
Piece == [call : Call, no : 0..MaxPieces, total : 1..MaxPieces]
NoPiece == [call |-> 0, no |-> 0, total |-> 1]

Refused(p) == p.no = 0
IsLast(p) == p.no = p.total

Init ==
  /\ family \in Families
  /\ kind \in Kinds
  /\ paced \in Paces
  /\ pc = "idle"
  /\ callNo = 0
  /\ tmpHead = NoPiece
  /\ log = <<>>
  /\ result = <<>>
  /\ raised = FALSE
  /\ regHead = NoPiece /\ regBody = NoPiece
  /\ parsing = NoPiece
  /\ phase = "idle"
  /\ toLidar = <<>>
  /\ sending = [piece |-> NoPiece, over |-> TRUE]
  /\ toHost = <<>>
  /\ turn = "over"

\* Where the piece sent last is; of no matter to a lidar that is not paced.
Turns(where) == turn' = IF paced THEN where ELSE turn

-----------------------------------------------------------------------------
(* The caller *)

\* Nothing more will come.
Settled == toLidar = <<>> /\ sending.over /\ toHost = <<>> /\ phase = "idle"

\* Mutant: the loop goes on after the last piece.
GoesOn(value) ==
  /\ result' = Append(result, value)
  /\ pc' = "poll"

Return(value) ==
  /\ result' = Append(result, value)
  /\ pc' = "idle"

\* The builder lowers the state and sendData writes the request.
Begin ==
  /\ pc = "idle"
  /\ callNo < MaxCalls
  /\ paced => Settled
  /\ callNo' = callNo + 1
  /\ log' = <<>>
  /\ tmpHead' = NoPiece
  /\ pc' = "wait"
  /\ raised' = FALSE
  /\ toLidar' = Append(toLidar, callNo + 1)
  /\ UNCHANGED <<kindVars, result, regHead, regBody, readerVars, sending, toHost, turn>>

\* sendData sees the state raised.
SeeRaised ==
  /\ pc = "wait"
  /\ raised
  /\ pc' = "poll"
  /\ UNCHANGED <<kindVars, callNo, tmpHead, log, result, regVars, readerVars, wireVars, turn>>

\* The getter has something: AiryCom and Ruby4Com look at the response code.
Available == raised /\ (family = "helios" \/ ~Refused(regHead))

\* Mutant: the caller polls for ever.
NeverGivesUp == FALSE

\* When a wait may end without what it waits for.
MayGiveUp == ~paced \/ Settled

\* sendData, or 100 polls of the getter, found nothing.
GiveUp ==
  /\ (pc = "wait" /\ ~raised) \/ (pc = "poll" /\ ~Available)
  /\ MayGiveUp
  /\ Return("false")
  /\ UNCHANGED <<kindVars, callNo, tmpHead, log, regVars, readerVars, wireVars, turn>>

\* readMonitorLog does not clear tmpData between polls, and only the getters of
\* HeliosCom do: elsewhere its first header stays in front.
KeepsHead == kind = "monitor" /\ family # "helios" /\ tmpHead # NoPiece

CopyHead ==
  /\ pc = "poll"
  /\ Available
  /\ tmpHead' = IF KeepsHead THEN tmpHead ELSE regHead
  /\ pc' = "copy"
  /\ turn' = IF turn = "due" THEN "begun" ELSE turn
  /\ UNCHANGED <<kindVars, callNo, log, result, regVars, readerVars, wireVars>>

\* The copy is the last when its header says so.
Judge == IF IsLast(tmpHead) THEN Return("true") ELSE pc' = "poll" /\ UNCHANGED result

\* The getter is done.
TurnOver == turn' = IF turn = "begun" THEN "over" ELSE turn

\* How far the copy reaches: AiryCom's length is short of the five bytes before
\* the data, Ruby4Com's is made of the command and the response code.
Extent == [airy |-> "cut", ruby4 |-> "fixed", helios |-> "whole"]

\* The copy is the same as the one before.
Repeats == log # <<>> /\ Last(log).head = tmpHead /\ Last(log).body = regBody

CopyBody ==
  /\ pc = "copy"
  /\ log' = IF Repeats THEN [log EXCEPT ![Len(log)].again = TRUE]
            ELSE Append(log, [head |-> tmpHead, body |-> regBody, extent |-> Extent[family],
                              again |-> FALSE])
  /\ IF family = "helios" THEN pc' = "lower" /\ UNCHANGED <<result, turn>> ELSE Judge /\ TurnOver
  /\ UNCHANGED <<kindVars, callNo, tmpHead, regVars, readerVars, wireVars>>

\* The getters of HeliosCom lower the state, whatever raised it.
LowerState ==
  /\ pc = "lower"
  /\ raised' = FALSE
  /\ Judge /\ TurnOver
  /\ UNCHANGED <<kindVars, callNo, tmpHead, log, regHead, regBody, readerVars, wireVars>>

Caller == SeeRaised \/ GiveUp \/ CopyHead \/ CopyBody \/ LowerState

-----------------------------------------------------------------------------
(* slotReadTCPData and ParseRecvTcpData *)

\* Mutant: the state is raised before the piece is there.
RaisesFirst ==
  /\ raised' = TRUE
  /\ regHead' = Head(toHost)
  /\ UNCHANGED regBody

StoresHead ==
  /\ regHead' = Head(toHost)
  /\ UNCHANGED <<raised, regBody>>

StoreHead ==
  /\ phase = "idle"
  /\ toHost # <<>>
  /\ StoresHead
  /\ parsing' = Head(toHost)
  /\ phase' = "head"
  /\ toHost' = Tail(toHost)
  /\ UNCHANGED <<kindVars, callerVars, toLidar, sending, turn>>

StoreBody ==
  /\ phase = "head"
  /\ regBody' = parsing
  /\ phase' = "stored"
  /\ UNCHANGED <<kindVars, callerVars, raised, regHead, parsing, wireVars, turn>>

\* handleOtherControlCmd, or the case of the acknowledgement.
Raise ==
  /\ phase = "stored"
  /\ raised' = TRUE
  /\ parsing' = NoPiece
  /\ phase' = "idle"
  /\ Turns("due")
  /\ UNCHANGED <<kindVars, callerVars, regHead, regBody, wireVars>>

Reader == StoreHead \/ StoreBody \/ Raise

-----------------------------------------------------------------------------
(* The lidar *)

\* It takes up a request and starts with the log.
TakeUp ==
  /\ sending.over
  /\ toLidar # <<>>
  /\ \E total \in 1..MaxPieces :
       sending' = [piece |-> [call |-> Head(toLidar), no |-> 0, total |-> total], over |-> FALSE]
  /\ toLidar' = Tail(toLidar)
  /\ UNCHANGED <<kindVars, callerVars, regVars, readerVars, toHost, turn>>

\* A paced lidar waits until a call of the getter that began when the piece was
\* there has returned, whatever it copied.
SendPiece ==
  /\ ~sending.over
  /\ paced => sending.piece.no = 0 \/ turn = "over"
  /\ Turns("sent")
  /\ LET next == [sending.piece EXCEPT !.no = @ + 1]
     IN  /\ toHost' = Append(toHost, next)
         /\ sending' = [piece |-> next, over |-> IsLast(next)]
  /\ UNCHANGED <<kindVars, callerVars, regVars, readerVars, toLidar>>

\* Only the frames of AiryCom and Ruby4Com have a response code.
Refuse ==
  /\ ~sending.over
  /\ sending.piece.no = 0
  /\ family # "helios"
  /\ toHost' = Append(toHost, sending.piece)
  /\ sending' = [sending EXCEPT !.over = TRUE]
  /\ UNCHANGED <<kindVars, callerVars, regVars, readerVars, toLidar, turn>>

FallSilent ==
  /\ ~sending.over
  /\ sending' = [sending EXCEPT !.over = TRUE]
  /\ UNCHANGED <<kindVars, callerVars, regVars, readerVars, toLidar, toHost, turn>>

Lidar == TakeUp \/ SendPiece \/ Refuse \/ FallSilent

-----------------------------------------------------------------------------
Finished ==
  /\ pc = "idle" /\ callNo = MaxCalls
  /\ UNCHANGED vars

Next == Begin \/ Caller \/ Reader \/ Lidar \/ Finished

Spec == Init /\ [][Next]_vars

\* The loops of the caller and of the reading thread run, and the lidar sends
\* on or falls silent; nothing obliges the user to read a log.
FairSpec ==
  /\ Spec
  /\ WF_vars(Caller)
  /\ WF_vars(Reader)
  /\ WF_vars(Lidar)

-----------------------------------------------------------------------------
TypeOK ==
  /\ family \in Families /\ kind \in Kinds /\ paced \in Paces
  /\ pc \in {"idle", "wait", "poll", "copy", "lower"}
  /\ callNo \in 0..MaxCalls
  /\ {tmpHead, regHead, regBody, parsing} \subseteq Piece \cup {NoPiece}
  /\ log \in Seq([head : Piece, body : Piece \cup {NoPiece},
                  extent : {"whole", "cut", "fixed"}, again : BOOLEAN])
  /\ result \in Seq({"true", "false"})
  /\ Len(result) = IF pc = "idle" THEN callNo ELSE callNo - 1
  /\ raised \in BOOLEAN
  /\ phase \in {"idle", "head", "stored"}
  /\ phase # "idle" <=> parsing # NoPiece
  /\ toLidar \in Seq(Call) /\ toHost \in Seq(Piece)
  /\ sending \in [piece : Piece \cup {NoPiece}, over : BOOLEAN]
  /\ turn \in {"sent", "due", "begun", "over"}

\* The last call has just returned TRUE; log is what it returned.
Got == pc = "idle" /\ result # <<>> /\ Last(result) = "true"

\* Copies that are of one piece.
Unmixed == {i \in DOMAIN log : log[i].head = log[i].body}

\* A log that TRUE is returned for, from a paced lidar: HeliosCom gives every
\* piece whole and once, in order.  The other classes have a copy of every piece
\* but the last, as far as it reaches, in order, with copies of two pieces mixed
\* in between; the last may have the body of the one before.  Their monitor logs
\* are left out: see LogEnds.
LogInOrder ==
  Got /\ paced =>
    LET total == tmpHead.total
        piece(i) == [call |-> callNo, no |-> i, total |-> total]
    IN  IF family = "helios"
        THEN log = [i \in 1..total |-> [head |-> piece(i), body |-> piece(i),
                                        extent |-> "whole", again |-> FALSE]]
        ELSE kind = "event" =>
               /\ \E at \in [1..(total - 1) -> Unmixed] :
                    \A i \in 1..(total - 1) :
                      /\ log[at[i]].head = piece(i)
                      /\ i > 1 => at[i - 1] < at[i]
               /\ Last(log).head = piece(total)

\* The last copy was of a piece that is not the last, and nothing lowers the
\* state: the getter gives the same piece for ever.
Stuck == family # "helios" /\ pc \in {"poll", "copy"} /\ tmpHead # NoPiece /\ ~IsLast(tmpHead)

\* Every call returns, unless a class that does not lower its state is left
\* with a piece that is not the last: because the lidar fell silent after it,
\* or because the log is a monitor log, whose first header stays in front.
CallEnds ==
  pc # "idle" ~> pc = "idle" \/ (Stuck /\ (kind = "monitor" \/ (Settled /\ ~IsLast(regHead))))

\* "return false; // 200ms timeout" (tcp_com.cpp:1461): every call returns.
LogEnds == pc # "idle" ~> pc = "idle"
=============================================================================
