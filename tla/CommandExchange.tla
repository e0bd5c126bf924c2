-------------------------- MODULE CommandExchange --------------------------
(***************************************************************************)
(* TcpCom while it is connected: a caller that makes one call after the    *)
(* other, the thread that reads the socket, the lidar, and what the two    *)
(* threads share without a lock - read_write_state_ and reg_back_data_ of  *)
(* the protocol class.                                                     *)
(*                                                                         *)
(* A call lowers the state its reply raises, writes the request and polls  *)
(* the state every 10 ms.  Nothing in a reply says which request it        *)
(* answers, so a reply that comes after its call gave up is taken for the  *)
(* answer of a later one.  Prompt says whether that can happen.            *)
(*                                                                         *)
(* The lidar and the TCP connection are external: requests and replies     *)
(* keep their order; the lidar carries a request out, refuses it, or       *)
(* ignores it (Faults).                                                    *)
(***************************************************************************)
EXTENDS LidarCommands, Naturals, Sequences

CONSTANTS
  Families,   \* protocol classes to consider, \subseteq Family
  UsedOps,    \* operations the caller may use
  Faults,     \* what the lidar may do wrong, \subseteq {"refuse", "ignore"}
  Prompt,     \* every reply that will come comes before its call gives up
  MaxCalls    \* bound: calls the caller makes

ASSUME FamiliesAssumption == Families \subseteq Family
ASSUME FaultsAssumption == Faults \subseteq {"refuse", "ignore"}
ASSUME PromptAssumption == Prompt \in BOOLEAN
ASSUME MaxCallsAssumption == MaxCalls \in Nat

VARIABLES
  family,     \* the class SetLidarType chose
  pc,         \* "idle", "wait" (sendData), "extract" (xxxResult) or "crashed"
  callNo,     \* calls made so far: the number of the last one
  op,         \* op[n]: the operation call n asked for
  result,     \* result[n]: what call n returned and whose reply it read
  raised,     \* the states of read_write_state_ that are true
  regBack,    \* reg_back_data_: the reply it holds, or NoReply
  parsing,    \* the reply whose handler has not run yet, or NoReply
  toLidar,    \* requests written, by the number of their call
  toHost,     \* replies sent
  answered,   \* calls whose request the lidar has replied to
  done        \* calls whose command the lidar has carried out

callerVars == <<family, pc, callNo, op, result>>
sharedVars == <<raised, regBack>>
wireVars   == <<toLidar, toHost, answered, done>>
vars == <<callerVars, sharedVars, parsing, wireVars>>

NoCall == 0
Call == 1..MaxCalls
NoReply == [call |-> NoCall, code |-> "ok"]
Reply == [call : Call, code : {"ok", "refused"}]
NotReturned == [value |-> "none", data |-> NoCall]

command(n) == CommandOf(family, op[n])
awaited(n) == StateOf(family, op[n])

\* read_write_state_ is not initialised; every builder writes the state it
\* waits for, so its first value does not matter and none is raised here.
Init ==
  /\ family \in Families
  /\ pc = "idle"
  /\ callNo = 0
  /\ op = <<>>
  /\ result = <<>>
  /\ raised = {}
  /\ regBack = NoReply
  /\ parsing = NoReply
  /\ toLidar = <<>>
  /\ toHost = <<>>
  /\ answered = {}
  /\ done = {}

-----------------------------------------------------------------------------
(* The caller *)

\* Mutant: the outcome is added to the results instead of filling its place.
AddsResult(value, data) ==
  /\ result' = Append(result, [value |-> value, data |-> data])
  /\ pc' = "idle"

\* The call returns value, having read the reply to call data.
Return(value, data) ==
  /\ result' = [result EXCEPT ![callNo] = [value |-> value, data |-> data]]
  /\ pc' = "idle"

\* Mutant: the builder leaves the state as the last reply left it.
LeavesState(o) == raised

\* What a builder leaves of read_write_state_.
Lower(o) ==
  IF PreRaised(family, o) THEN raised \cup {StateOf(family, o)}
                          ELSE raised \ {StateOf(family, o)}

\* The builder packs the request and lowers the state; sendData writes it.
Begin(o) ==
  /\ pc = "idle"
  /\ callNo < MaxCalls
  /\ o \in UsedOps \cap Exchanges[family]
  /\ callNo' = callNo + 1
  /\ op' = Append(op, o)
  /\ result' = Append(result, NotReturned)
  /\ raised' = Lower(o)
  /\ pc' = "wait"
  /\ toLidar' = Append(toLidar, callNo + 1)
  /\ UNCHANGED <<family, regBack, parsing, toHost, answered, done>>

\* A builder that flows off its end: what TcpCom sees as its result is
\* undefined; FALSE refuses the call, and code laid out after it may crash.
BeginBroken(o) ==
  /\ pc = "idle"
  /\ callNo < MaxCalls
  /\ o \in UsedOps \cap Exchanges[family]
  /\ MissingReturn(family, o)
  /\ callNo' = callNo + 1
  /\ op' = Append(op, o)
  /\ raised' = Lower(o)
  /\ \/ /\ result' = Append(result, [value |-> "false", data |-> NoCall])
        /\ pc' = "idle"
     \/ /\ result' = Append(result, NotReturned)
        /\ pc' = "crashed"
  /\ UNCHANGED <<family, regBack, parsing, wireVars>>

\* sendData sees the state raised.
Poll ==
  /\ pc = "wait"
  /\ awaited(callNo) \in raised
  /\ IF op[callNo] \in Getters
     THEN pc' = "extract" /\ UNCHANGED result
     ELSE Return("true", NoCall)
  /\ UNCHANGED <<family, callNo, op, sharedVars, parsing, wireVars>>

\* xxxResult reads whatever reg_back_data_ holds by now.
Extract ==
  /\ pc = "extract"
  /\ Return(IF \/ ~ChecksCode(family, op[callNo])
               \/ regBack.code = "ok"
               \/ op[callNo] \in IgnoresResult
            THEN "true" ELSE "false", regBack.call)
  /\ UNCHANGED <<family, callNo, op, sharedVars, parsing, wireVars>>

\* Nothing the caller has asked for is under way.
Settled == toLidar = <<>> /\ toHost = <<>> /\ parsing = NoReply

\* Mutant: sendData polls for ever.
NeverGivesUp == FALSE

\* When the wait may end without the state having been seen raised.
MayGiveUp == ~Prompt \/ (Settled /\ awaited(callNo) \notin raised)

\* sendData has polled msec / 10 + 1 times.
Timeout ==
  /\ pc = "wait"
  /\ MayGiveUp
  /\ Return(IF op[callNo] \in IgnoresReply THEN "true" ELSE "false", NoCall)
  /\ UNCHANGED <<family, callNo, op, sharedVars, parsing, wireVars>>

-----------------------------------------------------------------------------
(* The lidar *)

Answer(code) ==
  /\ toHost' = Append(toHost, [call |-> Head(toLidar), code |-> code])
  /\ toLidar' = Tail(toLidar)
  /\ answered' = answered \cup {Head(toLidar)}
  /\ UNCHANGED <<callerVars, sharedVars, parsing>>

CarryOut ==
  /\ toLidar # <<>>
  /\ done' = done \cup {Head(toLidar)}
  /\ Answer("ok")

\* Only the frames of AiryCom and Ruby4Com have a response code.
Refuse ==
  /\ "refuse" \in Faults
  /\ family \in {"airy", "ruby4"}
  /\ toLidar # <<>>
  /\ Answer("refused")
  /\ UNCHANGED done

Ignore ==
  /\ "ignore" \in Faults
  /\ toLidar # <<>>
  /\ toLidar' = Tail(toLidar)
  /\ UNCHANGED <<callerVars, sharedVars, parsing, toHost, answered, done>>

Lidar == CarryOut \/ Refuse \/ Ignore

-----------------------------------------------------------------------------
(* slotReadTCPData and ParseRecvTcpData *)

\* A frame has arrived; its class and payload go to reg_back_data_.
Store ==
  /\ toHost # <<>>
  /\ parsing = NoReply
  /\ parsing' = Head(toHost)
  /\ toHost' = Tail(toHost)
  /\ regBack' = IF FillsRegBack(family, command(Head(toHost).call)) THEN Head(toHost) ELSE regBack
  /\ UNCHANGED <<callerVars, raised, toLidar, answered, done>>

\* handleXxxCmd, or the case of the acknowledgement: it does not look at the
\* response code.  Only the firmware updates of AiryCom and Ruby4Com do, which
\* raise nothing when refused; here a refusal may raise their state too.
Dispatch ==
  /\ parsing # NoReply
  /\ raised' = raised \cup Raises(family, command(parsing.call))
  /\ parsing' = NoReply
  /\ UNCHANGED <<callerVars, regBack, wireVars>>

Reader == Store \/ Dispatch

-----------------------------------------------------------------------------
Caller == (\E o \in UsedOps : Begin(o) \/ BeginBroken(o)) \/ Poll \/ Extract \/ Timeout

\* Every call the bound allows has been made, or the process is gone.
Finished ==
  /\ pc = "crashed" \/ (pc = "idle" /\ callNo = MaxCalls)
  /\ UNCHANGED vars

Next == Caller \/ Lidar \/ Reader \/ Finished

Spec == Init /\ [][Next]_vars

-----------------------------------------------------------------------------
TypeOK ==
  /\ family \in Families
  /\ pc \in {"idle", "wait", "extract", "crashed"}
  /\ callNo \in 0..MaxCalls
  /\ op \in Seq(UsedOps) /\ Len(op) = callNo
  /\ result \in Seq([value : {"none", "true", "false"}, data : Call \cup {NoCall}])
  /\ Len(result) = callNo
  /\ regBack \in Reply \cup {NoReply}
  /\ parsing \in Reply \cup {NoReply}
  /\ toLidar \in Seq(Call)
  /\ toHost \in Seq(Reply)
  /\ answered \subseteq 1..callNo /\ done \subseteq answered

Confirmed == {n \in 1..callNo : result[n].value = "true"}

\* Calls whose TRUE says nothing by construction: the wrapper drops the result
\* of sendData, or the builder raised the state itself.
Unconditional(n) == op[n] \in IgnoresReply \/ PreRaised(family, op[n])

\* The calls and what the lidar makes of them, as RequestReply sees them.
Abstract == INSTANCE RequestReply WITH
  busy <- pc \in {"wait", "extract", "crashed"},
  confirmed <- {n \in Confirmed : ~Unconditional(n)}

\* When replies are prompt, a call that returns TRUE was carried out, by the
\* request of that very call (for operations that wait for their reply).
ConfirmedWereDone == Abstract!Spec

\* When replies are prompt, a getter that returns TRUE returns the payload of
\* the reply to its own request: reg_back_data_ is filled before the state is
\* raised and not overwritten before it is read.
OwnPayload ==
  \A n \in Confirmed :
    op[n] \in Getters /\ FillsRegBack(family, command(n)) => result[n].data = n

\* A reply raises each state once, so it confirms at most one of the calls that
\* wait for it: there are never more successes than replies of their kind,
\* however late the replies are.
OneReplyOneSuccess ==
  \A n \in Confirmed :
    LET s == awaited(n)
        succeeded == {m \in Confirmed : awaited(m) = s /\ ~Unconditional(m)}
        replies   == {m \in answered : s \in Raises(family, command(m))}
    IN  Cardinality(succeeded) <= Cardinality(replies)

\* Exchanges whose reply raises a state, if any, that they do not wait for.
Unrecognised == [
  airy |-> {"update.app.request", "update.top.request", "update.bot.request"},
  ruby4 |-> {"SetLidarFov"}, helios |-> {}, mems |-> {"GetLidarConfig", "SetLidarConfig"}]

\* When replies are prompt, a call the lidar carried out succeeds: every class
\* recognises the acknowledgement of every request it builds, except the six
\* above and those whose builder flows off its end.
CarriedOutSucceeds ==
  \A n \in done :
    result[n].value = "false" => op[n] \in Unrecognised[family] \/ MissingReturn(family, op[n])
=============================================================================
