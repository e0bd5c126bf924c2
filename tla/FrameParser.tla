---------------------------- MODULE FrameParser ----------------------------
(***************************************************************************)
(* How the reading thread cuts a TCP stream into frames: slotReadTCPData   *)
(* appends what one read returned to read_data_buffer_ and calls           *)
(* ParseRecvTcpData, which handles and erases the frames it finds.         *)
(*                                                                         *)
(* The stream is a sequence of cells, a few bytes each: a flag and the     *)
(* length after it (a start), or anything else.  The buffer is always what *)
(* was read of the stream and not erased, so two positions stand for it.   *)
(* A frame of AiryCom and Ruby4Com ends in a CRC over all of it; HeliosCom *)
(* and MemsCom have a checksum over the header and none over the payload.  *)
(*                                                                         *)
(* The lidar and TCP are external: TCP cuts the stream anywhere but loses  *)
(* nothing; damage is what the lidar itself sent wrong.                    *)
(***************************************************************************)
EXTENDS Naturals, Sequences

CONSTANTS
  Streams,    \* streams a lidar may send
  MaxChunk,   \* cells one read_some returns at most (1248 bytes)
  MaxFrame    \* the longest frame AiryCom and Ruby4Com accept (2008 bytes)

\* A cell: whether a flag begins there, the length in cells that the frame
\* claims, the start included, and whether the checksum is right.
Cell == [start : BOOLEAN, claim : Nat \ {0}, ok : BOOLEAN]

\* Ruby4Com parses as AiryCom does, MemsCom as HeliosCom.
Family == {"airy", "helios"}

\* The shortest frame of AiryCom, m_minPackBytes (11 bytes).
MinFrame == 4

ASSUME StreamsAssumption == \A s \in Streams : s \in Seq(Cell)

\* Frames sent as they should be have a length the parser accepts.
ASSUME FrameAssumption ==
  \A s \in Streams : \A i \in 1..Len(s) :
    s[i].start /\ s[i].ok => s[i].claim \in MinFrame..MaxFrame

ASSUME MaxChunkAssumption == MaxChunk \in Nat \ {0}
ASSUME MaxFrameAssumption == MaxFrame \in Nat

VARIABLES
  family,     \* the class that parses
  wire,       \* the stream
  received,   \* cells read so far
  erased,     \* cells erased from read_data_buffer_ so far
  pc,         \* "read" or "parse"
  gaveUp,     \* the last parse returned at a frame with a wrong CRC
  handled     \* where the frames that were dispatched began

vars == <<family, wire, received, erased, pc, gaveUp, handled>>

\* Families whose checksum covers the whole frame.
ChecksFrame == family = "airy"

\* Below this much the parser does not look: m_minPackBytes or sizeof(frame_head).
MinBuffer == IF ChecksFrame THEN MinFrame ELSE 2

Buffered == received - erased

head == wire[erased + 1]

Init ==
  /\ family \in Family
  /\ wire \in Streams
  /\ received = 0 /\ erased = 0
  /\ pc = "read"
  /\ gaveUp = FALSE
  /\ handled = <<>>

-----------------------------------------------------------------------------
\* read_some returns some of what was sent.
Read ==
  /\ pc = "read"
  /\ \E n \in 1..MaxChunk :
       /\ received + n <= Len(wire)
       /\ received' = received + n
  /\ pc' = "parse"
  /\ UNCHANGED <<family, wire, erased, gaveUp, handled>>

\* ParseRecvTcpData returns, having erased n cells.
Return(n, damaged) ==
  /\ erased' = erased + n
  /\ gaveUp' = damaged
  /\ pc' = "read"
  /\ UNCHANGED <<family, wire, received, handled>>

\* It goes on with its loop, having erased n cells.
Continue(n) ==
  /\ erased' = erased + n
  /\ UNCHANGED <<family, wire, received, pc, gaveUp>>

\* The loop ends: too little is left to look at.
Exhausted ==
  /\ pc = "parse"
  /\ Buffered < MinBuffer
  /\ Return(0, FALSE)

Looking == pc = "parse" /\ Buffered >= MinBuffer

\* The inner loop drops bytes until a flag.
Skip ==
  /\ Looking
  /\ ~head.start
  /\ Continue(1)
  /\ UNCHANGED handled

\* The lengths a frame may claim; a wrong header is not asked for its length.
Possible == IF ChecksFrame THEN head.claim \in MinBuffer..MaxFrame ELSE head.ok

\* The frame has not arrived in full, or claims an impossible length: the
\* parser returns and erases nothing.
Incomplete ==
  /\ Looking
  /\ head.start
  /\ IF ChecksFrame THEN ~Possible \/ Buffered < head.claim
                    ELSE head.ok /\ Buffered < head.claim
  /\ Return(0, FALSE)

\* Mutant: a frame is whole as soon as its length can be read.
HeaderArrived == Looking /\ head.start /\ Possible

\* A whole frame at the head of the buffer.
Whole == Looking /\ head.start /\ Possible /\ Buffered >= head.claim

\* judeRecvPackCrc fails: the frame is erased, and the parser returns though
\* more may be buffered.
WrongCrc ==
  /\ Whole
  /\ ChecksFrame
  /\ ~head.ok
  /\ Return(head.claim, TRUE)

\* Mutant: the frame with the wrong checksum is erased by its claimed length.
ErasesClaim ==
  /\ Looking
  /\ ~ChecksFrame
  /\ head.start /\ ~head.ok
  /\ Continue(IF head.claim <= Buffered THEN head.claim ELSE Buffered)
  /\ UNCHANGED handled

\* Mutant: a header with a wrong checksum is looked at again.
ErasesNothing ==
  /\ Looking
  /\ ~ChecksFrame
  /\ head.start /\ ~head.ok
  /\ Continue(0)
  /\ UNCHANGED handled

\* The header's checksum is wrong: its flag alone is erased.
WrongHeader ==
  /\ Looking
  /\ ~ChecksFrame
  /\ head.start /\ ~head.ok
  /\ Continue(1)
  /\ UNCHANGED handled

\* Mutant: the frame stays in the buffer until the next read.
KeepsFrame ==
  /\ Whole
  /\ head.ok
  /\ handled' = Append(handled, erased + 1)
  /\ pc' = "read"
  /\ gaveUp' = FALSE
  /\ UNCHANGED <<family, wire, received, erased>>

\* Mutant: one frame is handled per read.
OncePerRead ==
  /\ Whole
  /\ head.ok
  /\ handled' = Append(handled, erased + 1)
  /\ erased' = erased + head.claim
  /\ pc' = "read"
  /\ gaveUp' = FALSE
  /\ UNCHANGED <<family, wire, received>>

\* The frame is copied to reg_back_data_, dispatched and erased.
Handle ==
  /\ Whole
  /\ head.ok
  /\ handled' = Append(handled, erased + 1)
  /\ Continue(head.claim)

Parse == Exhausted \/ Skip \/ Incomplete \/ WrongCrc \/ WrongHeader \/ Handle

\* The stream ends.
Ended == pc = "read" /\ received = Len(wire) /\ UNCHANGED vars

Next == Read \/ Parse \/ Ended

Spec == Init /\ [][Next]_vars

\* The reading thread runs; nothing obliges the lidar to send.
FairSpec == Spec /\ WF_vars(Parse)

-----------------------------------------------------------------------------
TypeOK ==
  /\ family \in Family
  /\ wire \in Streams
  /\ received \in 0..Len(wire)
  /\ erased \in 0..received
  /\ pc \in {"read", "parse"}
  /\ gaveUp \in BOOLEAN
  /\ handled \in Seq(1..Len(wire))

\* A start whose checksum is right: a frame, if it is not inside another.
Good(i) == wire[i].start /\ wire[i].ok

\* The end of what the start at i claims.
EndOf(i) == i + wire[i].claim - 1

\* However the stream was cut, each frame handled is one the lidar sent, whole,
\* and each later one lies behind the one before: none is handled twice, out of
\* order, or made of parts of two.
HandledApart ==
  \A k \in DOMAIN handled :
    /\ Good(handled[k])
    /\ EndOf(handled[k]) <= erased
    /\ k > 1 => EndOf(handled[k - 1]) < handled[k]

WasHandled(i) == \E k \in DOMAIN handled : handled[k] = i

\* A start that the parser takes for one of a frame: whoever checks the frame
\* believes the length before it has checked it, whoever checks the header
\* believes no length that is not covered.
Believed(j) ==
  wire[j].start /\ IF ChecksFrame THEN wire[j].claim \in MinBuffer..MaxFrame ELSE wire[j].ok

\* Start i lies in what an earlier start claims.
Covered(i) == \E j \in 1..(i - 1) : Believed(j) /\ i <= EndOf(j)

\* No frame is thrown away: each one that was erased was handled, unless an
\* earlier frame claimed its bytes.  A damaged header never costs HeliosCom and
\* MemsCom the frames behind it.
NoneLost == \A i \in 1..erased : Good(i) => WasHandled(i) \/ Covered(i)

\* A start that stops the parser: more of it has to come, or its length is one
\* that no frame has.
Stops(j) ==
  /\ wire[j].start
  /\ IF ChecksFrame THEN ~Believed(j) \/ EndOf(j) > received
                    ELSE wire[j].ok /\ EndOf(j) > received

\* When the reading thread waits for more bytes, no whole frame waits in the
\* buffer, except behind a start that stops the parser and after a wrong CRC.
NoneWaiting ==
  pc = "read" /\ ~gaveUp =>
    \A i \in (erased + 1)..received :
      Good(i) /\ EndOf(i) <= received => \E j \in (erased + 1)..(i - 1) : Stops(j)

\* Parsing ends whatever the buffer holds, so the thread reads again and sees
\* flag_thread_run_ lowered.
ParseReturns == pc = "parse" ~> pc = "read"
=============================================================================
