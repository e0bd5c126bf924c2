--------------------------- MODULE MCFrameParser ---------------------------
(* Streams for the run of FrameParser. *)
EXTENDS FrameParser, SequencesExt

Filler == [start |-> FALSE, claim |-> 1, ok |-> FALSE]
Start(claim, ok) == [start |-> TRUE, claim |-> claim, ok |-> ok]

Fillers(n) == [i \in 1..n |-> Filler]

\* Frames a lidar may send: a good one, and one with a flag
\* in its payload; a wrong checksum; a length too small, too large, or reaching
\* into the next frame; and bytes that belong to no frame.
Frames == {
  <<Start(4, TRUE)>> \o Fillers(3),
  <<Start(6, TRUE), Filler, Start(4, FALSE)>> \o Fillers(3),
  <<Start(4, FALSE)>> \o Fillers(3),
  <<Start(2, FALSE)>> \o Fillers(3),
  <<Start(9, FALSE)>> \o Fillers(3),
  <<Start(6, FALSE)>> \o Fillers(3),
  Fillers(1) }

\* Up to three of them.
Sent == {FlattenSeq(s) : s \in UNION {[1..n -> Frames] : n \in 1..3}}
=============================================================================
