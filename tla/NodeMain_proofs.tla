-------------------------- MODULE NodeMain_proofs --------------------------
(***************************************************************************)
(* Safety of NodeMain for any number of lidars and interrupts.             *)
(*                                                                         *)
(* The properties follow from how far the loop of each part has come: the  *)
(* sources before next have been dealt with, the others have not.          *)
(***************************************************************************)
EXTENDS NodeMain, TLAPS

\* Before the interrupt only MakeSource changes threads, one source at a time
\* and in order; once main starts sources all of them are made.  main sleeps before
\* the loop that stops them.
Made ==
  /\ pc = "init" => started = {} /\ \A s \in Source : threads[s] # "none" <=> s < next
  /\ pc \in {"start", "wait", "asleep", "stop"} => \A s \in Source : threads[s] # "none"
  /\ pc \in {"wait", "asleep"} => next = 1

\* NodeManager::stop has stopped the sources before next.
Stopped == pc = "stop" => \A s \in Source : s < next => s \notin started /\ threads[s] = "joined"

\* A process that ended at its start had started nothing.
FailedEarly == outcome = "failed" => started = {}

IInv == MainTypeOK /\ Made /\ Stopped /\ FailedEarly /\ QuietAtEnd

USE DEF Source, Lidar

-----------------------------------------------------------------------------
\* The initial state: nothing made, nothing started.
LEMMA InitInvariant == Init => IInv
<1> SUFFICES ASSUME Init PROVE IInv
  OBVIOUS
<1> USE MaxLidarsAssumption, MaxInterruptsAssumption DEF Init
<1>1. MainTypeOK
  <2>1. shutdown \in BOOLEAN /\ heard \in BOOLEAN /\ (pc = "over" <=> outcome # "none") OBVIOUS
  <2>2. threads \in [Lidar -> {"none", "running", "joined"}] OBVIOUS
  <2>3. next \in Source \/ (lidars = 0 /\ next = 1) OBVIOUS
  <2> QED BY <2>1, <2>2, <2>3 DEF MainTypeOK
<1>2. Made BY DEF Made
<1>3. Stopped /\ FailedEarly /\ QuietAtEnd BY DEF Stopped, FailedEarly, QuietAtEnd
<1> QED BY <1>1, <1>2, <1>3 DEF IInv

\* NodeManager::init makes the next source or fails.
LEMMA MakeSourceKeeps == IInv /\ MakeSource => IInv'
<1> SUFFICES ASSUME IInv, MakeSource PROVE IInv'
  OBVIOUS
<1> USE MaxLidarsAssumption, MaxInterruptsAssumption
<1>1. MainTypeOK'
  <2>1. (ros \in {1, 2} /\ kind \in {"driver", "packet"} /\ lidars \in 0..MaxLidars)'
    BY DEF IInv, MainTypeOK, MakeSource, configVars
  <2>2. (shutdown \in BOOLEAN /\ heard \in BOOLEAN /\ interrupts \in 0..MaxInterrupts)'
    BY DEF IInv, MainTypeOK, MakeSource, signalVars
  <2>3. (threads \in [Lidar -> {"none", "running", "joined"}])'
    BY DEF IInv, MainTypeOK, MakeSource
  <2>4. (started \subseteq Source /\ spinning \subseteq spun /\ spun \subseteq Source)'
    BY DEF IInv, MainTypeOK, MakeSource, configVars, StartsLater
  <2>5. (next \in Source \/ (lidars = 0 /\ next = 1))'
    BY DEF IInv, MainTypeOK, MakeSource, configVars, Advance
  <2>6. (/\ pc \in {"init", "start", "wait", "asleep", "stop", "destroy", "over"}
         /\ outcome \in {"none", "returned", "failed", "terminated"}
         /\ pc = "over" <=> outcome # "none")'
    BY DEF IInv, MainTypeOK, MakeSource, Advance, End
  <2> QED BY <2>1, <2>2, <2>3, <2>4, <2>5, <2>6 DEF MainTypeOK
<1>2. Made'
  <2>1. ASSUME NEW s \in Source PROVE threads'[s] # "none" <=> s <= next
    BY <2>1 DEF IInv, MainTypeOK, Made, MakeSource
  <2>2. CASE Advance("start") /\ StartsLater
    <3>1. started' = {} /\ lidars' = lidars /\ next \in Nat
      BY <2>2 DEF MakeSource, StartsLater, configVars, IInv, MainTypeOK, Made
    <3>2. CASE next < lidars
      BY <2>1, <2>2, <3>1, <3>2 DEF Advance, IInv, Made, MainTypeOK, MakeSource
    <3>3. CASE ~(next < lidars)
      BY <2>1, <2>2, <3>1, <3>3 DEF Advance, IInv, Made, MainTypeOK, MakeSource
    <3> QED BY <3>2, <3>3
  <2>3. CASE End("failed")
    BY <2>3 DEF End, Made
  <2> QED BY <2>2, <2>3 DEF MakeSource
<1>3. Stopped' /\ FailedEarly' /\ QuietAtEnd'
  BY DEF IInv, MainTypeOK, Made, FailedEarly, Stopped, QuietAtEnd, MakeSource, Advance, End, StartsLater, configVars
<1> QED BY <1>1, <1>2, <1>3 DEF IInv

\* NodeManager::start, when every source is made.
LEMMA StartSourceKeeps == IInv /\ StartSource => IInv'
BY MaxLidarsAssumption, MaxInterruptsAssumption
DEF IInv, MainTypeOK, Made, Stopped, FailedEarly, QuietAtEnd, StartSource, Advance, configVars, signalVars

\* NodeManager::stop stops the next source; after the last all are stopped.
LEMMA StopSourceKeeps == IInv /\ StopSource => IInv'
<1> SUFFICES ASSUME IInv, StopSource PROVE IInv'
  OBVIOUS
<1> USE MaxLidarsAssumption, MaxInterruptsAssumption
<1>1. MainTypeOK'
  BY DEF IInv, MainTypeOK, StopSource, Joined, Advance, configVars, signalVars
<1>2. Made' /\ FailedEarly'
  BY DEF IInv, MainTypeOK, Made, FailedEarly, StopSource, Joined, Advance, configVars
<1>3. Stopped'
  BY DEF IInv, MainTypeOK, Stopped, StopSource, Joined, Advance, configVars
<1>4. QuietAtEnd'
  BY DEF IInv, MainTypeOK, Stopped, QuietAtEnd, StopSource, Joined, Advance, configVars
<1> QED BY <1>1, <1>2, <1>3, <1>4 DEF IInv

\* The steps of main that go from one part to the next.
LEMMA PartsKeep ==
  IInv /\ (Skip("init", "start") \/ Skip("start", "wait") \/ Skip("stop", "destroy")
           \/ FallAsleep \/ WakeUp) => IInv'
<1> SUFFICES ASSUME IInv,
                    Skip("init", "start") \/ Skip("start", "wait") \/ Skip("stop", "destroy")
                      \/ FallAsleep \/ WakeUp
             PROVE IInv'
  OBVIOUS
<1>1. UNCHANGED <<configVars, next, sourceVars, signalVars, outcome>>
  BY DEF Skip, FallAsleep, WakeUp
<1>2. MainTypeOK'
  BY <1>1 DEF IInv, MainTypeOK, Skip, FallAsleep, WakeUp, configVars, sourceVars, signalVars
<1>3. Made' /\ FailedEarly'
  BY <1>1
     DEF IInv, MainTypeOK, Made, FailedEarly, Skip, FallAsleep, WakeUp, configVars, sourceVars
<1>4. Stopped'
  BY <1>1 DEF IInv, MainTypeOK, Made, Stopped, Skip, FallAsleep, WakeUp, configVars, sourceVars
<1>5. QuietAtEnd'
  BY <1>1
     DEF IInv, MainTypeOK, QuietAtEnd, Stopped, Skip, FallAsleep, WakeUp, configVars, sourceVars
<1> QED BY <1>2, <1>3, <1>4, <1>5 DEF IInv

\* The end of main: sources are stopped by then.
LEMMA EndKeeps == IInv /\ (DestroySource \/ ReturnEmpty) => IInv'
<1> SUFFICES ASSUME IInv, DestroySource \/ ReturnEmpty PROVE IInv'
  OBVIOUS
<1>1. /\ UNCHANGED <<configVars, next, sourceVars, signalVars>>
      /\ pc = "destroy" /\ pc' = "over" /\ outcome' \in {"returned", "terminated"}
  BY DEF DestroySource, ReturnEmpty, End
<1>2. MainTypeOK' BY <1>1 DEF IInv, MainTypeOK, configVars, sourceVars, signalVars
<1>3. Made' /\ Stopped' /\ FailedEarly' BY <1>1 DEF Made, Stopped, FailedEarly
<1>4. QuietAtEnd' BY <1>1 DEF IInv, QuietAtEnd, configVars, sourceVars
<1> QED BY <1>2, <1>3, <1>4 DEF IInv

\* Interrupts and the middleware's threads leave main and its sources alone.
LEMMA OthersKeep == IInv /\ (Interrupt \/ SpinEnds) => IInv'
<1> SUFFICES ASSUME IInv, Interrupt \/ SpinEnds PROVE IInv'
  OBVIOUS
<1>1. UNCHANGED <<configVars, pc, next, threads, started, spun, outcome>>
  BY DEF Interrupt, SpinEnds, sourceVars
<1>2. MainTypeOK'
  <2>1. (spinning \subseteq spun)'
    BY <1>1 DEF IInv, MainTypeOK, Interrupt, SpinEnds, sourceVars
  <2>2. (shutdown \in BOOLEAN /\ heard \in BOOLEAN)'
    BY DEF IInv, MainTypeOK, Interrupt, SpinEnds, signalVars
  <2>3. (interrupts \in 0..MaxInterrupts)'
    BY MaxInterruptsAssumption DEF IInv, MainTypeOK, Interrupt, SpinEnds, signalVars
  <2> QED BY <1>1, <2>1, <2>2, <2>3 DEF IInv, MainTypeOK, configVars
<1>3. (Made /\ Stopped /\ FailedEarly /\ QuietAtEnd)'
  BY <1>1 DEF IInv, Made, Stopped, FailedEarly, QuietAtEnd, configVars
<1> QED BY <1>2, <1>3 DEF IInv

\* IInv is inductive.
LEMMA StepInvariant == IInv /\ [Next]_vars => IInv'
<1> SUFFICES ASSUME IInv, [Next]_vars PROVE IInv'
  OBVIOUS
<1>1. CASE MakeSource BY <1>1, MakeSourceKeeps
<1>2. CASE StartSource BY <1>2, StartSourceKeeps
<1>3. CASE StopSource BY <1>3, StopSourceKeeps
<1>4. CASE Skip("init", "start") \/ Skip("start", "wait") \/ Skip("stop", "destroy") \/ FallAsleep \/ WakeUp
  BY <1>4, PartsKeep
<1>5. CASE DestroySource \/ ReturnEmpty BY <1>5, EndKeeps
<1>6. CASE Interrupt \/ SpinEnds BY <1>6, OthersKeep
<1>7. CASE Over \/ UNCHANGED vars
  BY <1>7 DEF Over, vars, configVars, sourceVars, signalVars, IInv, MainTypeOK, Made, Stopped,
             FailedEarly, QuietAtEnd
<1> QED BY <1>1, <1>2, <1>3, <1>4, <1>5, <1>6, <1>7 DEF Next, Main

-----------------------------------------------------------------------------
\* The inductive invariant of main, its sources and the interrupt.
THEOREM Invariant == Spec => []IInv
<1>1. Init => IInv BY InitInvariant
<1>2. IInv /\ [Next]_vars => IInv' BY StepInvariant
<1> QED BY <1>1, <1>2, PTL DEF Spec

\* Types hold for any number of lidars and interrupts; no loop runs past the
\* last source.
THEOREM TypeCorrectness == Spec => []MainTypeOK
<1>1. IInv => MainTypeOK BY DEF IInv
<1> QED BY <1>1, Invariant, PTL

\* No driver is started before every source was made.  When some are started
\* main is past its first part, and once they are being destroyed none is.
THEOREM AllOrNoneAlways == Spec => []AllOrNone
<1>1. IInv => AllOrNone
  BY DEF IInv, MainTypeOK, Made, FailedEarly, QuietAtEnd, AllOrNone
<1> QED BY <1>1, Invariant, PTL

\* When the sources are destroyed and when main has returned, every driver is
\* stopped and every thread joined.
THEOREM QuietAtEndAlways == Spec => []QuietAtEnd
<1>1. IInv => QuietAtEnd BY DEF IInv
<1> QED BY <1>1, Invariant, PTL
=============================================================================
