------------------------------ MODULE NodeMain ------------------------------
(***************************************************************************)
(* rslidar_sdk_node: main makes a NodeManager, which makes and starts one  *)
(* source for every lidar of the configuration, and waits for the          *)
(* interrupt; then it returns, and its destructors stop and destroy the    *)
(* sources.                                                                *)
(*                                                                         *)
(* Under ROS 1 the handler of the interrupt calls ros::shutdown() and main *)
(* waits in ros::spin(), which returns after a shutdown whenever it was.   *)
(* Under ROS 2 the handler notifies a condition variable and main waits on *)
(* it without a predicate: only a notification that comes during the wait  *)
(* is heard, and the wait may end without one.                             *)
(*                                                                         *)
(* What a source does while it runs is in CloudPipeline; here it is its    *)
(* driver and threads, which run or do not.  A source of packets under     *)
(* ROS 2 has a thread in rclcpp::spin() besides, which the middleware ends *)
(* some time after an interrupt and nobody joins.                          *)
(***************************************************************************)
EXTENDS Naturals

CONSTANTS
  MaxLidars,      \* bound: lidars of the configuration
  MaxInterrupts   \* bound: interrupts

ASSUME MaxLidarsAssumption == MaxLidars \in Nat
ASSUME MaxInterruptsAssumption == MaxInterrupts \in Nat

VARIABLES
  ros,         \* 1 or 2
  kind,        \* "driver" or "packet": the sources' class
  lidars,      \* lidars of the configuration
  pc,          \* "init", "start", "wait", "asleep", "stop", "destroy" or "over"
  next,        \* the source the loop of pc is at
  threads,     \* threads[s]: "none", "running", "joined" - those of SourceDriver
  started,     \* sources whose driver was started and not stopped
  spinning,    \* sources whose spin thread runs
  spun,        \* sources whose spin thread was made, and never joined
  shutdown,    \* the middleware was shut down
  interrupts,  \* interrupts so far
  heard,       \* one of them was heard
  outcome      \* "none", "returned", "failed" (exit(-1)) or "terminated"

configVars == <<ros, kind, lidars>>
sourceVars == <<threads, started, spinning, spun>>
signalVars == <<shutdown, interrupts, heard>>
vars == <<configVars, pc, next, sourceVars, signalVars, outcome>>

Lidar == 1..MaxLidars
Source == 1..lidars

Init ==
  /\ ros \in {1, 2}
  /\ kind \in {"driver", "packet"}
  /\ lidars \in 0..MaxLidars
  /\ pc = "init"
  /\ next = 1
  /\ threads = [s \in Lidar |-> "none"]
  /\ started = {}
  /\ spinning = {} /\ spun = {}
  /\ shutdown = FALSE
  /\ interrupts = 0
  /\ heard = FALSE
  /\ outcome = "none"

End(how) ==
  /\ pc' = "over"
  /\ outcome' = how

-----------------------------------------------------------------------------
(* main and NodeManager *)

\* Mutant: the loop runs one past the last source.
AdvancesPast(part) ==
  /\ UNCHANGED outcome
  /\ IF next <= lidars THEN next' = next + 1 /\ UNCHANGED pc
                       ELSE next' = 1 /\ pc' = part

\* Goes on to the next source, or after the last to the next part.
Advance(part) ==
  /\ UNCHANGED outcome
  /\ IF next < lidars THEN next' = next + 1 /\ UNCHANGED pc
                      ELSE next' = 1 /\ pc' = part

\* Mutant: a source is started as soon as it is made.
StartsEach == started' = started \cup {next}

StartsLater == UNCHANGED started

\* NodeManager::init makes a source: its threads run before its driver is
\* initialised, which may fail.
MakeSource ==
  /\ pc = "init"
  /\ next \in Source
  /\ threads' = [threads EXCEPT ![next] = "running"]
  /\ LET spins == IF kind = "packet" /\ ros = 2 THEN {next} ELSE {}
     IN  \/ Advance("start") /\ StartsLater /\ spinning' = spinning \cup spins /\ spun' = spun \cup spins
         \/ End("failed") /\ UNCHANGED <<next, started, spinning, spun>>
  /\ UNCHANGED <<configVars, signalVars>>

\* The loops do nothing for an empty configuration.
Skip(from, to) ==
  /\ pc = from
  /\ lidars = 0
  /\ pc' = to
  /\ UNCHANGED <<configVars, next, sourceVars, signalVars, outcome>>

StartSource ==
  /\ pc = "start"
  /\ next \in Source
  /\ started' = started \cup {next}
  /\ Advance("wait")
  /\ UNCHANGED <<configVars, threads, spinning, spun, signalVars>>

\* ros::spin(), or the lock and g_cv.wait(), which releases it.
FallAsleep ==
  /\ pc = "wait"
  /\ pc' = "asleep"
  /\ UNCHANGED <<configVars, next, sourceVars, signalVars, outcome>>

\* ros::spin() returns after a shutdown, the wait after a notification that
\* came during it, or for no reason; return 0 runs ~NodeManager.
WakeUp ==
  /\ pc = "asleep"
  /\ ros = 1 => shutdown
  /\ pc' = "stop"
  /\ UNCHANGED <<configVars, next, sourceVars, signalVars, outcome>>

\* Mutant: the last source is left running.
StopsAllButLast == IF next < lidars THEN "joined" ELSE threads[next]

Joined == "joined"

\* NodeManager::stop: SourceDriver::stop, for the first time.
StopSource ==
  /\ pc = "stop"
  /\ next \in Source
  /\ started' = started \ {next}
  /\ threads' = [threads EXCEPT ![next] = Joined]
  /\ Advance("destroy")
  /\ UNCHANGED <<configVars, spinning, spun, signalVars>>

\* The vector destroys its sources.  The spin thread is destroyed without a
\* join, and ~SourceDriver stops the source again, which joins what was
\* joined: each ends the process.
DestroySource ==
  /\ pc = "destroy"
  /\ next \in Source
  /\ next \in spun \/ threads[next] = "joined"
  /\ End("terminated")
  /\ UNCHANGED <<configVars, next, sourceVars, signalVars>>

ReturnEmpty ==
  /\ pc = "destroy"
  /\ lidars = 0
  /\ End("returned")
  /\ UNCHANGED <<configVars, next, sourceVars, signalVars>>

Main ==
  \/ MakeSource \/ StartSource \/ FallAsleep \/ StopSource \/ DestroySource \/ ReturnEmpty
  \/ Skip("init", "start") \/ Skip("start", "wait") \/ Skip("stop", "destroy")

-----------------------------------------------------------------------------
(* sigHandler and the middleware *)

\* Mutant: under ROS 1, too, an interrupt is heard only while main waits.
HeardAsleep == pc = "asleep"

\* ros::shutdown() lasts; notify_all() reaches who waits.
Heard == ros = 1 \/ pc = "asleep"

\* An interrupt: sigHandler, and under ROS 2 the middleware's own handler too.
Interrupt ==
  /\ pc # "over"
  /\ interrupts < MaxInterrupts
  /\ interrupts' = interrupts + 1
  /\ shutdown' = (shutdown \/ ros = 2 \/ Heard)
  /\ heard' = (heard \/ Heard)
  /\ UNCHANGED <<configVars, pc, next, sourceVars, outcome>>

\* rclcpp::spin() returns.
SpinEnds ==
  /\ shutdown
  /\ \E s \in spinning : spinning' = spinning \ {s}
  /\ UNCHANGED <<configVars, pc, next, threads, started, spun, signalVars, outcome>>

-----------------------------------------------------------------------------
Over == pc = "over" /\ UNCHANGED vars

Next == Main \/ WakeUp \/ Interrupt \/ SpinEnds \/ Over

Spec == Init /\ [][Next]_vars

\* main runs; a wait that was notified ends, one that was not may last for ever.
FairSpec ==
  /\ Spec
  /\ WF_vars(Main)
  /\ WF_vars(WakeUp /\ heard)

-----------------------------------------------------------------------------
MainTypeOK ==
  /\ ros \in {1, 2} /\ kind \in {"driver", "packet"} /\ lidars \in 0..MaxLidars
  /\ pc \in {"init", "start", "wait", "asleep", "stop", "destroy", "over"}
  /\ next \in Source \/ (lidars = 0 /\ next = 1)
  /\ threads \in [Lidar -> {"none", "running", "joined"}]
  /\ started \subseteq Source
  /\ spinning \subseteq spun /\ spun \subseteq Source
  /\ shutdown \in BOOLEAN /\ heard \in BOOLEAN
  /\ interrupts \in 0..MaxInterrupts
  /\ outcome \in {"none", "returned", "failed", "terminated"}
  /\ pc = "over" <=> outcome # "none"

\* No driver is started before every source of the configuration was made: a
\* configuration with a lidar whose initialisation fails ends the process
\* before any lidar delivers a cloud.
AllOrNone == started # {} => \A s \in Source : threads[s] # "none"

\* When main has begun to destroy the sources, and when it has ended in any way
\* but a failed initialisation, every driver is stopped and every thread of
\* every SourceDriver joined: none of them calls into a source that is gone.
QuietAtEnd ==
  pc = "destroy" \/ outcome \in {"returned", "terminated"} =>
    started = {} /\ \A s \in Source : threads[s] = "joined"

\* An interrupt that was heard - any under ROS 1, one that comes during the wait
\* under ROS 2 - ends the process.
EndsWhenAsked == heard \/ (ros = 1 /\ interrupts > 0) ~> pc = "over"
=============================================================================
