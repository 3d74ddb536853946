---------------------------- MODULE DebuggerProofs --------------------------
(***************************************************************************)
(* Theorems about the debugger.                                            *)
(*                                                                         *)
(* A run or debugging session (DebugSession) pauses where its user asked,  *)
(* for every program, burst length, burst limit and call depth.  What has  *)
(* to be carried along is which command the queued burst stands for, and   *)
(* that a pause an earlier command left behind is gone before a burst is   *)
(* queued.                                                                 *)
(*                                                                         *)
(* The stack trace (StackTracer) fills the active stack down to SP and, of *)
(* a correct program, shows its activation records.  What has to be        *)
(* carried along is where the stacks end that are not active: a trap and   *)
(* its return look for them by address.                                    *)
(***************************************************************************)
EXTENDS DebugSession, StackTracer, NatFacts, SequenceTheorems, FiniteSetTheorems, TLAPS

Ops == {"none", "execute", "start", "continue", "over", "into", "out", "stop"}

AskedTypeOK == asked \in [op : Ops, depth : Depths]

\* The condition the command in force asks for, by generateStepCondition().
StepAsked ==
  CASE asked.op = "over" -> [kind |-> "depth", target |-> asked.depth]
    [] asked.op = "into" ->
         [kind |-> "depth", target |-> IF asked.depth + 1 \in Depths THEN asked.depth + 1 ELSE DepthMax]
    [] asked.op = "out" ->
         [kind |-> "depth", target |-> IF asked.depth - 1 \in Depths THEN asked.depth - 1 ELSE DepthMax]
    [] asked.op = "start" -> LeaveOS
    [] OTHER -> Never

\* A session at rest: no burst runs or is queued.
AtRest ==
  /\ phase = "idle" /\ queue = <<>>
  /\ state \in {"Halted", "DebugPaused"}
  /\ pausedBy = "pause" => landed \/ AskedFor

\* One burst is queued, that of the command in force, and no pause is due.
BurstQueued ==
  /\ phase = "idle" /\ queue = <<StepAsked>>
  /\ state \in {"NormalExec", "DebugExec"} \/ (state = "DebugPaused" /\ asked.op = "start")
  /\ asked.op \notin {"none", "stop"}
  /\ ~pendingPause

\* That burst runs; a pause that is due is due to a breakpoint or to its condition.
BurstRuns ==
  /\ phase \in {"ticking", "deciding"} /\ queue = <<>>
  /\ step = StepAsked
  /\ state \in {"NormalExec", "DebugExec"}
  /\ asked.op \notin {"none", "stop"}
  /\ pendingPause => phase = "deciding" /\ (landed \/ StepHolds(step, depth, place))

\* The inductive invariant.
SessionInv ==
  /\ TypeOK
  /\ AskedTypeOK
  /\ phase = "ticking" => ticks > 0
  /\ user = "patient" =>
       /\ AtRest \/ BurstQueued \/ BurstRuns
       /\ traced <=> state # "Halted"

-----------------------------------------------------------------------------
(* Types.  A command leaves the burst alone, so that the types of its      *)
(* variables are those of before.                                          *)

\* What a command queues is a condition.
LEMMA TargetInDepths ==
  ASSUME TypeOK, NEW offset \in {-1, 0, 1}
  PROVE  TargetDepth(offset) \in Depths
BY SessionAssumption DEF TypeOK, TargetDepth, Depths

LEMMA CommandTypes ==
  ASSUME SessionInv, Command, UNCHANGED user
  PROVE  TypeOK' /\ AskedTypeOK' /\ (phase = "ticking" => ticks > 0)'
<1>1. TypeOK /\ AskedTypeOK /\ phase = "idle"
  BY DEF SessionInv, Command, Commanded, Execute, DebuggingStart, DebuggingContinue, StepDepthHelper, DebuggingStop
<1>2. Never \in Steps /\ LeaveOS \in Steps /\ \A offset \in {-1, 0, 1} :
        [kind |-> "depth", target |-> TargetDepth(offset)] \in Steps
  BY <1>1, TargetInDepths, SessionAssumption DEF Never, LeaveOS, Steps, Depths
<1>3. ASSUME NEW op \in Ops, Commanded(op) PROVE AskedTypeOK' /\ UNCHANGED <<phase, step, ticks, ended>>
  BY <1>1, <1>3 DEF Commanded, AskedTypeOK, TypeOK, burst
<1>4. ASSUME PrepareSim PROVE pendingPause' \in BOOLEAN /\ place' \in Places /\ depth' = depth
  BY <1>1, <1>4 DEF PrepareSim, TypeOK
<1> USE DEF TypeOK, Ops
<1>5. CASE Execute
  BY <1>1, <1>2, <1>3, <1>4, <1>5, AppendProperties DEF Execute
<1>6. CASE DebuggingStart
  BY <1>1, <1>2, <1>3, <1>4, <1>6, AppendProperties DEF DebuggingStart
<1>7. CASE DebuggingContinue
  BY <1>1, <1>2, <1>3, <1>7, AppendProperties DEF DebuggingContinue, program
<1>8. ASSUME NEW op \in {"over", "into", "out"}, NEW offset \in {-1, 0, 1}, StepDepthHelper(op, offset)
      PROVE  TypeOK' /\ AskedTypeOK' /\ (phase = "ticking" => ticks > 0)'
  BY <1>1, <1>2, <1>3, <1>8, AppendProperties DEF StepDepthHelper, program
<1>9. CASE DebuggingStop
  BY <1>1, <1>3, <1>9 DEF DebuggingStop, program
<1> QED BY <1>5, <1>6, <1>7, <1>8, <1>9 DEF Command

LEMMA EventTypes ==
  ASSUME SessionInv, EventLoop, UNCHANGED user
  PROVE  TypeOK' /\ AskedTypeOK' /\ (phase = "ticking" => ticks > 0)'
<1>1. TypeOK /\ AskedTypeOK /\ (phase = "ticking" => ticks > 0)
  BY DEF SessionInv
<1> USE DEF TypeOK
<1>2. CASE Deliver
  <2>1. Head(queue) \in Steps /\ Tail(queue) \in Seq(Steps)
    BY <1>1, <1>2, HeadTailProperties DEF Deliver
  <2>2. step' \in Steps /\ queue' \in Seq(Steps) /\ ticks' = BurstTicks /\ phase' = "ticking" /\ ended' = FALSE
    BY <1>2, <2>1 DEF Deliver
  <2>3. state' \in {"NormalExec", "DebugExec"}
    BY <1>2 DEF Deliver
  <2>4. UNCHANGED <<pendingPause, chained, traced, depth, place, asked>>
    BY <1>2 DEF Deliver, program, history
  <2>5. ticks' \in 0 .. BurstTicks /\ ticks' > 0
    BY <2>2, SessionAssumption
  <2> QED BY <1>1, <2>2, <2>3, <2>4, <2>5 DEF AskedTypeOK
<1>3. CASE Tick
  <2>1. NextDepths \subseteq Depths
    BY <1>1, SessionAssumption DEF NextDepths, Depths
  <2>2. UNCHANGED <<state, chained, queue, traced, step, asked>>
    BY <1>3 DEF Tick, history
  <2>3. ticks' \in 0 .. BurstTicks /\ phase' \in {"ticking", "deciding"} /\ (phase' = "ticking" => ticks' > 0)
    BY <1>1, <1>3, SessionAssumption DEF Tick
  <2>4. depth' \in Depths /\ place' \in Places /\ ended' \in BOOLEAN
    BY <1>3, <2>1 DEF Tick
  <2>5. pendingPause' \in BOOLEAN
    BY <1>3 DEF Tick
  <2> QED BY <1>1, <2>2, <2>3, <2>4, <2>5 DEF AskedTypeOK
<1>4. CASE TickFails
  BY <1>1, <1>4 DEF TickFails, session, program, history, AskedTypeOK
<1>5. CASE Decide
  <2>1. UNCHANGED <<step, ticks, ended, depth, place, asked>> /\ phase' = "idle"
    BY <1>5 DEF Decide, program
  <2>2. /\ state' \in {"Halted", "NormalExec", "DebugExec", "DebugPaused"}
        /\ pendingPause' \in BOOLEAN /\ traced' \in BOOLEAN
    BY <1>1, <1>5 DEF Decide, Terminate, PauseLoop, Resume, Pause
  <2>3. chained' \in Nat
    BY <1>1, <1>5 DEF Decide, Terminate, PauseLoop, Resume, Pause, Unended
  <2>4. queue' \in Seq(Steps)
    BY <1>1, <1>5, AppendProperties DEF Decide, Terminate, PauseLoop, Resume, Pause
  <2> QED BY <1>1, <2>1, <2>2, <2>3, <2>4 DEF AskedTypeOK
<1> QED BY <1>2, <1>3, <1>4, <1>5 DEF EventLoop

-----------------------------------------------------------------------------
(* The patient user.                                                       *)

PatientInv ==
  /\ AtRest \/ BurstQueued \/ BurstRuns
  /\ traced <=> state # "Halted"

\* A patient user commands a session at rest, and what he commands becomes the
\* command in force.
LEMMA CommandStep ==
  ASSUME SessionInv, user = "patient", Command
  PROVE  PatientInv'
<1>1. TypeOK /\ AskedTypeOK /\ PatientInv
  BY DEF SessionInv, PatientInv
<1>2. phase = "idle" /\ queue = <<>> /\ phase' = "idle" /\ pausedBy' = "none"
  BY DEF Command, Commanded, Execute, DebuggingStart, DebuggingContinue, StepDepthHelper, DebuggingStop, burst
<1>3. AtRest
  BY <1>1, <1>2 DEF PatientInv, BurstQueued, BurstRuns
<1>4. \A s : Append(queue, s) = <<s>>
  BY <1>2
<1>5. ASSUME PrepareSim PROVE ~pendingPause'
  BY <1>5 DEF PrepareSim
<1>6. CASE Execute
  <2>1. asked' = [op |-> "execute", depth |-> depth] /\ queue' = <<Never>> /\ ~pendingPause'
    BY <1>4, <1>5, <1>6 DEF Execute, Commanded
  <2>2. StepAsked' = Never
    BY <2>1 DEF StepAsked
  <2> QED BY <1>2, <1>6, <2>1, <2>2 DEF Execute, PatientInv, BurstQueued
<1>7. CASE DebuggingStart
  <2>1. asked' = [op |-> "start", depth |-> depth] /\ ~pendingPause' /\ state' = "DebugPaused" /\ traced' = TRUE
    BY <1>5, <1>7 DEF DebuggingStart, Commanded
  <2>2. StepAsked' = LeaveOS
    BY <2>1 DEF StepAsked
  <2>3. CASE queue' = queue
    BY <1>2, <2>1, <2>3 DEF PatientInv, AtRest
  <2>4. CASE queue' = <<LeaveOS>>
    BY <1>2, <2>1, <2>2, <2>4 DEF PatientInv, BurstQueued
  <2> QED BY <1>4, <1>7, <2>3, <2>4 DEF DebuggingStart
<1>8. CASE DebuggingContinue
  <2>1. asked' = [op |-> "continue", depth |-> depth] /\ queue' = <<Never>> /\ ~pendingPause'
    BY <1>4, <1>8 DEF DebuggingContinue, Commanded
  <2>2. StepAsked' = Never
    BY <2>1 DEF StepAsked
  <2>3. state = "DebugPaused" /\ state' = "DebugExec" /\ traced' = traced
    BY <1>8 DEF DebuggingContinue, AllowedDebugging
  <2> QED BY <1>1, <1>2, <2>1, <2>2, <2>3 DEF PatientInv, BurstQueued
<1>9. ASSUME NEW op, NEW offset, StepDepthHelper(op, offset),
             \/ op = "over" /\ offset = 0
             \/ op = "into" /\ offset = 1
             \/ op = "out" /\ offset = -1
      PROVE  PatientInv'
  <2>1. /\ asked' = [op |-> op, depth |-> depth]
        /\ queue' = <<[kind |-> "depth", target |-> TargetDepth(offset)]>> /\ ~pendingPause'
    BY <1>4, <1>9 DEF StepDepthHelper, Commanded
  <2>2. StepAsked' = [kind |-> "depth", target |-> TargetDepth(offset)]
    <3>1. depth \in Int /\ depth \in Depths
      BY <1>1, SessionAssumption DEF TypeOK, Depths
    <3>2. depth + 0 = depth /\ depth + (-1) = depth - 1
      BY <3>1
    <3>3. StepAsked' =
            CASE op = "over" -> [kind |-> "depth", target |-> depth]
              [] op = "into" -> [kind |-> "depth", target |-> IF depth + 1 \in Depths THEN depth + 1 ELSE DepthMax]
              [] op = "out" -> [kind |-> "depth", target |-> IF depth - 1 \in Depths THEN depth - 1 ELSE DepthMax]
              [] op = "start" -> LeaveOS
              [] OTHER -> Never
      BY <2>1 DEF StepAsked
    <3> QED BY <1>9, <3>1, <3>2, <3>3 DEF TargetDepth
  <2>3. state = "DebugPaused" /\ state' = "DebugExec" /\ traced' = traced
    BY <1>9 DEF StepDepthHelper, AllowedSteps
  <2> QED BY <1>1, <1>2, <1>9, <2>1, <2>2, <2>3 DEF PatientInv, BurstQueued
<1>10. CASE DebuggingStop
  BY <1>2, <1>10 DEF DebuggingStop, PatientInv, AtRest
<1> QED BY <1>6, <1>7, <1>8, <1>9, <1>10 DEF Command

\* A pause at the end of a burst is where the command in force asked for it.
LEMMA HoldsWhereAsked ==
  ASSUME TypeOK, AskedTypeOK, step = StepAsked, StepHolds(step, depth, place)
  PROVE  AskedFor
<1>1. depth \in Int /\ asked.depth \in Int /\ DepthMax \in Int /\ asked.depth >= 0
      /\ depth <= DepthMax /\ asked.depth <= DepthMax
  BY SessionAssumption DEF TypeOK, AskedTypeOK, Depths
<1>2. CASE asked.op = "over"
  <2>1. step = [kind |-> "depth", target |-> asked.depth]
    BY <1>2 DEF StepAsked
  <2> QED BY <1>2, <2>1 DEF StepHolds, AskedFor
<1>3. CASE asked.op = "into"
  <2>1. step.kind = "depth" /\ step.target <= asked.depth + 1 /\ step.target \in Int
    BY <1>1, <1>3 DEF StepAsked, Depths
  <2> QED BY <1>1, <1>3, <2>1 DEF StepHolds, AskedFor
<1>4. CASE asked.op = "out"
  <2>1. step.kind = "depth" /\ (asked.depth > 0 => step.target = asked.depth - 1)
    BY <1>1, <1>4 DEF StepAsked, Depths
  <2> QED BY <1>1, <1>4, <2>1 DEF StepHolds, AskedFor
<1>5. CASE asked.op = "start"
  <2>1. step = LeaveOS
    BY <1>5 DEF StepAsked
  <2> QED BY <1>5, <2>1 DEF StepHolds, AskedFor, LeaveOS, InOS
<1>6. CASE asked.op \notin {"over", "into", "out", "start"}
  <2>1. step = Never
    BY <1>6 DEF StepAsked
  <2> QED BY <2>1 DEF StepHolds, Never
<1> QED BY <1>2, <1>3, <1>4, <1>5, <1>6

LEMMA EventStep ==
  ASSUME SessionInv, user = "patient", EventLoop
  PROVE  PatientInv'
<1>1. TypeOK /\ AskedTypeOK /\ PatientInv
  BY DEF SessionInv, PatientInv
<1>2. CASE Deliver
  <2>1. BurstQueued
    BY <1>1, <1>2 DEF Deliver, PatientInv, AtRest, BurstRuns
  <2>2. step' = StepAsked /\ queue' = <<>>
    BY <1>2, <2>1 DEF Deliver, BurstQueued
  <2>3. StepAsked' = StepAsked /\ asked' = asked
    BY <1>2 DEF Deliver, history, StepAsked
  <2>4. state' \in {"NormalExec", "DebugExec"} /\ state # "Halted" /\ traced' = traced
    BY <1>2, <2>1 DEF Deliver, BurstQueued
  <2>5. ~pendingPause' /\ phase' = "ticking"
    BY <1>2, <2>1 DEF Deliver, BurstQueued
  <2> QED BY <1>1, <2>1, <2>2, <2>3, <2>4, <2>5 DEF PatientInv, BurstQueued, BurstRuns
<1>3. CASE Tick
  <2>1. BurstRuns /\ ~pendingPause
    BY <1>1, <1>3 DEF Tick, PatientInv, AtRest, BurstQueued, BurstRuns
  <2>2. UNCHANGED <<state, chained, queue, traced, step, asked>> /\ StepAsked' = StepAsked
    BY <1>3 DEF Tick, history, StepAsked
  <2>3. phase' \in {"ticking", "deciding"} /\ (pendingPause' => phase' = "deciding")
    BY <1>3 DEF Tick
  <2>4. pendingPause' => landed' \/ StepHolds(step, depth', place')
    BY <1>3, <2>1 DEF Tick
  <2> QED BY <1>1, <2>1, <2>2, <2>3, <2>4 DEF PatientInv, BurstRuns, StepHolds
<1>4. CASE TickFails
  <2>1. BurstRuns /\ ~pendingPause
    BY <1>1, <1>4 DEF TickFails, PatientInv, AtRest, BurstQueued, BurstRuns
  <2>2. UNCHANGED <<state, queue, traced, step, asked, pendingPause>> /\ StepAsked' = StepAsked /\ phase' = "deciding"
    BY <1>4 DEF TickFails, history, session, StepAsked
  <2> QED BY <1>1, <2>1, <2>2 DEF PatientInv, BurstRuns
<1>5. CASE Decide
  <2>1. BurstRuns
    BY <1>1, <1>5 DEF Decide, PatientInv, AtRest, BurstQueued
  <2>2. UNCHANGED <<step, asked, depth, place, landed>> /\ phase' = "idle" /\ StepAsked' = StepAsked
    BY <1>5 DEF Decide, program, StepAsked
  <2>3. AskedFor' = AskedFor
    BY <2>2 DEF AskedFor, InOS
  <2>4. CASE Terminate
    BY <2>1, <2>2, <2>4 DEF Terminate, PatientInv, AtRest, BurstRuns
  <2>5. CASE PauseLoop
    BY <1>1, <2>1, <2>2, <2>5 DEF PauseLoop, PatientInv, AtRest, BurstRuns
  <2>6. CASE Resume
    <3>1. queue' = <<step>> /\ UNCHANGED <<state, pendingPause, traced>> /\ ~pendingPause
      BY <2>1, <2>6 DEF Resume, BurstRuns
    <3> QED BY <1>1, <2>1, <2>2, <3>1 DEF PatientInv, BurstQueued, BurstRuns
  <2>7. CASE Pause
    <3>1. landed \/ AskedFor
      BY <1>1, <2>1, <2>7, HoldsWhereAsked DEF Pause, BurstRuns
    <3> QED BY <1>1, <2>1, <2>2, <2>3, <2>7, <3>1 DEF Pause, PatientInv, AtRest, BurstRuns
  <2> QED BY <1>5, <2>4, <2>5, <2>6, <2>7 DEF Decide
<1> QED BY <1>2, <1>3, <1>4, <1>5 DEF EventLoop

-----------------------------------------------------------------------------
(* Theorems.                                                               *)

\* The inductive invariant holds in every reachable state, whatever the program
\* does and however long its bursts and their chains are.
THEOREM SessionInvariant == Spec => []SessionInv
<1>1. Init => SessionInv
  <2> SUFFICES ASSUME Init PROVE SessionInv
    OBVIOUS
  <2>1. Never \in Steps /\ 0 \in Depths
    BY SessionAssumption DEF Never, Steps, Depths
  <2>2. TypeOK /\ AskedTypeOK
    <3>1. 0 \in 0 .. BurstTicks /\ << >> \in Seq(Steps)
      BY SessionAssumption
    <3>2. AskedTypeOK
      BY <2>1 DEF Init, AskedTypeOK, Ops
    <3> QED BY <2>1, <3>1, <3>2 DEF Init, TypeOK
  <2> QED BY <2>2 DEF Init, SessionInv, AtRest
<1>2. SessionInv /\ [Next]_vars => SessionInv'
  <2> SUFFICES ASSUME SessionInv, [Next]_vars PROVE SessionInv'
    OBVIOUS
  <2>1. CASE Command /\ UNCHANGED user
    BY <2>1, CommandTypes, CommandStep DEF SessionInv, PatientInv
  <2>2. CASE EventLoop /\ UNCHANGED user
    BY <2>2, EventTypes, EventStep DEF SessionInv, PatientInv
  <2>3. CASE UNCHANGED vars
    <3> USE <2>3 DEF vars, session, burst, program, history
    <3>1. TypeOK' = TypeOK /\ AskedTypeOK' = AskedTypeOK
      BY DEF TypeOK, AskedTypeOK
    <3>2. StepAsked' = StepAsked /\ AskedFor' = AskedFor
      BY DEF StepAsked, AskedFor, InOS
    <3>3. AtRest' = AtRest /\ BurstQueued' = BurstQueued
      BY <3>2 DEF AtRest, BurstQueued
    <3>4. BurstRuns' = BurstRuns
      BY <3>2 DEF BurstRuns, StepHolds
    <3> QED BY <3>1, <3>3, <3>4 DEF SessionInv
  <2> QED BY <2>1, <2>2, <2>3 DEF Next
<1> QED BY <1>1, <1>2, PTL DEF Spec

\* A session pauses where the command in force asked it to, at a breakpoint, or at
\* the limit on bursts: never because of a pause left behind (onDeferredExecution).
THEOREM PausesOnlyWhereAsked == Spec => []PausesWhereAsked
<1>1. SessionInv => PausesWhereAsked
  BY DEF SessionInv, PausesWhereAsked, AtRest, BurstQueued, BurstRuns
<1> QED BY <1>1, SessionInvariant, PTL

\* The state the interface shows is what the session does: it executes exactly
\* while a burst is queued or runs, and is traced exactly while it is open.
THEOREM SessionStateIsTrue == Spec => []StateIsTrue
<1>1. SessionInv => StateIsTrue
  <2> SUFFICES ASSUME SessionInv PROVE StateIsTrue
    OBVIOUS
  <2>1. TypeOK
    BY DEF SessionInv
  <2>2. ASSUME user = "patient"
        PROVE  /\ state \in {"NormalExec", "DebugExec"} => phase # "idle" \/ Len(queue) = 1
               /\ queue # <<>> => phase = "idle" /\ Len(queue) = 1
               /\ queue # <<>> /\ state = "DebugPaused" => queue = <<LeaveOS>> /\ asked.op = "start"
               /\ state = "Halted" => queue = <<>> /\ phase = "idle"
               /\ traced <=> state # "Halted"
    <3>1. (AtRest \/ BurstQueued \/ BurstRuns) /\ (traced <=> state # "Halted")
      BY <2>2 DEF SessionInv
    <3>2. CASE AtRest
      BY <3>1, <3>2 DEF AtRest
    <3>3. CASE BurstQueued
      <4>1. Len(queue) = 1 /\ queue # <<>>
        BY <3>3 DEF BurstQueued
      <4>2. asked.op = "start" => StepAsked = LeaveOS
        BY DEF StepAsked
      <4> QED BY <3>1, <3>3, <4>1, <4>2 DEF BurstQueued
    <3>4. CASE BurstRuns
      BY <3>1, <3>4 DEF BurstRuns
    <3> QED BY <3>1, <3>2, <3>3, <3>4
  <2> QED BY <2>1, <2>2 DEF StateIsTrue
<1> QED BY <1>1, SessionInvariant, PTL

-----------------------------------------------------------------------------
(* Stacks, frames and slots, and what the commands do to the last frame.   *)

Slot == [address : Int, size : Nat \ {0}]
Frame == [slots : Seq(Slot), active : BOOLEAN]
Stack == [base : Nat, frames : Seq(Frame)]
Work == [s : Stack, broken : BOOLEAN, sp : Int, delta : Int]

\* Stack r is s with another last frame.
LastBecomes(s, r, f) ==
  /\ r \in Stack /\ r.base = s.base /\ Len(r.frames) = Len(s.frames)
  /\ \A i \in 1 .. Len(s.frames) - 1 : r.frames[i] = s.frames[i]
  /\ r.frames[Len(s.frames)] = f

\* The last frame of a stack that has one.
LEMMA LastFrame ==
  ASSUME NEW s \in Stack, s.frames # <<>>, NEW f \in Frame,
         NEW r, r = [s EXCEPT !.frames = [s.frames EXCEPT ![Len(s.frames)] = f]]
  PROVE  LastBecomes(s, r, f)
<1>1. PICK F : F = s.frames
  OBVIOUS
<1>2. PICK n : n = Len(F)
  OBVIOUS
<1>3. F \in Seq(Frame) /\ s.base \in Nat /\ F # <<>>
  BY <1>1 DEF Stack
<1>4. n \in Nat /\ n > 0 /\ F \in [1 .. n -> Frame] /\ n \in 1 .. n
  BY <1>2, <1>3
<1>5. PICK G : G = [F EXCEPT ![n] = f]
  OBVIOUS
<1>6. G \in [1 .. n -> Frame] /\ G[n] = f /\ \A i \in 1 .. n - 1 : G[i] = F[i]
  BY <1>4, <1>5
<1>7. G \in Seq(Frame) /\ Len(G) = n
  BY <1>4, <1>6
<1>8. r = [s EXCEPT !.frames = G]
  BY <1>1, <1>2, <1>5
<1>9. r \in Stack /\ r.base = s.base /\ r.frames = G
  BY <1>3, <1>7, <1>8 DEF Stack
<1> QED BY <1>1, <1>2, <1>6, <1>7, <1>9 DEF LastBecomes

\* The last frame of a stack.
LEMMA FramesFacts ==
  ASSUME NEW s \in Stack
  PROVE  /\ s.base \in Nat /\ s.frames \in Seq(Frame) /\ Len(s.frames) \in Nat
         /\ \A i \in 1 .. Len(s.frames) :
              /\ s.frames[i] \in Frame /\ s.frames[i].slots \in Seq(Slot)
              /\ s.frames[i].active \in BOOLEAN /\ Len(s.frames[i].slots) \in Nat
              /\ \A j \in 1 .. Len(s.frames[i].slots) :
                   /\ s.frames[i].slots[j] \in Slot /\ s.frames[i].slots[j].address \in Int
                   /\ s.frames[i].slots[j].size \in Nat \ {0}
         /\ s.frames = <<>> <=> Len(s.frames) = 0
         /\ s.frames # <<>> => Len(s.frames) \in 1 .. Len(s.frames) /\ Len(s.frames) > 0
                               /\ Last(s.frames) = s.frames[Len(s.frames)]
<1>1. s.base \in Nat /\ s.frames \in Seq(Frame)
  BY DEF Stack
<1>2. PICK F \in Seq(Frame) : F = s.frames
  BY <1>1
<1>3. Len(F) \in Nat /\ (F = <<>> <=> Len(F) = 0)
  OBVIOUS
<1>4. \A i \in 1 .. Len(F) : F[i] \in Frame
  OBVIOUS
<1>5. \A f \in Frame : f.slots \in Seq(Slot) /\ f.active \in BOOLEAN
  BY DEF Frame
<1>6. \A q \in Seq(Slot) : Len(q) \in Nat /\ \A j \in 1 .. Len(q) : q[j] \in Slot
  OBVIOUS
<1>7. \A x \in Slot : x.address \in Int /\ x.size \in Nat \ {0}
  BY DEF Slot
<1>8. Last(s.frames) = s.frames[Len(s.frames)]
  BY DEF Last
<1> QED BY <1>1, <1>2, <1>3, <1>4, <1>5, <1>6, <1>7, <1>8

\* The parts of what commands work on, and an error in it.
LEMMA WorkFacts ==
  ASSUME NEW w \in Work
  PROVE  /\ w.s \in Stack /\ w.broken \in BOOLEAN /\ w.sp \in Int /\ w.delta \in Int
         /\ NoFrame(w) <=> w.s.frames = <<>>
         /\ Break(w) \in Work /\ Break(w).broken /\ Break(w).s = w.s /\ Break(w).sp = w.sp
                           /\ Break(w).delta = w.delta
<1>1. w.s \in Stack /\ w.broken \in BOOLEAN /\ w.sp \in Int /\ w.delta \in Int
  BY DEF Work
<1>2. NoFrame(w) <=> w.s.frames = <<>>
  BY DEF NoFrame
<1>4. Break(w) \in Work /\ Break(w).broken /\ Break(w).s = w.s /\ Break(w).sp = w.sp
      /\ Break(w).delta = w.delta
  BY DEF Work, Break
<1> QED BY <1>1, <1>2, <1>4

\* SP moves, and with it the count of how far.
LEMMA MoveFacts ==
  ASSUME NEW w \in Work, NEW d \in Int, NEW v, v = Move(w, d)
  PROVE  v \in Work /\ v.s = w.s /\ v.broken = w.broken /\ v.sp = w.sp + d /\ v.delta = w.delta + d
<1>1. w.sp \in Int /\ w.delta \in Int
  BY WorkFacts
<1>2. PICK p \in Int : p = w.sp + d
  BY <1>1
<1>3. PICK e \in Int : e = w.delta + d
  BY <1>1
<1>4. v = [w EXCEPT !.sp = p, !.delta = e]
  BY <1>2, <1>3 DEF Move
<1> QED BY <1>2, <1>3, <1>4 DEF Work

\* One frame changed.
LEMMA FrameExcept ==
  ASSUME NEW f \in Frame, NEW q, NEW on
  PROVE  /\ [f EXCEPT !.slots = q] = [slots |-> q, active |-> f.active]
         /\ [f EXCEPT !.active = on] = [slots |-> f.slots, active |-> on]
<1>1. [f EXCEPT !.slots = q] = [slots |-> q, active |-> f.active]
  BY DEF Frame
<1>2. [f EXCEPT !.active = on] = [slots |-> f.slots, active |-> on]
  BY DEF Frame
<1> QED BY <1>1, <1>2

\* pushSlot()
LEMMA PushSlotFacts ==
  ASSUME NEW w \in Work, NEW size \in Nat \ {0}, w.s.frames # <<>>,
         NEW v, v = PushSlot(w, size), NEW f, f = Last(w.s.frames)
  PROVE  /\ v \in Work /\ v.broken = w.broken /\ v.sp = w.sp /\ v.delta = w.delta
         /\ LastBecomes(w.s, v.s, [slots |-> Append(f.slots, [address |-> w.sp, size |-> size]),
                                   active |-> f.active])
<1>1. PICK s \in Stack : s = w.s
  BY WorkFacts
<1>2. PICK n : n = Len(s.frames)
  OBVIOUS
<1>3. PICK x : x = [address |-> w.sp, size |-> size]
  OBVIOUS
<1>4. f = s.frames[n] /\ f \in Frame /\ f.slots \in Seq(Slot) /\ f.active \in BOOLEAN
      /\ s.frames \in Seq(Frame) /\ n \in 1 .. n /\ n \in Nat
  BY <1>1, <1>2, FramesFacts
<1>13. x \in Slot
  BY <1>3, WorkFacts DEF Slot
<1>14. PICK q \in Seq(Slot) : q = Append(f.slots, x)
  <2>1. Append(f.slots, x) \in Seq(Slot)
    BY <1>4, <1>13, AppendProperties
  <2> QED BY <2>1
<1>5. PICK g : g = [slots |-> q, active |-> f.active]
  OBVIOUS
<1>6. g \in Frame
  BY <1>4, <1>5 DEF Frame
<1>7. [f EXCEPT !.slots = Append(@, x)] = g
  <2>1. [f EXCEPT !.slots = Append(@, x)] = [f EXCEPT !.slots = q]
    BY <1>14
  <2> QED BY <1>4, <1>5, <2>1, FrameExcept
<1>8. PICK r : r = [s EXCEPT !.frames = [s.frames EXCEPT ![n] = g]]
  OBVIOUS
<1>9. LastBecomes(s, r, g)
  BY <1>1, <1>2, <1>6, <1>8, LastFrame
<1>10. v = [w EXCEPT !.s.frames[n].slots = Append(@, x)]
  BY <1>1, <1>2, <1>3 DEF PushSlot, NoFrame
<1>11. v = [w EXCEPT !.s = r]
  BY <1>1, <1>4, <1>7, <1>8, <1>10 DEF Work, Stack, Frame
<1>12. v \in Work /\ v.s = r /\ v.broken = w.broken /\ v.sp = w.sp /\ v.delta = w.delta
  BY <1>9, <1>11 DEF Work, LastBecomes
<1> QED BY <1>1, <1>3, <1>5, <1>9, <1>12, <1>14

\* popSlot()
LEMMA PopSlotFacts ==
  ASSUME NEW w \in Work, NEW size \in Nat \ {0}, w.s.frames # <<>>,
         NEW f, f = Last(w.s.frames), f.slots # <<>>, Last(f.slots).size = size,
         NEW v, v = PopSlot(w, size)
  PROVE  /\ v \in Work /\ v.broken = w.broken /\ v.sp = w.sp /\ v.delta = w.delta
         /\ LastBecomes(w.s, v.s, [slots |-> Front(f.slots), active |-> f.active])
<1>1. PICK s \in Stack : s = w.s
  BY WorkFacts
<1>2. PICK n : n = Len(s.frames)
  OBVIOUS
<1>3. f = s.frames[n] /\ f \in Frame /\ f.slots \in Seq(Slot) /\ f.active \in BOOLEAN
      /\ s.frames \in Seq(Frame) /\ n \in 1 .. n /\ n \in Nat
  BY <1>1, <1>2, FramesFacts
<1>4. PICK q \in Seq(Slot) : q = Front(f.slots)
  <2>1. PICK p \in Seq(Slot) : p = f.slots
    BY <1>3
  <2>2. p # <<>>
    BY <2>1
  <2>3. Len(p) \in Nat /\ Len(p) > 0 /\ SubSeq(p, 1, Len(p) - 1) \in Seq(Slot)
    BY <2>2
  <2> QED BY <2>1, <2>3 DEF Front
<1>5. PICK g : g = [slots |-> q, active |-> f.active]
  OBVIOUS
<1>6. g \in Frame
  BY <1>3, <1>5 DEF Frame
<1>7. [f EXCEPT !.slots = Front(@)] = g
  <2>1. [f EXCEPT !.slots = Front(@)] = [f EXCEPT !.slots = q]
    BY <1>4
  <2> QED BY <1>3, <1>5, <2>1, FrameExcept
<1>8. PICK r : r = [s EXCEPT !.frames = [s.frames EXCEPT ![n] = g]]
  OBVIOUS
<1>9. LastBecomes(s, r, g)
  BY <1>1, <1>2, <1>6, <1>8, LastFrame
<1>10. v = [w EXCEPT !.s.frames[n].slots = Front(@)]
  BY <1>1, <1>2 DEF PopSlot, NoFrame
<1>11. v = [w EXCEPT !.s = r]
  BY <1>1, <1>3, <1>7, <1>8, <1>10 DEF Work, Stack, Frame
<1>12. v \in Work /\ v.s = r /\ v.broken = w.broken /\ v.sp = w.sp /\ v.delta = w.delta
  BY <1>9, <1>11 DEF Work, LastBecomes
<1> QED BY <1>1, <1>4, <1>5, <1>9, <1>12

\* setActive()
LEMMA SetActiveFacts ==
  ASSUME NEW s \in Stack, s.frames # <<>>, NEW on \in BOOLEAN
  PROVE  LastBecomes(s, SetActive(s, on), [slots |-> Last(s.frames).slots, active |-> on])
<1>1. PICK n : n = Len(s.frames)
  OBVIOUS
<1>2. PICK f : f = Last(s.frames)
  OBVIOUS
<1>3. f = s.frames[n] /\ f \in Frame /\ f.slots \in Seq(Slot)
      /\ s.frames \in Seq(Frame) /\ n \in 1 .. n /\ n \in Nat
  BY <1>1, <1>2, FramesFacts
<1>4. PICK g : g = [slots |-> f.slots, active |-> on]
  OBVIOUS
<1>5. g \in Frame /\ g = [f EXCEPT !.active = on]
  BY <1>3, <1>4, FrameExcept DEF Frame
<1>6. SetActive(s, on) = [s EXCEPT !.frames = [s.frames EXCEPT ![n] = g]]
  BY <1>1, <1>3, <1>5 DEF SetActive, Stack
<1> QED BY <1>1, <1>2, <1>4, <1>5, <1>6, LastFrame

\* Stack r is s without its last frame.
Shrinks(s, r) ==
  /\ r \in Stack /\ r.base = s.base /\ Len(r.frames) = Len(s.frames) - 1
  /\ \A i \in 1 .. Len(s.frames) - 1 : r.frames[i] = s.frames[i]

\* Stack r is s and a new frame.
Grows(s, r) ==
  /\ r \in Stack /\ r.base = s.base /\ Len(r.frames) = Len(s.frames) + 1
  /\ \A i \in 1 .. Len(s.frames) : r.frames[i] = s.frames[i]
  /\ r.frames[Len(s.frames) + 1] = EmptyFrame

\* popFrame()
LEMMA PopFrameFacts ==
  ASSUME NEW s \in Stack, s.frames # <<>>
  PROVE  Shrinks(s, PopFrame(s))
<1>1. PICK F \in Seq(Frame) : F = s.frames
  BY FramesFacts
<1>2. PICK n : n = Len(F)
  OBVIOUS
<1>3. n \in Nat /\ n > 0
  BY <1>1, <1>2, FramesFacts
<1>4. PICK G : G = Front(F)
  OBVIOUS
<1>5. G \in Seq(Frame) /\ Len(G) = n - 1 /\ \A i \in 1 .. n - 1 : G[i] = F[i]
  BY <1>2, <1>3, <1>4 DEF Front
<1>6. PopFrame(s) = [s EXCEPT !.frames = G]
  BY <1>1, <1>4 DEF PopFrame
<1> QED BY <1>1, <1>2, <1>5, <1>6 DEF Shrinks, Stack

\* pushFrame()
LEMMA PushFrameFacts ==
  ASSUME NEW s \in Stack
  PROVE  IF s.frames = <<>> \/ Last(s.frames).slots # <<>> THEN Grows(s, PushFrame(s))
         ELSE PushFrame(s) = s
<1>1. CASE s.frames = <<>> \/ Last(s.frames).slots # <<>>
  <2>1. PICK F \in Seq(Frame) : F = s.frames
    BY FramesFacts
  <2>2. PICK n : n = Len(F)
    OBVIOUS
  <2>3. PICK G : G = Append(F, EmptyFrame)
    OBVIOUS
  <2>4. EmptyFrame \in Frame
    BY DEF EmptyFrame, Frame
  <2>5. G \in Seq(Frame) /\ Len(G) = n + 1 /\ (\A i \in 1 .. n : G[i] = F[i]) /\ G[n + 1] = EmptyFrame
    BY <2>2, <2>3, <2>4
  <2>6. PushFrame(s) = [s EXCEPT !.frames = G]
    BY <1>1, <2>1, <2>3 DEF PushFrame
  <2> QED BY <1>1, <2>1, <2>2, <2>5, <2>6 DEF Grows, Stack
<1>2. CASE ~(s.frames = <<>> \/ Last(s.frames).slots # <<>>)
  BY <1>2 DEF PushFrame
<1> QED BY <1>1, <1>2

-----------------------------------------------------------------------------
(* Slots stay without gap or overlap.                                      *)

\* Slot j of frame i ends where it should, on a stack with the edge e before frame i.
LEMMA TiledPush ==
  ASSUME NEW s \in Stack, NEW r, NEW x \in Slot, NEW on, s.frames # <<>>,
         LastBecomes(s, r, [slots |-> Append(Last(s.frames).slots, x), active |-> on]),
         Tiled(s), Foot(s) = x.address + x.size
  PROVE  Tiled(r) /\ Foot(r) = x.address
<1>1. PICK n : n = Len(s.frames)
  OBVIOUS
<1>2. PICK q : q = s.frames[n].slots
  OBVIOUS
<1>3. q \in Seq(Slot) /\ n \in Nat /\ n > 0 /\ n \in 1 .. n /\ Last(s.frames) = s.frames[n]
  BY <1>1, <1>2, FramesFacts
<1>4. PICK p : p = Append(q, x)
  OBVIOUS
<1>5. PICK l \in Nat : l = Len(q)
  BY <1>3
<1>6. p \in Seq(Slot) /\ Len(p) = l + 1 /\ p[l + 1] = x /\ \A j \in 1 .. l : p[j] = q[j]
  BY <1>3, <1>4, <1>5, AppendProperties
<1>7. /\ r.base = s.base /\ Len(r.frames) = n
      /\ \A i \in 1 .. n - 1 : r.frames[i] = s.frames[i]
      /\ r.frames[n].slots = p
  BY <1>1, <1>2, <1>3, <1>4 DEF LastBecomes
<1>8. p # <<>> /\ Last(p) = x
  BY <1>5, <1>6 DEF Last
<1>9. Edge(r, n) = x.address
  BY <1>3, <1>7, <1>8 DEF Edge
<1>10. \A i \in 0 .. n - 1 : Edge(r, i) = Edge(s, i)
  <2> TAKE i \in 0 .. n - 1
  <2>1. i = 0 \/ i \in 1 .. n - 1
    BY <1>3
  <2> QED BY <1>7, <2>1 DEF Edge
<1>11. Foot(r) = x.address
  BY <1>3, <1>7, <1>8, <1>9 DEF Foot
<1>12. IF q = <<>> THEN Edge(s, n - 1) = x.address + x.size ELSE Last(q).address = x.address + x.size
  BY <1>1, <1>2, <1>3 DEF Foot, Edge
<1>13. \A i \in 1 .. n - 1 : s.frames[i].slots # <<>>
  BY <1>1 DEF Tiled
<1>14. \A i \in 1 .. n : \A j \in 1 .. Len(s.frames[i].slots) :
         s.frames[i].slots[j].address + s.frames[i].slots[j].size
           = IF j = 1 THEN Edge(s, i - 1) ELSE s.frames[i].slots[j - 1].address
  BY <1>1 DEF Tiled
<1>15. ASSUME NEW i \in 1 .. n, NEW j \in 1 .. Len(r.frames[i].slots)
       PROVE  r.frames[i].slots[j].address + r.frames[i].slots[j].size
                = IF j = 1 THEN Edge(r, i - 1) ELSE r.frames[i].slots[j - 1].address
  <2>1. Edge(r, i - 1) = Edge(s, i - 1)
    BY <1>3, <1>10
  <2>2. CASE i < n
    <3>1. r.frames[i] = s.frames[i]
      BY <1>3, <1>7, <2>2
    <3> QED BY <1>14, <2>1, <3>1
  <2>3. CASE i = n
    <3>1. r.frames[i].slots = p /\ j \in 1 .. l + 1
      BY <1>6, <1>7, <2>3
    <3>2. CASE j = l + 1 /\ l = 0
      <4>1. q = <<>>
        <5>1. \A z \in Seq(Slot) : Len(z) = 0 => z = <<>>
          OBVIOUS
        <5> QED BY <1>3, <1>5, <3>2, <5>1
      <4> QED BY <1>6, <1>12, <2>1, <2>3, <3>1, <3>2, <4>1
    <3>3. CASE j = l + 1 /\ l # 0
      <4>1. q # <<>> /\ Last(q) = q[l] /\ p[l] = q[l]
        BY <1>3, <1>5, <1>6, <3>3 DEF Last
      <4>2. j # 1 /\ j - 1 = l
        BY <1>5, <3>3
      <4> QED BY <1>6, <1>12, <3>1, <3>3, <4>1, <4>2
    <3>4. CASE j # l + 1
      <4>1. j \in 1 .. l /\ p[j] = q[j] /\ (j = 1 \/ p[j - 1] = q[j - 1])
        BY <1>5, <1>6, <3>1, <3>4
      <4>2. q[j].address + q[j].size = IF j = 1 THEN Edge(s, i - 1) ELSE q[j - 1].address
        BY <1>2, <1>5, <1>14, <2>3, <4>1
      <4> QED BY <2>1, <3>1, <4>1, <4>2
    <3> QED BY <3>2, <3>3, <3>4
  <2> QED BY <1>3, <2>2, <2>3
<1>16. Tiled(r)
  BY <1>7, <1>13, <1>15 DEF Tiled
<1> QED BY <1>11, <1>16

\* Stack r is s without the last slot of its last frame, which has the slots q.
LosesSlot(s, r, q, on) ==
  /\ s.frames # <<>> /\ q = Last(s.frames).slots /\ q # <<>>
  /\ LastBecomes(s, r, [slots |-> Front(q), active |-> on])

\* Popping a slot keeps a stack tiled and moves its foot up.
LEMMA TiledPop ==
  ASSUME NEW s \in Stack, NEW r, NEW q, NEW on, LosesSlot(s, r, q, on), Tiled(s)
  PROVE  Tiled(r) /\ Foot(s) = Last(q).address /\ Foot(r) = Last(q).address + Last(q).size
<1>0. s.frames # <<>> /\ q = Last(s.frames).slots /\ q # <<>>
  BY DEF LosesSlot
<1>1. PICK n : n = Len(s.frames)
  OBVIOUS
<1>2. q = s.frames[n].slots /\ q \in Seq(Slot) /\ n \in Nat /\ n > 0 /\ n \in 1 .. n /\ Last(s.frames) = s.frames[n]
  BY <1>0, <1>1, FramesFacts
<1>3. PICK p : p = Front(q)
  OBVIOUS
<1>4. PICK l \in Nat : Len(q) = l + 1
  <2>1. Len(q) \in Nat /\ Len(q) # 0
    BY <1>0, <1>2
  <2>2. Len(q) - 1 \in Nat /\ Len(q) = (Len(q) - 1) + 1
    BY <2>1
  <2> QED BY <2>2
<1>5. p \in Seq(Slot) /\ Len(p) = l /\ \A j \in 1 .. l : p[j] = q[j]
  <2>1. p = SubSeq(q, 1, l)
    BY <1>3, <1>4 DEF Front
  <2> QED BY <1>2, <1>4, <2>1
<1>6. /\ r.base = s.base /\ Len(r.frames) = n
      /\ \A i \in 1 .. n - 1 : r.frames[i] = s.frames[i]
      /\ r.frames[n].slots = p
  BY <1>1, <1>2, <1>3 DEF LastBecomes, LosesSlot
<1>7. Last(q) = q[l + 1]
  BY <1>4 DEF Last
<1>8. \A i \in 0 .. n - 1 : Edge(r, i) = Edge(s, i)
  <2> TAKE i \in 0 .. n - 1
  <2>1. i = 0 \/ i \in 1 .. n - 1
    BY <1>2
  <2> QED BY <1>6, <2>1 DEF Edge
<1>9. Foot(s) = Last(q).address
  BY <1>0, <1>1, <1>2 DEF Foot, Edge
<1>10. \A i \in 1 .. n : \A j \in 1 .. Len(s.frames[i].slots) :
         s.frames[i].slots[j].address + s.frames[i].slots[j].size
           = IF j = 1 THEN Edge(s, i - 1) ELSE s.frames[i].slots[j - 1].address
  BY <1>1 DEF Tiled
<1>11. q[l + 1].address + q[l + 1].size = IF l = 0 THEN Edge(s, n - 1) ELSE q[l].address
  <2>1. l + 1 \in 1 .. Len(q) /\ (l + 1 = 1 <=> l = 0) /\ (l + 1) - 1 = l
    BY <1>4
  <2> QED BY <1>2, <1>10, <2>1
<1>12. Foot(r) = IF l = 0 THEN Edge(s, n - 1) ELSE q[l].address
  <2>1. CASE l = 0
    <3>1. p = <<>>
      BY <1>5, <2>1
    <3>2. Foot(r) = Edge(r, n - 1)
      BY <1>2, <1>6, <3>1 DEF Foot
    <3>3. n - 1 \in 0 .. n - 1
      BY <1>2
    <3> QED BY <1>8, <2>1, <3>2, <3>3
  <2>2. CASE l # 0
    <3>1. p # <<>> /\ Last(p) = q[l]
      BY <1>5, <2>2 DEF Last
    <3> QED BY <1>2, <1>6, <2>2, <3>1 DEF Foot, Edge
  <2> QED BY <2>1, <2>2
<1>13. ASSUME NEW i \in 1 .. n, NEW j \in 1 .. Len(r.frames[i].slots)
       PROVE  r.frames[i].slots[j].address + r.frames[i].slots[j].size
                = IF j = 1 THEN Edge(r, i - 1) ELSE r.frames[i].slots[j - 1].address
  <2>1. Edge(r, i - 1) = Edge(s, i - 1)
    BY <1>2, <1>8
  <2>2. CASE i < n
    <3>1. r.frames[i] = s.frames[i]
      BY <1>2, <1>6, <2>2
    <3> QED BY <1>10, <2>1, <3>1
  <2>3. CASE i = n
    <3>1. r.frames[i].slots = p /\ j \in 1 .. l
      BY <1>5, <1>6, <2>3
    <3>2. j \in 1 .. Len(q) /\ p[j] = q[j] /\ (j = 1 \/ p[j - 1] = q[j - 1])
      BY <1>4, <1>5, <3>1
    <3>3. q[j].address + q[j].size = IF j = 1 THEN Edge(s, i - 1) ELSE q[j - 1].address
      BY <1>2, <1>10, <2>3, <3>2
    <3> QED BY <2>1, <3>1, <3>2, <3>3
  <2> QED BY <1>2, <2>2, <2>3
<1>14. \A i \in 1 .. n - 1 : s.frames[i].slots # <<>>
  BY <1>1 DEF Tiled
<1>15. Tiled(r)
  BY <1>6, <1>13, <1>14 DEF Tiled
<1> QED BY <1>7, <1>9, <1>11, <1>12, <1>15

\* Marking a frame moves nothing.
LEMMA TiledActive ==
  ASSUME NEW s \in Stack, NEW r, NEW on, s.frames # <<>>,
         LastBecomes(s, r, [slots |-> Last(s.frames).slots, active |-> on])
  PROVE  (Tiled(r) <=> Tiled(s)) /\ Foot(r) = Foot(s)
<1>1. PICK n : n = Len(s.frames)
  OBVIOUS
<1>2. n \in Nat /\ n > 0 /\ Last(s.frames) = s.frames[n]
  BY <1>1, FramesFacts
<1>3. /\ r.base = s.base /\ Len(r.frames) = n
      /\ \A i \in 1 .. n : r.frames[i].slots = s.frames[i].slots
  <2>1. \A i \in 1 .. n : i = n \/ i \in 1 .. n - 1
    BY <1>2
  <2> QED BY <1>1, <1>2, <2>1 DEF LastBecomes
<1>4. \A i \in 0 .. n : Edge(r, i) = Edge(s, i)
  <2> TAKE i \in 0 .. n
  <2>1. i = 0 \/ i \in 1 .. n
    BY <1>2
  <2> QED BY <1>3, <2>1 DEF Edge
<1>5. n \in 1 .. n /\ n \in 0 .. n /\ n - 1 \in 0 .. n /\ (\A i \in 1 .. n : i - 1 \in 0 .. n)
      /\ \A i \in 1 .. n - 1 : i \in 1 .. n
  BY <1>2
<1>6. Foot(r) = Foot(s)
  BY <1>1, <1>3, <1>4, <1>5 DEF Foot
<1>7. /\ (\A i \in 1 .. n - 1 : r.frames[i].slots # <<>>) <=> (\A i \in 1 .. n - 1 : s.frames[i].slots # <<>>)
      /\ \A i \in 1 .. n : Edge(r, i - 1) = Edge(s, i - 1)
  BY <1>3, <1>4, <1>5
<1>8. Tiled(r) <=> Tiled(s)
  <2> DEFINE fits(t, i) == \A j \in 1 .. Len(t.frames[i].slots) :
               t.frames[i].slots[j].address + t.frames[i].slots[j].size
                 = IF j = 1 THEN Edge(t, i - 1) ELSE t.frames[i].slots[j - 1].address
  <2>1. \A i \in 1 .. n : fits(r, i) <=> fits(s, i)
    BY <1>3, <1>7
  <2>2. Tiled(r) <=> (\A i \in 1 .. n - 1 : r.frames[i].slots # <<>>) /\ \A i \in 1 .. n : fits(r, i)
    BY <1>3 DEF Tiled
  <2>3. Tiled(s) <=> (\A i \in 1 .. n - 1 : s.frames[i].slots # <<>>) /\ \A i \in 1 .. n : fits(s, i)
    BY <1>1 DEF Tiled
  <2> HIDE DEF fits
  <2> QED BY <1>7, <2>1, <2>2, <2>3
<1> QED BY <1>6, <1>8

\* A frame without slots moves nothing, ...
LEMMA TiledGrow ==
  ASSUME NEW s \in Stack, NEW r, Grows(s, r), s.frames = <<>> \/ Last(s.frames).slots # <<>>, Tiled(s)
  PROVE  Tiled(r) /\ Foot(r) = Foot(s)
<1>1. PICK n : n = Len(s.frames)
  OBVIOUS
<1>2. n \in Nat /\ (n # 0 => s.frames[n].slots # <<>>)
  BY <1>1, FramesFacts
<1>3. /\ r.base = s.base /\ Len(r.frames) = n + 1
      /\ \A i \in 1 .. n : r.frames[i].slots = s.frames[i].slots
      /\ r.frames[n + 1].slots = <<>>
  BY <1>1 DEF Grows, EmptyFrame
<1>4. \A i \in 0 .. n : Edge(r, i) = Edge(s, i)
  <2> TAKE i \in 0 .. n
  <2>1. i = 0 \/ i \in 1 .. n
    BY <1>2
  <2> QED BY <1>3, <2>1 DEF Edge
<1>5. n + 1 > 0 /\ (n + 1) - 1 = n /\ n \in 0 .. n /\ (n > 0 <=> n # 0)
      /\ (\A i \in 1 .. n + 1 : i = n + 1 \/ i \in 1 .. n)
      /\ (\A i \in 1 .. n : i = n \/ i \in 1 .. n - 1)
      /\ (\A i \in 1 .. n : i - 1 \in 0 .. n)
  BY <1>2
<1>6. Foot(r) = Foot(s)
  BY <1>1, <1>2, <1>3, <1>4, <1>5 DEF Foot
<1>7. \A i \in 1 .. n : r.frames[i].slots # <<>>
  BY <1>1, <1>2, <1>3, <1>5 DEF Tiled
<1>8. ASSUME NEW i \in 1 .. n + 1, NEW j \in 1 .. Len(r.frames[i].slots)
      PROVE  r.frames[i].slots[j].address + r.frames[i].slots[j].size
               = IF j = 1 THEN Edge(r, i - 1) ELSE r.frames[i].slots[j - 1].address
  <2>1. i # n + 1
    <3>1. Len(<<>>) = 0
      OBVIOUS
    <3> QED BY <1>3, <3>1
  <2>2. i \in 1 .. n
    BY <1>5, <2>1
  <2>3. \A k \in 1 .. Len(s.frames[i].slots) :
         s.frames[i].slots[k].address + s.frames[i].slots[k].size
           = IF k = 1 THEN Edge(s, i - 1) ELSE s.frames[i].slots[k - 1].address
    BY <1>1, <2>2 DEF Tiled
  <2>4. r.frames[i].slots = s.frames[i].slots /\ Edge(r, i - 1) = Edge(s, i - 1)
    BY <1>3, <1>4, <1>5, <2>2
  <2> QED BY <2>3, <2>4
<1>9. Tiled(r)
  BY <1>3, <1>5, <1>7, <1>8 DEF Tiled
<1> QED BY <1>6, <1>9

\* ... whether it comes or goes.
LEMMA TiledShrink ==
  ASSUME NEW s \in Stack, NEW r, Shrinks(s, r), s.frames # <<>>, Last(s.frames).slots = <<>>, Tiled(s)
  PROVE  Tiled(r) /\ Foot(r) = Foot(s)
<1>1. PICK n : n = Len(s.frames)
  OBVIOUS
<1>2. n \in Nat /\ n > 0 /\ s.frames[n].slots = <<>>
  BY <1>1, FramesFacts
<1>3. PICK m \in Nat : n = m + 1
  <2>1. n - 1 \in Nat /\ n = (n - 1) + 1
    BY <1>2
  <2> QED BY <2>1
<1>4. n - 1 = m
  BY <1>3
<1>5. /\ r.base = s.base /\ Len(r.frames) = m
      /\ \A i \in 1 .. m : r.frames[i].slots = s.frames[i].slots
  BY <1>1, <1>4 DEF Shrinks
<1>6. \A i \in 0 .. m : Edge(r, i) = Edge(s, i)
  <2> TAKE i \in 0 .. m
  <2>1. i = 0 \/ i \in 1 .. m
    BY <1>3
  <2> QED BY <1>5, <2>1 DEF Edge
<1>7. \A i \in 1 .. m : s.frames[i].slots # <<>>
  BY <1>1, <1>4 DEF Tiled
<1>8. m \in 0 .. m /\ (m > 0 => m \in 1 .. m) /\ (\A i \in 1 .. m : i - 1 \in 0 .. m /\ i \in 1 .. n)
      /\ \A i \in 1 .. m - 1 : i \in 1 .. m
  BY <1>3
<1>9. Foot(r) = Foot(s)
  BY <1>1, <1>2, <1>4, <1>5, <1>6, <1>7, <1>8 DEF Foot
<1>11. ASSUME NEW i \in 1 .. m, NEW j \in 1 .. Len(r.frames[i].slots)
      PROVE  r.frames[i].slots[j].address + r.frames[i].slots[j].size
               = IF j = 1 THEN Edge(r, i - 1) ELSE r.frames[i].slots[j - 1].address
  <2>1. \A k \in 1 .. Len(s.frames[i].slots) :
         s.frames[i].slots[k].address + s.frames[i].slots[k].size
           = IF k = 1 THEN Edge(s, i - 1) ELSE s.frames[i].slots[k - 1].address
    BY <1>1, <1>8 DEF Tiled
  <2>2. r.frames[i].slots = s.frames[i].slots /\ Edge(r, i - 1) = Edge(s, i - 1)
    BY <1>5, <1>6, <1>8
  <2> QED BY <2>1, <2>2
<1>10. Tiled(r)
  BY <1>5, <1>7, <1>8, <1>11 DEF Tiled
<1> QED BY <1>9, <1>10

-----------------------------------------------------------------------------
(* Commands.                                                               *)

TraceCommand ==
  [op : {"PUSH", "POP", "CALL", "RET"}, size : Nat \ {0}]
    \cup [op : {"ACTIVE", "INACTIVE", "ADD_FRAME", "REMOVE_FRAME"}, size : {0}]

\* What every command keeps: slots that reach down to SP still do, unless it reports an error.
Keeps(w, v) ==
  /\ v \in Work /\ v.s.base = w.s.base
  /\ v.sp - v.delta = w.sp - w.delta
  /\ w.broken => v.broken
  /\ ~v.broken /\ Tiled(w.s) /\ Foot(w.s) = w.sp => Tiled(v.s) /\ Foot(v.s) = v.sp

\* Commands follow one another.
LEMMA KeepsTransitive ==
  ASSUME NEW u, NEW v, NEW w, Keeps(u, v), Keeps(v, w)
  PROVE  Keeps(u, w)
BY DEF Keeps

\* An error changes nothing else.
LEMMA BreakKeeps ==
  ASSUME NEW w \in Work
  PROVE  Keeps(w, Break(w)) /\ Keeps(w, w)
<1>1. Keeps(w, Break(w))
  BY WorkFacts DEF Keeps
<1>2. Keeps(w, w)
  BY DEF Keeps
<1> QED BY <1>1, <1>2

\* PUSH lowers SP by the slot it adds.
LEMMA PushKeeps ==
  ASSUME NEW w \in Work, NEW size \in Nat \ {0}
  PROVE  Keeps(w, Push(w, size))
<1>1. PICK m : m = Move(w, -size)
  OBVIOUS
<1>2. m \in Work /\ m.s = w.s /\ m.broken = w.broken /\ m.sp = w.sp - size /\ m.delta = w.delta - size
  <2>1. -size \in Int
    OBVIOUS
  <2>2. /\ m \in Work /\ m.s = w.s /\ m.broken = w.broken
        /\ m.sp = w.sp + (-size) /\ m.delta = w.delta + (-size)
    BY <1>1, <2>1, MoveFacts
  <2>3. w.sp \in Int /\ w.delta \in Int
    BY WorkFacts
  <2> QED BY <2>2, <2>3
<1>3. PICK v : v = Push(w, size)
  OBVIOUS
<1>4. v = PushSlot(m, size)
  BY <1>1, <1>3 DEF Push
<1>5. w.sp \in Int /\ w.delta \in Int /\ w.s \in Stack /\ w.broken \in BOOLEAN
  BY WorkFacts
<1>6. m.sp - m.delta = w.sp - w.delta
  BY <1>2, <1>5
<1>7. CASE w.s.frames = <<>>
  <2>1. v = Break(m)
    BY <1>2, <1>4, <1>7 DEF PushSlot, NoFrame
  <2>2. Break(m) \in Work /\ Break(m).broken /\ Break(m).s = m.s /\ Break(m).sp = m.sp
        /\ Break(m).delta = m.delta
    BY <1>2, WorkFacts
  <2>3. Keeps(w, v)
    BY <1>2, <1>6, <2>1, <2>2 DEF Keeps
  <2> QED BY <1>3, <2>3
<1>8. CASE w.s.frames # <<>>
  <2>1. PICK f : f = Last(w.s.frames)
    OBVIOUS
  <2>2. PICK x : x = [address |-> m.sp, size |-> size]
    OBVIOUS
  <2>3. x \in Slot /\ x.address + x.size = w.sp /\ x.address = m.sp
    BY <1>2, <1>5, <2>2 DEF Slot
  <2>4. v \in Work /\ v.broken = m.broken /\ v.sp = m.sp /\ v.delta = m.delta
        /\ LastBecomes(m.s, v.s, [slots |-> Append(f.slots, x), active |-> f.active])
    BY <1>2, <1>4, <1>8, <2>1, <2>2, PushSlotFacts
  <2>5. LastBecomes(w.s, v.s, [slots |-> Append(Last(w.s.frames).slots, x), active |-> f.active])
    BY <1>2, <2>1, <2>4
  <2>6. Tiled(w.s) /\ Foot(w.s) = w.sp => Tiled(v.s) /\ Foot(v.s) = v.sp
    <3> SUFFICES ASSUME Tiled(w.s), Foot(w.s) = w.sp PROVE Tiled(v.s) /\ Foot(v.s) = v.sp
      OBVIOUS
    <3>1. Tiled(v.s) /\ Foot(v.s) = x.address
      <4>1. PICK on : on = f.active
        OBVIOUS
      <4>2. LastBecomes(w.s, v.s, [slots |-> Append(Last(w.s.frames).slots, x), active |-> on])
        BY <2>5, <4>1
      <4>3. Foot(w.s) = x.address + x.size
        BY <2>3
      <4>4. PICK s \in Stack : s = w.s
        BY <1>5
      <4>5. PICK r : r = v.s
        OBVIOUS
      <4>6. Tiled(r) /\ Foot(r) = x.address
        BY <1>8, <2>3, <4>2, <4>3, <4>4, <4>5, TiledPush
      <4> QED BY <4>5, <4>6
    <3> QED BY <2>3, <2>4, <3>1
  <2>7. v.s.base = w.s.base
    BY <2>5 DEF LastBecomes
  <2>8. v.sp - v.delta = w.sp - w.delta
    BY <1>6, <2>4
  <2>9. w.broken => v.broken
    BY <1>2, <2>4
  <2>10. Keeps(w, v)
    BY <2>4, <2>6, <2>7, <2>8, <2>9 DEF Keeps
  <2> QED BY <1>3, <2>10
<1> QED BY <1>7, <1>8

\* POP raises SP by the slot it takes.
LEMMA PopKeeps ==
  ASSUME NEW w \in Work, NEW size \in Nat \ {0}
  PROVE  Keeps(w, Pop(w, size))
<1>1. PICK p : p = PopSlot(w, size)
  OBVIOUS
<1>2. PICK v : v = Pop(w, size)
  OBVIOUS
<1>3. v = Move(p, size)
  BY <1>1, <1>2 DEF Pop
<1>4. w.sp \in Int /\ w.delta \in Int /\ w.s \in Stack /\ w.broken \in BOOLEAN /\ size \in Int
  BY WorkFacts
<1>5. PICK f : f = Last(w.s.frames)
  OBVIOUS
<1>6. CASE w.s.frames # <<>> /\ f.slots # <<>> /\ Last(f.slots).size = size
  <2>1. p \in Work /\ p.broken = w.broken /\ p.sp = w.sp /\ p.delta = w.delta
        /\ LastBecomes(w.s, p.s, [slots |-> Front(f.slots), active |-> f.active])
    BY <1>1, <1>5, <1>6, PopSlotFacts
  <2>2. v \in Work /\ v.s = p.s /\ v.broken = p.broken /\ v.sp = p.sp + size /\ v.delta = p.delta + size
    <3>1. p \in Work /\ size \in Int
      BY <1>4, <2>1
    <3> QED BY <1>3, <3>1, MoveFacts
  <2>3. Tiled(w.s) /\ Foot(w.s) = w.sp => Tiled(v.s) /\ Foot(v.s) = v.sp
    <3> SUFFICES ASSUME Tiled(w.s), Foot(w.s) = w.sp PROVE Tiled(v.s) /\ Foot(v.s) = v.sp
      OBVIOUS
    <3>1. PICK q : q = f.slots
      OBVIOUS
    <3>2. Tiled(p.s) /\ Foot(w.s) = Last(q).address /\ Foot(p.s) = Last(q).address + Last(q).size
      <4>1. PICK on : on = f.active
        OBVIOUS
      <4>2. PICK s \in Stack : s = w.s
        BY <1>4
      <4>3. PICK r : r = p.s
        OBVIOUS
      <4>4. LastBecomes(s, r, [slots |-> Front(q), active |-> on])
        BY <2>1, <3>1, <4>1, <4>2, <4>3
      <4>5. s.frames # <<>> /\ q = Last(s.frames).slots /\ q # <<>> /\ Tiled(s)
        BY <1>5, <1>6, <3>1, <4>2
      <4>6. Tiled(r) /\ Foot(s) = Last(q).address /\ Foot(r) = Last(q).address + Last(q).size
        <5>1. LosesSlot(s, r, q, on) /\ Tiled(s)
          BY <4>4, <4>5 DEF LosesSlot
        <5> QED BY <5>1, TiledPop
      <4> QED BY <4>2, <4>3, <4>6
    <3> QED BY <1>6, <2>1, <2>2, <3>1, <3>2
  <2>4. v.s.base = w.s.base
    BY <2>1, <2>2 DEF LastBecomes
  <2>5. v.sp - v.delta = w.sp - w.delta
    BY <1>4, <2>1, <2>2
  <2>6. w.broken => v.broken
    BY <2>1, <2>2
  <2>7. Keeps(w, v)
    BY <2>2, <2>3, <2>4, <2>5, <2>6 DEF Keeps
  <2> QED BY <1>2, <2>7
<1>7. CASE ~(w.s.frames # <<>> /\ f.slots # <<>> /\ Last(f.slots).size = size)
  <2>1. p = Break(w)
    BY <1>1, <1>5, <1>7 DEF PopSlot, NoFrame
  <2>2. p \in Work /\ p.broken /\ p.s = w.s /\ p.sp = w.sp /\ p.delta = w.delta
    BY <2>1, WorkFacts
  <2>3. v \in Work /\ v.s = p.s /\ v.broken = p.broken /\ v.sp = p.sp + size /\ v.delta = p.delta + size
    <3>1. p \in Work /\ size \in Int
      BY <1>4, <2>2
    <3> QED BY <1>3, <3>1, MoveFacts
  <2>4. v.sp - v.delta = w.sp - w.delta
    BY <1>4, <2>2, <2>3
  <2>5. Keeps(w, v)
    BY <2>2, <2>3, <2>4 DEF Keeps
  <2> QED BY <1>2, <2>5
<1> QED BY <1>6, <1>7

\* Only the stack of v differs from w: it is r.
SameSP(w, v) == v.broken = w.broken /\ v.sp = w.sp /\ v.delta = w.delta
OnlyStack(w, v, r) == v.s = r /\ SameSP(w, v)

\* A command that leaves SP alone and changes the stack into r.
SameFoot(s, r) ==
  r \in Stack /\ r.base = s.base /\ (Tiled(s) => Tiled(r) /\ Foot(r) = Foot(s))

\* Another stack with the same foot.
LEMMA StackKeeps ==
  ASSUME NEW w \in Work, NEW r, SameFoot(w.s, r),
         NEW v, v = [w EXCEPT !.s = r]
  PROVE  Keeps(w, v) /\ OnlyStack(w, v, r)
<1>1. v \in Work /\ v.s = r /\ v.broken = w.broken /\ v.sp = w.sp /\ v.delta = w.delta
  BY DEF Work, SameFoot
<1>2. Tiled(w.s) /\ Foot(w.s) = w.sp => Tiled(v.s) /\ Foot(v.s) = v.sp
  BY <1>1 DEF SameFoot
<1>3. Keeps(w, v)
  BY <1>1, <1>2 DEF Keeps, SameFoot
<1> QED BY <1>1, <1>3 DEF OnlyStack, SameSP

\* The last frame is marked, ...
LEMMA SetActiveKeeps ==
  ASSUME NEW w \in Work, w.s.frames # <<>>, NEW on \in BOOLEAN,
         NEW v, v = [w EXCEPT !.s = SetActive(@, on)]
  PROVE  Keeps(w, v) /\ LastBecomes(w.s, v.s, [slots |-> Last(w.s.frames).slots, active |-> on])
         /\ SameSP(w, v)
<1>1. PICK s \in Stack : s = w.s
  BY WorkFacts
<1>2. PICK r : r = SetActive(s, on)
  OBVIOUS
<1>3. LastBecomes(s, r, [slots |-> Last(s.frames).slots, active |-> on])
  BY <1>1, <1>2, SetActiveFacts
<1>4. (Tiled(r) <=> Tiled(s)) /\ Foot(r) = Foot(s)
  BY <1>1, <1>3, TiledActive
<1>5. v = [w EXCEPT !.s = r]
  BY <1>1, <1>2
<1>6. r \in Stack /\ r.base = s.base
  BY <1>3 DEF LastBecomes
<1>7. Keeps(w, v) /\ OnlyStack(w, v, r)
  <2>1. SameFoot(w.s, r)
    BY <1>1, <1>4, <1>6 DEF SameFoot
  <2> QED BY <1>5, <2>1, StackKeeps
<1> QED BY <1>1, <1>3, <1>7 DEF OnlyStack

\* ... a frame comes, ...
LEMMA PushFrameKeeps ==
  ASSUME NEW w \in Work, NEW v, v = [w EXCEPT !.s = PushFrame(@)]
  PROVE  Keeps(w, v) /\ v.s = PushFrame(w.s) /\ SameSP(w, v)
<1>1. PICK s \in Stack : s = w.s
  BY WorkFacts
<1>2. PICK r : r = PushFrame(s)
  OBVIOUS
<1>3. v = [w EXCEPT !.s = r]
  BY <1>1, <1>2
<1>4. r \in Stack /\ r.base = s.base /\ (Tiled(s) => Tiled(r) /\ Foot(r) = Foot(s))
  <2>1. CASE s.frames = <<>> \/ Last(s.frames).slots # <<>>
    <3>1. Grows(s, r)
      BY <1>2, <2>1, PushFrameFacts
    <3> QED BY <2>1, <3>1, TiledGrow DEF Grows
  <2>2. CASE ~(s.frames = <<>> \/ Last(s.frames).slots # <<>>)
    <3>1. r = s
      BY <1>2, <2>2, PushFrameFacts
    <3> QED BY <3>1
  <2> QED BY <2>1, <2>2
<1>5. SameFoot(w.s, r)
  BY <1>1, <1>4 DEF SameFoot
<1>6. Keeps(w, v) /\ OnlyStack(w, v, r)
  BY <1>3, <1>5, StackKeeps
<1> QED BY <1>1, <1>2, <1>6 DEF OnlyStack

\* ... or goes.
LEMMA PopFrameKeeps ==
  ASSUME NEW w \in Work, w.s.frames # <<>>, Last(w.s.frames).slots = <<>>,
         NEW v, v = [w EXCEPT !.s = PopFrame(@)]
  PROVE  Keeps(w, v) /\ Shrinks(w.s, v.s) /\ SameSP(w, v)
<1>1. PICK s \in Stack : s = w.s
  BY WorkFacts
<1>2. PICK r : r = PopFrame(s)
  OBVIOUS
<1>3. v = [w EXCEPT !.s = r]
  BY <1>1, <1>2
<1>4. Shrinks(s, r)
  BY <1>1, <1>2, PopFrameFacts
<1>5. r \in Stack /\ r.base = s.base
  BY <1>4 DEF Shrinks
<1>8. s.frames # <<>> /\ Last(s.frames).slots = <<>>
  BY <1>1
<1>6. Tiled(s) => Tiled(r) /\ Foot(r) = Foot(s)
  BY <1>4, <1>8, TiledShrink
<1>9. SameFoot(w.s, r)
  BY <1>1, <1>5, <1>6 DEF SameFoot
<1>7. Keeps(w, v) /\ OnlyStack(w, v, r)
  BY <1>3, <1>9, StackKeeps
<1> QED BY <1>1, <1>4, <1>7 DEF OnlyStack

\* What a command leaves is of the type.
LEMMA KeepsWork ==
  ASSUME NEW w, NEW v, Keeps(w, v)
  PROVE  v \in Work
BY DEF Keeps

\* CALL keeps the stack tiled.
LEMMA CallKeeps ==
  ASSUME NEW w \in Work, NEW size \in Nat \ {0}
  PROVE  Keeps(w, Call(w, size))
<1>1. PICK u : u = IF NoFrame(w) THEN Break(w)
                   ELSE IF Last(w.s.frames).active THEN [w EXCEPT !.s = SetActive(PushFrame(@), TRUE)]
                   ELSE [w EXCEPT !.s = SetActive(@, TRUE)]
  OBVIOUS
<1>2. Call(w, size) = Push(u, size)
  BY <1>1 DEF Call
<1>3. Keeps(w, u)
  <2>1. CASE NoFrame(w)
    BY <1>1, <2>1, BreakKeeps
  <2>2. CASE ~NoFrame(w) /\ Last(w.s.frames).active
    <3>1. PICK a : a = [w EXCEPT !.s = PushFrame(@)]
      OBVIOUS
    <3>2. Keeps(w, a) /\ a.s = PushFrame(w.s)
      BY <3>1, PushFrameKeeps
    <3>3. a \in Work
      BY <3>2, KeepsWork
    <3>4. a.s.frames # <<>>
      <4>1. PICK s \in Stack : s = w.s
        BY WorkFacts
      <4>2. CASE s.frames = <<>> \/ Last(s.frames).slots # <<>>
        <5>1. Grows(s, a.s)
          BY <3>2, <4>1, <4>2, PushFrameFacts
        <5>2. Len(s.frames) \in Nat /\ Len(a.s.frames) = Len(s.frames) + 1
          BY <5>1, FramesFacts DEF Grows
        <5>3. Len(<<>>) = 0
          OBVIOUS
        <5> QED BY <5>2, <5>3
      <4>3. CASE ~(s.frames = <<>> \/ Last(s.frames).slots # <<>>)
        <5>1. a.s = s
          BY <3>2, <4>1, <4>3, PushFrameFacts
        <5> QED BY <4>3, <5>1
      <4> QED BY <4>2, <4>3
    <3>5. u = [a EXCEPT !.s = SetActive(@, TRUE)]
      BY <1>1, <2>2, <3>1 DEF Work
    <3>6. Keeps(a, u)
      BY <3>3, <3>4, <3>5, SetActiveKeeps
    <3> QED BY <3>2, <3>6, KeepsTransitive
  <2>3. CASE ~NoFrame(w) /\ ~Last(w.s.frames).active
    <3>1. u = [w EXCEPT !.s = SetActive(@, TRUE)] /\ w.s.frames # <<>>
      BY <1>1, <2>3 DEF NoFrame
    <3> QED BY <3>1, SetActiveKeeps
  <2> QED BY <2>1, <2>2, <2>3
<1>4. u \in Work
  BY <1>3, KeepsWork
<1>5. Keeps(u, Push(u, size))
  BY <1>4, PushKeeps
<1> QED BY <1>2, <1>3, <1>5, KeepsTransitive

\* RET keeps the stack tiled.
LEMMA RetKeeps ==
  ASSUME NEW w \in Work, NEW size \in Nat \ {0}
  PROVE  Keeps(w, Ret(w, size))
<1>1. PICK u : u = Pop(w, size)
  OBVIOUS
<1>2. Keeps(w, u)
  BY <1>1, PopKeeps
<1>3. u \in Work
  BY <1>2, KeepsWork
<1>4. PICK v : v = Ret(w, size)
  OBVIOUS
<1>5. v = IF NoFrame(u) THEN Break(u)
          ELSE IF Last(u.s.frames).slots = <<>> THEN [u EXCEPT !.s = PopFrame(@)]
          ELSE [u EXCEPT !.s = SetActive(@, FALSE)]
  BY <1>1, <1>4 DEF Ret
<1>6. Keeps(u, v)
  <2>1. CASE NoFrame(u)
    BY <1>3, <1>5, <2>1, BreakKeeps
  <2>2. CASE ~NoFrame(u) /\ Last(u.s.frames).slots = <<>>
    <3>1. v = [u EXCEPT !.s = PopFrame(@)] /\ u.s.frames # <<>>
      BY <1>5, <2>2 DEF NoFrame
    <3> QED BY <1>3, <2>2, <3>1, PopFrameKeeps
  <2>3. CASE ~NoFrame(u) /\ Last(u.s.frames).slots # <<>>
    <3>1. v = [u EXCEPT !.s = SetActive(@, FALSE)] /\ u.s.frames # <<>>
      BY <1>5, <2>3 DEF NoFrame
    <3> QED BY <1>3, <3>1, SetActiveKeeps
  <2> QED BY <2>1, <2>2, <2>3
<1> QED BY <1>2, <1>4, <1>6, KeepsTransitive

\* ACTIVE and INACTIVE move nothing.
LEMMA MarkKeeps ==
  ASSUME NEW w \in Work, NEW on \in BOOLEAN
  PROVE  Keeps(w, MarkActive(w, on))
<1>1. PICK v : v = MarkActive(w, on)
  OBVIOUS
<1>2. CASE NoFrame(w)
  BY <1>2, BreakKeeps DEF MarkActive
<1>3. CASE ~NoFrame(w)
  <2>1. v = [w EXCEPT !.s = SetActive(@, on)] /\ w.s.frames # <<>>
    BY <1>1, <1>3 DEF MarkActive, NoFrame
  <2> QED BY <1>1, <2>1, SetActiveKeeps
<1> QED BY <1>2, <1>3

\* ADD_FRAME moves nothing.
LEMMA AddFrameKeeps ==
  ASSUME NEW w \in Work
  PROVE  Keeps(w, AddFrame(w))
<1>1. PICK v : v = AddFrame(w)
  OBVIOUS
<1>2. CASE w.s.base = 0
  BY <1>2, BreakKeeps DEF AddFrame
<1>3. CASE w.s.base # 0
  <2>1. v = [w EXCEPT !.s = PushFrame(@)]
    BY <1>1, <1>3 DEF AddFrame
  <2> QED BY <1>1, <2>1, PushFrameKeeps
<1> QED BY <1>2, <1>3

\* REMOVE_FRAME moves nothing.
LEMMA RemoveFrameKeeps ==
  ASSUME NEW w \in Work
  PROVE  Keeps(w, RemoveFrame(w))
<1>1. PICK v : v = RemoveFrame(w)
  OBVIOUS
<1>2. CASE NoFrame(w)
  BY <1>2, BreakKeeps DEF RemoveFrame
<1>3. CASE ~NoFrame(w) /\ Last(w.s.frames).slots # <<>>
  BY <1>3, BreakKeeps DEF RemoveFrame
<1>4. CASE ~NoFrame(w) /\ Last(w.s.frames).slots = <<>>
  <2>1. v = [w EXCEPT !.s = PopFrame(@)] /\ w.s.frames # <<>>
    BY <1>1, <1>4 DEF RemoveFrame, NoFrame
  <2> QED BY <1>1, <1>4, <2>1, PopFrameKeeps
<1> QED BY <1>2, <1>3, <1>4

\* executeCommand()
LEMMA ExecuteKeeps ==
  ASSUME NEW w \in Work, NEW c \in TraceCommand
  PROVE  Keeps(w, ExecuteCommand(w, c))
<1>1. c.op \in {"PUSH", "POP", "CALL", "RET"} => c.size \in Nat \ {0}
  BY DEF TraceCommand
<1>2. c.op \in {"PUSH", "POP", "CALL", "RET", "ACTIVE", "INACTIVE", "ADD_FRAME", "REMOVE_FRAME"}
  BY DEF TraceCommand
<1>3. CASE c.op = "PUSH"
  <2>1. ExecuteCommand(w, c) = Push(w, c.size)
    BY <1>3 DEF ExecuteCommand
  <2> QED BY <1>1, <1>3, <2>1, PushKeeps
<1>4. CASE c.op = "POP"
  <2>1. ExecuteCommand(w, c) = Pop(w, c.size)
    BY <1>4 DEF ExecuteCommand
  <2> QED BY <1>1, <1>4, <2>1, PopKeeps
<1>5. CASE c.op = "CALL"
  <2>1. ExecuteCommand(w, c) = Call(w, c.size)
    BY <1>5 DEF ExecuteCommand
  <2> QED BY <1>1, <1>5, <2>1, CallKeeps
<1>6. CASE c.op = "RET"
  <2>1. ExecuteCommand(w, c) = Ret(w, c.size)
    BY <1>6 DEF ExecuteCommand
  <2> QED BY <1>1, <1>6, <2>1, RetKeeps
<1>7. CASE c.op = "ACTIVE"
  <2>1. ExecuteCommand(w, c) = MarkActive(w, TRUE)
    BY <1>7 DEF ExecuteCommand
  <2> QED BY <2>1, MarkKeeps
<1>8. CASE c.op = "INACTIVE"
  <2>1. ExecuteCommand(w, c) = MarkActive(w, FALSE)
    BY <1>8 DEF ExecuteCommand
  <2> QED BY <2>1, MarkKeeps
<1>9. CASE c.op = "ADD_FRAME"
  <2>1. ExecuteCommand(w, c) = AddFrame(w)
    BY <1>9 DEF ExecuteCommand
  <2> QED BY <2>1, AddFrameKeeps
<1>10. CASE c.op = "REMOVE_FRAME"
  <2>1. ExecuteCommand(w, c) = RemoveFrame(w)
    BY <1>10 DEF ExecuteCommand
  <2> QED BY <2>1, RemoveFrameKeeps
<1> QED BY <1>2, <1>3, <1>4, <1>5, <1>6, <1>7, <1>8, <1>9, <1>10

\* The states of the commands c from w on, and the partial sums of a list.
Walks(f, w, c, k) ==
  f = [i \in 0 .. k |-> IF i = 0 THEN w ELSE ExecuteCommand(f[i - 1], c[i])]
Sums(f, list, k) ==
  f = [i \in 0 .. k |-> IF i = 0 THEN 0 ELSE f[i - 1] + list[i]]

\* There is a run of every length of a list of commands.
LEMMA WalksExist ==
  ASSUME NEW w, NEW c, NEW N \in Nat
  PROVE  \E f : Walks(f, w, c, N)
<1> DEFINE S == {k \in Nat : \E f : Walks(f, w, c, k)}
<1>1. 0 \in S
  <2> DEFINE f == [i \in 0 .. 0 |-> w]
  <2>1. Walks(f, w, c, 0)
    BY DEF Walks
  <2> QED BY <2>1
<1>2. ASSUME NEW k \in Nat, k \in S PROVE k + 1 \in S
  <2>1. PICK f : Walks(f, w, c, k)
    BY <1>2
  <2> DEFINE g == [i \in 0 .. k + 1 |-> IF i <= k THEN f[i] ELSE ExecuteCommand(f[k], c[k + 1])]
  <2>2. \A i \in 0 .. k : g[i] = f[i]
    OBVIOUS
  <2>3. g[k + 1] = ExecuteCommand(f[k], c[k + 1])
    OBVIOUS
  <2>4. ASSUME NEW i \in 0 .. k + 1 PROVE g[i] = IF i = 0 THEN w ELSE ExecuteCommand(g[i - 1], c[i])
    <3>1. CASE i = 0
      BY <2>1, <2>2, <3>1 DEF Walks
    <3>2. CASE i \in 1 .. k
      <4>1. f[i] = ExecuteCommand(f[i - 1], c[i])
        BY <2>1, <3>2 DEF Walks
      <4>2. i \in 0 .. k /\ i - 1 \in 0 .. k /\ i # 0
        BY <3>2
      <4> QED BY <2>2, <4>1, <4>2
    <3>3. CASE i = k + 1
      <4>1. i - 1 = k /\ k \in 0 .. k /\ i # 0
        BY <3>3
      <4> QED BY <2>2, <2>3, <3>3, <4>1
    <3> QED BY <3>1, <3>2, <3>3
  <2>5. Walks(g, w, c, k + 1)
    <3>1. g = [i \in 0 .. k + 1 |-> g[i]]
      OBVIOUS
    <3> HIDE DEF g
    <3> QED BY <2>4, <3>1 DEF Walks
  <2> HIDE DEF g
  <2>6. \E h : Walks(h, w, c, k + 1)
    BY <2>5
  <2> QED BY <2>6
<1> HIDE DEF S
<1>3. Nat \subseteq S
  BY <1>1, <1>2, SetInduction
<1> QED BY <1>3 DEF S

\* A run, step by step.
LEMMA WalksFacts ==
  ASSUME NEW f, NEW w, NEW c, NEW N \in Nat, Walks(f, w, c, N)
  PROVE  f[0] = w /\ \A i \in 0 .. N - 1 : f[i + 1] = ExecuteCommand(f[i], c[i + 1])
<1>1. \A i \in 0 .. N : f[i] = IF i = 0 THEN w ELSE ExecuteCommand(f[i - 1], c[i])
  BY DEF Walks
<1>2. \A i \in 0 .. N - 1 : i + 1 \in 0 .. N /\ i + 1 # 0 /\ (i + 1) - 1 = i
  OBVIOUS
<1>3. 0 \in 0 .. N
  OBVIOUS
<1> QED BY <1>1, <1>2, <1>3

\* Run is where it ends.
LEMMA RunWalks ==
  ASSUME NEW w, NEW c, Len(c) \in Nat
  PROVE  \E f : Walks(f, w, c, Len(c)) /\ Run(w, c) = f[Len(c)]
<1> DEFINE upTo == CHOOSE f : Walks(f, w, c, Len(c))
<1>1. Walks(upTo, w, c, Len(c))
  <2>1. \E f : Walks(f, w, c, Len(c))
    BY WalksExist
  <2> QED BY <2>1
<1>2. Run(w, c) = upTo[Len(c)]
  BY DEF Run, Walks
<1> HIDE DEF upTo
<1> QED BY <1>1, <1>2

\* No command does nothing.
LEMMA RunEmpty ==
  ASSUME NEW w
  PROVE  Run(w, <<>>) = w
<1>1. Len(<<>>) = 0
  OBVIOUS
<1>2. PICK f : Walks(f, w, <<>>, 0) /\ Run(w, <<>>) = f[0]
  BY <1>1, RunWalks
<1> QED BY <1>2, WalksFacts

\* A single command is executed.
LEMMA RunOne ==
  ASSUME NEW w, NEW c, NEW one, one = <<c>>
  PROVE  Run(w, one) = ExecuteCommand(w, c)
<1>1. Len(one) = 1 /\ one[1] = c
  OBVIOUS
<1>2. PICK f : Walks(f, w, one, 1) /\ Run(w, one) = f[1]
  BY <1>1, RunWalks
<1>3. f[0] = w /\ \A i \in 0 .. 1 - 1 : f[i + 1] = ExecuteCommand(f[i], one[i + 1])
  BY <1>2, WalksFacts
<1>4. 0 \in 0 .. 1 - 1 /\ 0 + 1 = 1
  OBVIOUS
<1>5. f[1] = ExecuteCommand(f[0], one[1])
  BY <1>3, <1>4
<1> QED BY <1>1, <1>2, <1>3, <1>5

\* A list of commands runs after another.
LEMMA RunConcat ==
  ASSUME NEW w, NEW C, NEW a \in Seq(C), NEW b \in Seq(C)
  PROVE  Run(w, a \o b) = Run(Run(w, a), b)
<1>1. PICK m \in Nat : m = Len(a)
  OBVIOUS
<1>2. PICK n \in Nat : n = Len(b)
  OBVIOUS
<1>3. PICK c : c = a \o b
  OBVIOUS
<1>4. Len(c) = m + n /\ (\A i \in 1 .. m : c[i] = a[i]) /\ \A i \in 1 .. n : c[m + i] = b[i]
  BY <1>1, <1>2, <1>3
<1>5. PICK f : Walks(f, w, c, m + n) /\ Run(w, c) = f[m + n]
  <2>1. PICK k \in Nat : k = m + n
    OBVIOUS
  <2>2. Len(c) \in Nat /\ Len(c) = k
    BY <1>4, <2>1
  <2>3. \E f : Walks(f, w, c, Len(c)) /\ Run(w, c) = f[Len(c)]
    BY <2>2, RunWalks
  <2> QED BY <2>1, <2>2, <2>3
<1>6. PICK g : Walks(g, w, a, m) /\ Run(w, a) = g[m]
  BY <1>1, RunWalks
<1>7. PICK u : u = Run(w, a)
  OBVIOUS
<1>8. PICK h : Walks(h, u, b, n) /\ Run(u, b) = h[n]
  BY <1>2, RunWalks
<1>9. f[0] = w /\ \A i \in 0 .. m + n - 1 : f[i + 1] = ExecuteCommand(f[i], c[i + 1])
  BY <1>5, WalksFacts
<1>10. g[0] = w /\ \A i \in 0 .. m - 1 : g[i + 1] = ExecuteCommand(g[i], a[i + 1])
  BY <1>6, WalksFacts
<1>11. h[0] = u /\ \A i \in 0 .. n - 1 : h[i + 1] = ExecuteCommand(h[i], b[i + 1])
  BY <1>8, WalksFacts
<1>12. f[m] = u
  <2> DEFINE S == {i \in Nat : i <= m => f[i] = g[i]}
  <2>1. 0 \in S
    BY <1>9, <1>10
  <2>2. ASSUME NEW i \in Nat, i \in S PROVE i + 1 \in S
    <3> SUFFICES ASSUME i + 1 <= m PROVE f[i + 1] = g[i + 1]
      OBVIOUS
    <3>1. i \in 0 .. m + n - 1 /\ i \in 0 .. m - 1 /\ i + 1 \in 1 .. m /\ i <= m
      OBVIOUS
    <3>2. f[i] = g[i]
      BY <2>2, <3>1
    <3> QED BY <1>4, <1>9, <1>10, <3>1, <3>2
  <2> HIDE DEF S
  <2>3. m \in S
    BY <2>1, <2>2, SetInduction
  <2> QED BY <1>6, <1>7, <2>3 DEF S
<1>13. f[m + n] = h[n]
  <2> DEFINE S == {i \in Nat : i <= n => f[m + i] = h[i]}
  <2>1. 0 \in S
    BY <1>11, <1>12
  <2>2. ASSUME NEW i \in Nat, i \in S PROVE i + 1 \in S
    <3> SUFFICES ASSUME i + 1 <= n PROVE f[m + (i + 1)] = h[i + 1]
      OBVIOUS
    <3>1. m + i \in 0 .. m + n - 1 /\ i \in 0 .. n - 1 /\ i + 1 \in 1 .. n /\ i <= n
          /\ (m + i) + 1 = m + (i + 1)
      OBVIOUS
    <3>2. f[m + i] = h[i]
      BY <2>2, <3>1
    <3>3. f[(m + i) + 1] = ExecuteCommand(f[m + i], c[(m + i) + 1])
      BY <1>9, <3>1
    <3>4. c[m + (i + 1)] = b[i + 1]
      BY <1>4, <3>1
    <3>5. h[i + 1] = ExecuteCommand(h[i], b[i + 1])
      BY <1>11, <3>1
    <3> QED BY <3>1, <3>2, <3>3, <3>4, <3>5
  <2> HIDE DEF S
  <2>3. n \in S
    BY <2>1, <2>2, SetInduction
  <2> QED BY <2>3 DEF S
<1> QED BY <1>3, <1>5, <1>7, <1>8, <1>13

\* processCommandFrame(): the loop over the commands.
LEMMA RunKeeps ==
  ASSUME NEW w \in Work, NEW c \in Seq(TraceCommand)
  PROVE  Keeps(w, Run(w, c))
<1>1. PICK n \in Nat : n = Len(c)
  OBVIOUS
<1>2. PICK f : Walks(f, w, c, n) /\ Run(w, c) = f[n]
  BY <1>1, RunWalks
<1>3. f[0] = w /\ \A i \in 0 .. n - 1 : f[i + 1] = ExecuteCommand(f[i], c[i + 1])
  BY <1>2, WalksFacts
<1> DEFINE S == {i \in Nat : i <= n => Keeps(w, f[i])}
<1>4. 0 \in S
  BY <1>3, BreakKeeps
<1>5. ASSUME NEW i \in Nat, i \in S PROVE i + 1 \in S
  <2> SUFFICES ASSUME i + 1 <= n PROVE Keeps(w, f[i + 1])
    OBVIOUS
  <2>1. i \in 0 .. n - 1 /\ i <= n /\ i + 1 \in 1 .. n
    OBVIOUS
  <2>2. Keeps(w, f[i])
    BY <1>5, <2>1
  <2>3. f[i] \in Work /\ c[i + 1] \in TraceCommand
    BY <1>1, <2>1, <2>2, KeepsWork
  <2>4. Keeps(f[i], f[i + 1])
    BY <1>3, <2>1, <2>3, ExecuteKeeps
  <2> QED BY <2>2, <2>4, KeepsTransitive
<1> HIDE DEF S
<1>6. n \in S
  BY <1>4, <1>5, SetInduction
<1> QED BY <1>2, <1>6 DEF S

-----------------------------------------------------------------------------
(* Sums of sizes.                                                          *)

\* There are partial sums of every length of a list of sizes.
LEMMA SumsExist ==
  ASSUME NEW list, NEW N \in Nat
  PROVE  \E f : Sums(f, list, N)
<1> DEFINE S == {k \in Nat : \E f : Sums(f, list, k)}
<1>1. 0 \in S
  <2> DEFINE f == [i \in 0 .. 0 |-> 0]
  <2>1. Sums(f, list, 0)
    BY DEF Sums
  <2> QED BY <2>1
<1>2. ASSUME NEW k \in Nat, k \in S PROVE k + 1 \in S
  <2>1. PICK f : Sums(f, list, k)
    BY <1>2
  <2> DEFINE g == [i \in 0 .. k + 1 |-> IF i <= k THEN f[i] ELSE f[k] + list[k + 1]]
  <2>2. \A i \in 0 .. k : g[i] = f[i]
    OBVIOUS
  <2>3. g[k + 1] = f[k] + list[k + 1]
    OBVIOUS
  <2>4. ASSUME NEW i \in 0 .. k + 1 PROVE g[i] = IF i = 0 THEN 0 ELSE g[i - 1] + list[i]
    <3>1. CASE i = 0
      BY <2>1, <2>2, <3>1 DEF Sums
    <3>2. CASE i \in 1 .. k
      <4>1. f[i] = f[i - 1] + list[i]
        BY <2>1, <3>2 DEF Sums
      <4>2. i \in 0 .. k /\ i - 1 \in 0 .. k /\ i # 0
        BY <3>2
      <4> QED BY <2>2, <4>1, <4>2
    <3>3. CASE i = k + 1
      <4>1. i - 1 = k /\ k \in 0 .. k /\ i # 0
        BY <3>3
      <4> QED BY <2>2, <2>3, <3>3, <4>1
    <3> QED BY <3>1, <3>2, <3>3
  <2>5. Sums(g, list, k + 1)
    <3>1. g = [i \in 0 .. k + 1 |-> g[i]]
      OBVIOUS
    <3> HIDE DEF g
    <3> QED BY <2>4, <3>1 DEF Sums
  <2> HIDE DEF g
  <2>6. \E h : Sums(h, list, k + 1)
    BY <2>5
  <2> QED BY <2>6
<1> HIDE DEF S
<1>3. Nat \subseteq S
  BY <1>1, <1>2, SetInduction
<1> QED BY <1>3 DEF S

\* f sums a list of n sizes up, and Total is where it ends.
LEMMA TotalSums ==
  ASSUME NEW list \in Seq(Nat), NEW n \in Nat, n = Len(list)
  PROVE  \E f \in [0 .. n -> Nat] :
           /\ f[0] = 0 /\ Total(list) = f[n]
           /\ \A i \in 0 .. n - 1 : f[i + 1] = f[i] + list[i + 1]
<1> DEFINE upTo == CHOOSE f : Sums(f, list, n)
<1>1. Sums(upTo, list, n)
  <2>1. \E f : Sums(f, list, n)
    BY SumsExist
  <2> QED BY <2>1
<1>2. Total(list) = upTo[n]
  BY DEF Total, Sums
<1> HIDE DEF upTo
<1>3. \A i \in 0 .. n : upTo[i] = IF i = 0 THEN 0 ELSE upTo[i - 1] + list[i]
  BY <1>1 DEF Sums
<1>4. 0 \in 0 .. n /\ n \in 0 .. n
  OBVIOUS
<1>5. upTo[0] = 0
  BY <1>3, <1>4
<1>6. ASSUME NEW i \in 0 .. n - 1 PROVE upTo[i + 1] = upTo[i] + list[i + 1]
  <2>1. i + 1 \in 0 .. n /\ i + 1 # 0 /\ (i + 1) - 1 = i
    OBVIOUS
  <2>2. upTo[i + 1] = IF i + 1 = 0 THEN 0 ELSE upTo[(i + 1) - 1] + list[i + 1]
    BY <1>3, <2>1
  <2> QED BY <2>1, <2>2
<1> DEFINE S == {i \in Nat : i <= n => upTo[i] \in Nat}
<1>7. 0 \in S
  BY <1>5
<1>8. ASSUME NEW i \in Nat, i \in S PROVE i + 1 \in S
  <2> SUFFICES ASSUME i + 1 <= n PROVE upTo[i + 1] \in Nat
    OBVIOUS
  <2>1. i \in 0 .. n - 1 /\ i <= n /\ i + 1 \in 1 .. n
    OBVIOUS
  <2>2. upTo[i] \in Nat /\ list[i + 1] \in Nat
    BY <1>8, <2>1
  <2>3. upTo[i + 1] = upTo[i] + list[i + 1]
    BY <1>6, <2>1
  <2> QED BY <2>2, <2>3
<1> HIDE DEF S
<1>9. Nat \subseteq S
  BY <1>7, <1>8, SetInduction
<1>10. \A i \in 0 .. n : upTo[i] \in Nat
  <2> TAKE i \in 0 .. n
  <2>1. i \in Nat /\ i <= n
    OBVIOUS
  <2> QED BY <1>9, <2>1 DEF S
<1>11. upTo \in [0 .. n -> Nat]
  <2>1. upTo = [i \in 0 .. n |-> upTo[i]]
    BY <1>1 DEF Sums
  <2> QED BY <1>10, <2>1
<1> QED BY <1>2, <1>5, <1>6, <1>11

\* A list in reverse.
LEMMA ReverseFacts ==
  ASSUME NEW S, NEW list \in Seq(S)
  PROVE  /\ Reverse(list) \in Seq(S) /\ Len(Reverse(list)) = Len(list)
         /\ \A i \in 1 .. Len(list) : Reverse(list)[i] = list[Len(list) - i + 1]
<1>1. PICK n \in Nat : n = Len(list)
  OBVIOUS
<1>2. Reverse(list) = [i \in 1 .. n |-> list[(n - i) + 1]]
  BY <1>1 DEF Reverse
<1>3. \A i \in 1 .. n : (n - i) + 1 \in 1 .. n /\ n - i + 1 = (n - i) + 1
  OBVIOUS
<1>4. list \in [1 .. n -> S]
  BY <1>1
<1>5. PICK r : r = [i \in 1 .. n |-> list[(n - i) + 1]]
  OBVIOUS
<1>6. r \in [1 .. n -> S]
  BY <1>3, <1>4, <1>5
<1>7. r \in Seq(S) /\ Len(r) = n
  BY <1>6
<1> QED BY <1>1, <1>2, <1>3, <1>5, <1>7

\* The order does not matter for the sum.
LEMMA TotalReverse ==
  ASSUME NEW list \in Seq(Nat)
  PROVE  Total(Reverse(list)) = Total(list) /\ Total(list) \in Nat
<1>1. PICK n \in Nat : n = Len(list)
  OBVIOUS
<1>2. PICK r : r = Reverse(list)
  OBVIOUS
<1>3. r \in Seq(Nat) /\ Len(r) = n /\ \A i \in 1 .. n : r[i] = list[n - i + 1]
  BY <1>1, <1>2, ReverseFacts
<1>4. PICK f \in [0 .. n -> Nat] :
        f[0] = 0 /\ Total(list) = f[n] /\ \A i \in 0 .. n - 1 : f[i + 1] = f[i] + list[i + 1]
  BY <1>1, TotalSums
<1>5. PICK g \in [0 .. n -> Nat] :
        g[0] = 0 /\ Total(r) = g[n] /\ \A i \in 0 .. n - 1 : g[i + 1] = g[i] + r[i + 1]
  BY <1>3, TotalSums
<1> DEFINE S == {i \in Nat : i <= n => g[i] = f[n] - f[n - i]}
<1>6. 0 \in S
  <2>1. n \in 0 .. n /\ n - 0 = n
    OBVIOUS
  <2>2. f[n] \in Nat
    BY <1>4, <2>1
  <2> QED BY <1>5, <2>1, <2>2
<1>7. ASSUME NEW i \in Nat, i \in S PROVE i + 1 \in S
  <2> SUFFICES ASSUME i + 1 <= n PROVE g[i + 1] = f[n] - f[n - (i + 1)]
    OBVIOUS
  <2>1. i \in 0 .. n - 1 /\ i <= n /\ i + 1 \in 1 .. n /\ n - (i + 1) \in 0 .. n - 1
        /\ n - i \in 0 .. n /\ (n - (i + 1)) + 1 = n - i /\ n - (i + 1) \in 0 .. n /\ n \in 0 .. n
        /\ n - i \in 1 .. n
    OBVIOUS
  <2>2. g[i] = f[n] - f[n - i]
    BY <1>7, <2>1
  <2>3. g[i + 1] = g[i] + r[i + 1]
    BY <1>5, <2>1
  <2>4. r[i + 1] = list[n - i]
    <3>1. n - (i + 1) + 1 = n - i
      OBVIOUS
    <3>2. r[i + 1] = list[n - (i + 1) + 1]
      BY <1>3, <2>1
    <3> QED BY <3>1, <3>2
  <2>5. f[n - i] = f[n - (i + 1)] + list[n - i]
    <3>1. f[(n - (i + 1)) + 1] = f[n - (i + 1)] + list[(n - (i + 1)) + 1]
      BY <1>4, <2>1
    <3> QED BY <2>1, <3>1
  <2>6. f[n] \in Nat /\ f[n - i] \in Nat /\ f[n - (i + 1)] \in Nat
    BY <1>4, <2>1
  <2>7. list[n - i] \in Nat
    BY <1>1, <2>1
  <2>8. PICK a \in Nat : a = f[n]
    BY <2>6
  <2>9. PICK b \in Nat : b = f[n - i]
    BY <2>6
  <2>10. PICK c \in Nat : c = f[n - (i + 1)]
    BY <2>6
  <2>11. PICK d \in Nat : d = list[n - i]
    BY <2>7
  <2>12. g[i + 1] = (a - b) + d
    BY <2>2, <2>3, <2>4, <2>8, <2>9, <2>11
  <2>13. b = c + d
    BY <2>5, <2>9, <2>10, <2>11
  <2>14. (a - b) + d = a - c
    BY <2>13
  <2> QED BY <2>8, <2>10, <2>12, <2>14
<1> HIDE DEF S
<1>8. n \in S
  BY <1>6, <1>7, SetInduction
<1>9. g[n] = f[n] - f[n - n]
  BY <1>8 DEF S
<1>10. n - n = 0 /\ n \in 0 .. n
  OBVIOUS
<1>11. f[n] \in Nat /\ f[n - n] = 0
  BY <1>4, <1>10
<1> QED BY <1>2, <1>4, <1>5, <1>9, <1>11

-----------------------------------------------------------------------------
(* What the commands do to the sizes of the slots.                         *)

Sz == Nat \ {0}

\* Lists of sizes are lists of numbers.
LEMMA SzSeq ==
  ASSUME NEW list \in Seq(Sz)
  PROVE  list \in Seq(Nat)
<1>1. PICK n \in Nat : n = Len(list)
  OBVIOUS
<1>2. list \in [1 .. n -> Sz]
  BY <1>1
<1>3. list \in [1 .. n -> Nat]
  BY <1>2 DEF Sz
<1> QED BY <1>3

\* The shape of a frame: the sizes of its slots, and whether it is active.
LEMMA ShapeFacts ==
  ASSUME NEW f \in Frame, NEW q, q = FrameShape(f).slots
  PROVE  /\ FrameShape(f) = [slots |-> q, active |-> f.active] /\ q \in Seq(Sz) /\ Len(q) = Len(f.slots)
         /\ \A j \in 1 .. Len(f.slots) : q[j] = f.slots[j].size
         /\ q = <<>> <=> f.slots = <<>>
<1>1. f.slots \in Seq(Slot)
  BY DEF Frame
<1>2. PICK l \in Seq(Slot) : l = f.slots
  BY <1>1
<1>3. PICK n \in Nat : n = Len(l)
  OBVIOUS
<1>4. q = [j \in 1 .. n |-> l[j].size]
  BY <1>2, <1>3 DEF FrameShape
<1>5. FrameShape(f) = [slots |-> q, active |-> f.active]
  BY DEF FrameShape
<1>6. ASSUME NEW j \in 1 .. n PROVE l[j].size \in Sz
  <2>1. l[j] \in Slot
    BY <1>3
  <2> QED BY <2>1 DEF Slot, Sz
<1>7. q \in [1 .. n -> Sz]
  BY <1>4, <1>6
<1>8. q \in Seq(Sz) /\ Len(q) = n
  BY <1>7
<1>9. q = <<>> <=> l = <<>>
  <2>1. q = <<>> <=> n = 0
    BY <1>8
  <2>2. l = <<>> <=> n = 0
    BY <1>3
  <2> QED BY <2>1, <2>2
<1> QED BY <1>2, <1>3, <1>4, <1>5, <1>8, <1>9

\* A slot more in the shape, ...
LEMMA ShapeAppend ==
  ASSUME NEW f \in Frame, NEW x \in Slot, NEW g, g = [slots |-> Append(f.slots, x), active |-> f.active]
  PROVE  g \in Frame /\ FrameShape(g) = [slots |-> Append(FrameShape(f).slots, x.size), active |-> f.active]
<1>1. f.slots \in Seq(Slot) /\ f.active \in BOOLEAN /\ x.size \in Sz
  BY DEF Frame, Slot, Sz
<1>2. PICK l \in Seq(Slot) : l = Append(f.slots, x)
  <2>1. Append(f.slots, x) \in Seq(Slot)
    BY <1>1, AppendProperties
  <2> QED BY <2>1
<1>3. g = [slots |-> l, active |-> f.active]
  BY <1>2
<1>4. g \in Frame
  BY <1>1, <1>3 DEF Frame
<1>5. PICK q : q = FrameShape(f).slots
  OBVIOUS
<1>6. PICK n \in Nat : n = Len(f.slots)
  BY <1>1
<1>7. q \in Seq(Sz) /\ Len(q) = n /\ \A j \in 1 .. n : q[j] = f.slots[j].size
  BY <1>5, <1>6, ShapeFacts
<1>8. PICK r : r = FrameShape(g).slots
  OBVIOUS
<1>9. FrameShape(g) = [slots |-> r, active |-> g.active] /\ r \in Seq(Sz) /\ Len(r) = Len(g.slots)
      /\ \A j \in 1 .. Len(g.slots) : r[j] = g.slots[j].size
  BY <1>4, <1>8, ShapeFacts
<1>10. g.slots = l /\ g.active = f.active
  BY <1>3
<1>11. Len(l) = n + 1 /\ l[n + 1] = x /\ \A j \in 1 .. n : l[j] = f.slots[j]
  BY <1>1, <1>2, <1>6, AppendProperties
<1>12. PICK a : a = Append(q, x.size)
  OBVIOUS
<1>13. a \in Seq(Sz) /\ Len(a) = n + 1 /\ a[n + 1] = x.size /\ \A j \in 1 .. n : a[j] = q[j]
  BY <1>1, <1>7, <1>12, AppendProperties
<1>14. \A j \in 1 .. n + 1 : r[j] = a[j]
  <2> TAKE j \in 1 .. n + 1
  <2>1. r[j] = l[j].size
    BY <1>9, <1>10, <1>11
  <2>2. CASE j = n + 1
    BY <1>11, <1>13, <2>1, <2>2
  <2>3. CASE j # n + 1
    <3>1. j \in 1 .. n
      BY <2>3
    <3>2. l[j] = f.slots[j] /\ a[j] = q[j] /\ q[j] = f.slots[j].size
      BY <1>7, <1>11, <1>13, <3>1
    <3> QED BY <2>1, <3>2
  <2> QED BY <2>2, <2>3
<1>15. r = a
  <2>1. Len(r) = n + 1 /\ r \in Seq(Sz)
    BY <1>9, <1>10, <1>11
  <2> QED BY <1>13, <1>14, <2>1, SeqEqual
<1> QED BY <1>4, <1>5, <1>9, <1>10, <1>12, <1>15

\* ... and a slot less.
LEMMA ShapeFront ==
  ASSUME NEW f \in Frame, NEW p \in Seq(Sz), NEW size \in Sz, FrameShape(f).slots = Append(p, size),
         NEW g, g = [slots |-> Front(f.slots), active |-> f.active]
  PROVE  /\ f.slots # <<>> /\ Last(f.slots).size = size
         /\ g \in Frame /\ FrameShape(g) = [slots |-> p, active |-> f.active]
<1>1. f.slots \in Seq(Slot) /\ f.active \in BOOLEAN
  BY DEF Frame
<1>2. PICK q : q = FrameShape(f).slots
  OBVIOUS
<1>3. PICK n \in Nat : n = Len(p)
  OBVIOUS
<1>4. Len(q) = n + 1 /\ q[n + 1] = size /\ \A j \in 1 .. n : q[j] = p[j]
  BY <1>2, <1>3, AppendProperties
<1>5. Len(f.slots) = n + 1 /\ \A j \in 1 .. n + 1 : q[j] = f.slots[j].size
  <2>1. Len(q) = Len(f.slots) /\ \A j \in 1 .. Len(f.slots) : q[j] = f.slots[j].size
    BY <1>2, ShapeFacts
  <2> QED BY <1>4, <2>1
<1>6. f.slots # <<>>
  <2>1. Len(<<>>) = 0
    OBVIOUS
  <2> QED BY <1>5, <2>1
<1>7. Last(f.slots).size = size
  <2>1. n + 1 \in 1 .. n + 1
    OBVIOUS
  <2> QED BY <1>4, <1>5, <2>1 DEF Last
<1>8. PICK l : l = Front(f.slots)
  OBVIOUS
<1>9. l \in Seq(Slot) /\ Len(l) = n /\ \A j \in 1 .. n : l[j] = f.slots[j]
  <2>1. PICK z \in Seq(Slot) : z = f.slots
    BY <1>1
  <2>2. l = SubSeq(z, 1, n)
    BY <1>5, <1>8, <2>1 DEF Front
  <2> QED BY <1>5, <2>1, <2>2
<1>10. g = [slots |-> l, active |-> f.active]
  BY <1>8
<1>11. g \in Frame /\ g.slots = l /\ g.active = f.active
  BY <1>1, <1>9, <1>10 DEF Frame
<1>12. PICK r : r = FrameShape(g).slots
  OBVIOUS
<1>13. FrameShape(g) = [slots |-> r, active |-> g.active] /\ r \in Seq(Sz) /\ Len(r) = Len(g.slots)
       /\ \A j \in 1 .. Len(g.slots) : r[j] = g.slots[j].size
  BY <1>11, <1>12, ShapeFacts
<1>14. Len(r) = n /\ \A j \in 1 .. n : r[j] = p[j]
  <2>1. Len(r) = n
    BY <1>9, <1>11, <1>13
  <2>2. ASSUME NEW j \in 1 .. n PROVE r[j] = p[j]
    <3>1. r[j] = l[j].size /\ l[j] = f.slots[j]
      BY <1>9, <1>11, <1>13
    <3>2. j \in 1 .. n + 1
      OBVIOUS
    <3> QED BY <1>4, <1>5, <3>1, <3>2
  <2> QED BY <2>1, <2>2
<1>15. r = p
  BY <1>3, <1>13, <1>14, SeqEqual
<1> QED BY <1>6, <1>7, <1>11, <1>13, <1>15

\* The last frame of a stack has slots of the sizes q.
LastShape(s, q, on) ==
  s \in Stack /\ s.frames # <<>> /\ FrameShape(s.frames[Len(s.frames)]) = [slots |-> q, active |-> on]

\* Only the last frame differs.
Beside(s, r) ==
  /\ r \in Stack /\ r.base = s.base /\ Len(r.frames) = Len(s.frames)
  /\ \A i \in 1 .. Len(s.frames) - 1 : r.frames[i] = s.frames[i]

\* The last frame gets slots of the sizes q while SP moves by d, without an error.
Edits(w, v, q, on, d) ==
  /\ v \in Work /\ v.delta = w.delta + d /\ Beside(w.s, v.s) /\ LastShape(v.s, q, on)
  /\ v.broken = w.broken

\* What the shape of the last frame says of it.
LEMMA LastShapeFacts ==
  ASSUME NEW s, NEW q, NEW on, LastShape(s, q, on), NEW f, f = Last(s.frames)
  PROVE  s \in Stack /\ s.frames # <<>> /\ f \in Frame /\ FrameShape(f).slots = q /\ f.active = on
         /\ f = s.frames[Len(s.frames)]
<1>1. s \in Stack /\ s.frames # <<>>
  BY DEF LastShape
<1>2. f \in Frame /\ f = s.frames[Len(s.frames)]
  BY <1>1, FramesFacts
<1>3. FrameShape(f) = [slots |-> q, active |-> on]
  BY <1>2 DEF LastShape
<1>4. FrameShape(f).slots = q /\ FrameShape(f).active = on
  BY <1>3
<1>5. f.active = on
  BY <1>4 DEF FrameShape
<1> QED BY <1>1, <1>2, <1>4, <1>5

\* The shape of a stack with another last frame.
LEMMA BecomesShape ==
  ASSUME NEW s \in Stack, s.frames # <<>>, NEW r, NEW g \in Frame, LastBecomes(s, r, g),
         NEW q, NEW on, FrameShape(g) = [slots |-> q, active |-> on]
  PROVE  Beside(s, r) /\ LastShape(r, q, on)
<1>1. Beside(s, r)
  BY DEF LastBecomes, Beside
<1>2. r \in Stack /\ Len(r.frames) = Len(s.frames) /\ r.frames[Len(r.frames)] = g
  BY DEF LastBecomes
<1>3. Len(s.frames) # 0
  BY FramesFacts
<1>4. r.frames # <<>>
  BY <1>2, <1>3, FramesFacts
<1> QED BY <1>1, <1>2, <1>4 DEF LastShape

\* PUSH appends its size to the shape of the last frame.
LEMMA PushShape ==
  ASSUME NEW w \in Work, NEW size \in Sz, NEW q, NEW on, LastShape(w.s, q, on),
         NEW v, v = Push(w, size)
  PROVE  Edits(w, v, Append(q, size), on, -size)
<1>1. PICK m : m = Move(w, -size)
  OBVIOUS
<1>2. -size \in Int /\ size \in Nat \ {0}
  BY DEF Sz
<1>3. m \in Work /\ m.s = w.s /\ m.broken = w.broken /\ m.delta = w.delta + (-size) /\ m.sp \in Int
  <2>1. m \in Work /\ m.s = w.s /\ m.broken = w.broken /\ m.delta = w.delta + (-size)
    BY <1>1, <1>2, MoveFacts
  <2>2. m \in Work
    BY <2>1
  <2>3. m.sp \in Int
    BY <2>2, WorkFacts
  <2> QED BY <2>1, <2>3
<1>4. v = PushSlot(m, size)
  BY <1>1 DEF Push
<1>5. PICK s : s = w.s
  OBVIOUS
<1>6. PICK f : f = Last(s.frames)
  OBVIOUS
<1>7. s \in Stack /\ s.frames # <<>> /\ f \in Frame /\ FrameShape(f).slots = q /\ f.active = on
  BY <1>5, <1>6, LastShapeFacts
<1>8. PICK x : x = [address |-> m.sp, size |-> size]
  OBVIOUS
<1>9. x \in Slot /\ x.size = size
  BY <1>2, <1>3, <1>8 DEF Slot
<1>10. PICK g : g = [slots |-> Append(f.slots, x), active |-> f.active]
  OBVIOUS
<1>11. g \in Frame /\ FrameShape(g) = [slots |-> Append(q, size), active |-> on]
  BY <1>7, <1>9, <1>10, ShapeAppend
<1>12. m \in Work /\ m.s.frames # <<>> /\ f = Last(m.s.frames)
  BY <1>3, <1>5, <1>6, <1>7
<1>13. v \in Work /\ v.broken = m.broken /\ v.sp = m.sp /\ v.delta = m.delta
       /\ LastBecomes(m.s, v.s, [slots |-> Append(f.slots, [address |-> m.sp, size |-> size]),
                                 active |-> f.active])
  BY <1>2, <1>4, <1>12, PushSlotFacts
<1>14. LastBecomes(s, v.s, g)
  BY <1>3, <1>5, <1>8, <1>10, <1>13
<1>15. PICK r : r = v.s
  OBVIOUS
<1>16. PICK p : p = Append(q, size)
  OBVIOUS
<1>17. Beside(s, r) /\ LastShape(r, p, on)
  BY <1>7, <1>11, <1>14, <1>15, <1>16, BecomesShape
<1> QED BY <1>3, <1>5, <1>13, <1>15, <1>16, <1>17 DEF Edits

\* POP takes the last size, if it is the one it names.
LEMMA PopShape ==
  ASSUME NEW w \in Work, NEW size \in Sz, NEW p \in Seq(Sz), NEW on, LastShape(w.s, Append(p, size), on),
         NEW v, v = Pop(w, size)
  PROVE  Edits(w, v, p, on, size)
<1>1. PICK u : u = PopSlot(w, size)
  OBVIOUS
<1>2. v = Move(u, size)
  BY <1>1 DEF Pop
<1>3. size \in Int /\ size \in Nat \ {0}
  BY DEF Sz
<1>4. PICK s : s = w.s
  OBVIOUS
<1>5. PICK f : f = Last(s.frames)
  OBVIOUS
<1>6. PICK q : q = Append(p, size)
  OBVIOUS
<1>7. s \in Stack /\ s.frames # <<>> /\ f \in Frame /\ FrameShape(f).slots = q /\ f.active = on
  <2>1. LastShape(s, q, on)
    BY <1>4, <1>6
  <2> QED BY <1>5, <2>1, LastShapeFacts
<1>8. PICK g : g = [slots |-> Front(f.slots), active |-> f.active]
  OBVIOUS
<1>9. /\ f.slots # <<>> /\ Last(f.slots).size = size
      /\ g \in Frame /\ FrameShape(g) = [slots |-> p, active |-> f.active]
  BY <1>6, <1>7, <1>8, ShapeFront
<1>10. w.s.frames # <<>> /\ f = Last(w.s.frames)
  BY <1>4, <1>5, <1>7
<1>11. u \in Work /\ u.broken = w.broken /\ u.sp = w.sp /\ u.delta = w.delta
       /\ LastBecomes(w.s, u.s, [slots |-> Front(f.slots), active |-> f.active])
  BY <1>1, <1>3, <1>9, <1>10, PopSlotFacts
<1>12. u \in Work
  BY <1>11
<1>13. v \in Work /\ v.s = u.s /\ v.broken = u.broken /\ v.delta = u.delta + size
  <2>1. PICK d \in Int : d = size
    BY <1>3
  <2>2. v = Move(u, d)
    BY <1>2, <2>1
  <2>3. v \in Work /\ v.s = u.s /\ v.broken = u.broken /\ v.delta = u.delta + d
    BY <1>12, <2>2, MoveFacts
  <2> QED BY <2>1, <2>3
<1>14. PICK r : r = v.s
  OBVIOUS
<1>15. LastBecomes(s, r, g) /\ FrameShape(g) = [slots |-> p, active |-> on]
  BY <1>4, <1>7, <1>8, <1>9, <1>11, <1>13, <1>14
<1>16. Beside(s, r) /\ LastShape(r, p, on)
  BY <1>7, <1>9, <1>15, BecomesShape
<1> QED BY <1>4, <1>11, <1>13, <1>14, <1>16 DEF Edits

\* Two changes of the last frame are one.
LEMMA EditsTwice ==
  ASSUME NEW u \in Work, NEW v, NEW w, NEW p, NEW q, NEW on, NEW on2, NEW d \in Int, NEW e \in Int,
         Edits(u, v, p, on, d), Edits(v, w, q, on2, e)
  PROVE  Edits(u, w, q, on2, d + e)
<1>1. u.delta \in Int /\ v.delta = u.delta + d /\ w.delta = v.delta + e
  BY WorkFacts DEF Edits
<1>2. w.delta = u.delta + (d + e)
  BY <1>1
<1>3. Beside(u.s, w.s)
  BY DEF Edits, Beside
<1> QED BY <1>2, <1>3 DEF Edits

\* Concatenations and prefixes, member by member.
LEMMA ConcatFacts ==
  ASSUME NEW S, NEW p \in Seq(S), NEW q \in Seq(S), NEW r, r = p \o q
  PROVE  /\ r \in Seq(S) /\ Len(r) = Len(p) + Len(q)
         /\ \A i \in 1 .. Len(p) + Len(q) : r[i] = IF i <= Len(p) THEN p[i] ELSE q[i - Len(p)]
BY ConcatProperties

\* The beginning of a list.
LEMMA PrefixFacts ==
  ASSUME NEW S, NEW p \in Seq(S), NEW k \in Nat, k <= Len(p), NEW r, r = SubSeq(p, 1, k)
  PROVE  r \in Seq(S) /\ Len(r) = k /\ \A i \in 1 .. k : r[i] = p[i]
<1>1. PICK n \in Nat : n = Len(p)
  OBVIOUS
<1>2. p \in [1 .. n -> S]
  BY <1>1
<1>3. r = [i \in 1 .. k |-> p[i]]
  BY <1>1
<1>5. \A i \in 1 .. k : i \in 1 .. n
  BY <1>1
<1>4. r \in [1 .. k -> S]
  BY <1>2, <1>3, <1>5
<1> QED BY <1>3, <1>4

\* The beginning of a concatenation is the first list.
LEMMA ConcatPrefix ==
  ASSUME NEW q \in Seq(Sz), NEW list \in Seq(Sz), NEW i \in 0 .. Len(list) - 1,
         NEW a, a = q \o SubSeq(list, 1, i)
  PROVE  a \in Seq(Sz) /\ list[i + 1] \in Sz /\ q \o SubSeq(list, 1, i + 1) = Append(a, list[i + 1])
<1>1. PICK n \in Nat : n = Len(list)
  OBVIOUS
<1>2. PICK m \in Nat : m = Len(q)
  OBVIOUS
<1>3. i \in 0 .. n - 1 /\ i \in Nat /\ i + 1 \in 1 .. n
  BY <1>1
<1>4. PICK z : z = SubSeq(list, 1, i)
  OBVIOUS
<1>5. z \in Seq(Sz) /\ Len(z) = i /\ \A j \in 1 .. i : z[j] = list[j]
  <2>1. 0 <= i /\ i <= n
    BY <1>3
  <2> QED BY <1>1, <1>3, <1>4, <2>1, PrefixFacts
<1>6. PICK y : y = SubSeq(list, 1, i + 1)
  OBVIOUS
<1>7. y \in Seq(Sz) /\ Len(y) = i + 1 /\ \A j \in 1 .. i + 1 : y[j] = list[j]
  <2>1. PICK k \in Nat : k = i + 1 /\ k <= n
    BY <1>3
  <2>2. y = SubSeq(list, 1, k)
    BY <1>6, <2>1
  <2>3. y \in Seq(Sz) /\ Len(y) = k /\ \A j \in 1 .. k : y[j] = list[j]
    BY <1>1, <2>1, <2>2, PrefixFacts
  <2> QED BY <2>1, <2>3
<1>8. a \in Seq(Sz) /\ Len(a) = m + i /\ \A j \in 1 .. m + i : a[j] = IF j <= m THEN q[j] ELSE z[j - m]
  BY <1>2, <1>4, <1>5, ConcatFacts
<1>9. PICK b : b = q \o y
  OBVIOUS
<1>10. b \in Seq(Sz) /\ Len(b) = m + (i + 1) /\ \A j \in 1 .. m + (i + 1) : b[j] = IF j <= m THEN q[j] ELSE y[j - m]
  <2>1. PICK k \in Nat : k = i + 1
    BY <1>3
  <2>2. y \in Seq(Sz) /\ Len(y) = k
    BY <1>7, <2>1
  <2>3. /\ b \in Seq(Sz) /\ Len(b) = Len(q) + Len(y)
        /\ \A j \in 1 .. Len(q) + Len(y) : b[j] = IF j <= Len(q) THEN q[j] ELSE y[j - Len(q)]
    BY <1>9, <2>2, ConcatFacts
  <2> QED BY <1>2, <2>1, <2>2, <2>3
<1>11. list[i + 1] \in Sz
  BY <1>1, <1>3
<1>12. PICK c : c = Append(a, list[i + 1])
  OBVIOUS
<1>13. c \in Seq(Sz) /\ Len(c) = (m + i) + 1 /\ c[(m + i) + 1] = list[i + 1]
       /\ \A j \in 1 .. m + i : c[j] = a[j]
  <2>1. PICK x \in Sz : x = list[i + 1]
    BY <1>11
  <2>2. c = Append(a, x) /\ a \in Seq(Sz)
    BY <1>8, <1>12, <2>1
  <2>3. c \in Seq(Sz) /\ Len(c) = Len(a) + 1 /\ c[Len(a) + 1] = x /\ \A j \in 1 .. Len(a) : c[j] = a[j]
    BY <2>2, AppendProperties
  <2> QED BY <1>8, <2>1, <2>3
<1>14. \A j \in 1 .. m + (i + 1) : b[j] = c[j]
  <2> TAKE j \in 1 .. m + (i + 1)
  <2>1. CASE j = (m + i) + 1
    <3>1. ~(j <= m) /\ j - m = i + 1 /\ i + 1 \in 1 .. i + 1
      BY <1>3, <2>1
    <3>2. b[j] = y[i + 1]
      BY <1>10, <3>1
    <3>3. y[i + 1] = list[i + 1]
      BY <1>7, <3>1
    <3> QED BY <1>13, <2>1, <3>2, <3>3
  <2>2. CASE j # (m + i) + 1
    <3>1. j \in 1 .. m + i
      BY <1>3, <2>2
    <3>2. c[j] = a[j]
      BY <1>13, <3>1
    <3>3. CASE j <= m
      BY <1>8, <1>10, <3>1, <3>2, <3>3
    <3>4. CASE ~(j <= m)
      <4>1. j - m \in 1 .. i /\ j - m \in 1 .. i + 1
        BY <1>3, <3>1, <3>4
      <4>2. z[j - m] = list[j - m] /\ y[j - m] = list[j - m]
        BY <1>5, <1>7, <4>1
      <4> QED BY <1>8, <1>10, <3>1, <3>2, <3>4, <4>2
    <3> QED BY <3>3, <3>4
  <2> QED BY <2>1, <2>2
<1>15. b = c
  <2>1. Len(b) = Len(c) /\ \A j \in 1 .. Len(b) : b[j] = c[j]
    BY <1>3, <1>10, <1>13, <1>14
  <2> QED BY <1>10, <1>13, <2>1, SeqEqual
<1> QED BY <1>6, <1>8, <1>9, <1>11, <1>12, <1>15

\* The commands of a list of slots.
LEMMA MemoryFacts ==
  ASSUME NEW list \in Seq(Sz), NEW op \in {"PUSH", "POP", "CALL", "RET"}, NEW c, c = Memory(op, list)
  PROVE  /\ c \in Seq(TraceCommand) /\ Len(c) = Len(list)
         /\ \A i \in 1 .. Len(list) : c[i] = [op |-> op, size |-> list[i]]
<1>1. PICK n \in Nat : n = Len(list)
  OBVIOUS
<1>2. c = [i \in 1 .. n |-> [op |-> op, size |-> list[i]]]
  BY <1>1 DEF Memory
<1>3. \A i \in 1 .. n : list[i] \in Nat \ {0}
  BY <1>1 DEF Sz
<1>4. \A i \in 1 .. n : [op |-> op, size |-> list[i]] \in TraceCommand
  BY <1>3 DEF TraceCommand
<1>5. c \in [1 .. n -> TraceCommand]
  BY <1>2, <1>4
<1>6. c \in Seq(TraceCommand) /\ Len(c) = n
  BY <1>5
<1> QED BY <1>1, <1>2, <1>6

\* A command without a slot.
LEMMA PlainFacts ==
  ASSUME NEW op \in {"ACTIVE", "INACTIVE", "ADD_FRAME", "REMOVE_FRAME"}
  PROVE  Plain(op) \in Seq(TraceCommand) /\ Plain(op) = <<[op |-> op, size |-> 0]>>
<1>1. [op |-> op, size |-> 0] \in TraceCommand
  BY DEF TraceCommand
<1> QED BY <1>1 DEF Plain

\* The allocation of a list.
LEMMA PushList ==
  ASSUME NEW w \in Work, NEW list \in Seq(Sz), NEW q \in Seq(Sz), NEW on, LastShape(w.s, q, on),
         NEW v, v = Run(w, Memory("PUSH", list))
  PROVE  Edits(w, v, q \o list, on, -Total(list)) /\ q \o list \in Seq(Sz) /\ Total(list) \in Nat
<1>1. PICK n \in Nat : n = Len(list)
  OBVIOUS
<1>2. PICK c : c = Memory("PUSH", list)
  OBVIOUS
<1>3. c \in Seq(TraceCommand) /\ Len(c) = n /\ \A i \in 1 .. n : c[i] = [op |-> "PUSH", size |-> list[i]]
  BY <1>1, <1>2, MemoryFacts
<1>4. PICK f : Walks(f, w, c, n) /\ Run(w, c) = f[n]
  BY <1>3, RunWalks
<1>5. f[0] = w /\ \A i \in 0 .. n - 1 : f[i + 1] = ExecuteCommand(f[i], c[i + 1])
  BY <1>4, WalksFacts
<1>6. list \in Seq(Nat)
  BY SzSeq
<1>7. PICK t \in [0 .. n -> Nat] :
        t[0] = 0 /\ Total(list) = t[n] /\ \A i \in 0 .. n - 1 : t[i + 1] = t[i] + list[i + 1]
  BY <1>1, <1>6, TotalSums
<1> DEFINE S == {i \in Nat : i <= n => Edits(w, f[i], q \o SubSeq(list, 1, i), on, -t[i])}
<1>8. 0 \in S
  <2>1. SubSeq(list, 1, 0) = <<>> /\ q \o <<>> = q
    BY ConcatEmptySeq
  <2>5. w.delta \in Int
    BY WorkFacts
  <2>2. -t[0] = 0 /\ w.delta + 0 = w.delta
    BY <1>7, <2>5
  <2>3. Beside(w.s, w.s)
    BY DEF Beside, LastShape
  <2>4. Edits(w, w, q, on, 0)
    BY <2>2, <2>3 DEF Edits
  <2> QED BY <1>5, <2>1, <2>2, <2>4
<1>9. ASSUME NEW i \in Nat, i \in S PROVE i + 1 \in S
  <2> SUFFICES ASSUME i + 1 <= n PROVE Edits(w, f[i + 1], q \o SubSeq(list, 1, i + 1), on, -t[i + 1])
    OBVIOUS
  <2>1. i \in 0 .. n - 1 /\ i <= n /\ i + 1 \in 1 .. n /\ i \in 0 .. n /\ i + 1 \in 0 .. n
    OBVIOUS
  <2>2. PICK a : a = q \o SubSeq(list, 1, i)
    OBVIOUS
  <2>3. a \in Seq(Sz) /\ list[i + 1] \in Sz /\ q \o SubSeq(list, 1, i + 1) = Append(a, list[i + 1])
    BY <1>1, <2>1, <2>2, ConcatPrefix
  <2>4. PICK u : u = f[i]
    OBVIOUS
  <2>5. Edits(w, u, a, on, -t[i])
    BY <1>9, <2>1, <2>2, <2>4
  <2>6. u \in Work /\ LastShape(u.s, a, on)
    BY <2>5 DEF Edits
  <2>7. PICK size \in Sz : size = list[i + 1]
    BY <2>3
  <2>8. f[i + 1] = Push(u, size)
    <3>1. f[i + 1] = ExecuteCommand(u, c[i + 1]) /\ c[i + 1] = [op |-> "PUSH", size |-> size]
      BY <1>3, <1>5, <2>1, <2>4, <2>7
    <3>2. c[i + 1].op = "PUSH" /\ c[i + 1].size = size
      BY <3>1
    <3> QED BY <3>1, <3>2 DEF ExecuteCommand
  <2>9. PICK x : x = f[i + 1]
    OBVIOUS
  <2>10. Edits(u, x, Append(a, size), on, -size)
    BY <2>6, <2>8, <2>9, PushShape
  <2>11. -t[i] \in Int /\ -size \in Int /\ (-t[i]) + (-size) = -t[i + 1]
    <3>1. t[i] \in Nat /\ size \in Nat /\ t[i + 1] = t[i] + size
      BY <1>7, <2>1, <2>7 DEF Sz
    <3> QED BY <3>1
  <2>12. PICK d \in Int : d = -t[i]
    BY <2>11
  <2>13. PICK e \in Int : e = -size
    BY <2>11
  <2>14. PICK b : b = Append(a, size)
    OBVIOUS
  <2>15. Edits(w, x, b, on, d + e)
    BY <2>5, <2>10, <2>12, <2>13, <2>14, EditsTwice
  <2> QED BY <2>3, <2>7, <2>9, <2>11, <2>12, <2>13, <2>14, <2>15
<1> HIDE DEF S
<1>10. n \in S
  BY <1>8, <1>9, SetInduction
<1>11. Edits(w, f[n], q \o SubSeq(list, 1, n), on, -t[n])
  BY <1>10 DEF S
<1>12. SubSeq(list, 1, n) = list
  BY <1>1
<1>13. q \o list \in Seq(Sz)
  BY ConcatProperties
<1>14. Total(list) \in Nat
  BY <1>6, TotalReverse
<1> QED BY <1>2, <1>4, <1>7, <1>11, <1>12, <1>13, <1>14

\* The release of what a list allocated last.
LEMMA PopList ==
  ASSUME NEW w \in Work, NEW list \in Seq(Sz), NEW q \in Seq(Sz), NEW on, LastShape(w.s, q \o list, on),
         NEW v, v = Run(w, Memory("POP", Reverse(list)))
  PROVE  Edits(w, v, q, on, Total(list)) /\ Total(list) \in Nat
<1>1. PICK n \in Nat : n = Len(list)
  OBVIOUS
<1>2. PICK r : r = Reverse(list)
  OBVIOUS
<1>3. r \in Seq(Sz) /\ Len(r) = n /\ \A i \in 1 .. n : r[i] = list[n - i + 1]
  BY <1>1, <1>2, ReverseFacts
<1>4. PICK c : c = Memory("POP", r)
  OBVIOUS
<1>5. c \in Seq(TraceCommand) /\ Len(c) = n /\ \A i \in 1 .. n : c[i] = [op |-> "POP", size |-> r[i]]
  BY <1>3, <1>4, MemoryFacts
<1>6. PICK f : Walks(f, w, c, n) /\ Run(w, c) = f[n]
  BY <1>5, RunWalks
<1>7. f[0] = w /\ \A i \in 0 .. n - 1 : f[i + 1] = ExecuteCommand(f[i], c[i + 1])
  BY <1>6, WalksFacts
<1>8. r \in Seq(Nat) /\ list \in Seq(Nat)
  BY <1>3, SzSeq
<1>9. PICK t \in [0 .. n -> Nat] :
        t[0] = 0 /\ Total(r) = t[n] /\ \A i \in 0 .. n - 1 : t[i + 1] = t[i] + r[i + 1]
  BY <1>3, <1>8, TotalSums
<1>10. Total(r) = Total(list) /\ Total(list) \in Nat
  BY <1>2, <1>8, TotalReverse
<1> DEFINE S == {i \in Nat : i <= n => Edits(w, f[i], q \o SubSeq(list, 1, n - i), on, t[i])}
<1>11. 0 \in S
  <2>1. n - 0 = n /\ SubSeq(list, 1, n) = list
    BY <1>1
  <2>2. w.delta \in Int /\ t[0] = 0 /\ w.delta + 0 = w.delta
    BY <1>9, WorkFacts
  <2>3. Beside(w.s, w.s)
    BY DEF Beside, LastShape
  <2>4. Edits(w, w, q \o list, on, 0)
    BY <2>2, <2>3 DEF Edits
  <2>5. q \o SubSeq(list, 1, n - 0) = q \o list
    BY <2>1
  <2> QED BY <1>7, <2>2, <2>4, <2>5
<1>12. ASSUME NEW i \in Nat, i \in S PROVE i + 1 \in S
  <2> SUFFICES ASSUME i + 1 <= n PROVE Edits(w, f[i + 1], q \o SubSeq(list, 1, n - (i + 1)), on, t[i + 1])
    OBVIOUS
  <2>1. i \in 0 .. n - 1 /\ i <= n /\ i + 1 \in 1 .. n /\ i \in 0 .. n /\ i + 1 \in 0 .. n
    OBVIOUS
  <2>2. PICK k \in 0 .. n - 1 : k = n - (i + 1)
    BY <2>1
  <2>3. n - i = k + 1
    BY <2>2
  <2>4. PICK a : a = q \o SubSeq(list, 1, k)
    OBVIOUS
  <2>5. a \in Seq(Sz) /\ list[k + 1] \in Sz /\ q \o SubSeq(list, 1, k + 1) = Append(a, list[k + 1])
    <3>1. k \in 0 .. Len(list) - 1
      BY <1>1
    <3> QED BY <2>4, <3>1, ConcatPrefix
  <2>6. PICK size \in Sz : size = list[k + 1]
    BY <2>5
  <2>7. r[i + 1] = size
    <3>1. n - (i + 1) + 1 = k + 1
      BY <2>2
    <3>2. r[i + 1] = list[n - (i + 1) + 1]
      BY <1>3, <2>1
    <3> QED BY <2>6, <3>1, <3>2
  <2>8. PICK u : u = f[i]
    OBVIOUS
  <2>9. Edits(w, u, q \o SubSeq(list, 1, n - i), on, t[i])
    BY <1>12, <2>1, <2>8
  <2>10. Edits(w, u, Append(a, size), on, t[i])
    BY <2>3, <2>5, <2>6, <2>9
  <2>11. u \in Work /\ LastShape(u.s, Append(a, size), on)
    BY <2>10 DEF Edits
  <2>12. f[i + 1] = Pop(u, size)
    <3>1. f[i + 1] = ExecuteCommand(u, c[i + 1]) /\ c[i + 1] = [op |-> "POP", size |-> size]
      BY <1>5, <1>7, <2>1, <2>7, <2>8
    <3>2. c[i + 1].op = "POP" /\ c[i + 1].size = size
      BY <3>1
    <3> QED BY <3>1, <3>2 DEF ExecuteCommand
  <2>13. PICK x : x = f[i + 1]
    OBVIOUS
  <2>14. Edits(u, x, a, on, size)
    BY <2>5, <2>11, <2>12, <2>13, PopShape
  <2>15. t[i] \in Int /\ size \in Int /\ t[i + 1] = t[i] + size
    BY <1>9, <2>1, <2>7 DEF Sz
  <2>16. PICK d \in Int : d = t[i]
    BY <2>15
  <2>17. PICK b : b = Append(a, size)
    OBVIOUS
  <2>18. Edits(w, x, a, on, d + size)
    BY <2>10, <2>14, <2>15, <2>16, <2>17, EditsTwice
  <2> QED BY <2>2, <2>4, <2>13, <2>15, <2>16, <2>18
<1> HIDE DEF S
<1>13. n \in S
  BY <1>11, <1>12, SetInduction
<1>14. Edits(w, f[n], q \o SubSeq(list, 1, n - n), on, t[n])
  BY <1>13 DEF S
<1>15. n - n = 0 /\ SubSeq(list, 1, 0) = <<>> /\ q \o <<>> = q
  BY ConcatEmptySeq
<1>16. q \o SubSeq(list, 1, n - n) = q
  BY <1>15
<1> QED BY <1>2, <1>4, <1>6, <1>9, <1>10, <1>14, <1>16

-----------------------------------------------------------------------------
(* Activation records and the frames that mirror them.                     *)

Record == [params : Seq(Sz), entered : BOOLEAN, locals : Seq(Sz)]

\* Before it is entered a record has parameters and nothing else.
WellFormed(r) == r.entered \/ (r.params # <<>> /\ r.locals = <<>>)

\* T are the records of a program, in the handler of a trap if h.
Program(T, h) ==
  /\ T \in Seq(Record) /\ \A i \in 1 .. Len(T) : WellFormed(T[i])
  /\ h => T # <<>> /\ T[1].params = <<>> /\ T[1].entered

EntryOf(h, i) == IF h /\ i = 1 THEN Context ELSE <<1>>
SlotsOf(r, e) == r.params \o (IF r.entered THEN e ELSE <<>>) \o r.locals

\* The first n frames of a stack mirror the first n records.
Mirror(s, T, n, h) ==
  \A i \in 1 .. n :
    FrameShape(s.frames[i]) = [slots |-> SlotsOf(T[i], EntryOf(h, i)), active |-> T[i].entered]

Blank(frames) == frames = <<>> \/ frames = <<EmptyFrame>>

MirrorOf(s, T, h) ==
  IF T = <<>> THEN Blank(s.frames) ELSE Len(s.frames) = Len(T) /\ Mirror(s, T, Len(T), h)

\* The context of a trap is a list of slots.
LEMMA ContextFacts ==
  /\ Context \in Seq(Sz) /\ Len(Context) = ContextSize /\ Context # <<>>
  /\ Reverse(Context) = Context /\ Total(Context) = ContextSize
  /\ <<1>> \in Seq(Sz) /\ <<1>> # <<>> /\ Len(<<1>>) = 1
<1>1. PICK n \in Nat : n = ContextSize /\ n > 0
  BY TracerAssumption
<1>2. PICK c : c = Context
  OBVIOUS
<1>3. c = [i \in 1 .. n |-> 1]
  BY <1>1, <1>2 DEF Context
<1>4. c \in [1 .. n -> Sz] /\ c \in [1 .. n -> Nat]
  BY <1>3 DEF Sz
<1>5. c \in Seq(Sz) /\ c \in Seq(Nat) /\ Len(c) = n
  BY <1>4
<1>6. c # <<>>
  <2>1. Len(<<>>) = 0
    OBVIOUS
  <2> QED BY <1>1, <1>5, <2>1
<1>7. Reverse(c) = c
  <2>1. PICK r : r = Reverse(c)
    OBVIOUS
  <2>2. r \in Seq(Sz) /\ Len(r) = n /\ \A i \in 1 .. n : r[i] = c[n - i + 1]
    BY <1>5, <2>1, ReverseFacts
  <2>3. \A i \in 1 .. n : n - i + 1 \in 1 .. n
    OBVIOUS
  <2>4. \A i \in 1 .. n : r[i] = 1 /\ c[i] = 1
    BY <1>3, <2>2, <2>3
  <2>5. r = c
    BY <1>5, <2>2, <2>4, SeqEqual
  <2> QED BY <2>1, <2>5
<1>8. Total(c) = n
  <2>1. PICK t \in [0 .. n -> Nat] :
          t[0] = 0 /\ Total(c) = t[n] /\ \A i \in 0 .. n - 1 : t[i + 1] = t[i] + c[i + 1]
    BY <1>5, TotalSums
  <2> DEFINE S == {i \in Nat : i <= n => t[i] = i}
  <2>2. 0 \in S
    BY <2>1
  <2>3. ASSUME NEW i \in Nat, i \in S PROVE i + 1 \in S
    <3> SUFFICES ASSUME i + 1 <= n PROVE t[i + 1] = i + 1
      OBVIOUS
    <3>1. i \in 0 .. n - 1 /\ i <= n /\ i + 1 \in 1 .. n
      OBVIOUS
    <3>2. t[i] = i /\ c[i + 1] = 1
      BY <1>3, <2>3, <3>1
    <3>3. t[i + 1] = t[i] + c[i + 1]
      BY <2>1, <3>1
    <3> QED BY <3>2, <3>3
  <2> HIDE DEF S
  <2>4. n \in S
    BY <2>2, <2>3, SetInduction
  <2> QED BY <2>1, <2>4 DEF S
<1>9. 1 \in Sz
  BY DEF Sz
<1>10. PICK o : o = <<1>>
  OBVIOUS
<1>11. o \in Seq(Sz) /\ Len(o) = 1 /\ o # <<>>
  BY <1>9, <1>10
<1> QED BY <1>1, <1>2, <1>5, <1>6, <1>7, <1>8, <1>10, <1>11

\* What entering a routine or a handler pushes is a list of slots.
LEMMA EntryFacts ==
  ASSUME NEW h, NEW i, NEW e, e = EntryOf(h, i)
  PROVE  e \in Seq(Sz) /\ e # <<>>
BY ContextFacts DEF EntryOf

\* The slots of a record: never none.
LEMMA SlotsFacts ==
  ASSUME NEW r \in Record, NEW e \in Seq(Sz), e # <<>>
  PROVE  /\ r.params \in Seq(Sz) /\ r.locals \in Seq(Sz) /\ r.entered \in BOOLEAN
         /\ SlotsOf(r, e) \in Seq(Sz)
         /\ WellFormed(r) => SlotsOf(r, e) # <<>>
         /\ r.entered => SlotsOf(r, e) = (r.params \o e) \o r.locals
         /\ ~r.entered /\ WellFormed(r) => SlotsOf(r, e) = r.params
<1>1. r.params \in Seq(Sz) /\ r.locals \in Seq(Sz) /\ r.entered \in BOOLEAN
  BY DEF Record
<1>2. PICK p \in Seq(Sz) : p = r.params
  BY <1>1
<1>3. PICK l \in Seq(Sz) : l = r.locals
  BY <1>1
<1>4. <<>> \in Seq(Sz)
  OBVIOUS
<1>5. CASE r.entered
  <2>1. SlotsOf(r, e) = (p \o e) \o l
    BY <1>2, <1>3, <1>5 DEF SlotsOf
  <2>2. p \o e \in Seq(Sz) /\ (p \o e) \o l \in Seq(Sz)
    BY ConcatProperties
  <2>3. (p \o e) \o l # <<>>
    <3>1. p \o e # <<>>
      BY ConcatEqualIffEmpty
    <3> QED BY <2>2, <3>1, ConcatEqualIffEmpty
  <2> QED BY <1>1, <1>2, <1>3, <1>5, <2>1, <2>2, <2>3
<1>6. CASE ~r.entered
  <2>1. SlotsOf(r, e) = (p \o <<>>) \o l
    BY <1>2, <1>3, <1>6 DEF SlotsOf
  <2>2. p \o <<>> = p
    BY ConcatEmptySeq
  <2>3. p \o l \in Seq(Sz)
    BY ConcatProperties
  <2>4. WellFormed(r) => p # <<>> /\ l = <<>>
    BY <1>2, <1>3, <1>6 DEF WellFormed
  <2>5. WellFormed(r) => p \o l = p
    BY <2>2, <2>4
  <2> QED BY <1>1, <1>2, <1>6, <2>1, <2>2, <2>3, <2>4, <2>5
<1> QED BY <1>1, <1>5, <1>6

\* The shape of a frame that is new.
LEMMA EmptyShape ==
  EmptyFrame \in Frame /\ FrameShape(EmptyFrame) = [slots |-> <<>>, active |-> FALSE]
<1>1. EmptyFrame \in Frame /\ EmptyFrame.slots = <<>> /\ EmptyFrame.active = FALSE
  BY DEF EmptyFrame, Frame
<1>2. PICK q : q = FrameShape(EmptyFrame).slots
  OBVIOUS
<1>3. FrameShape(EmptyFrame) = [slots |-> q, active |-> EmptyFrame.active] /\ (q = <<>> <=> EmptyFrame.slots = <<>>)
  BY <1>1, <1>2, ShapeFacts
<1> QED BY <1>1, <1>3

\* The last of the frames that mirror a program.
LEMMA MirrorLast ==
  ASSUME NEW s \in Stack, NEW T, NEW h, Program(T, h), T # <<>>, MirrorOf(s, T, h),
         NEW n, n = Len(T), NEW e, e = EntryOf(h, n)
  PROVE  /\ n \in Nat \ {0} /\ Len(s.frames) = n /\ Mirror(s, T, n - 1, h)
         /\ LastShape(s, SlotsOf(T[n], e), T[n].entered)
         /\ T[n] \in Record /\ WellFormed(T[n]) /\ Last(T) = T[n]
         /\ e \in Seq(Sz) /\ e # <<>>
<1>1. T \in Seq(Record) /\ n \in Nat /\ n # 0
  BY DEF Program
<1>2. n \in 1 .. n /\ \A i \in 1 .. n - 1 : i \in 1 .. n
  BY <1>1
<1>3. T[n] \in Record /\ WellFormed(T[n])
  BY <1>1, <1>2 DEF Program
<1>4. Len(s.frames) = n /\ Mirror(s, T, n, h)
  BY DEF MirrorOf
<1>5. s.frames # <<>>
  BY <1>1, <1>4, FramesFacts
<1>6. FrameShape(s.frames[n]) = [slots |-> SlotsOf(T[n], e), active |-> T[n].entered]
  BY <1>2, <1>4 DEF Mirror
<1>7. LastShape(s, SlotsOf(T[n], e), T[n].entered)
  BY <1>4, <1>5, <1>6 DEF LastShape
<1>8. Mirror(s, T, n - 1, h)
  BY <1>2, <1>4 DEF Mirror
<1>9. e \in Seq(Sz) /\ e # <<>>
  BY EntryFacts
<1> QED BY <1>1, <1>3, <1>4, <1>7, <1>8, <1>9 DEF Last

\* Frames before the last mirror the records before the last, and the last one the last.
LEMMA MirrorMade ==
  ASSUME NEW s, NEW T, NEW h, NEW n \in Nat \ {0}, n = Len(T), Len(s.frames) = n,
         Mirror(s, T, n - 1, h), NEW q, NEW on, LastShape(s, q, on),
         q = SlotsOf(T[n], EntryOf(h, n)), on = T[n].entered
  PROVE  MirrorOf(s, T, h)
<1>1. T # <<>>
  <2>1. Len(<<>>) = 0
    OBVIOUS
  <2> QED BY <2>1
<1>2. FrameShape(s.frames[n]) = [slots |-> q, active |-> on]
  BY DEF LastShape
<1>3. ASSUME NEW i \in 1 .. n
      PROVE  FrameShape(s.frames[i]) = [slots |-> SlotsOf(T[i], EntryOf(h, i)), active |-> T[i].entered]
  <2>1. CASE i = n
    BY <1>2, <2>1
  <2>2. CASE i # n
    <3>1. i \in 1 .. n - 1
      BY <2>2
    <3> QED BY <3>1 DEF Mirror
  <2> QED BY <2>1, <2>2
<1>4. Mirror(s, T, n, h)
  BY <1>3 DEF Mirror
<1> QED BY <1>1, <1>4 DEF MirrorOf

\* The first frames and records, before and after.
LEMMA MirrorKept ==
  ASSUME NEW s, NEW r, NEW T, NEW U, NEW h, NEW n \in Nat, Mirror(s, T, n, h),
         \A i \in 1 .. n : r.frames[i] = s.frames[i] /\ U[i] = T[i]
  PROVE  Mirror(r, U, n, h)
BY DEF Mirror

\* U is T with a record more, with another last record, without its last record.
Adds(T, U, r) == Len(U) = Len(T) + 1 /\ U[Len(T) + 1] = r /\ \A i \in 1 .. Len(T) : U[i] = T[i]
Replaces(T, U, r) == Len(U) = Len(T) /\ U[Len(T)] = r /\ \A i \in 1 .. Len(T) - 1 : U[i] = T[i]
Drops(T, U) == Len(U) = Len(T) - 1 /\ \A i \in 1 .. Len(T) - 1 : U[i] = T[i]

\* A record more, ...
LEMMA AppendProgram ==
  ASSUME NEW T, NEW h, Program(T, h), NEW r \in Record, WellFormed(r), NEW U, U = Append(T, r)
  PROVE  Program(U, h) /\ Adds(T, U, r)
<1>1. T \in Seq(Record)
  BY DEF Program
<1>2. PICK n \in Nat : n = Len(T)
  BY <1>1
<1>3. U \in Seq(Record) /\ Len(U) = n + 1 /\ U[n + 1] = r /\ \A i \in 1 .. n : U[i] = T[i]
  BY <1>1, <1>2, AppendProperties
<1>4. \A i \in 1 .. n : WellFormed(T[i])
  BY <1>2 DEF Program
<1>5. \A i \in 1 .. n + 1 : i = n + 1 \/ i \in 1 .. n
  OBVIOUS
<1>6. \A i \in 1 .. n + 1 : WellFormed(U[i])
  BY <1>3, <1>4, <1>5
<1>7. h => U # <<>> /\ U[1].params = <<>> /\ U[1].entered
  <2> SUFFICES ASSUME h PROVE U # <<>> /\ U[1].params = <<>> /\ U[1].entered
    OBVIOUS
  <2>1. T # <<>> /\ T[1].params = <<>> /\ T[1].entered
    BY DEF Program
  <2>2. n # 0
    BY <1>1, <1>2, <2>1
  <2>3. 1 \in 1 .. n
    BY <2>2
  <2>4. Len(<<>>) = 0 /\ n + 1 # 0
    OBVIOUS
  <2> QED BY <1>3, <2>1, <2>3, <2>4
<1> QED BY <1>2, <1>3, <1>6, <1>7 DEF Program, Adds

WithLast(T, r) == [T EXCEPT ![Len(T)] = r]

\* ... another last record, ...
LEMMA ReplaceProgram ==
  ASSUME NEW T, NEW h, Program(T, h), T # <<>>, NEW r \in Record, WellFormed(r),
         h /\ Len(T) = 1 => r.params = <<>> /\ r.entered,
         NEW U, U = WithLast(T, r)
  PROVE  Program(U, h) /\ Replaces(T, U, r)
<1>1. T \in Seq(Record)
  BY DEF Program
<1>2. PICK n \in Nat : n = Len(T) /\ n # 0
  BY <1>1
<1>3. U \in Seq(Record) /\ Len(U) = n /\ U[n] = r /\ \A i \in 1 .. n - 1 : U[i] = T[i]
  <2>1. T \in [1 .. n -> Record] /\ n \in 1 .. n
    BY <1>1, <1>2
  <2>2. U \in [1 .. n -> Record] /\ U[n] = r /\ \A i \in 1 .. n - 1 : U[i] = T[i]
    BY <1>2, <2>1 DEF WithLast
  <2>4. \A z \in [1 .. n -> Record] : z \in Seq(Record) /\ Len(z) = n
    OBVIOUS
  <2>3. U \in Seq(Record) /\ Len(U) = n
    BY <2>2, <2>4
  <2> QED BY <2>2, <2>3
<1>4. \A i \in 1 .. n : WellFormed(T[i])
  BY <1>2 DEF Program
<1>5. \A i \in 1 .. n : i = n \/ i \in 1 .. n - 1
  OBVIOUS
<1>6. \A i \in 1 .. n : WellFormed(U[i])
  BY <1>3, <1>4, <1>5
<1>7. h => U # <<>> /\ U[1].params = <<>> /\ U[1].entered
  <2> SUFFICES ASSUME h PROVE U # <<>> /\ U[1].params = <<>> /\ U[1].entered
    OBVIOUS
  <2>1. T[1].params = <<>> /\ T[1].entered
    BY DEF Program
  <2>2. U # <<>>
    BY <1>2, <1>3
  <2>3. CASE n = 1
    BY <1>2, <1>3, <2>2, <2>3
  <2>4. CASE n # 1
    <3>1. 1 \in 1 .. n - 1
      BY <1>2, <2>4
    <3> QED BY <1>3, <2>1, <2>2, <3>1
  <2> QED BY <2>3, <2>4
<1> QED BY <1>2, <1>3, <1>6, <1>7 DEF Program, Replaces

\* ... or a record less leave the records well formed.
LEMMA FrontProgram ==
  ASSUME NEW T, NEW h, Program(T, h), T # <<>>, ~(h /\ Len(T) = 1), NEW U, U = Front(T)
  PROVE  Program(U, h) /\ Drops(T, U)
<1>1. T \in Seq(Record)
  BY DEF Program
<1>2. PICK n \in Nat : n = Len(T) /\ n # 0
  BY <1>1
<1>3. PICK m \in Nat : m = n - 1
  BY <1>2
<1>4. U \in Seq(Record) /\ Len(U) = m /\ \A i \in 1 .. m : U[i] = T[i]
  <2>1. U = SubSeq(T, 1, m) /\ m <= Len(T)
    BY <1>2, <1>3 DEF Front
  <2> QED BY <1>1, <2>1, PrefixFacts
<1>5. \A i \in 1 .. n : WellFormed(T[i])
  BY <1>2 DEF Program
<1>6. \A i \in 1 .. m : WellFormed(U[i])
  <2>1. \A i \in 1 .. m : i \in 1 .. n
    BY <1>3
  <2> QED BY <1>4, <1>5, <2>1
<1>7. h => U # <<>> /\ U[1].params = <<>> /\ U[1].entered
  <2> SUFFICES ASSUME h PROVE U # <<>> /\ U[1].params = <<>> /\ U[1].entered
    OBVIOUS
  <2>1. T[1].params = <<>> /\ T[1].entered
    BY DEF Program
  <2>2. 1 \in 1 .. m /\ m # 0
    BY <1>2, <1>3
  <2>3. U # <<>>
    BY <1>4, <2>2
  <2> QED BY <1>4, <2>1, <2>2, <2>3
<1> QED BY <1>2, <1>3, <1>4, <1>6, <1>7 DEF Program, Drops

-----------------------------------------------------------------------------
(* What the commands of an instruction do to the frames that mirror the    *)
(* records of a program.                                                   *)

\* Without an error the commands move SP by d and leave frames that mirror T.
Done(w, v, T, h, d) ==
  v \in Work /\ v.broken = w.broken /\ v.delta = w.delta + d /\ MirrorOf(v.s, T, h)

\* addFrame() on a stack that mirrors a program.
LEMMA AddFrameMirror ==
  ASSUME NEW w \in Work, w.s.base # 0, NEW T, NEW h, Program(T, h), MirrorOf(w.s, T, h),
         NEW v, v = AddFrame(w)
  PROVE  /\ v \in Work /\ SameSP(w, v) /\ Len(v.s.frames) = Len(T) + 1
         /\ Mirror(v.s, T, Len(T), h) /\ LastShape(v.s, <<>>, FALSE)
<1>1. v = [w EXCEPT !.s = PushFrame(@)]
  BY DEF AddFrame
<1>2. PICK s \in Stack : s = w.s
  BY WorkFacts
<1>3. Keeps(w, v) /\ v.s = PushFrame(w.s) /\ SameSP(w, v)
  BY <1>1, PushFrameKeeps
<1>4. v \in Work
  BY <1>3, KeepsWork
<1>5. PICK r \in Stack : r = v.s
  BY <1>4, WorkFacts
<1>6. r = PushFrame(s)
  BY <1>2, <1>3, <1>5
<1>7. PICK n \in Nat : n = Len(T)
  BY DEF Program
<1>8. MirrorOf(s, T, h)
  BY <1>2
<1>9. CASE T = <<>>
  <2>1. n = 0 /\ Blank(s.frames)
    BY <1>7, <1>8, <1>9 DEF MirrorOf
  <2>2. Len(r.frames) = 1 /\ r.frames[1] = EmptyFrame
    <3>1. CASE s.frames = <<>>
      <4>1. Grows(s, r)
        BY <1>6, <3>1, PushFrameFacts
      <4>2. Len(s.frames) = 0 /\ 0 + 1 = 1
        BY <3>1
      <4> QED BY <4>1, <4>2 DEF Grows
    <3>2. CASE s.frames = <<EmptyFrame>>
      <4>1. s.frames # <<>> /\ Len(s.frames) = 1 /\ s.frames[1] = EmptyFrame
        BY <3>2
      <4>2. Last(s.frames).slots = <<>>
        BY <4>1 DEF Last, EmptyFrame
      <4>3. ~(s.frames = <<>> \/ Last(s.frames).slots # <<>>)
        BY <4>1, <4>2
      <4>4. r = s
        BY <1>6, <4>3, PushFrameFacts
      <4> QED BY <4>1, <4>4
    <3> QED BY <2>1, <3>1, <3>2 DEF Blank
  <2>3. r.frames # <<>>
    BY <2>2, FramesFacts
  <2>4. LastShape(r, <<>>, FALSE)
    BY <2>2, <2>3, EmptyShape DEF LastShape
  <2>5. Mirror(r, T, 0, h)
    BY DEF Mirror
  <2>6. Len(T) = 0 /\ Len(r.frames) = Len(T) + 1 /\ Mirror(r, T, Len(T), h)
    BY <1>7, <2>1, <2>2, <2>5
  <2> QED BY <1>3, <1>4, <1>5, <2>4, <2>6
<1>10. CASE T # <<>>
  <2>1. PICK e : e = EntryOf(h, n)
    OBVIOUS
  <2>2. n \in Nat \ {0} /\ Len(s.frames) = n /\ T[n] \in Record /\ WellFormed(T[n])
        /\ LastShape(s, SlotsOf(T[n], e), T[n].entered) /\ e \in Seq(Sz) /\ e # <<>>
    BY <1>7, <1>8, <1>10, <2>1, MirrorLast
  <2>3. PICK q : q = SlotsOf(T[n], e)
    OBVIOUS
  <2>4. q # <<>>
    BY <2>2, <2>3, SlotsFacts
  <2>5. PICK f : f = Last(s.frames)
    OBVIOUS
  <2>6. f \in Frame /\ FrameShape(f).slots = q /\ s.frames # <<>>
    <3>1. PICK on : on = T[n].entered
      OBVIOUS
    <3>2. LastShape(s, q, on)
      BY <2>2, <2>3, <3>1
    <3> QED BY <2>5, <3>2, LastShapeFacts
  <2>7. f.slots # <<>>
    BY <2>4, <2>6, ShapeFacts
  <2>8. Grows(s, r)
    BY <1>6, <2>5, <2>7, PushFrameFacts
  <2>9. Len(r.frames) = n + 1 /\ r.frames[n + 1] = EmptyFrame /\ \A i \in 1 .. n : r.frames[i] = s.frames[i]
    BY <2>2, <2>8 DEF Grows
  <2>10. r.frames # <<>>
    <3>1. Len(<<>>) = 0 /\ n + 1 # 0
      OBVIOUS
    <3> QED BY <2>9, <3>1
  <2>11. LastShape(r, <<>>, FALSE)
    BY <2>9, <2>10, EmptyShape DEF LastShape
  <2>12. Mirror(s, T, n, h)
    BY <1>7, <1>8, <1>10 DEF MirrorOf
  <2>13. Mirror(r, T, n, h)
    BY <2>9, <2>12, MirrorKept
  <2> QED BY <1>3, <1>4, <1>5, <1>7, <2>9, <2>11, <2>13
<1> QED BY <1>9, <1>10

\* A frame with the slots of one more record, after those that mirror T.
LEMMA AddMirror ==
  ASSUME NEW T, NEW h, Program(T, h), NEW n, n = Len(T), NEW u,
         Len(u.s.frames) = n + 1, Mirror(u.s, T, n, h),
         NEW r, NEW U, Adds(T, U, r), NEW q, NEW on, q = SlotsOf(r, EntryOf(h, n + 1)), on = r.entered,
         NEW v, NEW d, Edits(u, v, q, on, d)
  PROVE  MirrorOf(v.s, U, h)
<1>1. n \in Nat /\ n = Len(T)
  BY DEF Program
<1>2. Len(U) = n + 1 /\ U[n + 1] = r /\ \A i \in 1 .. n : U[i] = T[i]
  BY <1>1 DEF Adds
<1>3. Beside(u.s, v.s) /\ LastShape(v.s, q, on)
  BY DEF Edits
<1>4. Len(v.s.frames) = n + 1 /\ \A i \in 1 .. n : v.s.frames[i] = u.s.frames[i]
  <2>1. (n + 1) - 1 = n
    BY <1>1
  <2> QED BY <1>3, <2>1 DEF Beside
<1>5. Mirror(v.s, U, n, h)
  <2>1. PICK r1 : r1 = u.s
    OBVIOUS
  <2>2. PICK r2 : r2 = v.s
    OBVIOUS
  <2>3. Mirror(r1, T, n, h) /\ \A i \in 1 .. n : r2.frames[i] = r1.frames[i] /\ U[i] = T[i]
    BY <1>2, <1>4, <2>1, <2>2
  <2> QED BY <1>1, <2>2, <2>3, MirrorKept
<1>6. PICK m \in Nat \ {0} : m = n + 1
  BY <1>1
<1>7. PICK s : s = v.s
  OBVIOUS
<1>8. m = Len(U) /\ Len(s.frames) = m /\ Mirror(s, U, m - 1, h) /\ LastShape(s, q, on)
      /\ q = SlotsOf(U[m], EntryOf(h, m)) /\ on = U[m].entered
  <2>1. m - 1 = n
    BY <1>1, <1>6
  <2>2. U[m] = r
    BY <1>2, <1>6
  <2> QED BY <1>2, <1>3, <1>4, <1>5, <1>6, <1>7, <2>1, <2>2
<1> QED BY <1>7, <1>8, MirrorMade

\* Other slots in the last frame, for another last record.
LEMMA ReplaceMirror ==
  ASSUME NEW w \in Work, NEW T, NEW h, Program(T, h), T # <<>>, MirrorOf(w.s, T, h),
         NEW r, NEW U, Replaces(T, U, r), NEW q, NEW on, q = SlotsOf(r, EntryOf(h, Len(T))), on = r.entered,
         NEW v, NEW d, Edits(w, v, q, on, d)
  PROVE  Done(w, v, U, h, d)
<1>1. PICK n : n = Len(T)
  OBVIOUS
<1>2. PICK z \in Stack : z = w.s
  BY WorkFacts
<1>3. n \in Nat \ {0} /\ Len(z.frames) = n /\ Mirror(z, T, n - 1, h)
  <2>1. PICK e : e = EntryOf(h, n)
    OBVIOUS
  <2>2. MirrorOf(z, T, h)
    BY <1>2
  <2> QED BY <1>1, <2>1, <2>2, MirrorLast
<1>4. v \in Work /\ v.broken = w.broken /\ v.delta = w.delta + d /\ Beside(z, v.s) /\ LastShape(v.s, q, on)
  BY <1>2 DEF Edits
<1>5. PICK s : s = v.s
  OBVIOUS
<1>6. Len(s.frames) = n /\ \A i \in 1 .. n - 1 : s.frames[i] = z.frames[i]
  BY <1>3, <1>4, <1>5 DEF Beside
<1>7. Len(U) = n /\ U[n] = r /\ \A i \in 1 .. n - 1 : U[i] = T[i]
  BY <1>1 DEF Replaces
<1>8. Mirror(s, U, n - 1, h)
  <2>1. n - 1 \in Nat
    BY <1>3
  <2> QED BY <1>3, <1>6, <1>7, <2>1, MirrorKept
<1>9. LastShape(s, q, on) /\ q = SlotsOf(U[n], EntryOf(h, n)) /\ on = U[n].entered
  BY <1>1, <1>4, <1>5, <1>7
<1>10. MirrorOf(s, U, h)
  BY <1>3, <1>6, <1>7, <1>8, <1>9, MirrorMade
<1> QED BY <1>4, <1>5, <1>10 DEF Done

\* The last frame loses its slots and goes, with its record.
LEMMA DropMirror ==
  ASSUME NEW w \in Work, NEW T, NEW h, Program(T, h), T # <<>>, MirrorOf(w.s, T, h),
         NEW U, Program(U, h), Drops(T, U), NEW on, NEW u, NEW d, Edits(w, u, <<>>, on, d),
         NEW v, Shrinks(u.s, v.s), SameSP(u, v), v \in Work
  PROVE  Done(w, v, U, h, d)
<1>1. PICK n : n = Len(T)
  OBVIOUS
<1>2. PICK z \in Stack : z = w.s
  BY WorkFacts
<1>3. n \in Nat \ {0} /\ Len(z.frames) = n /\ Mirror(z, T, n - 1, h)
  <2>1. PICK e : e = EntryOf(h, n)
    OBVIOUS
  <2>2. MirrorOf(z, T, h)
    BY <1>2
  <2> QED BY <1>1, <2>1, <2>2, MirrorLast
<1>4. v.broken = w.broken /\ v.delta = w.delta + d
  BY DEF Edits, SameSP
<1>5. PICK s \in Stack : s = v.s
  BY DEF Shrinks
<1>6. PICK m \in Nat : m = n - 1
  BY <1>3
<1>7. Len(s.frames) = m /\ \A i \in 1 .. m : s.frames[i] = z.frames[i]
  BY <1>2, <1>3, <1>5, <1>6 DEF Beside, Edits, Shrinks
<1>8. U \in Seq(Record) /\ Len(U) = m /\ \A i \in 1 .. m : U[i] = T[i]
  BY <1>1, <1>6 DEF Drops, Program
<1>9. Mirror(s, U, m, h)
  <2>1. Mirror(z, T, m, h)
    BY <1>3, <1>6
  <2> QED BY <1>7, <1>8, <2>1, MirrorKept
<1>10. MirrorOf(s, U, h)
  <2>1. CASE U = <<>>
    <3>1. m = 0
      BY <1>8, <2>1
    <3>2. s.frames = <<>>
      BY <1>7, <3>1, FramesFacts
    <3> QED BY <2>1, <3>2 DEF MirrorOf, Blank
  <2>2. CASE U # <<>>
    BY <1>7, <1>8, <1>9, <2>2 DEF MirrorOf
  <2> QED BY <2>1, <2>2
<1> QED BY <1>4, <1>5, <1>10 DEF Done

\* @params: the frame of a record that is not entered.
LEMMA ParamsMirror ==
  ASSUME NEW w \in Work, w.s.base # 0, NEW T, NEW h, Program(T, h), MirrorOf(w.s, T, h),
         NEW list \in Seq(Sz), list # <<>>, NEW v, v = Run(w, ParamsTag(list)),
         NEW r \in Record, r = [params |-> list, entered |-> FALSE, locals |-> <<>>],
         NEW U, Adds(T, U, r)
  PROVE  Done(w, v, U, h, -Total(list)) /\ Total(list) \in Nat
<1>1. PICK n \in Nat : n = Len(T)
  BY DEF Program
<1>3. WellFormed(r) /\ r.params = list /\ ~r.entered
  BY DEF WellFormed
<1>4. Len(U) = n + 1 /\ U[n + 1] = r /\ \A i \in 1 .. n : U[i] = T[i]
  BY <1>1 DEF Adds
<1>5. PICK u : u = AddFrame(w)
  OBVIOUS
<1>6. /\ u \in Work /\ SameSP(w, u) /\ Len(u.s.frames) = n + 1
      /\ Mirror(u.s, T, n, h) /\ LastShape(u.s, <<>>, FALSE)
  BY <1>1, <1>5, AddFrameMirror
<1>7. v = Run(u, Memory("PUSH", list))
  <2>1. Plain("ADD_FRAME") \in Seq(TraceCommand) /\ Plain("ADD_FRAME") = <<[op |-> "ADD_FRAME", size |-> 0]>>
    BY PlainFacts
  <2>2. Memory("PUSH", list) \in Seq(TraceCommand)
    BY MemoryFacts
  <2>3. v = Run(Run(w, Plain("ADD_FRAME")), Memory("PUSH", list))
    BY <2>1, <2>2, RunConcat DEF ParamsTag
  <2>4. PICK c : c = [op |-> "ADD_FRAME", size |-> 0]
    OBVIOUS
  <2>5. Run(w, Plain("ADD_FRAME")) = ExecuteCommand(w, c)
    BY <2>1, <2>4, RunOne
  <2>6. ExecuteCommand(w, c) = u
    BY <1>5, <2>4 DEF ExecuteCommand
  <2> QED BY <2>3, <2>5, <2>6
<1>8. Edits(u, v, <<>> \o list, FALSE, -Total(list)) /\ Total(list) \in Nat
  <2>1. <<>> \in Seq(Sz)
    OBVIOUS
  <2> QED BY <1>6, <1>7, <2>1, PushList
<1>9. <<>> \o list = list
  BY ConcatEmptySeq
<1>10. Edits(u, v, list, FALSE, -Total(list))
  BY <1>8, <1>9
<1>11. v \in Work /\ v.broken = u.broken /\ v.delta = u.delta + (-Total(list))
  BY <1>8 DEF Edits
<1>13. list = SlotsOf(r, EntryOf(h, n + 1))
  <2>1. PICK e : e = EntryOf(h, n + 1)
    OBVIOUS
  <2>2. e \in Seq(Sz) /\ e # <<>>
    BY <2>1, EntryFacts
  <2> QED BY <1>3, <2>1, <2>2, SlotsFacts
<1>14. MirrorOf(v.s, U, h)
  <2>1. PICK on : on = FALSE
    OBVIOUS
  <2>2. on = r.entered /\ Edits(u, v, list, on, -Total(list))
    BY <1>10, <2>1
  <2>3. PICK d : d = -Total(list)
    OBVIOUS
  <2> QED BY <1>1, <1>6, <1>13, <2>2, <2>3, AddMirror
<1> QED BY <1>6, <1>8, <1>11, <1>14 DEF Done, SameSP

\* Three lists.
LEMMA ConcatThree ==
  ASSUME NEW a \in Seq(Sz), NEW b \in Seq(Sz), NEW c \in Seq(Sz), NEW x, x = a \o b, NEW y, y = b \o c
  PROVE  x \o c = a \o y
BY ConcatAssociative

\* @locals: more slots in the frame of the last record.
LEMMA LocalsMirror ==
  ASSUME NEW w \in Work, NEW T, NEW h, Program(T, h), T # <<>>, MirrorOf(w.s, T, h),
         T[Len(T)].entered, NEW list \in Seq(Sz), NEW v, v = Run(w, LocalsTag(list)),
         NEW r \in Record, r.params = T[Len(T)].params, r.entered,
         r.locals = T[Len(T)].locals \o list, NEW U, Replaces(T, U, r)
  PROVE  Done(w, v, U, h, -Total(list)) /\ Total(list) \in Nat
<1>1. PICK n : n = Len(T)
  OBVIOUS
<1>2. PICK e : e = EntryOf(h, n)
  OBVIOUS
<1>3. PICK s \in Stack : s = w.s
  BY WorkFacts
<1>4. /\ LastShape(s, SlotsOf(T[n], e), T[n].entered)
      /\ T[n] \in Record /\ WellFormed(T[n]) /\ e \in Seq(Sz) /\ e # <<>>
  <2>1. MirrorOf(s, T, h)
    BY <1>3
  <2> QED BY <1>1, <1>2, <2>1, MirrorLast
<1>5. PICK p \in Seq(Sz) : p = T[n].params
  BY <1>4, SlotsFacts
<1>6. PICK l \in Seq(Sz) : l = T[n].locals
  BY <1>4, SlotsFacts
<1>7. SlotsOf(T[n], e) = (p \o e) \o l
  BY <1>1, <1>4, <1>5, <1>6, SlotsFacts
<1>8. SlotsOf(r, e) = (p \o e) \o (l \o list)
  <2>1. SlotsOf(r, e) = (r.params \o e) \o r.locals
    BY <1>4, SlotsFacts
  <2> QED BY <1>1, <1>5, <1>6, <2>1
<1>9. PICK q \in Seq(Sz) : q = (p \o e) \o l
  <2>1. p \o e \in Seq(Sz)
    BY <1>4, ConcatProperties
  <2>2. (p \o e) \o l \in Seq(Sz)
    BY <2>1, ConcatProperties
  <2> QED BY <2>2
<1>10. q \o list = SlotsOf(r, e)
  <2>1. PICK a \in Seq(Sz) : a = p \o e
    BY <1>4, ConcatProperties
  <2>2. (a \o l) \o list = a \o (l \o list)
    <3>1. PICK x : x = a \o l
      OBVIOUS
    <3>2. PICK y : y = l \o list
      OBVIOUS
    <3>3. x \o list = a \o y
      BY <3>1, <3>2, ConcatThree
    <3> QED BY <3>1, <3>2, <3>3
  <2> QED BY <1>8, <1>9, <2>1, <2>2
<1>11. PICK on : on = T[n].entered
  OBVIOUS
<1>12. LastShape(w.s, q, on) /\ on = r.entered
  <2>1. on = r.entered
    <3>1. T[n].entered = TRUE /\ r.entered = TRUE
      BY <1>1, <1>4, SlotsFacts DEF Record
    <3> QED BY <1>11, <3>1
  <2> QED BY <1>3, <1>4, <1>7, <1>9, <1>11, <2>1
<1>13. v = Run(w, Memory("PUSH", list))
  BY DEF LocalsTag
<1>14. Edits(w, v, q \o list, on, -Total(list)) /\ Total(list) \in Nat
  BY <1>12, <1>13, PushList
<1>15. PICK x : x = q \o list
  OBVIOUS
<1>16. PICK d : d = -Total(list)
  OBVIOUS
<1>17. Edits(w, v, x, on, d) /\ x = SlotsOf(r, EntryOf(h, Len(T))) /\ on = r.entered
  BY <1>1, <1>2, <1>10, <1>12, <1>14, <1>15, <1>16
<1>18. Done(w, v, U, h, d)
  BY <1>17, ReplaceMirror
<1> QED BY <1>14, <1>16, <1>18

\* setActive() on a stack of that shape.
LEMMA SetActiveShape ==
  ASSUME NEW w \in Work, NEW q, NEW on, LastShape(w.s, q, on), NEW b \in BOOLEAN,
         NEW v, v = [w EXCEPT !.s = SetActive(@, b)]
  PROVE  Edits(w, v, q, b, 0)
<1>1. PICK s : s = w.s
  OBVIOUS
<1>2. PICK f : f = Last(s.frames)
  OBVIOUS
<1>3. s \in Stack /\ s.frames # <<>> /\ f \in Frame /\ FrameShape(f).slots = q /\ f.active = on
  <2>1. LastShape(s, q, on)
    BY <1>1
  <2> QED BY <1>2, <2>1, LastShapeFacts
<1>4. Keeps(w, v) /\ LastBecomes(w.s, v.s, [slots |-> Last(w.s.frames).slots, active |-> b]) /\ SameSP(w, v)
  <2>1. w.s.frames # <<>>
    BY <1>1, <1>3
  <2> QED BY <2>1, SetActiveKeeps
<1>5. v \in Work
  BY <1>4, KeepsWork
<1>6. PICK g : g = [slots |-> f.slots, active |-> b]
  OBVIOUS
<1>7. g \in Frame /\ g.slots = f.slots /\ g.active = b
  BY <1>3, <1>6 DEF Frame
<1>8. FrameShape(g) = [slots |-> q, active |-> b]
  <2>1. FrameShape(g) = [slots |-> FrameShape(f).slots, active |-> b]
    BY <1>7 DEF FrameShape
  <2> QED BY <1>3, <2>1
<1>9. PICK r : r = v.s
  OBVIOUS
<1>10. LastBecomes(s, r, g)
  BY <1>1, <1>2, <1>4, <1>6, <1>9
<1>11. Beside(s, r) /\ LastShape(r, q, b)
  BY <1>3, <1>7, <1>8, <1>10, BecomesShape
<1>12. w.delta + 0 = w.delta
  BY WorkFacts
<1> QED BY <1>1, <1>4, <1>5, <1>9, <1>11, <1>12 DEF Edits, SameSP

\* CALL, into a record that has parameters.
LEMMA EnterMirror ==
  ASSUME NEW w \in Work, NEW T, NEW h, Program(T, h), T # <<>>, MirrorOf(w.s, T, h),
         ~T[Len(T)].entered, NEW v, v = Call(w, 1),
         NEW r \in Record, r.params = T[Len(T)].params, r.entered, r.locals = T[Len(T)].locals,
         NEW U, Replaces(T, U, r)
  PROVE  Done(w, v, U, h, -1)
<1>1. PICK n : n = Len(T)
  OBVIOUS
<1>2. PICK e : e = EntryOf(h, n)
  OBVIOUS
<1>3. PICK s \in Stack : s = w.s
  BY WorkFacts
<1>4. /\ LastShape(s, SlotsOf(T[n], e), T[n].entered)
      /\ T[n] \in Record /\ WellFormed(T[n]) /\ e \in Seq(Sz) /\ e # <<>>
  <2>1. MirrorOf(s, T, h)
    BY <1>3
  <2> QED BY <1>1, <1>2, <2>1, MirrorLast
<1>5. PICK p \in Seq(Sz) : p = T[n].params
  BY <1>4, SlotsFacts
<1>6. T[n].locals = <<>> /\ SlotsOf(T[n], e) = p
  BY <1>1, <1>4, <1>5, SlotsFacts DEF WellFormed
<1>7. e = <<1>>
  <2>1. ~(h /\ n = 1)
    BY <1>1 DEF Program
  <2> QED BY <1>2, <2>1 DEF EntryOf
<1>8. SlotsOf(r, e) = p \o <<1>>
  <2>1. SlotsOf(r, e) = (r.params \o e) \o r.locals
    BY <1>4, SlotsFacts
  <2>2. p \o e \in Seq(Sz)
    BY <1>4, ConcatProperties
  <2>3. (p \o e) \o <<>> = p \o e
    BY <2>2, ConcatEmptySeq
  <2> QED BY <1>1, <1>5, <1>6, <1>7, <2>1, <2>3
<1>9. p \o <<1>> = Append(p, 1)
  BY AppendIsConcat
<1>10. PICK on : on = T[n].entered
  OBVIOUS
<1>11. LastShape(w.s, p, on) /\ ~on
  BY <1>1, <1>3, <1>4, <1>6, <1>10
<1>12. ~NoFrame(w) /\ ~Last(w.s.frames).active
  <2>1. PICK f : f = Last(s.frames)
    OBVIOUS
  <2>2. LastShape(s, p, on)
    BY <1>3, <1>11
  <2>3. s.frames # <<>> /\ f.active = on
    BY <2>1, <2>2, LastShapeFacts
  <2> QED BY <1>3, <1>11, <2>1, <2>3 DEF NoFrame
<1>13. PICK u : u = [w EXCEPT !.s = SetActive(@, TRUE)]
  OBVIOUS
<1>14. v = Push(u, 1)
  BY <1>12, <1>13 DEF Call
<1>15. Edits(w, u, p, TRUE, 0)
  BY <1>11, <1>13, SetActiveShape
<1>16. u \in Work /\ LastShape(u.s, p, TRUE)
  BY <1>15 DEF Edits
<1>17. 1 \in Sz
  BY DEF Sz
<1>18. Edits(u, v, Append(p, 1), TRUE, -1)
  BY <1>14, <1>16, <1>17, PushShape
<1>19. PICK x : x = Append(p, 1)
  OBVIOUS
<1>20. PICK k \in Int : k = -1
  OBVIOUS
<1>21. PICK b : b = TRUE
  OBVIOUS
<1>22. Edits(w, u, p, b, 0) /\ Edits(u, v, x, b, k)
  BY <1>15, <1>18, <1>19, <1>20, <1>21
<1>23. Edits(w, v, x, b, 0 + k)
  BY <1>20, <1>22, EditsTwice
<1>24. 0 + k = k
  BY <1>20
<1>25. x = SlotsOf(r, EntryOf(h, Len(T))) /\ b = r.entered
  <2>1. b = r.entered
    BY <1>21 DEF Record
  <2> QED BY <1>1, <1>2, <1>8, <1>9, <1>19, <2>1
<1>26. Done(w, v, U, h, k)
  BY <1>23, <1>24, <1>25, ReplaceMirror
<1> QED BY <1>20, <1>26

\* CALL, into a frame of its own.
LEMMA CallMirror ==
  ASSUME NEW w \in Work, NEW T, NEW h, Program(T, h), T # <<>>, MirrorOf(w.s, T, h),
         T[Len(T)].entered, NEW v, v = Call(w, 1),
         NEW r \in Record, r.params = <<>>, r.entered, r.locals = <<>>,
         NEW U, Adds(T, U, r)
  PROVE  Done(w, v, U, h, -1)
<1>1. PICK n : n = Len(T)
  OBVIOUS
<1>2. PICK e : e = EntryOf(h, n)
  OBVIOUS
<1>3. PICK s \in Stack : s = w.s
  BY WorkFacts
<1>4. /\ n \in Nat \ {0} /\ Len(s.frames) = n /\ LastShape(s, SlotsOf(T[n], e), T[n].entered)
      /\ T[n] \in Record /\ WellFormed(T[n]) /\ e \in Seq(Sz) /\ e # <<>>
  <2>1. MirrorOf(s, T, h)
    BY <1>3
  <2> QED BY <1>1, <1>2, <2>1, MirrorLast
<1>5. PICK q : q = SlotsOf(T[n], e)
  OBVIOUS
<1>6. q # <<>>
  BY <1>4, <1>5, SlotsFacts
<1>7. PICK on : on = T[n].entered
  OBVIOUS
<1>8. LastShape(s, q, on) /\ on
  BY <1>1, <1>4, <1>5, <1>7
<1>9. PICK f : f = Last(s.frames)
  OBVIOUS
<1>10. s.frames # <<>> /\ f \in Frame /\ FrameShape(f).slots = q /\ f.active = on
  <2>1. LastShape(s, q, on)
    BY <1>8
  <2> QED BY <1>9, <2>1, LastShapeFacts
<1>11. f.slots # <<>>
  BY <1>6, <1>10, ShapeFacts
<1>12. PICK a : a = [w EXCEPT !.s = PushFrame(@)]
  OBVIOUS
<1>13. Keeps(w, a) /\ a.s = PushFrame(w.s) /\ SameSP(w, a)
  BY <1>12, PushFrameKeeps
<1>14. a \in Work
  BY <1>13, KeepsWork
<1>15. PICK t \in Stack : t = a.s
  BY <1>14, WorkFacts
<1>16. Grows(s, t)
  <2>1. t = PushFrame(s)
    BY <1>3, <1>13, <1>15
  <2> QED BY <1>9, <1>11, <2>1, PushFrameFacts
<1>17. Len(t.frames) = n + 1 /\ t.frames[n + 1] = EmptyFrame /\ \A i \in 1 .. n : t.frames[i] = s.frames[i]
  BY <1>4, <1>16 DEF Grows
<1>18. t.frames # <<>>
  <2>1. Len(<<>>) = 0 /\ n + 1 # 0
    BY <1>4
  <2> QED BY <1>17, <2>1
<1>19. LastShape(t, <<>>, FALSE)
  BY <1>17, <1>18, EmptyShape DEF LastShape
<1>20. Mirror(t, T, n, h)
  <2>1. Mirror(s, T, n, h) /\ n \in Nat
    BY <1>1, <1>3, <1>4 DEF MirrorOf
  <2> QED BY <1>17, <2>1, MirrorKept
<1>21. PICK u : u = [a EXCEPT !.s = SetActive(@, TRUE)]
  OBVIOUS
<1>22. v = Push(u, 1)
  <2>1. ~NoFrame(w) /\ Last(w.s.frames).active
    BY <1>3, <1>8, <1>9, <1>10 DEF NoFrame
  <2>2. [w EXCEPT !.s = SetActive(PushFrame(@), TRUE)] = u
    BY <1>12, <1>21 DEF Work
  <2> QED BY <2>1, <2>2 DEF Call
<1>23. PICK b \in BOOLEAN : b = TRUE
  OBVIOUS
<1>24. PICK o : o = <<>>
  OBVIOUS
<1>25. Edits(a, u, o, b, 0)
  <2>1. PICK off : off = FALSE
    OBVIOUS
  <2>2. LastShape(a.s, o, off)
    BY <1>15, <1>19, <1>24, <2>1
  <2>3. u = [a EXCEPT !.s = SetActive(@, b)]
    BY <1>21, <1>23
  <2> QED BY <1>14, <2>2, <2>3, SetActiveShape
<1>26. u \in Work /\ LastShape(u.s, o, b)
  BY <1>25 DEF Edits
<1>27. 1 \in Sz
  BY DEF Sz
<1>28. Edits(u, v, Append(o, 1), b, -1)
  BY <1>22, <1>26, <1>27, PushShape
<1>29. PICK x : x = Append(o, 1)
  OBVIOUS
<1>30. PICK k \in Int : k = -1
  OBVIOUS
<1>31. Edits(a, v, x, b, k)
  <2>1. Edits(u, v, x, b, k)
    BY <1>28, <1>29, <1>30
  <2>2. Edits(a, v, x, b, 0 + k)
    BY <1>14, <1>25, <1>30, <2>1, EditsTwice
  <2> QED BY <1>30, <2>2
<1>32. x = SlotsOf(r, EntryOf(h, n + 1)) /\ b = r.entered
  <2>1. EntryOf(h, n + 1) = <<1>>
    BY <1>4 DEF EntryOf
  <2>2. <<1>> \in Seq(Sz) /\ <<1>> # <<>>
    BY ContextFacts
  <2>3. SlotsOf(r, <<1>>) = (<<>> \o <<1>>) \o <<>>
    BY <2>2, SlotsFacts
  <2>4. (<<>> \o <<1>>) \o <<>> = <<1>>
    BY <2>2, ConcatEmptySeq
  <2>5. x = <<1>>
    BY <1>24, <1>29
  <2>6. b = r.entered
    BY <1>23 DEF Record
  <2> QED BY <2>1, <2>3, <2>4, <2>5, <2>6
<1>33. Len(a.s.frames) = n + 1 /\ Mirror(a.s, T, n, h)
  BY <1>15, <1>17, <1>20
<1>34. MirrorOf(v.s, U, h)
  BY <1>1, <1>31, <1>32, <1>33, AddMirror
<1>35. v \in Work /\ v.broken = a.broken /\ v.delta = a.delta + k
  BY <1>31 DEF Edits
<1> QED BY <1>13, <1>30, <1>34, <1>35 DEF Done, SameSP

-----------------------------------------------------------------------------
(* The release of slots.                                                   *)

\* A list ends with each of its suffixes.
LEMMA SuffixSplits ==
  ASSUME NEW list \in Seq(Sz), NEW l \in Seq(Sz), IsSuffix(list, l),
         NEW k, k = SubSeq(l, 1, Len(l) - Len(list))
  PROVE  k \in Seq(Sz) /\ l = k \o list /\ Len(list) <= Len(l)
<1>1. PICK m \in Nat : m = Len(list)
  OBVIOUS
<1>2. PICK n \in Nat : n = Len(l)
  OBVIOUS
<1>3. PICK a \in Seq(Sz) : a = Reverse(list)
  BY ReverseFacts
<1>4. PICK b \in Seq(Sz) : b = Reverse(l)
  BY ReverseFacts
<1>5. Len(a) = m /\ \A i \in 1 .. m : a[i] = list[m - i + 1]
  BY <1>1, <1>3, ReverseFacts
<1>6. Len(b) = n /\ \A i \in 1 .. n : b[i] = l[n - i + 1]
  BY <1>2, <1>4, ReverseFacts
<1>7. m <= n /\ SubSeq(a, 1, m) = SubSeq(b, 1, m)
  BY <1>3, <1>4, <1>5, <1>6 DEF IsSuffix, IsPrefix
<1>8. \A i \in 1 .. m : a[i] = b[i]
  <2>1. PICK c : c = SubSeq(a, 1, m)
    OBVIOUS
  <2>2. \A i \in 1 .. m : c[i] = a[i]
    BY <1>5, <2>1, PrefixFacts
  <2>3. c = SubSeq(b, 1, m)
    BY <1>7, <2>1
  <2>4. \A i \in 1 .. m : c[i] = b[i]
    BY <1>6, <1>7, <2>3, PrefixFacts
  <2> QED BY <2>2, <2>4
<1>9. PICK d \in Nat : d = n - m
  BY <1>7
<1>10. k \in Seq(Sz) /\ Len(k) = d /\ \A i \in 1 .. d : k[i] = l[i]
  <2>1. k = SubSeq(l, 1, d) /\ d <= Len(l)
    BY <1>1, <1>2, <1>9
  <2> QED BY <2>1, PrefixFacts
<1>11. PICK j : j = k \o list
  OBVIOUS
<1>12. j \in Seq(Sz) /\ Len(j) = d + m /\ \A i \in 1 .. d + m : j[i] = IF i <= d THEN k[i] ELSE list[i - d]
  <2>1. k \in Seq(Sz) /\ Len(k) = d
    BY <1>10
  <2>2. j \in Seq(Sz) /\ Len(j) = Len(k) + Len(list)
        /\ \A i \in 1 .. Len(k) + Len(list) : j[i] = IF i <= Len(k) THEN k[i] ELSE list[i - Len(k)]
    BY <1>11, <2>1, ConcatFacts
  <2> QED BY <1>1, <2>1, <2>2
<1>13. ASSUME NEW i \in 1 .. n PROVE j[i] = l[i]
  <2>1. i \in 1 .. d + m
    BY <1>9
  <2>2. CASE i <= d
    <3>1. j[i] = k[i]
      BY <1>12, <2>1, <2>2
    <3>2. i \in 1 .. d
      BY <1>9, <2>2
    <3>3. k[i] = l[i]
      BY <1>10, <3>2
    <3> QED BY <3>1, <3>3
  <2>3. CASE ~(i <= d)
    <3>1. PICK x \in 1 .. m : x = i - d
      BY <1>9, <2>3
    <3>2. PICK y \in 1 .. m : y = m - x + 1
      BY <3>1
    <3>3. m - y + 1 = x /\ n - y + 1 = i /\ y \in 1 .. n
      BY <1>7, <1>9, <3>1, <3>2
    <3>4. a[y] = list[x]
      BY <1>5, <3>3
    <3>5. b[y] = l[i]
      BY <1>6, <3>3
    <3>6. j[i] = list[x]
      BY <1>12, <2>1, <2>3, <3>1
    <3> QED BY <1>8, <3>4, <3>5, <3>6
  <2> QED BY <2>2, <2>3
<1>14. j = l
  <2>1. Len(j) = n
    BY <1>7, <1>9, <1>12
  <2> QED BY <1>2, <1>12, <1>13, <2>1, SeqEqual
<1> QED BY <1>1, <1>2, <1>7, <1>10, <1>11, <1>14

\* The commands of a release: pops, then removeFrame().
LEMMA ReleaseRun ==
  ASSUME NEW w \in Work, NEW list \in Seq(Sz), NEW u, u = Run(w, Memory("POP", Reverse(list)))
  PROVE  Run(w, ReleaseTag(Reverse(list))) = RemoveFrame(u)
<1>1. PICK a : a = Memory("POP", Reverse(list))
  OBVIOUS
<1>2. a \in Seq(TraceCommand)
  <2>1. Reverse(list) \in Seq(Sz)
    BY ReverseFacts
  <2> QED BY <1>1, <2>1, MemoryFacts
<1>3. PICK b : b = Plain("REMOVE_FRAME")
  OBVIOUS
<1>4. PICK c : c = [op |-> "REMOVE_FRAME", size |-> 0]
  OBVIOUS
<1>5. b \in Seq(TraceCommand) /\ b = <<c>>
  BY <1>3, <1>4, PlainFacts
<1>6. ReleaseTag(Reverse(list)) = a \o b
  BY <1>1, <1>3 DEF ReleaseTag
<1>7. Run(w, a \o b) = Run(Run(w, a), b)
  <2>1. b \in Seq(TraceCommand)
    BY <1>5
  <2> QED BY <1>2, <2>1, RunConcat
<1>8. Run(w, a) = u
  BY <1>1
<1>9. Run(u, b) = ExecuteCommand(u, c)
  BY <1>5, RunOne
<1>10. ExecuteCommand(u, c) = RemoveFrame(u)
  BY <1>4 DEF ExecuteCommand
<1> QED BY <1>6, <1>7, <1>8, <1>9, <1>10

\* removeFrame() keeps a frame that has slots.
LEMMA RemoveShape ==
  ASSUME NEW w \in Work, NEW q, NEW on, LastShape(w.s, q, on), NEW v, v = RemoveFrame(w)
  PROVE  IF q = <<>> THEN v \in Work /\ Shrinks(w.s, v.s) /\ SameSP(w, v) ELSE v = w
<1>1. PICK s : s = w.s
  OBVIOUS
<1>2. PICK f : f = Last(s.frames)
  OBVIOUS
<1>3. s \in Stack /\ s.frames # <<>> /\ f \in Frame /\ FrameShape(f).slots = q
  <2>1. LastShape(s, q, on)
    BY <1>1
  <2> QED BY <1>2, <2>1, LastShapeFacts
<1>4. q = <<>> <=> f.slots = <<>>
  BY <1>3, ShapeFacts
<1>5. ~NoFrame(w)
  BY <1>1, <1>3 DEF NoFrame
<1>6. CASE q = <<>>
  <2>1. v = [w EXCEPT !.s = PopFrame(@)]
    BY <1>1, <1>2, <1>4, <1>5, <1>6 DEF RemoveFrame
  <2>2. w.s.frames # <<>> /\ Last(w.s.frames).slots = <<>>
    BY <1>1, <1>2, <1>3, <1>4, <1>6
  <2>3. Keeps(w, v) /\ Shrinks(w.s, v.s) /\ SameSP(w, v)
    BY <2>1, <2>2, PopFrameKeeps
  <2>4. v \in Work
    BY <2>3, KeepsWork
  <2> QED BY <1>6, <2>3, <2>4
<1>7. CASE q # <<>>
  <2>1. v = w
    BY <1>1, <1>2, <1>4, <1>5, <1>7 DEF RemoveFrame
  <2> QED BY <1>7, <2>1
<1> QED BY <1>6, <1>7

\* Record r is t without the locals of a list.
Unwinds(t, r, list) ==
  /\ r.params = t.params /\ r.entered = t.entered
  /\ IsSuffix(list, t.locals) /\ r.locals = SubSeq(t.locals, 1, Len(t.locals) - Len(list))

FourLists(p, e, k, c) == p \in Seq(Sz) /\ e \in Seq(Sz) /\ k \in Seq(Sz) /\ c \in Seq(Sz)

\* Concatenation is associative.
LEMMA ConcatFour ==
  ASSUME NEW p, NEW e, NEW k, NEW c, FourLists(p, e, k, c)
  PROVE  (p \o e) \o (k \o c) = ((p \o e) \o k) \o c
<1> p \in Seq(Sz) /\ e \in Seq(Sz) /\ k \in Seq(Sz) /\ c \in Seq(Sz)
  BY DEF FourLists
<1>1. PICK a \in Seq(Sz) : a = p \o e
  BY ConcatProperties
<1>2. (a \o k) \o c = a \o (k \o c)
  <2>1. a \in Seq(Sz) /\ k \in Seq(Sz) /\ c \in Seq(Sz)
    OBVIOUS
  <2> QED BY ONLY <2>1, ConcatAssociative
<1> QED BY <1>1, <1>2

\* The slots of both, with those of the entry.
Unwound(t, r, list, e) ==
  /\ t.entered /\ r.entered = t.entered
  /\ SlotsOf(r, e) \in Seq(Sz) /\ SlotsOf(r, e) # <<>> /\ SlotsOf(t, e) = SlotsOf(r, e) \o list

\* The slots of a record without the last of its locals.
LEMMA UnwindSlots ==
  ASSUME NEW t \in Record, WellFormed(t), NEW r \in Record, NEW list \in Seq(Sz), Len(list) > 0,
         Unwinds(t, r, list), NEW e \in Seq(Sz), e # <<>>
  PROVE  Unwound(t, r, list, e)
<1>1. PICK p \in Seq(Sz) : p = t.params
  BY SlotsFacts
<1>2. PICK l \in Seq(Sz) : l = t.locals
  BY SlotsFacts
<1>3. PICK k : k = SubSeq(l, 1, Len(l) - Len(list))
  OBVIOUS
<1>4. k \in Seq(Sz) /\ l = k \o list /\ Len(list) <= Len(l)
  <2>1. IsSuffix(list, l)
    BY <1>2 DEF Unwinds
  <2> QED BY <1>3, <2>1, SuffixSplits
<1>5. t.entered
  <2>1. SUFFICES ASSUME ~t.entered PROVE FALSE
    OBVIOUS
  <2>2. l = <<>>
    BY <1>2, <2>1 DEF WellFormed
  <2>3. Len(l) = 0
    BY <2>2
  <2> QED BY <1>4, <2>3
<1>6. r.entered /\ r.params = p /\ r.locals = k
  BY <1>1, <1>2, <1>3, <1>5 DEF Unwinds
<1>7. SlotsOf(t, e) = (p \o e) \o (k \o list)
  <2>1. SlotsOf(t, e) = (t.params \o e) \o t.locals
    BY <1>5, SlotsFacts
  <2> QED BY <1>1, <1>2, <1>4, <2>1
<1>8. SlotsOf(r, e) = (p \o e) \o k
  <2>1. SlotsOf(r, e) = (r.params \o e) \o r.locals
    BY <1>6, SlotsFacts
  <2> QED BY <1>6, <2>1
<1>9. SlotsOf(r, e) \in Seq(Sz) /\ SlotsOf(r, e) # <<>>
  BY <1>6, SlotsFacts DEF WellFormed
<1>10. (p \o e) \o (k \o list) = ((p \o e) \o k) \o list
  <2>1. FourLists(p, e, k, list)
    BY <1>4 DEF FourLists
  <2> QED BY <2>1, ConcatFour
<1>11. SlotsOf(t, e) = SlotsOf(r, e) \o list
  BY <1>7, <1>8, <1>10
<1>12. r.entered = t.entered
  BY DEF Unwinds
<1> QED BY <1>5, <1>9, <1>11, <1>12 DEF Unwound

\* @locals, released.
LEMMA ReleaseMirror ==
  ASSUME NEW w \in Work, NEW T, NEW h, Program(T, h), T # <<>>, MirrorOf(w.s, T, h),
         NEW list \in Seq(Sz), Len(list) > 0, NEW v, v = Run(w, ReleaseTag(Reverse(list))),
         NEW r \in Record, Unwinds(T[Len(T)], r, list), NEW U, Replaces(T, U, r)
  PROVE  Done(w, v, U, h, Total(list)) /\ Total(list) \in Nat /\ T[Len(T)].entered
<1>1. PICK n : n = Len(T)
  OBVIOUS
<1>2. PICK e : e = EntryOf(h, n)
  OBVIOUS
<1>3. PICK s \in Stack : s = w.s
  BY WorkFacts
<1>4. /\ LastShape(s, SlotsOf(T[n], e), T[n].entered)
      /\ T[n] \in Record /\ WellFormed(T[n]) /\ e \in Seq(Sz) /\ e # <<>>
  <2>1. MirrorOf(s, T, h)
    BY <1>3
  <2> QED BY <1>1, <1>2, <2>1, MirrorLast
<1>5. PICK t \in Record : t = T[n]
  BY <1>4
<1>6. PICK q : q = SlotsOf(r, e)
  OBVIOUS
<1>7. t.entered /\ r.entered = t.entered /\ q \in Seq(Sz) /\ q # <<>> /\ SlotsOf(t, e) = q \o list
  <2>1. Unwinds(t, r, list) /\ WellFormed(t)
    BY <1>1, <1>4, <1>5
  <2>2. PICK c \in Seq(Sz) : c = e /\ c # <<>>
    BY <1>4
  <2>3. Unwound(t, r, list, c)
    BY <2>1, <2>2, UnwindSlots
  <2> QED BY <1>6, <2>2, <2>3 DEF Unwound
<1>16. PICK on : on = T[n].entered
  OBVIOUS
<1>17. LastShape(w.s, q \o list, on)
  BY <1>3, <1>4, <1>5, <1>7, <1>16
<1>18. PICK u : u = Run(w, Memory("POP", Reverse(list)))
  OBVIOUS
<1>19. Edits(w, u, q, on, Total(list)) /\ Total(list) \in Nat
  BY <1>7, <1>17, <1>18, PopList
<1>20. v = u
  <2>1. v = RemoveFrame(u)
    BY <1>18, ReleaseRun
  <2>2. u \in Work /\ LastShape(u.s, q, on)
    BY <1>19 DEF Edits
  <2> QED BY <1>7, <2>1, <2>2, RemoveShape
<1>21. PICK d : d = Total(list)
  OBVIOUS
<1>22. Edits(w, v, q, on, d) /\ q = SlotsOf(r, EntryOf(h, Len(T))) /\ on = r.entered
  BY <1>1, <1>2, <1>5, <1>6, <1>7, <1>16, <1>19, <1>20, <1>21
<1>23. Done(w, v, U, h, d)
  BY <1>22, ReplaceMirror
<1> QED BY <1>1, <1>5, <1>7, <1>19, <1>21, <1>23

\* @params, released.
LEMMA UnparamsMirror ==
  ASSUME NEW w \in Work, NEW T, NEW h, Program(T, h), T # <<>>, MirrorOf(w.s, T, h),
         ~T[Len(T)].entered, NEW list, list = T[Len(T)].params,
         NEW v, v = Run(w, ReleaseTag(Reverse(list))),
         NEW U, Program(U, h), Drops(T, U)
  PROVE  Done(w, v, U, h, Total(list)) /\ Total(list) \in Nat
<1>1. PICK n : n = Len(T)
  OBVIOUS
<1>2. PICK e : e = EntryOf(h, n)
  OBVIOUS
<1>3. PICK s \in Stack : s = w.s
  BY WorkFacts
<1>4. /\ LastShape(s, SlotsOf(T[n], e), T[n].entered)
      /\ T[n] \in Record /\ WellFormed(T[n]) /\ e \in Seq(Sz) /\ e # <<>>
  <2>1. MirrorOf(s, T, h)
    BY <1>3
  <2> QED BY <1>1, <1>2, <2>1, MirrorLast
<1>5. list \in Seq(Sz) /\ SlotsOf(T[n], e) = list
  BY <1>1, <1>4, SlotsFacts
<1>6. PICK on : on = T[n].entered
  OBVIOUS
<1>7. PICK o : o = <<>>
  OBVIOUS
<1>8. o \in Seq(Sz) /\ o \o list = list
  BY <1>5, <1>7, ConcatEmptySeq
<1>9. LastShape(w.s, o \o list, on)
  BY <1>3, <1>4, <1>5, <1>6, <1>8
<1>10. PICK u : u = Run(w, Memory("POP", Reverse(list)))
  OBVIOUS
<1>11. Edits(w, u, o, on, Total(list)) /\ Total(list) \in Nat
  BY <1>5, <1>8, <1>9, <1>10, PopList
<1>12. v = RemoveFrame(u)
  BY <1>5, <1>10, ReleaseRun
<1>13. v \in Work /\ Shrinks(u.s, v.s) /\ SameSP(u, v)
  <2>1. u \in Work /\ LastShape(u.s, o, on)
    BY <1>11 DEF Edits
  <2> QED BY <1>7, <1>12, <2>1, RemoveShape
<1>14. PICK d : d = Total(list)
  OBVIOUS
<1>15. Edits(w, u, <<>>, on, d)
  BY <1>7, <1>11, <1>14
<1>16. Done(w, v, U, h, d)
  BY <1>13, <1>15, DropMirror
<1> QED BY <1>11, <1>14, <1>16

\* RET takes the return address from the frame of the last record.
Returns(T, h) ==
  /\ T # <<>> /\ T[Len(T)].entered /\ T[Len(T)].locals = <<>> /\ ~(h /\ Len(T) = 1)

\* A return pops the return address.
LEMMA ReturnPops ==
  ASSUME NEW w \in Work, NEW T, NEW h, Program(T, h), Returns(T, h), MirrorOf(w.s, T, h),
         NEW u, u = Pop(w, 1), NEW p, p = T[Len(T)].params
  PROVE  p \in Seq(Sz) /\ Edits(w, u, p, TRUE, 1)
<1>1. PICK n : n = Len(T)
  OBVIOUS
<1>2. PICK e : e = EntryOf(h, n)
  OBVIOUS
<1>3. PICK s \in Stack : s = w.s
  BY WorkFacts
<1>4. /\ LastShape(s, SlotsOf(T[n], e), T[n].entered)
      /\ T[n] \in Record /\ WellFormed(T[n]) /\ e \in Seq(Sz) /\ e # <<>>
  <2>1. MirrorOf(s, T, h) /\ T # <<>>
    BY <1>3 DEF Returns
  <2> QED BY <1>1, <1>2, <2>1, MirrorLast
<1>5. p \in Seq(Sz)
  BY <1>1, <1>4, SlotsFacts
<1>6. e = <<1>>
  BY <1>1, <1>2 DEF EntryOf, Returns
<1>7. SlotsOf(T[n], e) = Append(p, 1)
  <2>1. SlotsOf(T[n], e) = (T[n].params \o e) \o T[n].locals
    BY <1>1, <1>4, SlotsFacts DEF Returns
  <2>2. p \o e \in Seq(Sz)
    BY <1>4, <1>5, ConcatProperties
  <2>3. (p \o e) \o <<>> = p \o e
    BY <2>2, ConcatEmptySeq
  <2>4. p \o <<1>> = Append(p, 1)
    BY <1>5, AppendIsConcat
  <2> QED BY <1>1, <1>6, <2>1, <2>3, <2>4 DEF Returns
<1>8. T[n].entered = TRUE
  BY <1>1, <1>4 DEF Returns, Record
<1>9. PICK on : on = TRUE
  OBVIOUS
<1>10. LastShape(w.s, Append(p, 1), on)
  BY <1>3, <1>4, <1>7, <1>8, <1>9
<1>11. 1 \in Sz
  BY DEF Sz
<1>12. Edits(w, u, p, on, 1)
  BY <1>5, <1>10, <1>11, PopShape
<1> QED BY <1>5, <1>9, <1>12

\* RET, from a routine without parameters.
LEMMA ReturnDrops ==
  ASSUME NEW w \in Work, NEW T, NEW h, Program(T, h), Returns(T, h), MirrorOf(w.s, T, h),
         T[Len(T)].params = <<>>, NEW v, v = Ret(w, 1), NEW U, Program(U, h), Drops(T, U)
  PROVE  Done(w, v, U, h, 1)
<1>1. PICK u : u = Pop(w, 1)
  OBVIOUS
<1>2. PICK p : p = T[Len(T)].params
  OBVIOUS
<1>3. p \in Seq(Sz) /\ Edits(w, u, p, TRUE, 1)
  BY <1>1, <1>2, ReturnPops
<1>4. PICK on : on = TRUE
  OBVIOUS
<1>5. Edits(w, u, <<>>, on, 1)
  BY <1>2, <1>3, <1>4
<1>6. u \in Work /\ LastShape(u.s, <<>>, on)
  BY <1>5 DEF Edits
<1>7. PICK s : s = u.s
  OBVIOUS
<1>8. PICK f : f = Last(s.frames)
  OBVIOUS
<1>9. s \in Stack /\ s.frames # <<>> /\ f \in Frame /\ FrameShape(f).slots = <<>>
  <2>1. LastShape(s, <<>>, on)
    BY <1>6, <1>7
  <2> QED BY <1>8, <2>1, LastShapeFacts
<1>10. f.slots = <<>>
  BY <1>9, ShapeFacts
<1>11. u.s.frames # <<>> /\ Last(u.s.frames).slots = <<>>
  BY <1>7, <1>8, <1>9, <1>10
<1>12. v = [u EXCEPT !.s = PopFrame(@)]
  BY <1>1, <1>11 DEF Ret, NoFrame
<1>13. Keeps(u, v) /\ Shrinks(u.s, v.s) /\ SameSP(u, v)
  BY <1>6, <1>11, <1>12, PopFrameKeeps
<1>14. v \in Work
  BY <1>13, KeepsWork
<1>15. T # <<>>
  BY DEF Returns
<1> QED BY <1>5, <1>13, <1>14, <1>15, DropMirror

\* RET, to a caller that has parameters to release.
LEMMA ReturnLeaves ==
  ASSUME NEW w \in Work, NEW T, NEW h, Program(T, h), Returns(T, h), MirrorOf(w.s, T, h),
         T[Len(T)].params # <<>>, NEW v, v = Ret(w, 1),
         NEW r \in Record, r.params = T[Len(T)].params, ~r.entered, r.locals = <<>>,
         NEW U, Replaces(T, U, r)
  PROVE  Done(w, v, U, h, 1)
<1>1. PICK u : u = Pop(w, 1)
  OBVIOUS
<1>2. PICK p : p = T[Len(T)].params
  OBVIOUS
<1>3. p \in Seq(Sz) /\ Edits(w, u, p, TRUE, 1)
  BY <1>1, <1>2, ReturnPops
<1>4. u \in Work /\ LastShape(u.s, p, TRUE)
  BY <1>3 DEF Edits
<1>5. PICK s : s = u.s
  OBVIOUS
<1>6. PICK f : f = Last(s.frames)
  OBVIOUS
<1>7. PICK on : on = TRUE
  OBVIOUS
<1>8. s \in Stack /\ s.frames # <<>> /\ f \in Frame /\ FrameShape(f).slots = p
  <2>1. LastShape(s, p, on)
    BY <1>4, <1>5, <1>7
  <2> QED BY <1>6, <2>1, LastShapeFacts
<1>9. f.slots # <<>>
  BY <1>2, <1>8, ShapeFacts
<1>10. v = [u EXCEPT !.s = SetActive(@, FALSE)]
  BY <1>1, <1>5, <1>6, <1>8, <1>9 DEF Ret, NoFrame
<1>11. PICK off \in BOOLEAN : off = FALSE
  OBVIOUS
<1>12. Edits(u, v, p, off, 0)
  <2>1. v = [u EXCEPT !.s = SetActive(@, off)]
    BY <1>10, <1>11
  <2>2. LastShape(u.s, p, on)
    BY <1>4, <1>7
  <2> QED BY <1>4, <2>1, <2>2, SetActiveShape
<1>13. PICK k \in Int : k = 1
  OBVIOUS
<1>14. PICK z \in Int : z = 0
  OBVIOUS
<1>15. Edits(w, u, p, on, k) /\ Edits(u, v, p, off, z)
  BY <1>3, <1>7, <1>12, <1>13, <1>14
<1>16. Edits(w, v, p, off, k + z)
  BY <1>15, EditsTwice
<1>17. k + z = k
  BY <1>14
<1>18. p = SlotsOf(r, EntryOf(h, Len(T))) /\ off = r.entered
  <2>1. PICK e : e = EntryOf(h, Len(T))
    OBVIOUS
  <2>2. e \in Seq(Sz) /\ e # <<>>
    BY <2>1, EntryFacts
  <2>3. WellFormed(r)
    BY DEF WellFormed
  <2>4. SlotsOf(r, e) = p
    BY <1>2, <2>2, <2>3, SlotsFacts
  <2>5. off = r.entered
    BY <1>11 DEF Record
  <2> QED BY <2>1, <2>4, <2>5
<1>19. T # <<>>
  BY DEF Returns
<1>20. Done(w, v, U, h, k)
  BY <1>16, <1>17, <1>18, <1>19, ReplaceMirror
<1> QED BY <1>13, <1>20

\* Commands with one before and one after.
Framed(a, ca, b, c, cc) ==
  a \in Seq(TraceCommand) /\ a = <<ca>> /\ b \in Seq(TraceCommand) /\ c \in Seq(TraceCommand) /\ c = <<cc>>

\* A command, a list of commands and another command.
LEMMA RunFramed ==
  ASSUME NEW w, NEW a, NEW ca, NEW b, NEW c, NEW cc, Framed(a, ca, b, c, cc)
  PROVE  Run(w, (a \o b) \o c) = ExecuteCommand(Run(ExecuteCommand(w, ca), b), cc)
<1> a \in Seq(TraceCommand) /\ b \in Seq(TraceCommand) /\ c \in Seq(TraceCommand)
  BY DEF Framed
<1>1. PICK d \in Seq(TraceCommand) : d = a \o b
  BY ConcatProperties
<1>2. Run(w, d \o c) = Run(Run(w, d), c)
  BY RunConcat
<1>3. Run(w, a \o b) = Run(Run(w, a), b)
  BY RunConcat
<1>4. Run(w, a) = ExecuteCommand(w, ca)
  BY RunOne DEF Framed
<1>5. PICK y : y = Run(w, d)
  OBVIOUS
<1>6. Run(y, c) = ExecuteCommand(y, cc)
  BY RunOne DEF Framed
<1> QED BY <1>1, <1>2, <1>3, <1>4, <1>5, <1>6

\* What a trap does to a stack that holds nothing.

\* The commands of a trap make the frame of the handler.
LEMMA TrapMirror ==
  ASSUME NEW w \in Work, w.s.base # 0, Blank(w.s.frames), NEW v, v = Run(w, Default("TRAP")),
         NEW r \in Record, r = [params |-> <<>>, entered |-> TRUE, locals |-> <<>>],
         NEW U, U = <<r>>
  PROVE  Done(w, v, U, TRUE, -ContextSize)
<1>1. PICK T : T = <<>>
  OBVIOUS
<1>2. Program(T, FALSE) /\ MirrorOf(w.s, T, FALSE)
  BY <1>1 DEF Program, MirrorOf
<1>3. PICK off : off = FALSE
  OBVIOUS
<1>4. PICK x : x = AddFrame(w)
  OBVIOUS
<1>5. x \in Work /\ SameSP(w, x) /\ Len(x.s.frames) = Len(T) + 1 /\ LastShape(x.s, <<>>, off)
  BY <1>2, <1>3, <1>4, AddFrameMirror
<1>6. PICK a : a = Plain("ADD_FRAME")
  OBVIOUS
<1>7. PICK b : b = Memory("PUSH", Context)
  OBVIOUS
<1>8. PICK c : c = Plain("ACTIVE")
  OBVIOUS
<1>9. PICK ca : ca = [op |-> "ADD_FRAME", size |-> 0]
  OBVIOUS
<1>10. PICK cc : cc = [op |-> "ACTIVE", size |-> 0]
  OBVIOUS
<1>11. a \in Seq(TraceCommand) /\ a = <<ca>>
  BY <1>6, <1>9, PlainFacts
<1>12. b \in Seq(TraceCommand)
  BY <1>7, ContextFacts, MemoryFacts
<1>13. c \in Seq(TraceCommand) /\ c = <<cc>>
  BY <1>8, <1>10, PlainFacts
<1>14. Default("TRAP") = (a \o b) \o c
  BY <1>6, <1>7, <1>8 DEF Default
<1>15. PICK y : y = Run(x, b)
  OBVIOUS
<1>16. v = ExecuteCommand(y, cc)
  <2>1. ExecuteCommand(w, ca) = x
    BY <1>4, <1>9 DEF ExecuteCommand
  <2>2. Framed(a, ca, b, c, cc)
    BY <1>11, <1>12, <1>13 DEF Framed
  <2>3. v = Run(w, (a \o b) \o c)
    BY <1>14
  <2>4. v = ExecuteCommand(Run(ExecuteCommand(w, ca), b), cc)
    BY <2>2, <2>3, RunFramed
  <2> QED BY <1>15, <2>1, <2>4
<1>17. Edits(x, y, <<>> \o Context, off, -Total(Context))
  <2>1. <<>> \in Seq(Sz)
    OBVIOUS
  <2> QED BY <1>5, <1>7, <1>15, <2>1, ContextFacts, PushList
<1>18. PICK q : q = Context
  OBVIOUS
<1>19. PICK d \in Int : d = -ContextSize
  BY TracerAssumption
<1>20. Edits(x, y, q, off, d)
  <2>1. <<>> \o Context = Context
    BY ContextFacts, ConcatEmptySeq
  <2> QED BY <1>17, <1>18, <1>19, <2>1, ContextFacts
<1>21. y \in Work /\ LastShape(y.s, q, off)
  BY <1>20 DEF Edits
<1>22. PICK on \in BOOLEAN : on = TRUE
  OBVIOUS
<1>23. v = [y EXCEPT !.s = SetActive(@, on)]
  <2>1. ExecuteCommand(y, cc) = MarkActive(y, TRUE)
    BY <1>10 DEF ExecuteCommand
  <2>2. PICK s : s = y.s
    OBVIOUS
  <2>3. PICK f : f = Last(s.frames)
    OBVIOUS
  <2>4. s.frames # <<>>
    <3>1. LastShape(s, q, off)
      BY <1>21, <2>2
    <3> QED BY <2>3, <3>1, LastShapeFacts
  <2> QED BY <1>16, <1>22, <2>1, <2>2, <2>4 DEF MarkActive, NoFrame
<1>24. PICK z \in Int : z = 0
  OBVIOUS
<1>25. Edits(y, v, q, on, z)
  BY <1>21, <1>23, <1>24, SetActiveShape
<1>26. Edits(x, v, q, on, d)
  <2>1. Edits(x, v, q, on, d + z)
    BY <1>5, <1>20, <1>25, EditsTwice
  <2> QED BY <1>24, <2>1
<1>27. v \in Work /\ v.broken = x.broken /\ v.delta = x.delta + d /\ Beside(x.s, v.s) /\ LastShape(v.s, q, on)
  BY <1>26 DEF Edits
<1>28. PICK s : s = v.s
  OBVIOUS
<1>29. Len(s.frames) = 1
  <2>1. Len(T) = 0
    BY <1>1
  <2> QED BY <1>5, <1>27, <1>28, <2>1 DEF Beside
<1>30. MirrorOf(s, U, TRUE)
  <2>1. Len(U) = 1 /\ U[1] = r
    OBVIOUS
  <2>2. q = SlotsOf(U[1], EntryOf(TRUE, 1))
    <3>1. PICK e : e = EntryOf(TRUE, 1)
      OBVIOUS
    <3>2. e = Context /\ e \in Seq(Sz) /\ e # <<>>
      BY <3>1, ContextFacts DEF EntryOf
    <3>3. SlotsOf(r, e) = (<<>> \o e) \o <<>>
      BY <3>2, SlotsFacts
    <3>4. (<<>> \o e) \o <<>> = e
      BY <3>2, ConcatEmptySeq
    <3> QED BY <1>18, <2>1, <3>1, <3>2, <3>3, <3>4
  <2>3. on = U[1].entered
    BY <1>22, <2>1
  <2>4. Mirror(s, U, 0, TRUE)
    BY DEF Mirror
  <2>5. PICK n \in Nat \ {0} : n = 1
    OBVIOUS
  <2>6. PICK h : h = TRUE
    OBVIOUS
  <2>7. n = Len(U) /\ Len(s.frames) = n /\ Mirror(s, U, n - 1, h)
    <3>1. n - 1 = 0
      BY <2>5
    <3>2. Mirror(s, U, n - 1, h)
      BY <2>4, <2>6, <3>1
    <3>3. n = Len(U)
      BY <2>1, <2>5
    <3> QED BY <1>29, <2>5, <3>2, <3>3
  <2>8. LastShape(s, q, on) /\ q = SlotsOf(U[n], EntryOf(h, n)) /\ on = U[n].entered
    BY <1>27, <1>28, <2>2, <2>3, <2>5, <2>6
  <2>9. MirrorOf(s, U, h)
    BY <2>7, <2>8, MirrorMade
  <2> QED BY <2>6, <2>9
<1> QED BY <1>5, <1>19, <1>27, <1>28, <1>30 DEF Done, SameSP

\* Only the context of a trap.
Bare(T) == Len(T) = 1 /\ T[1].locals = <<>>

\* The return from a trap, when the handler holds nothing more.
LEMMA TrapReturnMirror ==
  ASSUME NEW w \in Work, NEW T, NEW h, h, Program(T, h), Bare(T),
         MirrorOf(w.s, T, h), NEW v, v = Run(w, Default("TRAPRET"))
  PROVE  v \in Work /\ v.broken = w.broken /\ v.delta = w.delta + ContextSize /\ v.s.frames = <<>>
<1>2. PICK n : n = Len(T)
  OBVIOUS
<1>3. PICK e : e = EntryOf(h, n)
  OBVIOUS
<1>4. PICK s \in Stack : s = w.s
  BY WorkFacts
<1>5. /\ Len(s.frames) = n /\ LastShape(s, SlotsOf(T[n], e), T[n].entered)
      /\ T[n] \in Record /\ e \in Seq(Sz) /\ e # <<>>
  <2>1. MirrorOf(s, T, h) /\ T # <<>>
    BY <1>4 DEF Program
  <2> QED BY <1>2, <1>3, <2>1, MirrorLast
<1>6. T[n].params = <<>> /\ T[n].entered /\ T[n].locals = <<>>
  BY <1>2 DEF Program, Bare
<1>7. e = Context
  BY <1>2, <1>3 DEF EntryOf, Bare
<1>8. SlotsOf(T[n], e) = e
  <2>1. SlotsOf(T[n], e) = (<<>> \o e) \o <<>>
    BY <1>5, <1>6, SlotsFacts
  <2>2. (<<>> \o e) \o <<>> = e
    BY <1>5, ConcatEmptySeq
  <2> QED BY <2>1, <2>2
<1>9. PICK on : on = T[n].entered
  OBVIOUS
<1>10. LastShape(w.s, e, on)
  BY <1>4, <1>5, <1>8, <1>9
<1>11. PICK b : b = Memory("POP", Context)
  OBVIOUS
<1>12. PICK ca : ca = [op |-> "INACTIVE", size |-> 0]
  OBVIOUS
<1>13. PICK cc : cc = [op |-> "REMOVE_FRAME", size |-> 0]
  OBVIOUS
<1>14. PICK a : a = Plain("INACTIVE")
  OBVIOUS
<1>15. PICK c : c = Plain("REMOVE_FRAME")
  OBVIOUS
<1>16. Framed(a, ca, b, c, cc)
  <2>1. a \in Seq(TraceCommand) /\ a = <<ca>>
    BY <1>12, <1>14, PlainFacts
  <2>2. b \in Seq(TraceCommand)
    BY <1>11, ContextFacts, MemoryFacts
  <2>3. c \in Seq(TraceCommand) /\ c = <<cc>>
    BY <1>13, <1>15, PlainFacts
  <2> QED BY <2>1, <2>2, <2>3 DEF Framed
<1>17. PICK x : x = ExecuteCommand(w, ca)
  OBVIOUS
<1>18. PICK y : y = Run(x, b)
  OBVIOUS
<1>19. v = RemoveFrame(y)
  <2>1. Default("TRAPRET") = (a \o b) \o c
    BY <1>11, <1>14, <1>15 DEF Default
  <2>2. v = Run(w, (a \o b) \o c)
    BY <2>1
  <2>3. v = ExecuteCommand(y, cc)
    BY <1>16, <1>17, <1>18, <2>2, RunFramed
  <2>4. ExecuteCommand(y, cc) = RemoveFrame(y)
    BY <1>13 DEF ExecuteCommand
  <2> QED BY <2>3, <2>4
<1>20. PICK off \in BOOLEAN : off = FALSE
  OBVIOUS
<1>21. x = [w EXCEPT !.s = SetActive(@, off)]
  <2>1. ExecuteCommand(w, ca) = MarkActive(w, FALSE)
    BY <1>12 DEF ExecuteCommand
  <2>2. PICK f : f = Last(s.frames)
    OBVIOUS
  <2>3. s.frames # <<>>
    <3>1. LastShape(s, e, on)
      BY <1>4, <1>10
    <3> QED BY <2>2, <3>1, LastShapeFacts
  <2> QED BY <1>4, <1>17, <1>20, <2>1, <2>3 DEF MarkActive, NoFrame
<1>22. PICK z \in Int : z = 0
  OBVIOUS
<1>23. Edits(w, x, e, off, z)
  BY <1>10, <1>21, <1>22, SetActiveShape
<1>24. x \in Work /\ LastShape(x.s, e, off)
  BY <1>23 DEF Edits
<1>25. PICK o : o = <<>>
  OBVIOUS
<1>26. o \in Seq(Sz) /\ o \o Context = e
  BY <1>7, <1>25, ContextFacts, ConcatEmptySeq
<1>27. PICK k \in Int : k = ContextSize
  BY TracerAssumption
<1>28. Edits(x, y, o, off, k)
  <2>1. LastShape(x.s, o \o Context, off)
    BY <1>24, <1>26
  <2>2. y = Run(x, Memory("POP", Reverse(Context)))
    BY <1>11, <1>18, ContextFacts
  <2>3. Edits(x, y, o, off, Total(Context))
    BY <1>24, <1>26, <2>1, <2>2, ContextFacts, PopList
  <2> QED BY <1>27, <2>3, ContextFacts
<1>29. Edits(w, y, o, off, z + k)
  BY <1>22, <1>23, <1>27, <1>28, EditsTwice
<1>30. y \in Work /\ y.broken = w.broken /\ y.delta = w.delta + k /\ Beside(w.s, y.s) /\ LastShape(y.s, o, off)
  <2>1. z + k = k
    BY <1>22
  <2> QED BY <1>29, <2>1 DEF Edits
<1>31. v \in Work /\ Shrinks(y.s, v.s) /\ SameSP(y, v)
  BY <1>19, <1>25, <1>30, RemoveShape
<1>32. Len(v.s.frames) = 0
  <2>1. Len(y.s.frames) = 1
    BY <1>2, <1>4, <1>5, <1>30 DEF Beside, Bare
  <2> QED BY <1>31, <2>1 DEF Shrinks
<1>33. v.s.frames = <<>>
  <2>1. PICK g \in Stack : g = v.s
    BY <1>31, WorkFacts
  <2> QED BY <1>32, <2>1, FramesFacts
<1> QED BY <1>27, <1>30, <1>31, <1>33 DEF SameSP

-----------------------------------------------------------------------------
(* The stacks of the tracer.                                               *)

Values(g, n, b) == {b} \cup {g[i] : i \in 1 .. n}
Least(S, m) == m \in S /\ m \in Int /\ \A y \in S : m <= y

\* A finite set of integers has a least element.
LEMMA LeastOf ==
  ASSUME NEW n \in Nat, NEW g \in [1 .. n -> Int], NEW b \in Int
  PROVE  \E m : Least(Values(g, n, b), m)
<1>0. \A i \in 1 .. n : g[i] \in Int
  OBVIOUS
<1> DEFINE S(k) == {b} \cup {g[i] : i \in 1 .. k}
           T == {k \in Nat : k <= n => \E m \in S(k) : m \in Int /\ \A y \in S(k) : m <= y}
<1>1. 0 \in T
  OBVIOUS
<1>2. ASSUME NEW k \in Nat, k \in T PROVE k + 1 \in T
  <2> SUFFICES ASSUME k + 1 <= n PROVE \E m \in S(k + 1) : m \in Int /\ \A y \in S(k + 1) : m <= y
    OBVIOUS
  <2>1. k <= n /\ k + 1 \in 1 .. n
    OBVIOUS
  <2>2. PICK m \in S(k) : m \in Int /\ \A y \in S(k) : m <= y
    BY <1>2, <2>1
  <2>3. PICK x \in Int : x = g[k + 1]
    BY <1>0, <2>1
  <2>4. S(k + 1) = S(k) \cup {x}
    <3>1. \A i \in 1 .. k + 1 : i \in 1 .. k \/ i = k + 1
      OBVIOUS
    <3>2. \A i \in 1 .. k : i \in 1 .. k + 1
      OBVIOUS
    <3>3. k + 1 \in 1 .. k + 1
      OBVIOUS
    <3> QED BY <2>3, <3>1, <3>2, <3>3
  <2>5. CASE m <= x
    BY <2>2, <2>4, <2>5
  <2>6. CASE ~(m <= x)
    <3>1. x <= m
      BY <2>2, <2>3, <2>6
    <3>2. \A y \in S(k) : y \in Int
      <4>1. \A i \in 1 .. k : i \in 1 .. n
        BY <2>1
      <4> QED BY <1>0, <4>1
    <3>3. \A y \in S(k) : x <= y
      BY <2>2, <2>3, <3>1, <3>2
    <3> QED BY <2>3, <2>4, <3>3
  <2> QED BY <2>5, <2>6
<1> HIDE DEF T
<1>3. n \in T
  BY <1>1, <1>2, SetInduction
<1>4. \E m \in S(n) : m \in Int /\ \A y \in S(n) : m <= y
  BY <1>3 DEF T
<1> QED BY <1>4 DEF Least, Values

\* top_address() of a frame is an address.
LEMMA FrameTopFacts ==
  ASSUME NEW f \in Frame
  PROVE  FrameTop(f) \in Int
<1>1. CASE f.slots = <<>>
  BY <1>1 DEF FrameTop
<1>2. CASE f.slots # <<>>
  <2>1. PICK q \in Seq(Slot) : q = f.slots
    BY DEF Frame
  <2>2. PICK n \in Nat : n = Len(q) /\ n # 0
    BY <1>2, <2>1
  <2>3. \A i \in 1 .. n : q[i].address \in Int /\ q[i].size \in Int
    <3>1. \A i \in 1 .. n : q[i] \in Slot
      BY <2>1, <2>2
    <3> QED BY <3>1 DEF Slot
  <2> DEFINE S == {s.address + s.size : s \in ToSet(q)}
  <2>4. PICK g : g = [i \in 1 .. n |-> -(q[i].address + q[i].size)]
    OBVIOUS
  <2>5. \A i \in 1 .. n : g[i] \in Int /\ g[i] = -(q[i].address + q[i].size)
    BY <2>3, <2>4
  <2>6. 1 \in 1 .. n
    BY <2>2
  <2>7. PICK m : Least(Values(g, n, g[1]), m)
    <3>1. g \in [1 .. n -> Int]
      BY <2>4, <2>5
    <3>2. PICK b \in Int : b = g[1]
      BY <2>5, <2>6
    <3> QED BY <3>1, <3>2, LeastOf
  <2>8. PICK j \in 1 .. n : m = g[j]
    BY <2>6, <2>7 DEF Least, Values
  <2>9. \A i \in 1 .. n : g[j] <= g[i]
    BY <2>7, <2>8 DEF Least, Values
  <2>10. PICK x \in Int : x = q[j].address + q[j].size
    BY <2>3
  <2>11. x \in S
    BY <2>1, <2>2, <2>10 DEF ToSet
  <2>12. \A y \in S : y \in Int /\ x >= y
    <3> SUFFICES ASSUME NEW i \in 1 .. n, NEW y, y = q[i].address + q[i].size PROVE y \in Int /\ x >= y
      BY <2>1, <2>2 DEF ToSet
    <3>1. y \in Int
      BY <2>3
    <3>2. -x <= -y
      BY <2>5, <2>9, <2>10
    <3> QED BY <3>1, <3>2
  <2>13. Max(S) \in S
    BY <2>11, <2>12 DEF Max
  <2> QED BY <1>2, <2>1, <2>12, <2>13 DEF FrameTop
<1> QED BY <1>1, <1>2

\* The top of a stack is at most its base.
LEMMA StackTopFacts ==
  ASSUME NEW s \in Stack
  PROVE  /\ StackTop(s) \in Int /\ StackTop(s) <= s.base
         /\ s.frames = <<>> => StackTop(s) = s.base
         /\ s.frames = <<EmptyFrame>> => StackTop(s) = 0
<1>1. PICK F \in Seq(Frame) : F = s.frames
  BY DEF Stack
<1>2. PICK n \in Nat : n = Len(F)
  BY <1>1
<1>3. PICK b \in Nat : b = s.base
  BY DEF Stack
<1>4. PICK g : g = [i \in 1 .. n |-> FrameTop(F[i])]
  OBVIOUS
<1>5. g \in [1 .. n -> Int]
  <2>1. \A i \in 1 .. n : F[i] \in Frame
    BY <1>1, <1>2
  <2>2. \A i \in 1 .. n : FrameTop(F[i]) \in Int
    BY <2>1, FrameTopFacts
  <2> QED BY <1>4, <2>2
<1> DEFINE S == {b} \cup {g[i] : i \in 1 .. n}
<1>6. {s.base} \cup {FrameTop(f) : f \in ToSet(s.frames)} = S
  BY <1>1, <1>2, <1>3, <1>4 DEF ToSet
<1>7. \E m \in S : m \in Int /\ \A y \in S : m <= y
  <2>1. \E m : Least(Values(g, n, b), m)
    BY <1>5, LeastOf
  <2> QED BY <2>1 DEF Least, Values
<1>8. PICK t : t = StackTop(s)
  OBVIOUS
<1>9. t = Min(S)
  BY <1>6, <1>8 DEF StackTop
<1>10. t \in S /\ \A y \in S : t <= y
  BY <1>7, <1>9 DEF Min
<1>11. t \in Int /\ t <= b
  BY <1>3, <1>5, <1>10
<1>12. ASSUME s.frames = <<>> PROVE t = b
  <2>1. n = 0
    BY <1>1, <1>2, <1>12
  <2> QED BY <1>10, <2>1
<1>13. ASSUME s.frames = <<EmptyFrame>> PROVE t = 0
  <2>1. n = 1 /\ F[1] = EmptyFrame
    BY <1>1, <1>2, <1>13
  <2>2. FrameTop(EmptyFrame) = 0
    BY DEF FrameTop, EmptyFrame
  <2>3. S = {b, 0}
    BY <1>4, <2>1, <2>2
  <2>4. t \in {b, 0} /\ \A y \in {b, 0} : t <= y
    BY <1>10, <2>3
  <2> QED BY <1>3, <2>4
<1> QED BY <1>3, <1>8, <1>11, <1>12, <1>13

\* The slots of a frame lie below the frame before.
LEMMA FrameBelow ==
  ASSUME NEW s \in Stack, Tiled(s), NEW i \in 1 .. Len(s.frames), s.frames[i].slots # <<>>,
         NEW e \in Int, e = Edge(s, i - 1)
  PROVE  Edge(s, i) \in Int /\ Edge(s, i) <= e
<1>1. PICK q \in Seq(Slot) : q = s.frames[i].slots
  BY FramesFacts
<1>2. PICK n \in Nat : n = Len(q) /\ n # 0
  BY <1>1
<1>3. \A j \in 1 .. n : q[j].address \in Int /\ q[j].size \in Nat
  <2>1. \A j \in 1 .. n : q[j] \in Slot
    BY <1>1, <1>2
  <2> QED BY <2>1 DEF Slot
<1>4. \A j \in 1 .. n : q[j].address + q[j].size = IF j = 1 THEN e ELSE q[j - 1].address
  BY <1>1, <1>2 DEF Tiled
<1> DEFINE T == {j \in Nat : j < n => q[j + 1].address <= e}
<1>5. 0 \in T
  <2>1. 1 \in 1 .. n
    BY <1>2
  <2>2. q[1].address + q[1].size = e
    BY <1>4, <2>1
  <2> QED BY <1>3, <2>1, <2>2
<1>6. ASSUME NEW j \in Nat, j \in T PROVE j + 1 \in T
  <2> SUFFICES ASSUME j + 1 < n PROVE q[(j + 1) + 1].address <= e
    OBVIOUS
  <2>1. PICK k \in 1 .. n : k = (j + 1) + 1 /\ k # 1 /\ k - 1 = j + 1
    BY <1>2
  <2>2. k - 1 \in 1 .. n /\ q[k - 1].address <= e
    BY <1>2, <1>6, <2>1
  <2>3. q[k].address + q[k].size = q[k - 1].address
    BY <1>4, <2>1
  <2>4. q[k].address <= e
    BY <1>3, <2>2, <2>3
  <2> QED BY <2>1, <2>4
<1> HIDE DEF T
<1>7. n - 1 \in T
  <2>1. n - 1 \in Nat
    BY <1>2
  <2> QED BY <1>5, <1>6, <2>1, SetInduction
<1>8. q[n].address <= e /\ q[n].address \in Int
  <2>1. n - 1 < n /\ (n - 1) + 1 = n /\ n \in 1 .. n
    BY <1>2
  <2> QED BY <1>3, <1>7, <2>1 DEF T
<1>9. i # 0
  OBVIOUS
<1>10. Edge(s, i) = q[n].address
  BY <1>1, <1>2, <1>9 DEF Edge, Last
<1> QED BY <1>8, <1>10

\* A tiled stack ends at its base or below it.
LEMMA FootBelow ==
  ASSUME NEW s \in Stack, Tiled(s)
  PROVE  Foot(s) \in Int /\ Foot(s) <= s.base
<1>1. PICK n \in Nat : n = Len(s.frames)
  BY FramesFacts
<1>2. PICK m \in Nat : m = IF n > 0 /\ s.frames[n].slots = <<>> THEN n - 1 ELSE n
  <2>1. CASE n > 0 /\ s.frames[n].slots = <<>>
    <3>1. n - 1 \in Nat
      BY <2>1
    <3> QED BY <2>1, <3>1
  <2>2. CASE ~(n > 0 /\ s.frames[n].slots = <<>>)
    BY <2>2
  <2> QED BY <2>1, <2>2
<1>3. Foot(s) = Edge(s, m)
  BY <1>1, <1>2 DEF Foot
<1>4. m <= n /\ \A i \in 1 .. m : s.frames[i].slots # <<>>
  <2>1. \A i \in 1 .. n - 1 : s.frames[i].slots # <<>>
    BY <1>1 DEF Tiled
  <2>2. CASE n > 0 /\ s.frames[n].slots = <<>>
    BY <1>2, <2>1, <2>2
  <2>3. CASE n > 0 /\ s.frames[n].slots # <<>>
    <3>1. m = n /\ \A i \in 1 .. n : i = n \/ i \in 1 .. n - 1
      BY <1>2, <2>3
    <3> QED BY <2>1, <2>3, <3>1
  <2>4. CASE ~(n > 0)
    <3>1. m = n /\ 1 .. m = {}
      BY <1>2, <2>4
    <3> QED BY <3>1
  <2> QED BY <2>2, <2>3, <2>4
<1> DEFINE T == {j \in Nat : j <= m => Edge(s, j) \in Int /\ Edge(s, j) <= s.base}
<1>5. 0 \in T
  <2>1. Edge(s, 0) = s.base
    BY DEF Edge
  <2>2. s.base \in Int /\ s.base <= s.base
    BY FramesFacts
  <2> QED BY <2>1, <2>2
<1>6. ASSUME NEW j \in Nat, j \in T PROVE j + 1 \in T
  <2> SUFFICES ASSUME j + 1 <= m PROVE Edge(s, j + 1) \in Int /\ Edge(s, j + 1) <= s.base
    OBVIOUS
  <2>1. PICK i \in 1 .. n : i = j + 1 /\ i \in 1 .. m /\ i - 1 = j
    BY <1>4
  <2>2. PICK e \in Int : e = Edge(s, i - 1) /\ e <= s.base
    BY <1>6, <2>1
  <2>3. i \in 1 .. Len(s.frames) /\ s.frames[i].slots # <<>>
    BY <1>1, <1>4, <2>1
  <2>4. PICK d : d = Edge(s, i)
    OBVIOUS
  <2>5. d \in Int /\ d <= e
    BY <2>2, <2>3, <2>4, FrameBelow
  <2>6. s.base \in Int
    BY FramesFacts
  <2> QED BY <2>1, <2>2, <2>4, <2>5, <2>6
<1> HIDE DEF T
<1>7. m \in T
  BY <1>5, <1>6, SetInduction
<1> QED BY <1>3, <1>7 DEF T

-----------------------------------------------------------------------------
(* Which stack is the active one.                                          *)

\* The stacks are sorted by base.
Sorted(ss) ==
  /\ ss \in Seq(Stack)
  /\ \A i \in 1 .. Len(ss) : ss[i].base # 0
  /\ \A i, j \in 1 .. Len(ss) : i < j => ss[i].base < ss[j].base

Place(ss, address, k) == k \in 1 .. Len(ss) /\ ss[k].base = address

\* The stacks are a list of stacks with bases.
LEMMA SortedFacts ==
  ASSUME NEW ss, Sorted(ss)
  PROVE  /\ Len(ss) \in Nat /\ DOMAIN ss = 1 .. Len(ss)
         /\ \A i \in 1 .. Len(ss) : ss[i] \in Stack /\ ss[i].base \in Nat /\ ss[i].base # 0
<1>1. Len(ss) \in Nat /\ DOMAIN ss = 1 .. Len(ss) /\ \A i \in 1 .. Len(ss) : ss[i] \in Stack
  BY DEF Sorted
<1>2. \A i \in 1 .. Len(ss) : ss[i].base \in Nat
  BY <1>1 DEF Stack
<1> QED BY <1>1, <1>2 DEF Sorted

\* No two stacks have the same base.
LEMMA PlaceUnique ==
  ASSUME NEW ss, Sorted(ss), NEW address, NEW j, NEW k, Place(ss, address, j), Place(ss, address, k)
  PROVE  j = k
<1>1. j \in 1 .. Len(ss) /\ k \in 1 .. Len(ss) /\ ss[j].base = ss[k].base
  BY DEF Place
<1>2. ss[j].base \in Nat /\ ss[k].base \in Nat
  BY <1>1, SortedFacts
<1>3. ~(j < k)
  BY <1>1, <1>2 DEF Sorted
<1>4. ~(k < j)
  BY <1>1, <1>2 DEF Sorted
<1>5. j \in Nat /\ k \in Nat
  BY <1>1, SortedFacts
<1> QED BY <1>3, <1>4, <1>5

\* What processCommandFrame() finds for the active stack.
LEMMA FindsActive ==
  ASSUME NEW ss, Sorted(ss), NEW address, NEW k, Place(ss, address, k)
  PROVE  LET I == {i \in 1 .. Len(ss) : ss[i].base = address}
         IN I # {} /\ Min(I) = k
<1> DEFINE I == {i \in 1 .. Len(ss) : ss[i].base = address}
<1>1. I = {k}
  <2>1. k \in I
    BY DEF Place
  <2>2. ASSUME NEW i \in I PROVE i = k
    <3>1. Place(ss, address, i)
      BY DEF Place
    <3> QED BY <3>1, PlaceUnique
  <2> QED BY <2>1, <2>2
<1>2. k \in Nat
  BY SortedFacts DEF Place
<1>3. Min({k}) = k
  BY <1>2 DEF Min
<1> QED BY <1>1, <1>3

\* The stack with a base is the only one.
LEMMA ActiveIs ==
  ASSUME NEW ss, Sorted(ss), NEW address, NEW k, Place(ss, address, k)
  PROVE  (CHOOSE s \in ToSet(ss) : s.base = address) = ss[k]
<1>1. ss[k] \in ToSet(ss) /\ ss[k].base = address
  BY SortedFacts DEF Place, ToSet
<1>2. ASSUME NEW s \in ToSet(ss), s.base = address PROVE s = ss[k]
  <2>1. PICK i \in 1 .. Len(ss) : s = ss[i]
    BY SortedFacts DEF ToSet
  <2>2. Place(ss, address, i)
    BY <1>2, <2>1 DEF Place
  <2>3. i = k
    BY <2>2, PlaceUnique
  <2> QED BY <2>1, <2>3
<1> QED BY <1>1, <1>2

\* getOrAddStack() finds a stack that contains the address when it is the only one ...
LEMMA GetsStack ==
  ASSUME NEW ss, Sorted(ss), NEW address, NEW k \in 1 .. Len(ss), StackContains(ss[k], address),
         \A i \in 1 .. Len(ss) : StackContains(ss[i], address) => i = k
  PROVE  GetOrAddStack(ss, address) = [stacks |-> ss, active |-> ss[k].base]
<1> DEFINE I == {i \in 1 .. Len(ss) : StackContains(ss[i], address)}
<1>1. I = {k}
  OBVIOUS
<1>2. k \in Nat /\ k # 0
  BY SortedFacts
<1>3. Min({k}) = k
  BY <1>2 DEF Min
<1>4. SelectInSeq(ss, LAMBDA s : StackContains(s, address)) = k
  BY <1>1, <1>3 DEF SelectInSeq
<1> QED BY <1>2, <1>4 DEF GetOrAddStack

\* ... and adds one when none does.
LEMMA AddsStack ==
  ASSUME NEW ss, NEW address, \A i \in 1 .. Len(ss) : ~StackContains(ss[i], address)
  PROVE  GetOrAddStack(ss, address) = [stacks |-> AddStack(ss, address), active |-> address]
<1>1. SelectInSeq(ss, LAMBDA s : StackContains(s, address)) = 0
  BY DEF SelectInSeq
<1> QED BY <1>1 DEF GetOrAddStack

\* A stack that is new ends at its base.
LEMMA NewStackFacts ==
  ASSUME NEW address \in Nat, NEW s, s = NewStack(address)
  PROVE  s \in Stack /\ s.base = address /\ s.frames = <<EmptyFrame>> /\ Tiled(s) /\ Foot(s) = address
<1>1. PICK f : f = s.frames
  OBVIOUS
<1>2. f = <<EmptyFrame>> /\ s.base = address /\ s = [base |-> address, frames |-> f]
  BY <1>1 DEF NewStack
<1>3. f \in Seq(Frame)
  BY <1>2, EmptyShape
<1>4. s \in Stack
  BY <1>2, <1>3 DEF Stack
<1>5. Len(f) = 1 /\ f[1].slots = <<>>
  BY <1>2 DEF EmptyFrame
<1>6. Len(f[1].slots) = 0
  BY <1>5
<1>7. Tiled(s)
  <2>1. \A i \in 1 .. Len(f) - 1 : FALSE
    BY <1>5
  <2>2. \A i \in 1 .. Len(f) : i = 1
    BY <1>5
  <2>3. \A j \in 1 .. Len(f[1].slots) : FALSE
    BY <1>6
  <2> QED BY <1>1, <2>1, <2>2, <2>3 DEF Tiled
<1>8. Foot(s) = Edge(s, 0)
  BY <1>1, <1>5 DEF Foot
<1>9. Foot(s) = address
  BY <1>2, <1>8 DEF Edge
<1> QED BY <1>1, <1>2, <1>4, <1>7, <1>9

GoesLast(ss, address, tt) ==
  /\ Sorted(tt) /\ Len(tt) = Len(ss) + 1 /\ tt[Len(ss) + 1] = NewStack(address)
  /\ \A i \in 1 .. Len(ss) : tt[i] = ss[i]
GoesFirst(ss, address, tt) ==
  /\ Sorted(tt) /\ Len(tt) = Len(ss) + 1 /\ tt[1] = NewStack(address)
  /\ \A i \in 1 .. Len(ss) : tt[i + 1] = ss[i]

\* A stack that is above all others comes last, ...
LEMMA AddsLast ==
  ASSUME NEW ss, Sorted(ss), NEW address \in Nat \ {0}, \A i \in 1 .. Len(ss) : ss[i].base < address,
         NEW tt, tt = AddStack(ss, address)
  PROVE  GoesLast(ss, address, tt)
<1>1. PICK n : n = Len(ss)
  OBVIOUS
<1>2. n \in Nat /\ ss \in Seq(Stack) /\ DOMAIN ss = 1 .. n
  BY <1>1, SortedFacts DEF Sorted
<1>3. PICK x : x = NewStack(address)
  OBVIOUS
<1>4. x \in Stack /\ x.base = address
  BY <1>3, NewStackFacts
<1>5. tt = SubSeq(ss, 1, n) \o <<x>> \o SubSeq(ss, n + 1, n)
  <2> DEFINE S == {i \in DOMAIN ss : ss[i].base < address}
  <2>1. S = 1 .. n
    BY <1>2, <1>1
  <2>2. Cardinality(1 .. n) = n
    <3>1. n \in Int /\ 1 \in Int
      BY <1>2
    <3>2. Cardinality(1 .. n) = IF 1 > n THEN 0 ELSE n - 1 + 1
      BY ONLY <3>1, FS_Interval
    <3> QED BY <1>2, <3>2
  <2>3. (n + 1) - 1 = n
    BY <1>2
  <2> QED BY <1>3, <1>1, <2>1, <2>2, <2>3 DEF AddStack, InsertAt
<1>6. tt = Append(ss, x)
  <2>1. SubSeq(ss, 1, n) = ss
    BY <1>2
  <2>2. SubSeq(ss, n + 1, n) = <<>>
    BY <1>2
  <2>3. ss \o <<x>> = Append(ss, x)
    BY <1>2, <1>4, AppendIsConcat
  <2>4. Append(ss, x) \o <<>> = Append(ss, x)
    BY <1>2, <1>4, AppendProperties, ConcatEmptySeq
  <2> QED BY <1>5, <2>1, <2>2, <2>3, <2>4
<1>7. tt \in Seq(Stack) /\ Len(tt) = n + 1 /\ tt[n + 1] = x /\ \A i \in 1 .. n : tt[i] = ss[i]
  BY <1>2, <1>4, <1>6, AppendProperties
<1>8. \A i \in 1 .. n + 1 : i = n + 1 \/ i \in 1 .. n
  BY <1>2
<1>9. \A i \in 1 .. n : ss[i].base \in Nat /\ ss[i].base # 0
  BY <1>1, SortedFacts
<1>10. \A i \in 1 .. n + 1 : tt[i].base # 0
  BY <1>4, <1>7, <1>8, <1>9
<1>11. ASSUME NEW i \in 1 .. n + 1, NEW j \in 1 .. n + 1, i < j PROVE tt[i].base < tt[j].base
  <2>1. i \in 1 .. n
    BY <1>2, <1>11
  <2>2. CASE j = n + 1
    BY <1>4, <1>7, <1>1, <2>1, <2>2
  <2>3. CASE j \in 1 .. n
    <3>1. i \in 1 .. Len(ss) /\ j \in 1 .. Len(ss)
      BY <1>1, <2>1, <2>3
    <3>2. ss[i].base < ss[j].base
      BY <1>11, <3>1 DEF Sorted
    <3> QED BY <1>7, <2>1, <2>3, <3>2
  <2> QED BY <1>8, <2>2, <2>3
<1>12. Sorted(tt)
  BY <1>7, <1>10, <1>11 DEF Sorted
<1> QED BY <1>3, <1>7, <1>12, <1>1 DEF GoesLast

\* ... and one below all others first.
LEMMA AddsFirst ==
  ASSUME NEW ss, Sorted(ss), NEW address \in Nat \ {0}, \A i \in 1 .. Len(ss) : address < ss[i].base,
         NEW tt, tt = AddStack(ss, address)
  PROVE  GoesFirst(ss, address, tt)
<1>1. PICK n : n = Len(ss)
  OBVIOUS
<1>2. n \in Nat /\ ss \in Seq(Stack) /\ DOMAIN ss = 1 .. n
  BY <1>1, SortedFacts DEF Sorted
<1>3. PICK x : x = NewStack(address)
  OBVIOUS
<1>4. x \in Stack /\ x.base = address
  BY <1>3, NewStackFacts
<1>5. \A i \in 1 .. n : ss[i].base \in Nat /\ ss[i].base # 0
  BY <1>1, SortedFacts
<1>6. tt = SubSeq(ss, 1, 0) \o <<x>> \o SubSeq(ss, 1, n)
  <2>1. PICK S : S = {i \in DOMAIN ss : ss[i].base < address}
    OBVIOUS
  <2>2. S = {}
    BY <1>2, <1>1, <1>5, <2>1
  <2>3. Cardinality(S) = 0
    BY <2>2, FS_EmptySet
  <2>4. PICK k : k = Cardinality(S) + 1
    OBVIOUS
  <2>5. k = 1 /\ k - 1 = 0
    BY <2>3, <2>4
  <2>6. tt = SubSeq(ss, 1, k - 1) \o <<x>> \o SubSeq(ss, k, n)
    BY <1>3, <1>1, <2>1, <2>4 DEF AddStack, InsertAt
  <2> QED BY <2>5, <2>6
<1>7. tt = <<x>> \o ss
  <2>1. SubSeq(ss, 1, n) = ss
    BY <1>2
  <2>2. SubSeq(ss, 1, 0) = <<>>
    BY <1>2
  <2>3. <<>> \o <<x>> = <<x>>
    OBVIOUS
  <2> QED BY <1>6, <2>1, <2>2, <2>3
<1>8. PICK o \in Seq(Stack) : o = <<x>> /\ Len(o) = 1 /\ o[1] = x
  <2>1. <<x>> \in Seq(Stack)
    BY <1>4
  <2>2. Len(<<x>>) = 1 /\ <<x>>[1] = x
    OBVIOUS
  <2> QED BY <2>1, <2>2
<1>9. tt \in Seq(Stack) /\ Len(tt) = n + 1 /\ tt[1] = x /\ \A i \in 1 .. n : tt[i + 1] = ss[i]
  <2>1. tt \in Seq(Stack) /\ Len(tt) = 1 + n
        /\ \A i \in 1 .. 1 + n : tt[i] = IF i <= 1 THEN o[i] ELSE ss[i - 1]
    <3>1. tt = o \o ss
      BY <1>7, <1>8
    <3> QED BY <1>2, <1>8, <3>1, ConcatFacts
  <2>2. 1 \in 1 .. 1 + n /\ 1 <= 1 /\ 1 + n = n + 1
    BY <1>2
  <2>3. ASSUME NEW i \in 1 .. n PROVE tt[i + 1] = ss[i]
    <3>1. i + 1 \in 1 .. 1 + n /\ ~(i + 1 <= 1) /\ (i + 1) - 1 = i
      BY <1>2
    <3> QED BY <2>1, <3>1
  <2> QED BY <1>8, <2>1, <2>2, <2>3
<1>10. \A i \in 1 .. n + 1 : i = 1 \/ \E h \in 1 .. n : i = h + 1
  <2> SUFFICES ASSUME NEW i \in 1 .. n + 1, i # 1 PROVE \E h \in 1 .. n : i = h + 1
    OBVIOUS
  <2>1. i - 1 \in 1 .. n /\ i = (i - 1) + 1
    BY <1>2
  <2> QED BY <2>1
<1>11. \A i \in 1 .. n + 1 : tt[i].base # 0
  BY <1>4, <1>5, <1>9, <1>10
<1>12. ASSUME NEW i \in 1 .. n + 1, NEW j \in 1 .. n + 1, i < j PROVE tt[i].base < tt[j].base
  <2>1. PICK g \in 1 .. n : j = g + 1
    BY <1>2, <1>10, <1>12
  <2>2. CASE i = 1
    BY <1>4, <1>9, <1>1, <2>1, <2>2
  <2>3. CASE i # 1
    <3>1. PICK h \in 1 .. n : i = h + 1
      BY <1>10, <2>3
    <3>2. h < g
      BY <1>2, <1>12, <2>1, <3>1
    <3>3. ss[h].base < ss[g].base
      <4>1. h \in 1 .. Len(ss) /\ g \in 1 .. Len(ss)
        BY <1>1
      <4> QED BY <3>2, <4>1 DEF Sorted
    <3> QED BY <1>9, <2>1, <3>1, <3>3
  <2> QED BY <2>2, <2>3
<1>13. Sorted(tt)
  BY <1>9, <1>11, <1>12 DEF Sorted
<1> QED BY <1>3, <1>9, <1>13, <1>1 DEF GoesFirst

\* Another stack in its place, with the same base.
Swapped(ss, k, s, tt) ==
  /\ Sorted(tt) /\ Len(tt) = Len(ss) /\ tt[k] = s
  /\ \A i \in 1 .. Len(ss) : i # k => tt[i] = ss[i]
  /\ \A i \in 1 .. Len(ss) : tt[i].base = ss[i].base

\* The stacks stay sorted when one is changed and keeps its base.
LEMMA ReplaceStack ==
  ASSUME NEW ss, Sorted(ss), NEW k \in 1 .. Len(ss), NEW s \in Stack, s.base = ss[k].base,
         NEW tt, tt = [ss EXCEPT ![k] = s]
  PROVE  Swapped(ss, k, s, tt)
<1>1. PICK n \in Nat : n = Len(ss)
  BY SortedFacts
<1>2. ss \in [1 .. n -> Stack] /\ k \in 1 .. n
  BY <1>1 DEF Sorted
<1>3. tt \in [1 .. n -> Stack] /\ tt[k] = s /\ \A i \in 1 .. n : i # k => tt[i] = ss[i]
  BY <1>2
<1>4. \A z \in [1 .. n -> Stack] : z \in Seq(Stack) /\ Len(z) = n
  OBVIOUS
<1>5. tt \in Seq(Stack) /\ Len(tt) = n
  BY <1>3, <1>4
<1>6. \A i \in 1 .. n : tt[i].base = ss[i].base
  BY <1>3
<1>7. Sorted(tt)
  BY <1>1, <1>5, <1>6 DEF Sorted
<1> QED BY <1>1, <1>3, <1>5, <1>6, <1>7 DEF Swapped

-----------------------------------------------------------------------------
(* The inductive invariant.                                                *)

SystemBase == SystemStack - OperandSize

\* Stacks of the user do not overlap.
Layout(ss) ==
  /\ Len(ss) > 0 /\ ss[1].base <= UserBase
  /\ \A i \in 1 .. Len(ss) : ss[i].base <= UserBase \/ ss[i].base = SystemBase
  /\ \A i \in 2 .. Len(ss) : ss[i].base <= UserBase => StackTop(ss[i]) > ss[i - 1].base

\* Stack k is the active one and ends at SP.
Current(ss, address, sv, p, k) ==
  /\ Place(ss, address, k) /\ Tiled(ss[k]) /\ Foot(ss[k]) = p
  /\ IF sv # <<>> THEN address = SystemBase ELSE k = 1

\* The system stack holds nothing before a trap; in one the user stack waits.
Waits(ss, sv, st) ==
  IF sv = <<>> THEN \A i \in 1 .. Len(ss) : ss[i].base = SystemBase => ss[i].frames = <<>>
  ELSE /\ Tiled(ss[1]) /\ Foot(ss[1]) = sv[1].sp
       /\ sv[1].truth = <<>> /\ ~st => Blank(ss[1].frames)

Interrupted(sv) ==
  sv = <<>> \/ \E x \in Nat \ {0} : \E T : Program(T, FALSE) /\ sv = <<[sp |-> x, truth |-> T]>>

Types ==
  /\ wild \in BOOLEAN /\ broken \in BOOLEAN /\ strayed \in BOOLEAN
  /\ Sorted(stacks) /\ active \in {0} \cup {stacks[i].base : i \in 1 .. Len(stacks)}
  /\ lastSP \in Nat /\ sp \in Nat \ {0}

Programs ==
  /\ Program(truth, saved # <<>>) /\ Interrupted(saved)
  /\ wild => truth = <<>> /\ saved = <<>> /\ ~strayed

Fresh ==
  lastSP = 0 => stacks = <<>> /\ active = 0 /\ ~broken /\ truth = <<>> /\ saved = <<>> /\ ~strayed

Settled ==
  lastSP # 0 =>
    /\ lastSP = sp
    /\ ~broken => /\ Layout(stacks) /\ Waits(stacks, saved, strayed)
                  /\ \E k : Current(stacks, active, saved, lastSP, k)

Honest(w, st, sv) == ~w /\ (~st \/ sv # <<>>)

Mirrored ==
  lastSP # 0 /\ Honest(wild, strayed, saved) =>
    /\ ~broken
    /\ \E k : Place(stacks, active, k) /\ MirrorOf(stacks[k], truth, saved # <<>>)

TracerInv == Types /\ Programs /\ Fresh /\ Settled /\ Mirrored

-----------------------------------------------------------------------------
(* An instruction on the active stack.                                     *)

Starts(s, p) == [s |-> s, broken |-> FALSE, sp |-> p, delta |-> 0]
Result(w, c) == IF c = Missing THEN Break(w) ELSE Run(w, c)

\* Where the commands of an instruction start.
LEMMA StartsFacts ==
  ASSUME NEW s \in Stack, NEW p \in Int, NEW w, w = Starts(s, p)
  PROVE  w \in Work /\ w.s = s /\ ~w.broken /\ w.sp = p /\ w.delta = 0
BY DEF Starts, Work

\* A list of commands is not the mark of a missing tag.
LEMMA NotMissing ==
  ASSUME NEW c \in Seq(TraceCommand)
  PROVE  c # Missing
<1> SUFFICES ASSUME c = Missing PROVE FALSE
  OBVIOUS
<1>1. Len(c) = 1 /\ c[1] = [op |-> "MISSING", size |-> 0]
  BY DEF Missing
<1>2. c[1] \in TraceCommand
  BY <1>1
<1>3. c[1].op # "MISSING"
  BY <1>2 DEF TraceCommand
<1> QED BY <1>1, <1>3

\* With commands or without, SP moves as the slots do.
LEMMA ResultKeeps ==
  ASSUME NEW w \in Work, NEW c, c = Missing \/ c \in Seq(TraceCommand), NEW v, v = Result(w, c)
  PROVE  Keeps(w, v)
<1>1. CASE c = Missing
  <2>1. v = Break(w)
    BY <1>1 DEF Result
  <2> QED BY <2>1, BreakKeeps
<1>2. CASE c \in Seq(TraceCommand)
  <2>1. v = Run(w, c)
    BY <1>2, NotMissing DEF Result
  <2> QED BY <1>2, <2>1, RunKeeps
<1> QED BY <1>1, <1>2

\* The tracer is told that SP is now spNow and has commands c for the instruction.
Told(k, c, spNow) ==
  LET w == Starts(stacks[k], lastSP)
      v == Result(w, c)
  IN /\ lastSP' = spNow /\ active' = active /\ stacks' = [stacks EXCEPT ![k] = v.s]
     /\ broken' = (v.broken \/ v.delta # spNow - lastSP)

\* What processCommandFrame() leaves, when the commands have made v of the active stack.
Leaves(u, v, c, d) ==
  stacks' = u.stacks /\ active' = u.active /\ broken' = (v.broken \/ Mismatch(c, v, d))

\* ss and the address of its active stack, before and after.
Holds(t, ss, address) == t.stacks = ss /\ t.active = address

\* processCommandFrame() runs the commands on the active stack.
LEMMA ProcessFacts ==
  ASSUME NEW ss, Sorted(ss), NEW address, NEW k, Place(ss, address, k), NEW t, Holds(t, ss, address),
         NEW c, NEW before, NEW after, NEW future, Process(t, c, before, after, future),
         NEW v, v = Run(Starts(ss[k], before), c), NEW tt, tt = [ss EXCEPT ![k] = v.s],
         NEW u, u = IF future = 0 THEN [stacks |-> tt, active |-> address] ELSE GetOrAddStack(tt, future)
  PROVE  Leaves(u, v, c, after - before)
<1>1. PICK I : I = {i \in 1 .. Len(ss) : ss[i].base = address}
  OBVIOUS
<1>2. I # {} /\ Min(I) = k
  BY <1>1, FindsActive
<1>3. k # 0
  BY SortedFacts DEF Place
<1>4. PICK m : m = IF I # {} THEN Min(I) ELSE 0
  OBVIOUS
<1>5. LET w == Run([s |-> IF m = 0 THEN NoStack ELSE ss[m], broken |-> FALSE, sp |-> before, delta |-> 0], c)
          rr == IF m = 0 THEN ss ELSE [ss EXCEPT ![m] = w.s]
          x == IF future = 0 THEN [stacks |-> rr, active |-> address] ELSE GetOrAddStack(rr, future)
      IN stacks' = x.stacks /\ active' = x.active /\ broken' = (w.broken \/ Mismatch(c, w, after - before))
  BY <1>1, <1>4 DEF Process, SelectInSeq, Holds
<1>6. m = k
  BY <1>2, <1>4
<1>7. v = Run([s |-> ss[k], broken |-> FALSE, sp |-> before, delta |-> 0], c)
  BY DEF Starts
<1> QED BY <1>3, <1>5, <1>6, <1>7 DEF Leaves

\* notifyInstruction() of an instruction that stays on its stack.
LEMMA Instruction ==
  ASSUME Types, ~broken, lastSP # 0, NEW k, Place(stacks, active, k),
         NEW type \in {"CALL", "RET", "ALLOCATE", "DEALLOCATE"}, NEW tags, NEW spNow \in Nat,
         Notify(type, tags, spNow),
         NEW c, c = (IF tags = Missing THEN Default(type) ELSE tags), c # <<>>, c = Missing \/ c \in Seq(TraceCommand)
  PROVE  Told(k, c, spNow)
<1>1. Sorted(stacks) /\ lastSP \in Nat
  BY DEF Types
<1>2. type # "TRAP" /\ type # "TRAPRET" /\ type # "ASSIGN"
  OBVIOUS
<1>3. lastSP' = spNow
  BY DEF Notify, Chosen
<1>4. CASE c = Missing
  <2>1. stacks' = stacks /\ active' = active /\ broken' = TRUE
    BY <1>2, <1>4 DEF Notify, Chosen
  <2>2. PICK w : w = Starts(stacks[k], lastSP)
    OBVIOUS
  <2>3. w \in Work /\ w.s = stacks[k]
    <3>1. PICK s \in Stack : s = stacks[k]
      BY <1>1, SortedFacts DEF Place
    <3>2. w = Starts(s, lastSP) /\ lastSP \in Int
      BY <1>1, <2>2, <3>1
    <3> QED BY <3>1, <3>2, StartsFacts
  <2>4. Result(w, c) = Break(w)
    BY <1>4 DEF Result
  <2>5. Break(w).broken /\ Break(w).s = stacks[k]
    BY <2>3, WorkFacts
  <2>6. stacks' = [stacks EXCEPT ![k] = Break(w).s]
    <3>1. [stacks EXCEPT ![k] = stacks[k]] = stacks
      BY <1>1 DEF Sorted
    <3> QED BY <2>1, <2>5, <3>1
  <2> QED BY <1>3, <2>1, <2>2, <2>4, <2>5, <2>6 DEF Told
<1>5. CASE c # Missing
  <2>1. Process([stacks |-> stacks, active |-> active], c, lastSP, spNow, 0)
    BY <1>2, <1>5 DEF Notify, Chosen
  <2>2. PICK t : t = [stacks |-> stacks, active |-> active]
    OBVIOUS
  <2>3. Holds(t, stacks, active) /\ Process(t, c, lastSP, spNow, 0)
    BY <2>1, <2>2 DEF Holds
  <2>4. PICK v : v = Run(Starts(stacks[k], lastSP), c)
    OBVIOUS
  <2>5. stacks' = [stacks EXCEPT ![k] = v.s] /\ active' = active
        /\ broken' = (v.broken \/ Mismatch(c, v, spNow - lastSP))
    <3>1. PICK tt : tt = [stacks EXCEPT ![k] = v.s]
      OBVIOUS
    <3>2. PICK future : future = 0
      OBVIOUS
    <3>3. PICK u : u = IF future = 0 THEN [stacks |-> tt, active |-> active] ELSE GetOrAddStack(tt, future)
      OBVIOUS
    <3>4. u = [stacks |-> tt, active |-> active]
      BY <3>2, <3>3
    <3>5. Process(t, c, lastSP, spNow, future)
      BY <2>3, <3>2
    <3>6. Leaves(u, v, c, spNow - lastSP)
      BY <1>1, <2>3, <2>4, <3>1, <3>3, <3>5, ProcessFacts
    <3> QED BY <3>1, <3>4, <3>6 DEF Leaves
  <2>6. Mismatch(c, v, spNow - lastSP) <=> v.delta # spNow - lastSP
    BY DEF Mismatch
  <2> QED BY <1>3, <1>5, <2>4, <2>5, <2>6 DEF Told, Result
<1> QED BY <1>4, <1>5

\* The user stack is below the system stack, even when a trap has pushed its context.
LEMMA BaseFacts ==
  /\ UserBase \in Nat \ {0} /\ ContextSize \in Nat \ {0}
  /\ SystemBase \in Nat /\ SystemBase > UserBase /\ SystemBase - ContextSize > UserBase
  /\ SystemBase - ContextSize = SystemStack - ContextSize - OperandSize
BY TracerAssumption DEF SystemBase

\* Another stack in the place of the active one.
LEMMA StackStep ==
  ASSUME NEW ss, Sorted(ss), Layout(ss), NEW address, NEW sv, NEW st, Waits(ss, sv, st),
         NEW p, NEW k, Current(ss, address, sv, p, k),
         NEW s \in Stack, s.base = ss[k].base, Tiled(s), NEW q, Foot(s) = q,
         NEW tt, tt = [ss EXCEPT ![k] = s]
  PROVE  Layout(tt) /\ Waits(tt, sv, st) /\ Current(tt, address, sv, q, k)
<1>1. PICK n \in Nat : n = Len(ss)
  BY SortedFacts
<1>2. k \in 1 .. n /\ ss[k].base = address
  BY <1>1 DEF Current, Place
<1>3. /\ Sorted(tt) /\ Len(tt) = n /\ tt[k] = s
      /\ \A i \in 1 .. n : i # k => tt[i] = ss[i]
      /\ \A i \in 1 .. n : tt[i].base = ss[i].base
  <2>1. Swapped(ss, k, s, tt)
    BY <1>1, <1>2, ReplaceStack
  <2> QED BY <1>1, <2>1 DEF Swapped
<1>4. /\ n > 0 /\ ss[1].base <= UserBase
      /\ \A i \in 1 .. n : ss[i].base <= UserBase \/ ss[i].base = SystemBase
      /\ \A i \in 2 .. n : ss[i].base <= UserBase => StackTop(ss[i]) > ss[i - 1].base
  BY <1>1 DEF Layout
<1>5. 1 \in 1 .. n /\ \A i \in 2 .. n : i \in 1 .. n /\ i - 1 \in 1 .. n /\ i # 1
  BY <1>4
<1>6. SystemBase \in Nat /\ SystemBase > UserBase /\ UserBase \in Nat
  BY BaseFacts
<1>7. sv = <<>> => k = 1
  BY DEF Current
<1>8. sv # <<>> => ss[k].base = SystemBase
  BY <1>2 DEF Current
<1>9. \A i \in 1 .. n : ss[i].base \in Nat
  BY <1>1, SortedFacts
<1>10. Current(tt, address, sv, q, k)
  BY <1>1, <1>2, <1>3 DEF Current, Place
<1>11. Layout(tt)
  <2>1. ASSUME NEW i \in 2 .. n, tt[i].base <= UserBase PROVE StackTop(tt[i]) > tt[i - 1].base
    <3>1. i # k
      BY <1>2, <1>3, <1>5, <1>6, <1>7, <1>8, <1>9, <2>1
    <3>2. tt[i] = ss[i] /\ tt[i - 1].base = ss[i - 1].base
      BY <1>3, <1>5, <3>1
    <3> QED BY <1>4, <2>1, <3>2
  <2>2. tt[1].base <= UserBase
    BY <1>3, <1>4, <1>5
  <2>3. \A i \in 1 .. n : tt[i].base <= UserBase \/ tt[i].base = SystemBase
    BY <1>3, <1>4
  <2> QED BY <1>3, <1>4, <2>1, <2>2, <2>3 DEF Layout
<1>12. Waits(tt, sv, st)
  <2>1. CASE sv = <<>>
    <3>1. k = 1 /\ ss[1].base # SystemBase
      BY <1>4, <1>5, <1>6, <1>7, <1>9, <2>1
    <3>2. ASSUME NEW i \in 1 .. n, tt[i].base = SystemBase PROVE tt[i].frames = <<>>
      <4>1. ss[i].base = SystemBase
        BY <1>3, <3>2
      <4>2. i # k
        BY <3>1, <4>1
      <4>3. ss[i].frames = <<>>
        BY <1>1, <2>1, <4>1 DEF Waits
      <4> QED BY <1>3, <4>2, <4>3
    <3> QED BY <1>3, <2>1, <3>2 DEF Waits
  <2>2. CASE sv # <<>>
    <3>1. k # 1
      BY <1>4, <1>5, <1>6, <1>8, <1>9, <2>2
    <3>2. tt[1] = ss[1]
      BY <1>3, <1>5, <3>1
    <3> QED BY <2>2, <3>2 DEF Waits
  <2> QED BY <2>1, <2>2
<1> QED BY <1>10, <1>11, <1>12

\* What such an instruction leaves, if the tracer reports no error.
LEMMA OrdinaryTold ==
  ASSUME TracerInv, ~broken, lastSP # 0, NEW c, c = Missing \/ c \in Seq(TraceCommand), NEW spNow \in Nat \ {0},
         NEW k, Place(stacks, active, k), Told(k, c, spNow),
         NEW w, w = Starts(stacks[k], lastSP), NEW v, v = Result(w, c)
  PROVE  /\ w \in Work /\ v \in Work
         /\ Sorted(stacks') /\ Place(stacks', active', k) /\ stacks'[k] = v.s /\ broken' \in BOOLEAN
         /\ ~broken' => /\ Layout(stacks') /\ Waits(stacks', saved, strayed)
                        /\ Current(stacks', active', saved, spNow, k)
<1>1. Sorted(stacks) /\ lastSP \in Nat
  BY DEF TracerInv, Types
<1>2. PICK s \in Stack : s = stacks[k] /\ k \in 1 .. Len(stacks)
  BY <1>1, SortedFacts DEF Place
<1>3. w \in Work /\ w.s = s /\ ~w.broken /\ w.sp = lastSP /\ w.delta = 0
  <2>1. w = Starts(s, lastSP) /\ lastSP \in Int
    BY <1>1, <1>2
  <2> QED BY <2>1, StartsFacts
<1>4. Keeps(w, v)
  BY <1>3, ResultKeeps
<1>5. v \in Work
  BY <1>4 DEF Keeps
<1>6. PICK r \in Stack : r = v.s
  BY <1>5, WorkFacts
<1>7. lastSP' = spNow /\ active' = active /\ stacks' = [stacks EXCEPT ![k] = r]
      /\ broken' = (v.broken \/ v.delta # spNow - lastSP)
  BY <1>6 DEF Told
<1>8. r.base = stacks[k].base
  BY <1>2, <1>3, <1>4, <1>6 DEF Keeps
<1>9. PICK tt : tt = [stacks EXCEPT ![k] = r]
  OBVIOUS
<1>10. Sorted(tt) /\ Len(tt) = Len(stacks) /\ tt[k] = r
  <2>1. Swapped(stacks, k, r, tt)
    BY <1>1, <1>2, <1>8, <1>9, ReplaceStack
  <2> QED BY <2>1 DEF Swapped
<1>11. stacks' = tt
  BY <1>7, <1>9
<1>12. Place(stacks', active', k)
  BY <1>2, <1>7, <1>8, <1>10, <1>11 DEF Place
<1>13. v.broken \in BOOLEAN /\ broken' \in BOOLEAN
  BY <1>5, <1>7, WorkFacts
<1>14. ASSUME ~broken'
       PROVE  Layout(tt) /\ Waits(tt, saved, strayed) /\ Current(tt, active, saved, spNow, k)
  <2>1. ~v.broken /\ v.delta = spNow - lastSP
    BY <1>7, <1>13, <1>14
  <2>2. Layout(stacks) /\ Waits(stacks, saved, strayed)
    BY DEF TracerInv, Settled
  <2>3. PICK j : Current(stacks, active, saved, lastSP, j)
    BY DEF TracerInv, Settled
  <2>4. j = k
    BY <1>1, <2>3, PlaceUnique DEF Current
  <2>5. Current(stacks, active, saved, lastSP, k)
    BY <2>3, <2>4
  <2>6. Tiled(w.s) /\ Foot(w.s) = w.sp
    BY <1>2, <1>3, <2>5 DEF Current
  <2>7. Tiled(r) /\ Foot(r) = v.sp
    BY <1>4, <1>6, <2>1, <2>6 DEF Keeps
  <2>8. v.sp = spNow
    <3>1. v.sp - v.delta = lastSP
      BY <1>1, <1>3, <1>4 DEF Keeps
    <3>2. v.sp \in Int /\ v.delta \in Int
      BY <1>5, WorkFacts
    <3> QED BY <1>1, <2>1, <3>1, <3>2
  <2> QED BY <1>1, <1>8, <1>9, <2>2, <2>5, <2>7, <2>8, StackStep
<1> QED BY <1>3, <1>5, <1>6, <1>7, <1>10, <1>11, <1>12, <1>13, <1>14

\* An instruction that stays on its stack preserves the invariant when it does to the records
\* of the program what it does to the frames.
LEMMA OrdinaryStep ==
  ASSUME TracerInv, ~broken, lastSP # 0, NEW c, c = Missing \/ c \in Seq(TraceCommand), NEW spNow \in Nat \ {0},
         NEW k, Place(stacks, active, k), Told(k, c, spNow),
         sp' = spNow, wild' = wild, saved' = saved, strayed' = strayed,
         NEW w, w = Starts(stacks[k], lastSP), NEW v, v = Result(w, c),
         Program(truth', saved # <<>>), wild => truth' = <<>>,
         Honest(wild, strayed, saved) => Done(w, v, truth', saved # <<>>, spNow - lastSP)
  PROVE  TracerInv'
<1>1. /\ w \in Work /\ v \in Work
      /\ Sorted(stacks') /\ Place(stacks', active', k) /\ stacks'[k] = v.s /\ broken' \in BOOLEAN
  BY OrdinaryTold
<1>2. ~broken' => /\ Layout(stacks') /\ Waits(stacks', saved, strayed)
                  /\ Current(stacks', active', saved, spNow, k)
  BY OrdinaryTold
<1>3. lastSP' = spNow
  BY DEF Told
<1>4. lastSP' \in Nat /\ lastSP' # 0 /\ lastSP' = sp'
  BY <1>3
<1>5. Types'
  <2>1. wild' \in BOOLEAN /\ strayed' \in BOOLEAN
    BY DEF TracerInv, Types
  <2>2. active' \in {stacks'[i].base : i \in 1 .. Len(stacks')}
    BY <1>1 DEF Place
  <2> QED BY <1>1, <1>3, <1>4, <2>1, <2>2 DEF Types
<1>6. Programs'
  <2>1. Interrupted(saved')
    BY DEF TracerInv, Programs
  <2>2. wild' => truth' = <<>> /\ saved' = <<>> /\ ~strayed'
    BY DEF TracerInv, Programs
  <2>3. Program(truth', saved' # <<>>)
    OBVIOUS
  <2> QED BY <2>1, <2>2, <2>3 DEF Programs
<1>7. Fresh'
  BY <1>4 DEF Fresh
<1>8. Settled'
  BY <1>2, <1>3, <1>4 DEF Settled
<1>9. Mirrored'
  <2> SUFFICES ASSUME Honest(wild, strayed, saved)
               PROVE  ~broken' /\ MirrorOf(stacks'[k], truth', saved # <<>>)
    BY <1>1 DEF Mirrored
  <2>1. Done(w, v, truth', saved # <<>>, spNow - lastSP)
    OBVIOUS
  <2>2. v.broken = w.broken /\ v.delta = w.delta + (spNow - lastSP) /\ MirrorOf(v.s, truth', saved # <<>>)
    BY <2>1 DEF Done
  <2>3. ~w.broken /\ w.delta = 0
    BY DEF Starts
  <2>4. broken' = (v.broken \/ v.delta # spNow - lastSP)
    BY DEF Told
  <2>5. lastSP \in Nat
    BY DEF TracerInv, Types
  <2>6. ~broken'
    <3>1. PICK d \in Int : d = spNow - lastSP
      BY <2>5
    <3>2. v.delta = d
      BY <2>2, <2>3, <3>1
    <3>3. ~v.broken
      BY <2>2, <2>3
    <3> QED BY <2>4, <3>1, <3>2, <3>3
  <2> QED BY <1>1, <2>2, <2>6
<1> QED BY <1>5, <1>6, <1>7, <1>8, <1>9 DEF TracerInv

\* Where the commands of an instruction start, on a stack that mirrors T.
Ready(w, T, h) == w \in Work /\ w.s.base # 0 /\ MirrorOf(w.s, T, h)

\* What is left to show of an instruction of the program: that its records stay well formed
\* and that its commands do to the frames what it does to them.
LEMMA Instructed ==
  ASSUME TracerInv, ~broken, lastSP # 0,
         NEW type \in {"CALL", "RET", "ALLOCATE", "DEALLOCATE"}, NEW tags, NEW spNow \in Nat \ {0},
         Runs(type, tags, spNow),
         NEW c, c = (IF tags = Missing THEN Default(type) ELSE tags), c # <<>>, c = Missing \/ c \in Seq(TraceCommand),
         wild' = wild, saved' = saved, strayed' = strayed,
         NEW h \in BOOLEAN, h = (saved # <<>>), Program(truth', h), wild => truth' = <<>>,
         Honest(wild, strayed, saved) =>
           \A w : Ready(w, truth, h) => Done(w, Result(w, c), truth', h, spNow - lastSP)
  PROVE  TracerInv'
<1>1. sp' = spNow /\ Notify(type, tags, spNow)
  BY DEF Runs
<1>2. Sorted(stacks) /\ lastSP \in Nat /\ Types
  BY DEF TracerInv, Types
<1>3. PICK k : Place(stacks, active, k)
  BY DEF TracerInv, Settled, Current
<1>4. Told(k, c, spNow)
  BY <1>1, <1>2, <1>3, Instruction
<1>5. PICK w : w = Starts(stacks[k], lastSP)
  OBVIOUS
<1>6. PICK v : v = Result(w, c)
  OBVIOUS
<1>7. Program(truth', saved # <<>>)
  OBVIOUS
<1>8. ASSUME Honest(wild, strayed, saved) PROVE Done(w, v, truth', saved # <<>>, spNow - lastSP)
  <2>1. PICK j : Place(stacks, active, j) /\ MirrorOf(stacks[j], truth, saved # <<>>)
    BY <1>8 DEF TracerInv, Mirrored
  <2>2. j = k
    BY <1>2, <1>3, <2>1, PlaceUnique
  <2>3. PICK s \in Stack : s = stacks[k] /\ s.base # 0
    BY <1>2, <1>3, SortedFacts DEF Place
  <2>4. MirrorOf(s, truth, h)
    BY <2>1, <2>2, <2>3
  <2>5. w \in Work /\ w.s = s
    <3>1. w = Starts(s, lastSP) /\ lastSP \in Int
      BY <1>2, <1>5, <2>3
    <3> QED BY <3>1, StartsFacts
  <2>6. Ready(w, truth, h)
    BY <2>3, <2>4, <2>5 DEF Ready
  <2>7. Done(w, v, truth', h, spNow - lastSP)
    BY <1>6, <1>8, <2>6
  <2> QED BY <2>7
<1> QED BY <1>1, <1>3, <1>4, <1>5, <1>6, <1>7, <1>8, OrdinaryStep

\* A list of commands is run.
LEMMA RunResult ==
  ASSUME NEW w, NEW c \in Seq(TraceCommand)
  PROVE  Result(w, c) = Run(w, c)
BY NotMissing DEF Result

-----------------------------------------------------------------------------
(* The instructions of a correct program.                                  *)

\* A tag names a list of slots.
LEMMA ListFacts ==
  ASSUME NEW list \in Lists
  PROVE  list \in Seq(Sz) /\ list # <<>> /\ Len(list) > 0 /\ Total(list) \in Nat
<1>1. PICK m \in 0 .. MaxArgs : list \in [1 .. m -> Sizes]
  BY DEF Lists, SeqOf
<1>2. Sizes \subseteq Sz
  BY DEF Sizes, Sz
<1>3. m \in Nat /\ list \in [1 .. m -> Sz]
  BY <1>1, <1>2, TracerAssumption
<1>4. list \in Seq(Sz)
  BY <1>3
<1>5. list # <<>>
  BY DEF Lists
<1>6. Len(list) > 0
  BY <1>4, <1>5
<1>7. Total(list) \in Nat
  BY <1>4, SzSeq, TotalReverse
<1> QED BY <1>4, <1>5, <1>6, <1>7

\* The commands of a tag.
IsTag(c) == c \in Seq(TraceCommand) /\ c # <<>> /\ c # Missing

\* Two lists of commands make a tag.
LEMMA ConcatTag ==
  ASSUME NEW a \in Seq(TraceCommand), NEW b \in Seq(TraceCommand), a # <<>> \/ b # <<>>
  PROVE  IsTag(a \o b)
<1>1. a \o b \in Seq(TraceCommand)
  BY ConcatProperties
<1>2. a \o b # <<>>
  BY ConcatEqualIffEmpty
<1> QED BY <1>1, <1>2, NotMissing DEF IsTag

\* The commands of the tags are commands.
LEMMA TagFacts ==
  ASSUME NEW list \in Seq(Sz)
  PROVE  /\ IsTag(ParamsTag(list)) /\ IsTag(ReleaseTag(list))
         /\ list # <<>> => IsTag(LocalsTag(list))
<1>1. PICK a : a = Memory("PUSH", list)
  OBVIOUS
<1>2. PICK b : b = Memory("POP", list)
  OBVIOUS
<1>3. a \in Seq(TraceCommand) /\ Len(a) = Len(list)
  BY <1>1, MemoryFacts
<1>4. b \in Seq(TraceCommand)
  BY <1>2, MemoryFacts
<1>5. PICK c : c = Plain("ADD_FRAME")
  OBVIOUS
<1>6. PICK d : d = Plain("REMOVE_FRAME")
  OBVIOUS
<1>7. c \in Seq(TraceCommand) /\ c # <<>>
  <2>1. c \in Seq(TraceCommand) /\ c = <<[op |-> "ADD_FRAME", size |-> 0]>>
    BY <1>5, PlainFacts
  <2> QED BY <2>1
<1>8. d \in Seq(TraceCommand) /\ d # <<>>
  <2>1. d \in Seq(TraceCommand) /\ d = <<[op |-> "REMOVE_FRAME", size |-> 0]>>
    BY <1>6, PlainFacts
  <2> QED BY <2>1
<1>9. IsTag(ParamsTag(list))
  <2>1. ParamsTag(list) = c \o a
    BY <1>1, <1>5 DEF ParamsTag
  <2> QED BY <1>3, <1>7, <2>1, ConcatTag
<1>10. IsTag(ReleaseTag(list))
  <2>1. ReleaseTag(list) = b \o d
    BY <1>2, <1>6 DEF ReleaseTag
  <2> QED BY <1>4, <1>8, <2>1, ConcatTag
<1>11. ASSUME list # <<>> PROVE IsTag(LocalsTag(list))
  <2>1. LocalsTag(list) = a
    BY <1>1 DEF LocalsTag
  <2>2. Len(list) # 0
    BY <1>11
  <2>3. a # <<>>
    BY <1>3, <2>2
  <2> QED BY <1>3, <2>1, <2>3, NotMissing DEF IsTag
<1> QED BY <1>9, <1>10, <1>11

\* A program runs only after the tracer has seen SP.
LEMMA Running ==
  ASSUME TracerInv
  PROVE  /\ lastSP # 0 => lastSP = sp
         /\ truth # <<>> => lastSP # 0
         /\ lastSP \in Nat /\ sp \in Nat \ {0} /\ Program(truth, saved # <<>>) /\ truth \in Seq(Record)
BY DEF TracerInv, Fresh, Settled, Types, Programs, Program

\* SP stays positive.
LEMMA FitsFacts ==
  ASSUME TracerInv, NEW n \in Nat, Fits(n)
  PROVE  sp - n \in Nat \ {0}
<1>1. sp \in Nat /\ UserBase \in Nat
  BY BaseFacts, Running
<1>2. sp - n > 0
  BY <1>1 DEF Fits
<1> QED BY <1>1, <1>2

\* @params of a caller.
LEMMA AllocateParamsStep ==
  ASSUME TracerInv, ~broken, NEW list \in Lists, AllocateParams(list), wild' = wild, ~wild
  PROVE  TracerInv'
<1>1. list \in Seq(Sz) /\ list # <<>> /\ Total(list) \in Nat
  BY ListFacts
<1>2. PICK h \in BOOLEAN : h = (saved # <<>>)
  OBVIOUS
<1>3. PICK T : T = truth
  OBVIOUS
<1>4. PICK U : U = truth'
  OBVIOUS
<1>5. PICK r : r = [params |-> list, entered |-> FALSE, locals |-> <<>>]
  OBVIOUS
<1>6. r \in Record /\ WellFormed(r)
  BY <1>1, <1>5 DEF Record, WellFormed
<1>7. Program(T, h)
  BY <1>2, <1>3, Running
<1>8. U = Append(T, r)
  BY <1>3, <1>4, <1>5 DEF AllocateParams, Entered
<1>9. Program(U, h) /\ Adds(T, U, r)
  BY <1>6, <1>7, <1>8, AppendProgram
<1>10. PICK c : c = ParamsTag(list)
  OBVIOUS
<1>11. IsTag(c)
  BY <1>1, <1>10, TagFacts
<1>12. PICK x : x = sp - Total(list)
  OBVIOUS
<1>13. x \in Nat \ {0}
  <2>1. Fits(Total(list))
    BY DEF AllocateParams, Entered
  <2> QED BY <1>1, <1>12, <2>1, FitsFacts
<1>14. lastSP # 0 /\ Runs("ALLOCATE", c, x) /\ saved' = saved /\ strayed' = strayed
  BY <1>10, <1>12 DEF AllocateParams, Entered
<1>15. x - lastSP = -Total(list)
  <2>1. lastSP = sp /\ sp \in Nat
    BY <1>14, Running
  <2> QED BY <1>1, <1>12, <2>1
<1>16. ASSUME NEW w, Ready(w, T, h) PROVE Done(w, Result(w, c), U, h, x - lastSP)
  <2>1. PICK v : v = Run(w, ParamsTag(list))
    OBVIOUS
  <2>2. w \in Work /\ w.s.base # 0 /\ MirrorOf(w.s, T, h)
    BY <1>16 DEF Ready
  <2>3. Done(w, v, U, h, -Total(list))
    BY <1>1, <1>5, <1>6, <1>7, <1>9, <2>1, <2>2, ParamsMirror
  <2>4. Result(w, c) = v
    BY <1>10, <1>11, <2>1, RunResult DEF IsTag
  <2> QED BY <1>15, <2>3, <2>4
<1>17. c = (IF c = Missing THEN Default("ALLOCATE") ELSE c) /\ c # <<>> /\ c \in Seq(TraceCommand)
  BY <1>11 DEF IsTag
<1> QED BY <1>2, <1>3, <1>4, <1>9, <1>13, <1>14, <1>16, <1>17, Instructed

\* The last record of a program.
LEMMA LastRecord ==
  ASSUME NEW T, NEW h, Program(T, h), T # <<>>
  PROVE  /\ Len(T) \in Nat /\ Len(T) # 0 /\ Last(T) = T[Len(T)] /\ Last(T) \in Record /\ WellFormed(Last(T))
         /\ h /\ Len(T) = 1 => Last(T).params = <<>> /\ Last(T).entered
<1>1. T \in Seq(Record) /\ Len(T) \in Nat /\ Len(T) # 0
  BY DEF Program
<1>2. Len(T) \in 1 .. Len(T)
  BY <1>1
<1>3. T[Len(T)] \in Record /\ WellFormed(T[Len(T)])
  BY <1>1, <1>2 DEF Program
<1>4. h /\ Len(T) = 1 => T[Len(T)].params = <<>> /\ T[Len(T)].entered
  BY DEF Program
<1> QED BY <1>1, <1>3, <1>4 DEF Last

\* An update of a field of the last record.
WithLocals(T, x) == [T EXCEPT ![Len(T)].locals = x]

\* The last record with other locals, ...
LEMMA LocalsUpdate ==
  ASSUME NEW T, NEW h, Program(T, h), T # <<>>, NEW t, t = Last(T), NEW x, NEW U, U = WithLocals(T, x),
         NEW r \in Record, WellFormed(r), r = [params |-> t.params, entered |-> t.entered, locals |-> x],
         h /\ Len(T) = 1 => r.params = <<>> /\ r.entered
  PROVE  Program(U, h) /\ Replaces(T, U, r)
<1>1. t \in Record /\ T[Len(T)] = t /\ Len(T) \in DOMAIN T
  BY LastRecord DEF Program
<1>2. [t EXCEPT !.locals = x] = r
  BY <1>1 DEF Record
<1>3. U = WithLast(T, r)
  BY <1>1, <1>2 DEF WithLocals, WithLast
<1> QED BY <1>3, ReplaceProgram

WithEntered(T, x) == [T EXCEPT ![Len(T)].entered = x]

\* ... or entered or left.
LEMMA EnteredUpdate ==
  ASSUME NEW T, NEW h, Program(T, h), T # <<>>, NEW t, t = Last(T), NEW x, NEW U, U = WithEntered(T, x),
         NEW r \in Record, WellFormed(r), r = [params |-> t.params, entered |-> x, locals |-> t.locals],
         h /\ Len(T) = 1 => r.params = <<>> /\ r.entered
  PROVE  Program(U, h) /\ Replaces(T, U, r)
<1>1. t \in Record /\ T[Len(T)] = t /\ Len(T) \in DOMAIN T
  BY LastRecord DEF Program
<1>2. [t EXCEPT !.entered = x] = r
  BY <1>1 DEF Record
<1>3. U = WithLast(T, r)
  BY <1>1, <1>2 DEF WithEntered, WithLast
<1> QED BY <1>3, ReplaceProgram

\* @locals of a routine.
LEMMA AllocateLocalsStep ==
  ASSUME TracerInv, ~broken, NEW list \in Lists, AllocateLocals(list), wild' = wild, ~wild
  PROVE  TracerInv'
<1>1. list \in Seq(Sz) /\ list # <<>> /\ Total(list) \in Nat
  BY ListFacts
<1>2. PICK h \in BOOLEAN : h = (saved # <<>>)
  OBVIOUS
<1>3. PICK T : T = truth
  OBVIOUS
<1>4. PICK U : U = truth'
  OBVIOUS
<1>5. Program(T, h) /\ T # <<>>
  BY <1>2, <1>3, Running DEF AllocateLocals
<1>6. PICK t : t = Last(T)
  OBVIOUS
<1>7. t \in Record /\ T[Len(T)] = t /\ t.entered /\ t.locals \in Seq(Sz) /\ t.params \in Seq(Sz) /\ t.entered = TRUE
  <2>1. t \in Record /\ T[Len(T)] = t
    BY <1>5, <1>6, LastRecord
  <2>2. t.entered
    BY <1>3, <1>6 DEF AllocateLocals
  <2> QED BY <2>1, <2>2 DEF Record
<1>8. PICK x \in Seq(Sz) : x = t.locals \o list
  <2>1. PICK l \in Seq(Sz) : l = t.locals
    BY <1>7
  <2>2. l \o list \in Seq(Sz)
    BY <1>1, ConcatProperties
  <2> QED BY <2>1, <2>2
<1>9. PICK r : r = [params |-> t.params, entered |-> t.entered, locals |-> x]
  OBVIOUS
<1>10. r \in Record /\ WellFormed(r) /\ r.params = t.params /\ r.entered /\ r.locals = x
  BY <1>7, <1>9 DEF Record, WellFormed
<1>11. U = WithLocals(T, x)
  BY <1>3, <1>4, <1>7, <1>8 DEF AllocateLocals, WithLocals
<1>12. Program(U, h) /\ Replaces(T, U, r)
  <2>1. h /\ Len(T) = 1 => r.params = <<>> /\ r.entered
    BY <1>5, <1>6, <1>10, LastRecord
  <2> QED BY <1>5, <1>6, <1>9, <1>10, <1>11, <2>1, LocalsUpdate
<1>13. PICK c : c = LocalsTag(list)
  OBVIOUS
<1>14. IsTag(c)
  BY <1>1, <1>13, TagFacts
<1>15. PICK y : y = sp - Total(list)
  OBVIOUS
<1>16. y \in Nat \ {0}
  <2>1. Fits(Total(list))
    BY DEF AllocateLocals
  <2> QED BY <1>1, <1>15, <2>1, FitsFacts
<1>17. lastSP # 0 /\ Runs("ALLOCATE", c, y) /\ saved' = saved /\ strayed' = strayed
  BY <1>13, <1>15, Running DEF AllocateLocals
<1>18. y - lastSP = -Total(list)
  <2>1. lastSP = sp /\ sp \in Nat
    BY <1>17, Running
  <2> QED BY <1>1, <1>15, <2>1
<1>19. ASSUME NEW w, Ready(w, T, h) PROVE Done(w, Result(w, c), U, h, y - lastSP)
  <2>1. PICK v : v = Run(w, LocalsTag(list))
    OBVIOUS
  <2>2. w \in Work /\ MirrorOf(w.s, T, h)
    BY <1>19 DEF Ready
  <2>3. r.params = T[Len(T)].params /\ r.locals = T[Len(T)].locals \o list /\ T[Len(T)].entered
    BY <1>7, <1>8, <1>10
  <2>4. Done(w, v, U, h, -Total(list))
    BY <1>1, <1>5, <1>10, <1>12, <2>1, <2>2, <2>3, LocalsMirror
  <2>5. Result(w, c) = v
    BY <1>13, <1>14, <2>1, RunResult DEF IsTag
  <2> QED BY <1>18, <2>4, <2>5
<1>20. c = (IF c = Missing THEN Default("ALLOCATE") ELSE c) /\ c # <<>> /\ c \in Seq(TraceCommand)
  BY <1>14 DEF IsTag
<1> QED BY <1>2, <1>3, <1>4, <1>12, <1>16, <1>17, <1>19, <1>20, Instructed

\* The command of an instruction without a tag.
LEMMA DefaultRun ==
  ASSUME NEW op \in {"CALL", "RET"}, NEW c, c = Default(op)
  PROVE  /\ IsTag(c) /\ c = (IF Missing = Missing THEN Default(op) ELSE Missing)
         /\ \A w : Result(w, c) = ExecuteCommand(w, [op |-> op, size |-> 1])
<1>1. c = Memory(op, <<1>>)
  BY DEF Default
<1>2. PICK o \in Seq(Sz) : o = <<1>> /\ Len(o) = 1 /\ o[1] = 1
  BY ContextFacts
<1>3. PICK x : x = [op |-> op, size |-> 1]
  OBVIOUS
<1>4. c \in Seq(TraceCommand) /\ Len(c) = 1 /\ c[1] = x
  <2>1. c = Memory(op, o)
    BY <1>1, <1>2
  <2>2. c \in Seq(TraceCommand) /\ Len(c) = Len(o) /\ \A i \in 1 .. Len(o) : c[i] = [op |-> op, size |-> o[i]]
    BY <2>1, MemoryFacts
  <2> QED BY <1>2, <1>3, <2>2
<1>5. c = <<x>>
  <2>1. x \in TraceCommand
    BY <1>3 DEF TraceCommand
  <2>2. PICK y \in Seq(TraceCommand) : y = <<x>> /\ Len(y) = 1 /\ y[1] = x
    <3>1. <<x>> \in Seq(TraceCommand)
      BY <2>1
    <3>2. Len(<<x>>) = 1 /\ <<x>>[1] = x
      OBVIOUS
    <3> QED BY <3>1, <3>2
  <2>3. \A i \in 1 .. Len(c) : c[i] = y[i]
    BY <1>4, <2>2
  <2> QED BY <1>4, <2>2, <2>3, SeqEqual
<1>6. IsTag(c)
  <2>1. c # <<>>
    BY <1>5
  <2> QED BY <1>4, <2>1, NotMissing DEF IsTag
<1>7. ASSUME NEW w PROVE Result(w, c) = ExecuteCommand(w, x)
  <2>1. Result(w, c) = Run(w, c)
    BY <1>4, RunResult
  <2>2. Run(w, c) = ExecuteCommand(w, x)
    BY <1>5, RunOne
  <2> QED BY <2>1, <2>2
<1> QED BY <1>3, <1>6, <1>7

\* CALL.
LEMMA CallRoutineStep ==
  ASSUME TracerInv, ~broken, CallRoutine, wild' = wild, ~wild
  PROVE  TracerInv'
<1>1. PICK h \in BOOLEAN : h = (saved # <<>>)
  OBVIOUS
<1>2. PICK T : T = truth
  OBVIOUS
<1>3. PICK U : U = truth'
  OBVIOUS
<1>4. Program(T, h) /\ T # <<>>
  BY <1>1, <1>2, Running DEF CallRoutine
<1>5. PICK t : t = Last(T)
  OBVIOUS
<1>6. /\ t \in Record /\ T[Len(T)] = t /\ WellFormed(t)
      /\ t.entered \in BOOLEAN /\ t.params \in Seq(Sz) /\ t.locals \in Seq(Sz)
  <2>1. t \in Record /\ T[Len(T)] = t /\ WellFormed(t)
    BY <1>4, <1>5, LastRecord
  <2> QED BY <2>1 DEF Record
<1>7. PICK c : c = Default("CALL")
  OBVIOUS
<1>8. PICK op \in {"CALL", "RET"} : op = "CALL"
  OBVIOUS
<1>9. IsTag(c) /\ \A w : Result(w, c) = Call(w, 1)
  <2>1. c = Default(op)
    BY <1>7, <1>8
  <2>2. IsTag(c)
    BY <2>1, DefaultRun
  <2>3. \A w : Result(w, c) = ExecuteCommand(w, [op |-> op, size |-> 1])
    BY <2>1, DefaultRun
  <2>4. \A w : ExecuteCommand(w, [op |-> op, size |-> 1]) = Call(w, 1)
    BY <1>8 DEF ExecuteCommand
  <2> QED BY <2>2, <2>3, <2>4
<1>10. PICK x : x = sp - 1
  OBVIOUS
<1>11. x \in Nat \ {0}
  <2>1. Fits(1)
    BY DEF CallRoutine
  <2> QED BY <1>10, <2>1, FitsFacts
<1>12. lastSP # 0 /\ Runs("CALL", Missing, x) /\ saved' = saved /\ strayed' = strayed
  BY <1>10, Running DEF CallRoutine, FoundAtTarget
<1>13. x - lastSP = -1
  <2>1. lastSP = sp /\ sp \in Nat
    BY <1>12, Running
  <2> QED BY <1>10, <2>1
<1>16. Program(U, h) /\ \A w : Ready(w, T, h) => Done(w, Result(w, c), U, h, x - lastSP)
  <2>1. CASE t.entered
    <3>1. PICK r : r = [params |-> <<>>, entered |-> TRUE, locals |-> <<>>]
      OBVIOUS
    <3>2. r \in Record /\ WellFormed(r) /\ r.params = <<>> /\ r.entered /\ r.locals = <<>>
      BY <3>1 DEF Record, WellFormed
    <3>3. U = Append(T, r)
      BY <1>2, <1>3, <1>5, <2>1, <3>1 DEF CallRoutine
    <3>4. Program(U, h) /\ Adds(T, U, r)
      BY <1>4, <3>2, <3>3, AppendProgram
    <3>5. T[Len(T)].entered
      BY <1>6, <2>1
    <3>6. ASSUME NEW w, Ready(w, T, h) PROVE Done(w, Result(w, c), U, h, x - lastSP)
      <4>1. PICK v : v = Call(w, 1)
        OBVIOUS
      <4>2. w \in Work /\ MirrorOf(w.s, T, h)
        BY <3>6 DEF Ready
      <4>3. Done(w, v, U, h, -1)
        BY <1>4, <3>2, <3>4, <3>5, <4>1, <4>2, CallMirror
      <4> QED BY <1>9, <1>13, <4>1, <4>3
    <3> QED BY <3>4, <3>6
  <2>2. CASE ~t.entered
    <3>1. PICK r : r = [params |-> t.params, entered |-> TRUE, locals |-> t.locals]
      OBVIOUS
    <3>2. r \in Record /\ WellFormed(r) /\ r.params = t.params /\ r.entered /\ r.locals = t.locals
      BY <1>6, <3>1 DEF Record, WellFormed
    <3>3. U = WithEntered(T, TRUE)
      BY <1>2, <1>3, <1>5, <2>2 DEF CallRoutine, WithEntered
    <3>4. Program(U, h) /\ Replaces(T, U, r)
      <4>1. h /\ Len(T) = 1 => r.params = <<>> /\ r.entered
        BY <1>4, <1>5, <3>2, LastRecord
      <4>2. PICK on : on = TRUE
        OBVIOUS
      <4>3. U = WithEntered(T, on) /\ r = [params |-> t.params, entered |-> on, locals |-> t.locals]
        BY <3>1, <3>3, <4>2
      <4> QED BY <1>4, <1>5, <3>2, <4>1, <4>3, EnteredUpdate
    <3>5. ~T[Len(T)].entered /\ r.params = T[Len(T)].params /\ r.locals = T[Len(T)].locals
      BY <1>6, <2>2, <3>2
    <3>6. ASSUME NEW w, Ready(w, T, h) PROVE Done(w, Result(w, c), U, h, x - lastSP)
      <4>1. PICK v : v = Call(w, 1)
        OBVIOUS
      <4>2. w \in Work /\ MirrorOf(w.s, T, h)
        BY <3>6 DEF Ready
      <4>3. Done(w, v, U, h, -1)
        BY <1>4, <3>2, <3>4, <3>5, <4>1, <4>2, EnterMirror
      <4> QED BY <1>9, <1>13, <4>1, <4>3
    <3> QED BY <3>4, <3>6
  <2> QED BY <2>1, <2>2
<1>17. c = (IF Missing = Missing THEN Default("CALL") ELSE Missing) /\ c # <<>> /\ c \in Seq(TraceCommand)
  BY <1>7, <1>9 DEF IsTag
<1> QED BY <1>1, <1>2, <1>3, <1>11, <1>12, <1>16, <1>17, Instructed

\* A routine releases locals.
LEMMA ReleaseLocalsStep ==
  ASSUME TracerInv, ~broken, NEW list \in Lists, ReleaseLocals(list), wild' = wild, ~wild
  PROVE  TracerInv'
<1>1. list \in Seq(Sz) /\ list # <<>> /\ Len(list) > 0 /\ Total(list) \in Nat
  BY ListFacts
<1>2. PICK h \in BOOLEAN : h = (saved # <<>>)
  OBVIOUS
<1>3. PICK T : T = truth
  OBVIOUS
<1>4. PICK U : U = truth'
  OBVIOUS
<1>5. Program(T, h) /\ T # <<>>
  BY <1>2, <1>3, Running DEF ReleaseLocals
<1>6. PICK t : t = Last(T)
  OBVIOUS
<1>7. t \in Record /\ T[Len(T)] = t /\ WellFormed(t)
  BY <1>5, <1>6, LastRecord
<1>8. PICK l \in Seq(Sz) : l = t.locals
  BY <1>7 DEF Record
<1>9. IsSuffix(list, l)
  BY <1>3, <1>6, <1>8 DEF ReleaseLocals
<1>10. PICK k \in Seq(Sz) : k = SubSeq(l, 1, Len(l) - Len(list)) /\ l = k \o list /\ Len(list) <= Len(l)
  BY <1>1, <1>9, SuffixSplits
<1>11. t.entered
  <2>1. Len(l) # 0
    BY <1>1, <1>10
  <2>2. l # <<>>
    BY <2>1
  <2> QED BY <1>7, <1>8, <2>2 DEF WellFormed
<1>12. PICK r : r = [params |-> t.params, entered |-> t.entered, locals |-> k]
  OBVIOUS
<1>13. r \in Record /\ WellFormed(r) /\ r.params = t.params /\ r.entered = t.entered /\ r.locals = k
  BY <1>7, <1>11, <1>12 DEF Record, WellFormed
<1>14. Unwinds(t, r, list)
  BY <1>8, <1>9, <1>10, <1>13 DEF Unwinds
<1>15. U = WithLocals(T, k)
  <2>1. T[Len(T)].locals = l
    BY <1>7, <1>8
  <2>2. U = [T EXCEPT ![Len(T)].locals = SubSeq(l, 1, Len(l) - Len(list))]
    BY <1>3, <1>4, <2>1 DEF ReleaseLocals
  <2> QED BY <1>10, <2>2 DEF WithLocals
<1>16. Program(U, h) /\ Replaces(T, U, r)
  <2>1. h /\ Len(T) = 1 => r.params = <<>> /\ r.entered
    BY <1>5, <1>6, <1>11, <1>13, LastRecord
  <2> QED BY <1>5, <1>6, <1>12, <1>13, <1>15, <2>1, LocalsUpdate
<1>17. PICK c : c = ReleaseTag(Reverse(list))
  OBVIOUS
<1>18. IsTag(c)
  <2>1. Reverse(list) \in Seq(Sz)
    BY <1>1, ReverseFacts
  <2> QED BY <1>17, <2>1, TagFacts
<1>19. PICK x : x = sp + Total(list)
  OBVIOUS
<1>20. lastSP # 0 /\ Runs("DEALLOCATE", c, x) /\ saved' = saved /\ strayed' = strayed
  BY <1>17, <1>19, Running DEF ReleaseLocals
<1>21. x \in Nat \ {0} /\ x - lastSP = Total(list)
  <2>1. lastSP = sp /\ sp \in Nat \ {0}
    BY <1>20, Running
  <2> QED BY <1>1, <1>19, <2>1
<1>22. ASSUME NEW w, Ready(w, T, h) PROVE Done(w, Result(w, c), U, h, x - lastSP)
  <2>1. PICK v : v = Run(w, ReleaseTag(Reverse(list)))
    OBVIOUS
  <2>2. w \in Work /\ MirrorOf(w.s, T, h)
    BY <1>22 DEF Ready
  <2>3. Unwinds(T[Len(T)], r, list)
    BY <1>7, <1>14
  <2>4. Done(w, v, U, h, Total(list))
    BY <1>1, <1>5, <1>13, <1>16, <2>1, <2>2, <2>3, ReleaseMirror
  <2>5. Result(w, c) = v
    BY <1>17, <1>18, <2>1, RunResult DEF IsTag
  <2> QED BY <1>21, <2>4, <2>5
<1>23. c = (IF c = Missing THEN Default("DEALLOCATE") ELSE c) /\ c # <<>> /\ c \in Seq(TraceCommand)
  BY <1>18 DEF IsTag
<1> QED BY <1>2, <1>3, <1>4, <1>16, <1>20, <1>21, <1>22, <1>23, Instructed

\* RET.
LEMMA ReturnStep ==
  ASSUME TracerInv, ~broken, Return, wild' = wild, ~wild
  PROVE  TracerInv'
<1>1. PICK h \in BOOLEAN : h = (saved # <<>>)
  OBVIOUS
<1>2. PICK T : T = truth
  OBVIOUS
<1>3. PICK U : U = truth'
  OBVIOUS
<1>4. Program(T, h) /\ T # <<>>
  BY <1>1, <1>2, Running DEF Return
<1>5. PICK t : t = Last(T)
  OBVIOUS
<1>6. /\ t \in Record /\ T[Len(T)] = t /\ WellFormed(t)
      /\ t.entered /\ t.params \in Seq(Sz) /\ t.locals = <<>>
  <2>1. t \in Record /\ T[Len(T)] = t /\ WellFormed(t)
    BY <1>4, <1>5, LastRecord
  <2>2. t.entered /\ t.locals = <<>>
    BY <1>2, <1>5 DEF Return
  <2> QED BY <2>1, <2>2 DEF Record
<1>7. Returns(T, h)
  <2>1. ~(h /\ Len(T) = 1)
    BY <1>1, <1>2 DEF Return, InHandler
  <2> QED BY <1>4, <1>6, <2>1 DEF Returns
<1>8. PICK c : c = Default("RET")
  OBVIOUS
<1>9. IsTag(c) /\ \A w : Result(w, c) = Ret(w, 1)
  <2>1. PICK op \in {"CALL", "RET"} : op = "RET"
    OBVIOUS
  <2>2. c = Default(op)
    BY <1>8, <2>1
  <2>3. IsTag(c)
    BY <2>2, DefaultRun
  <2>4. \A w : Result(w, c) = ExecuteCommand(w, [op |-> op, size |-> 1])
    BY <2>2, DefaultRun
  <2>5. \A w : ExecuteCommand(w, [op |-> op, size |-> 1]) = Ret(w, 1)
    BY <2>1 DEF ExecuteCommand
  <2> QED BY <2>3, <2>4, <2>5
<1>10. PICK x : x = sp + 1
  OBVIOUS
<1>11. lastSP # 0 /\ Runs("RET", Missing, x) /\ saved' = saved /\ strayed' = strayed
  BY <1>10, Running DEF Return, FoundAtTarget
<1>12. x \in Nat \ {0} /\ x - lastSP = 1
  <2>1. lastSP = sp /\ sp \in Nat
    BY <1>11, Running
  <2> QED BY <1>10, <2>1
<1>15. Program(U, h) /\ \A w : Ready(w, T, h) => Done(w, Result(w, c), U, h, x - lastSP)
  <2>1. CASE t.params = <<>>
    <3>1. U = Front(T)
      BY <1>2, <1>3, <1>5, <2>1 DEF Return
    <3>2. Program(U, h) /\ Drops(T, U)
      BY <1>4, <1>7, <3>1, FrontProgram DEF Returns
    <3>3. T[Len(T)].params = <<>>
      BY <1>6, <2>1
    <3>4. ASSUME NEW w, Ready(w, T, h) PROVE Done(w, Result(w, c), U, h, x - lastSP)
      <4>1. PICK v : v = Ret(w, 1)
        OBVIOUS
      <4>2. w \in Work /\ MirrorOf(w.s, T, h)
        BY <3>4 DEF Ready
      <4>3. Done(w, v, U, h, 1)
        BY <1>4, <1>7, <3>2, <3>3, <4>1, <4>2, ReturnDrops
      <4> QED BY <1>9, <1>12, <4>1, <4>3
    <3> QED BY <3>2, <3>4
  <2>2. CASE t.params # <<>>
    <3>1. PICK off \in BOOLEAN : off = FALSE
      OBVIOUS
    <3>2. PICK r : r = [params |-> t.params, entered |-> off, locals |-> t.locals]
      OBVIOUS
    <3>3. r \in Record /\ WellFormed(r) /\ r.params = t.params /\ ~r.entered /\ r.locals = <<>>
      BY <1>6, <2>2, <3>1, <3>2 DEF Record, WellFormed
    <3>4. U = WithEntered(T, off)
      BY <1>2, <1>3, <1>5, <2>2, <3>1 DEF Return, WithEntered
    <3>5. Program(U, h) /\ Replaces(T, U, r)
      <4>1. h /\ Len(T) = 1 => r.params = <<>> /\ r.entered
        BY <1>7 DEF Returns
      <4> QED BY <1>4, <1>5, <3>2, <3>3, <3>4, <4>1, EnteredUpdate
    <3>6. T[Len(T)].params # <<>> /\ r.params = T[Len(T)].params
      BY <1>6, <2>2, <3>3
    <3>7. ASSUME NEW w, Ready(w, T, h) PROVE Done(w, Result(w, c), U, h, x - lastSP)
      <4>1. PICK v : v = Ret(w, 1)
        OBVIOUS
      <4>2. w \in Work /\ MirrorOf(w.s, T, h)
        BY <3>7 DEF Ready
      <4>3. Done(w, v, U, h, 1)
        BY <1>4, <1>7, <3>3, <3>5, <3>6, <4>1, <4>2, ReturnLeaves
      <4> QED BY <1>9, <1>12, <4>1, <4>3
    <3> QED BY <3>5, <3>7
  <2> QED BY <2>1, <2>2
<1>16. c = (IF Missing = Missing THEN Default("RET") ELSE Missing) /\ c # <<>> /\ c \in Seq(TraceCommand)
  BY <1>8, <1>9 DEF IsTag
<1> QED BY <1>1, <1>2, <1>3, <1>11, <1>12, <1>15, <1>16, Instructed

\* A caller releases the parameters.
LEMMA ReleaseParamsStep ==
  ASSUME TracerInv, ~broken, ReleaseParams, wild' = wild, ~wild
  PROVE  TracerInv'
<1>1. PICK h \in BOOLEAN : h = (saved # <<>>)
  OBVIOUS
<1>2. PICK T : T = truth
  OBVIOUS
<1>3. PICK U : U = truth'
  OBVIOUS
<1>4. Program(T, h) /\ T # <<>>
  BY <1>1, <1>2, Running DEF ReleaseParams
<1>5. PICK t : t = Last(T)
  OBVIOUS
<1>6. t \in Record /\ T[Len(T)] = t /\ ~t.entered
  <2>1. t \in Record /\ T[Len(T)] = t
    BY <1>4, <1>5, LastRecord
  <2> QED BY <1>2, <1>5, <2>1 DEF ReleaseParams
<1>7. PICK list \in Seq(Sz) : list = t.params
  BY <1>6 DEF Record
<1>8. Total(list) \in Nat
  BY SzSeq, TotalReverse
<1>9. U = Front(T)
  BY <1>2, <1>3 DEF ReleaseParams
<1>10. ~(h /\ Len(T) = 1)
  BY <1>4, <1>5, <1>6, LastRecord
<1>11. Program(U, h) /\ Drops(T, U)
  BY <1>4, <1>9, <1>10, FrontProgram
<1>12. PICK c : c = ReleaseTag(Reverse(list))
  OBVIOUS
<1>13. IsTag(c)
  <2>1. Reverse(list) \in Seq(Sz)
    BY ReverseFacts
  <2> QED BY <1>12, <2>1, TagFacts
<1>14. PICK x : x = sp + Total(list)
  OBVIOUS
<1>15. lastSP # 0 /\ Runs("DEALLOCATE", c, x) /\ saved' = saved /\ strayed' = strayed
  <2>1. Last(truth).params = list
    BY <1>2, <1>5, <1>7
  <2> QED BY <1>12, <1>14, <2>1, Running DEF ReleaseParams
<1>16. x \in Nat \ {0} /\ x - lastSP = Total(list)
  <2>1. lastSP = sp /\ sp \in Nat \ {0}
    BY <1>15, Running
  <2> QED BY <1>8, <1>14, <2>1
<1>17. ASSUME NEW w, Ready(w, T, h) PROVE Done(w, Result(w, c), U, h, x - lastSP)
  <2>1. PICK v : v = Run(w, ReleaseTag(Reverse(list)))
    OBVIOUS
  <2>2. w \in Work /\ MirrorOf(w.s, T, h)
    BY <1>17 DEF Ready
  <2>3. ~T[Len(T)].entered /\ list = T[Len(T)].params
    BY <1>6, <1>7
  <2>4. Done(w, v, U, h, Total(list))
    BY <1>4, <1>11, <2>1, <2>2, <2>3, UnparamsMirror
  <2>5. Result(w, c) = v
    BY <1>12, <1>13, <2>1, RunResult DEF IsTag
  <2> QED BY <1>16, <2>4, <2>5
<1>18. c = (IF c = Missing THEN Default("DEALLOCATE") ELSE c) /\ c # <<>> /\ c \in Seq(TraceCommand)
  BY <1>13 DEF IsTag
<1> QED BY <1>1, <1>2, <1>3, <1>11, <1>15, <1>16, <1>17, <1>18, Instructed

-----------------------------------------------------------------------------
(* The first instruction, and the next session.                            *)

\* Without stacks a new one is made.
LEMMA FirstStack ==
  ASSUME NEW b \in Nat \ {0}, NEW none, none = <<>>, NEW t, t = GetOrAddStack(none, b)
  PROVE  \E ss : /\ Holds(t, ss, b) /\ Sorted(ss) /\ Len(ss) = 1 /\ ss[1] = NewStack(b)
<1>1. Sorted(none) /\ Len(none) = 0
  BY DEF Sorted
<1>2. \A i \in 1 .. Len(none) : FALSE
  BY <1>1
<1>3. t = [stacks |-> AddStack(none, b), active |-> b]
  <2>1. \A i \in 1 .. Len(none) : ~StackContains(none[i], b)
    BY <1>2
  <2> QED BY <2>1, AddsStack
<1>4. PICK ss : ss = AddStack(none, b)
  OBVIOUS
<1>6. GoesLast(none, b, ss)
  <2>1. \A i \in 1 .. Len(none) : none[i].base < b
    BY <1>2
  <2> QED BY <1>1, <1>4, <2>1, AddsLast
<1>7. Sorted(ss) /\ Len(ss) = Len(none) + 1 /\ ss[Len(none) + 1] = NewStack(b)
  BY <1>6 DEF GoesLast
<1>8. Len(ss) = 1 /\ ss[1] = NewStack(b)
  BY <1>1, <1>7
<1> QED BY <1>3, <1>4, <1>7, <1>8 DEF Holds

\* MOVASP has no commands.
LEMMA NoCommands ==
  Default("ASSIGN") = <<>> /\ Missing # <<>> /\ <<>> \in Seq(TraceCommand)
<1>1. Len(Missing) = 1
  BY DEF Missing
<1> QED BY <1>1 DEF Default

\* What Boot leaves: one stack, empty, with SP at its base.
Booted(b) ==
  /\ lastSP' = b /\ active' = b /\ broken' = FALSE /\ sp' = b
  /\ Sorted(stacks') /\ Len(stacks') = 1 /\ stacks'[1] = NewStack(b)

\* MOVASP makes the first stack.
LEMMA BootMakes ==
  ASSUME TracerInv, Boot
  PROVE  \E b \in 1 .. UserBase : Booted(b)
<1>1. PICK b : b = UserBase
  OBVIOUS
<1>2. b \in 1 .. UserBase /\ b \in Nat \ {0}
  BY <1>1, BaseFacts
<1>3. lastSP = 0 /\ sp' = b /\ Notify("ASSIGN", Missing, b)
  BY <1>1 DEF Boot, Runs
<1>4. stacks = <<>> /\ ~broken
  BY <1>3 DEF TracerInv, Fresh
<1>5. PICK c : c = Default("ASSIGN")
  OBVIOUS
<1>6. c = <<>> /\ c # Missing /\ c \in Seq(TraceCommand)
  BY <1>5, NoCommands
<1>7. PICK t : t = GetOrAddStack(stacks, b)
  OBVIOUS
<1>8. PICK future : future = 0
  OBVIOUS
<1>9. lastSP' = b /\ Process(t, c, b, b, future)
  BY <1>3, <1>4, <1>5, <1>6, <1>7, <1>8 DEF Notify, Chosen
<1>10. PICK ss : Holds(t, ss, b) /\ Sorted(ss) /\ Len(ss) = 1 /\ ss[1] = NewStack(b)
  <2>1. PICK none : none = stacks
    OBVIOUS
  <2>2. none = <<>> /\ t = GetOrAddStack(none, b)
    BY <1>4, <1>7, <2>1
  <2> QED BY <1>2, <2>2, FirstStack
<1>11. PICK s : s = NewStack(b)
  OBVIOUS
<1>12. s \in Stack /\ s.base = b
  BY <1>2, <1>11, NewStackFacts
<1>13. PICK k : k = 1
  OBVIOUS
<1>14. Place(ss, b, k) /\ ss[k] = s
  BY <1>10, <1>11, <1>12, <1>13 DEF Place
<1>15. PICK v : v = Run(Starts(ss[k], b), c)
  OBVIOUS
<1>16. v = Starts(s, b)
  <2>1. v = Starts(ss[k], b)
    BY <1>6, <1>15, RunEmpty
  <2> QED BY <1>14, <2>1
<1>17. v.s = s /\ ~v.broken /\ v.broken \in BOOLEAN
  BY <1>16 DEF Starts
<1>18. PICK tt : tt = [ss EXCEPT ![k] = v.s]
  OBVIOUS
<1>19. tt = ss
  BY <1>10, <1>14, <1>17, <1>18 DEF Sorted
<1>20. PICK u : u = IF future = 0 THEN [stacks |-> tt, active |-> b] ELSE GetOrAddStack(tt, future)
  OBVIOUS
<1>21. Leaves(u, v, c, b - b)
  BY <1>9, <1>10, <1>14, <1>15, <1>18, <1>20, ProcessFacts
<1>22. u = [stacks |-> ss, active |-> b]
  BY <1>8, <1>19, <1>20
<1>23. stacks' = ss /\ active' = b
  BY <1>21, <1>22 DEF Leaves
<1>24. broken' = FALSE
  BY <1>6, <1>17, <1>21 DEF Leaves, Mismatch
<1> QED BY <1>2, <1>3, <1>9, <1>10, <1>23, <1>24 DEF Booted

\* The first instruction.
LEMMA BootStep ==
  ASSUME TracerInv, Boot, wild' = wild
  PROVE  TracerInv'
<1>1. PICK b \in 1 .. UserBase : Booted(b)
  BY BootMakes
<1>2. /\ lastSP' = b /\ active' = b /\ broken' = FALSE /\ sp' = b
      /\ Sorted(stacks') /\ Len(stacks') = 1 /\ stacks'[1] = NewStack(b)
  BY <1>1 DEF Booted
<1>3. b \in Nat \ {0} /\ b <= UserBase /\ UserBase \in Nat /\ SystemBase \in Nat /\ SystemBase > UserBase
  BY BaseFacts
<1>4. truth = <<>> /\ saved = <<>> /\ ~strayed /\ strayed \in BOOLEAN /\ wild \in BOOLEAN
  BY DEF Boot, TracerInv, Fresh, Types
<1>5. truth' = <<>> /\ saved' = <<>> /\ ~strayed' /\ strayed' \in BOOLEAN
  BY <1>4 DEF Boot, records
<1>6. PICK ss : ss = stacks'
  OBVIOUS
<1>7. PICK s : s = NewStack(b)
  OBVIOUS
<1>8. s \in Stack /\ s.base = b /\ s.frames = <<EmptyFrame>> /\ Tiled(s) /\ Foot(s) = b
  BY <1>3, <1>7, NewStackFacts
<1>9. Sorted(ss) /\ Len(ss) = 1 /\ ss[1] = s
  BY <1>2, <1>6, <1>7
<1>10. Types'
  <2>1. active' \in {stacks'[i].base : i \in 1 .. Len(stacks')}
    BY <1>2, <1>6, <1>8, <1>9
  <2> QED BY <1>2, <1>3, <1>4, <1>5, <2>1 DEF Types
<1>11. Programs'
  <2>1. Program(truth, saved # <<>>)
    BY Running
  <2>2. Program(truth', saved' # <<>>)
    BY <1>4, <1>5, <2>1
  <2> QED BY <1>5, <2>2 DEF Programs, Interrupted
<1>12. Fresh'
  BY <1>2, <1>3 DEF Fresh
<1>13. Layout(ss) /\ Waits(ss, <<>>, strayed') /\ Current(ss, b, <<>>, b, 1)
  <2>1. Layout(ss)
    BY <1>3, <1>8, <1>9 DEF Layout
  <2>2. Waits(ss, <<>>, strayed')
    BY <1>3, <1>8, <1>9 DEF Waits
  <2>3. Current(ss, b, <<>>, b, 1)
    BY <1>8, <1>9 DEF Current, Place
  <2> QED BY <2>1, <2>2, <2>3
<1>14. Settled'
  BY <1>2, <1>5, <1>6, <1>13 DEF Settled
<1>15. Mirrored'
  <2>1. Place(ss, b, 1) /\ MirrorOf(ss[1], <<>>, FALSE)
    BY <1>8, <1>9 DEF Place, MirrorOf, Blank
  <2> QED BY <1>2, <1>5, <1>6, <2>1 DEF Mirrored, MirrorOf
<1> QED BY <1>10, <1>11, <1>12, <1>14, <1>15 DEF TracerInv

\* The invariant holds initially.
LEMMA InitHolds ==
  ASSUME TracerInit
  PROVE  TracerInv
<1>1. SystemStack \in Nat \ {0} /\ Sorted(<<>>) /\ Program(<<>>, FALSE)
  BY TracerAssumption DEF Sorted, Program
<1>2. Types
  BY <1>1 DEF TracerInit, Types
<1>3. Programs
  BY <1>1 DEF TracerInit, Programs, Interrupted
<1> QED BY <1>2, <1>3 DEF TracerInit, TracerInv, Fresh, Settled, Mirrored

\* The next session starts without stacks.
LEMMA RestartStep ==
  ASSUME Restart, wild' \in BOOLEAN
  PROVE  TracerInv'
<1>1. SystemStack \in Nat \ {0} /\ Sorted(<<>>) /\ Program(<<>>, FALSE)
  BY TracerAssumption DEF Sorted, Program
<1>2. Types'
  BY <1>1 DEF Restart, ClearStacks, Types
<1>3. Programs'
  BY <1>1 DEF Restart, Programs, Interrupted
<1> QED BY <1>2, <1>3 DEF Restart, ClearStacks, TracerInv, Fresh, Settled, Mirrored

-----------------------------------------------------------------------------
(* A trap.                                                                 *)

\* A stack that holds nothing ends at its base.
LEMMA BlankFoot ==
  ASSUME NEW s \in Stack, Blank(s.frames)
  PROVE  Tiled(s) /\ Foot(s) = s.base
<1>1. s.frames \in Seq(Frame) /\ s.base \in Nat
  BY DEF Stack
<1>2. CASE s.frames = <<>>
  BY <1>1, <1>2 DEF Tiled, Foot, Edge
<1>3. CASE s.frames = <<EmptyFrame>>
  <2>1. Len(s.frames) = 1 /\ s.frames[1] = EmptyFrame /\ EmptyFrame.slots = <<>>
    BY <1>3 DEF EmptyFrame
  <2>2. Foot(s) = s.base
    BY <2>1 DEF Foot, Edge
  <2>3. Tiled(s)
    BY <2>1 DEF Tiled
  <2> QED BY <2>2, <2>3
<1> QED BY <1>2, <1>3 DEF Blank

\* The stack that a trap finds or makes: it is above the others and holds nothing.
TrapStack(ss, st, k) ==
  /\ Sorted(ss) /\ Layout(ss) /\ Place(ss, SystemBase, k) /\ Blank(ss[k].frames)
  /\ ss[1] = st[1] /\ k # 1

\* A trap finds the system stack empty, or makes it.
LEMMA TrapChooses ==
  ASSUME NEW st, Sorted(st), Layout(st), NEW y, Waits(st, <<>>, y), NEW t, t = GetOrAddStack(st, SystemBase)
  PROVE  \E ss : \E k : Holds(t, ss, SystemBase) /\ TrapStack(ss, st, k)
<1>1. PICK n \in Nat : n = Len(st)
  BY SortedFacts
<1>2. PICK b \in Nat \ {0} : b = SystemBase /\ b > UserBase /\ UserBase \in Nat
  BY BaseFacts
<1>3. \A i \in 1 .. n : st[i] \in Stack /\ st[i].base \in Nat
  BY <1>1, SortedFacts
<1>4. /\ n > 0 /\ st[1].base <= UserBase
      /\ \A i \in 1 .. n : st[i].base <= UserBase \/ st[i].base = b
      /\ \A i \in 2 .. n : st[i].base <= UserBase => StackTop(st[i]) > st[i - 1].base
  BY <1>1, <1>2 DEF Layout
<1>5. \A i \in 1 .. n : st[i].base = b => st[i].frames = <<>>
  BY <1>1, <1>2 DEF Waits
<1>6. \A i \in 1 .. n : st[i].base # b => st[i].base < b /\ ~StackContains(st[i], b)
  BY <1>2, <1>3, <1>4 DEF StackContains
<1>7. CASE \E k \in 1 .. n : st[k].base = b
  <2>1. PICK k \in 1 .. n : st[k].base = b
    BY <1>7
  <2>2. st[k].frames = <<>>
    BY <1>5, <2>1
  <2>3. StackTop(st[k]) = b
    <3>1. PICK s \in Stack : s = st[k]
      BY <1>3
    <3>2. StackTop(s) = s.base
      BY <2>2, <3>1, StackTopFacts
    <3> QED BY <2>1, <3>1, <3>2
  <2>4. StackContains(st[k], b)
    BY <1>2, <2>1, <2>3 DEF StackContains
  <2>5. \A i \in 1 .. Len(st) : StackContains(st[i], b) => i = k
    <3>1. \A i \in 1 .. Len(st) : st[i].base = b => i = k
      BY <1>1, <2>1, PlaceUnique DEF Place
    <3> QED BY <1>1, <1>6, <3>1
  <2>6. GetOrAddStack(st, b) = [stacks |-> st, active |-> st[k].base]
    BY <1>1, <2>4, <2>5, GetsStack
  <2>7. Holds(t, st, b)
    <3>1. t = [stacks |-> st, active |-> st[k].base]
      BY <1>2, <2>6
    <3> QED BY <2>1, <3>1 DEF Holds
  <2>8. k # 1
    BY <1>2, <1>4, <2>1
  <2>9. TrapStack(st, st, k)
    BY <1>1, <1>2, <2>1, <2>2, <2>8 DEF TrapStack, Place, Blank
  <2> QED BY <1>2, <2>7, <2>9
<1>8. CASE ~\E k \in 1 .. n : st[k].base = b
  <2>1. \A i \in 1 .. Len(st) : st[i].base < b /\ ~StackContains(st[i], b)
    BY <1>1, <1>6, <1>8
  <2>2. GetOrAddStack(st, b) = [stacks |-> AddStack(st, b), active |-> b]
    BY <2>1, AddsStack
  <2>3. PICK ss : ss = AddStack(st, b)
    OBVIOUS
  <2>4. Holds(t, ss, b)
    <3>1. t = [stacks |-> ss, active |-> b]
      BY <1>2, <2>2, <2>3
    <3> QED BY <3>1 DEF Holds
  <2>5. GoesLast(st, b, ss)
    BY <2>1, <2>3, AddsLast
  <2>6. PICK s : s = NewStack(b)
    OBVIOUS
  <2>7. s \in Stack /\ s.base = b /\ s.frames = <<EmptyFrame>>
    BY <2>6, NewStackFacts
  <2>8. Sorted(ss) /\ Len(ss) = n + 1 /\ ss[n + 1] = s /\ \A i \in 1 .. n : ss[i] = st[i]
    BY <1>1, <2>5, <2>6 DEF GoesLast
  <2>9. PICK k : k = n + 1
    OBVIOUS
  <2>10. Place(ss, b, k) /\ Blank(ss[k].frames) /\ k # 1
    BY <1>4, <2>7, <2>8, <2>9 DEF Place, Blank
  <2>11. ss[1] = st[1]
    BY <1>4, <2>8
  <2>12. \A i \in 1 .. n + 1 : i = n + 1 \/ i \in 1 .. n
    OBVIOUS
  <2>13. \A i \in 1 .. n + 1 : ss[i].base <= UserBase \/ ss[i].base = b
    BY <1>4, <2>7, <2>8, <2>12
  <2>14. ASSUME NEW i \in 2 .. n + 1, ss[i].base <= UserBase PROVE StackTop(ss[i]) > ss[i - 1].base
    <3>1. i # n + 1
      BY <1>2, <2>7, <2>8, <2>14
    <3>2. i \in 2 .. n /\ i \in 1 .. n /\ i - 1 \in 1 .. n
      BY <3>1
    <3>3. ss[i] = st[i] /\ ss[i - 1] = st[i - 1]
      BY <2>8, <3>2
    <3> QED BY <1>4, <2>14, <3>2, <3>3
  <2>15. Layout(ss)
    BY <1>2, <1>4, <2>8, <2>11, <2>13, <2>14 DEF Layout
  <2>16. TrapStack(ss, st, k)
    BY <1>2, <2>8, <2>10, <2>11, <2>15 DEF TrapStack
  <2> QED BY <1>2, <2>4, <2>16
<1> QED BY <1>7, <1>8

\* What a trap pushes, without the operand.
LEMMA TrapCommands ==
  LET c == Default("TRAP") IN c # Missing /\ c # <<>> /\ c \in Seq(TraceCommand)
<1>1. PICK a : a = Plain("ADD_FRAME")
  OBVIOUS
<1>2. PICK b : b = Memory("PUSH", Context)
  OBVIOUS
<1>3. PICK d : d = Plain("ACTIVE")
  OBVIOUS
<1>4. a \in Seq(TraceCommand) /\ a # <<>>
  <2>1. a \in Seq(TraceCommand) /\ a = <<[op |-> "ADD_FRAME", size |-> 0]>>
    BY <1>1, PlainFacts
  <2> QED BY <2>1
<1>5. b \in Seq(TraceCommand)
  <2>1. Context \in Seq(Sz)
    BY ContextFacts
  <2> QED BY <1>2, <2>1, MemoryFacts
<1>6. d \in Seq(TraceCommand)
  BY <1>3, PlainFacts
<1>7. IsTag(a \o b)
  BY <1>4, <1>5, ConcatTag
<1>8. PICK e : e = a \o b
  OBVIOUS
<1>9. e \in Seq(TraceCommand) /\ e # <<>>
  BY <1>7, <1>8 DEF IsTag
<1>10. IsTag(e \o d)
  BY <1>6, <1>9, ConcatTag
<1>11. Default("TRAP") = e \o d
  BY <1>1, <1>2, <1>3, <1>8 DEF Default
<1> QED BY <1>10, <1>11 DEF IsTag

\* The records of a handler that has just started, and what the trap makes of the stack.
Handler(U) == U = <<[params |-> <<>>, entered |-> TRUE, locals |-> <<>>]>>
Takes(v, s, U) ==
  /\ v \in Work /\ v.s \in Stack /\ v.s.base = s.base /\ ~v.broken /\ v.delta = -ContextSize
  /\ Tiled(v.s) /\ Foot(v.s) = SystemBase - ContextSize /\ MirrorOf(v.s, U, TRUE)

\* The records of a handler are well formed.
LEMMA HandlerProgram ==
  ASSUME NEW U, Handler(U)
  PROVE  Program(U, TRUE)
<1>1. PICK r : r = [params |-> <<>>, entered |-> TRUE, locals |-> <<>>]
  OBVIOUS
<1>2. r \in Record /\ WellFormed(r) /\ r.params = <<>> /\ r.entered
  BY <1>1 DEF Record, WellFormed
<1>3. U = <<r>>
  BY <1>1 DEF Handler
<1>4. U \in Seq(Record) /\ Len(U) = 1 /\ U[1] = r /\ U # <<>>
  BY <1>2, <1>3
<1>5. PICK h \in BOOLEAN : h = TRUE
  OBVIOUS
<1>6. Program(U, h)
  BY <1>2, <1>4 DEF Program
<1> QED BY <1>5, <1>6

\* The context goes to the stack the trap has chosen.
LEMMA TrapRuns ==
  ASSUME NEW ss, NEW st, NEW k, TrapStack(ss, st, k), NEW c, c = Default("TRAP"),
         NEW v, v = Run(Starts(ss[k], SystemBase), c), NEW U, Handler(U)
  PROVE  Takes(v, ss[k], U)
<1>1. PICK r : r = [params |-> <<>>, entered |-> TRUE, locals |-> <<>>]
  OBVIOUS
<1>2. r \in Record /\ U = <<r>>
  BY <1>1 DEF Handler, Record
<1>3. PICK b \in Nat \ {0} : b = SystemBase
  BY BaseFacts
<1>4. Sorted(ss) /\ Place(ss, b, k) /\ Blank(ss[k].frames)
  BY <1>3 DEF TrapStack
<1>5. PICK s \in Stack : s = ss[k] /\ s.base = b
  BY <1>4, SortedFacts DEF Place
<1>6. PICK w : w = Starts(s, b)
  OBVIOUS
<1>7. w \in Work /\ w.s = s /\ ~w.broken /\ w.sp = b /\ w.delta = 0
  BY <1>3, <1>6, StartsFacts
<1>8. v = Run(w, c)
  BY <1>3, <1>5, <1>6
<1>9. Keeps(w, v)
  <2>1. c \in Seq(TraceCommand)
    BY TrapCommands
  <2> QED BY <1>7, <1>8, <2>1, RunKeeps
<1>10. Done(w, v, U, TRUE, -ContextSize)
  <2>1. w.s.base # 0 /\ Blank(w.s.frames)
    BY <1>3, <1>4, <1>5, <1>7
  <2>2. v = Run(w, Default("TRAP"))
    BY <1>8
  <2> QED BY <1>7, <1>1, <1>2, <2>1, <2>2, TrapMirror
<1>11. ContextSize \in Nat
  BY BaseFacts
<1>12. v \in Work /\ v.broken = w.broken /\ v.delta = w.delta + (-ContextSize) /\ MirrorOf(v.s, U, TRUE)
  BY <1>10 DEF Done
<1>13. ~v.broken /\ v.delta = -ContextSize
  BY <1>7, <1>11, <1>12
<1>14. v.s \in Stack /\ v.s.base = b /\ v.sp = b - ContextSize
  <2>1. v.s \in Stack /\ v.sp \in Int
    BY <1>12, WorkFacts
  <2>2. v.s.base = w.s.base /\ v.sp - v.delta = w.sp - w.delta
    BY <1>9 DEF Keeps
  <2> QED BY <1>3, <1>5, <1>7, <1>11, <1>13, <2>1, <2>2
<1>15. Tiled(s) /\ Foot(s) = b
  BY <1>4, <1>5, BlankFoot
<1>16. Tiled(v.s) /\ Foot(v.s) = v.sp
  BY <1>7, <1>9, <1>13, <1>15 DEF Keeps
<1> QED BY <1>3, <1>5, <1>12, <1>13, <1>14, <1>16 DEF Takes

\* notifyInstruction() of a trap.
LEMMA TrapNotify ==
  ASSUME TracerInv, ~broken, Trap,
         NEW x, x = SystemBase - ContextSize
  PROVE  /\ sp' = x /\ lastSP' = x
         /\ \E t : t = GetOrAddStack(stacks, SystemBase) /\ Process(t, Default("TRAP"), SystemBase, x, 0)
<1>1. x = SystemStack - ContextSize - OperandSize /\ x \in Nat /\ x + ContextSize = SystemBase
  BY BaseFacts
<1>2. sp' = x /\ Notify("TRAP", Missing, x)
  BY <1>1 DEF Trap, Runs, FoundAtTarget
<1>3. PICK c : c = Default("TRAP")
  OBVIOUS
<1>4. c # Missing
  BY <1>3, TrapCommands
<1>5. PICK before : before = x + ContextSize
  OBVIOUS
<1>6. PICK t : t = GetOrAddStack(stacks, before)
  OBVIOUS
<1>7. lastSP' = x /\ Process(t, c, before, x, 0)
  BY <1>2, <1>3, <1>4, <1>5, <1>6 DEF Notify, Chosen
<1>8. before = SystemBase
  BY <1>1, <1>5
<1> QED BY <1>2, <1>3, <1>6, <1>7, <1>8

\* What a trap leaves.
Trapped(tt, k, x, U, sv) ==
  /\ lastSP' = x /\ sp' = x /\ active' = SystemBase /\ stacks' = tt /\ broken' = FALSE
  /\ truth' = U /\ saved' = sv
  /\ Sorted(tt) /\ Layout(tt) /\ Waits(tt, sv, strayed) /\ Current(tt, SystemBase, sv, x, k)
  /\ Program(U, TRUE) /\ MirrorOf(tt[k], U, TRUE)

\* The context goes to the system stack, and the user stack waits.
LEMMA TrapMakes ==
  ASSUME TracerInv, ~broken, Trap, ~wild, NEW x, x = SystemBase - ContextSize,
         NEW sv, sv = <<[sp |-> sp, truth |-> truth]>>
  PROVE  \E tt : \E k : \E U : Trapped(tt, k, x, U, sv)
<1>1. saved = <<>> /\ lastSP # 0 /\ saved' = sv
  BY DEF Trap, Entered
<1>2. /\ Sorted(stacks) /\ Layout(stacks) /\ Waits(stacks, <<>>, strayed) /\ lastSP = sp
  BY <1>1 DEF TracerInv, Types, Settled
<1>3. PICK j : Current(stacks, active, <<>>, sp, j)
  BY <1>1, <1>2 DEF TracerInv, Settled
<1>4. j = 1 /\ Place(stacks, active, 1) /\ Tiled(stacks[1]) /\ Foot(stacks[1]) = sp
  BY <1>3 DEF Current
<1>5. PICK t : t = GetOrAddStack(stacks, SystemBase) /\ Process(t, Default("TRAP"), SystemBase, x, 0)
  BY TrapNotify
<1>6. PICK ss, k : Holds(t, ss, SystemBase) /\ TrapStack(ss, stacks, k)
  BY <1>2, <1>5, TrapChooses
<1>7. PICK c : c = Default("TRAP")
  OBVIOUS
<1>8. PICK v : v = Run(Starts(ss[k], SystemBase), c)
  OBVIOUS
<1>9. PICK U : U = truth' /\ Handler(U)
  BY DEF Trap, Handler
<1>10. Program(U, TRUE)
  BY <1>9, HandlerProgram
<1>11. Takes(v, ss[k], U)
  BY <1>6, <1>7, <1>8, <1>9, TrapRuns
<1>12. /\ v \in Work /\ v.s \in Stack /\ v.s.base = ss[k].base /\ ~v.broken /\ v.delta = -ContextSize
       /\ Tiled(v.s) /\ Foot(v.s) = SystemBase - ContextSize /\ MirrorOf(v.s, U, TRUE)
  BY <1>11 DEF Takes
<1>13. PICK tt : tt = [ss EXCEPT ![k] = v.s]
  OBVIOUS
<1>14. Sorted(ss) /\ Layout(ss) /\ Place(ss, SystemBase, k) /\ Blank(ss[k].frames) /\ ss[1] = stacks[1]
       /\ k \in 1 .. Len(ss)
  BY <1>6 DEF TrapStack, Place
<1>15. PICK future : future = 0
  OBVIOUS
<1>16. PICK u : u = IF future = 0 THEN [stacks |-> tt, active |-> SystemBase] ELSE GetOrAddStack(tt, future)
  OBVIOUS
<1>17. Leaves(u, v, c, x - SystemBase)
  <2>1. PICK address : address = SystemBase
    OBVIOUS
  <2>2. Process(t, c, address, x, future)
    BY <1>5, <1>7, <1>15, <2>1
  <2>3. Place(ss, address, k) /\ Holds(t, ss, address)
    BY <1>6, <1>14, <2>1
  <2>4. v = Run(Starts(ss[k], address), c)
    BY <1>8, <2>1
  <2>5. u = IF future = 0 THEN [stacks |-> tt, active |-> address] ELSE GetOrAddStack(tt, future)
    BY <1>16, <2>1
  <2>6. Leaves(u, v, c, x - address)
    BY <1>13, <1>14, <2>2, <2>3, <2>4, <2>5, ProcessFacts
  <2> QED BY <2>1, <2>6
<1>18. u = [stacks |-> tt, active |-> SystemBase]
  BY <1>15, <1>16
<1>19. stacks' = tt /\ active' = SystemBase
  BY <1>17, <1>18 DEF Leaves
<1>20. broken' = FALSE
  <2>1. PICK d \in Int : d = x - SystemBase /\ v.delta = d
    BY <1>12, BaseFacts
  <2>2. broken' = (v.broken \/ Mismatch(c, v, d))
    BY <1>17, <2>1 DEF Leaves
  <2>3. ~Mismatch(c, v, d)
    BY <2>1 DEF Mismatch
  <2>4. v.broken \in BOOLEAN
    BY <1>12, WorkFacts
  <2> QED BY <1>12, <2>2, <2>3, <2>4
<1>21. lastSP' = x /\ sp' = x
  BY TrapNotify
<1>22. truth' = U
  BY <1>9
<1>23. Waits(ss, sv, strayed)
  <2>1. sv # <<>> /\ sv[1].sp = sp /\ sv[1].truth = truth
    OBVIOUS
  <2>2. ASSUME truth = <<>>, ~strayed PROVE Blank(stacks[1].frames)
    <3>1. PICK i : Place(stacks, active, i) /\ MirrorOf(stacks[i], <<>>, FALSE)
      BY <1>1, <2>2 DEF TracerInv, Mirrored, Honest
    <3>2. i = 1
      BY <1>2, <1>4, <3>1, PlaceUnique
    <3> QED BY <3>1, <3>2 DEF MirrorOf
  <2> QED BY <1>4, <1>14, <2>1, <2>2 DEF Waits
<1>24. Current(ss, SystemBase, sv, SystemBase, k)
  <2>1. PICK s \in Stack : s = ss[k]
    BY <1>14, SortedFacts
  <2>2. Tiled(s) /\ Foot(s) = SystemBase
    BY <1>14, <2>1, BlankFoot DEF Place
  <2> QED BY <1>14, <2>1, <2>2 DEF Current
<1>25. Layout(tt) /\ Waits(tt, sv, strayed) /\ Current(tt, SystemBase, sv, x, k)
  <2>1. PICK s \in Stack : s = v.s
    BY <1>12
  <2>2. s.base = ss[k].base /\ Tiled(s) /\ Foot(s) = x /\ tt = [ss EXCEPT ![k] = s]
    BY <1>12, <1>13, <2>1
  <2> QED BY <1>14, <1>23, <1>24, <2>2, StackStep
<1>26. Sorted(tt) /\ tt[k] = v.s
  <2>1. PICK s \in Stack : s = v.s
    BY <1>12
  <2>2. s.base = ss[k].base /\ tt = [ss EXCEPT ![k] = s]
    BY <1>12, <1>13, <2>1
  <2>3. Swapped(ss, k, s, tt)
    BY <1>14, <2>2, ReplaceStack
  <2> QED BY <2>1, <2>3 DEF Swapped
<1>27. MirrorOf(tt[k], U, TRUE)
  BY <1>12, <1>26
<1> QED BY <1>1, <1>10, <1>19, <1>20, <1>21, <1>22, <1>25, <1>26, <1>27 DEF Trapped

\* SCALL.
LEMMA TrapStep ==
  ASSUME TracerInv, ~broken, Trap, wild' = wild, ~wild
  PROVE  TracerInv'
<1>1. PICK x : x = SystemBase - ContextSize
  OBVIOUS
<1>2. PICK sv : sv = <<[sp |-> sp, truth |-> truth]>>
  OBVIOUS
<1>3. PICK tt, k, U : Trapped(tt, k, x, U, sv)
  BY <1>1, <1>2, TrapMakes
<1>4. /\ lastSP' = x /\ sp' = x /\ active' = SystemBase /\ stacks' = tt /\ broken' = FALSE
      /\ truth' = U /\ saved' = sv
  BY <1>3 DEF Trapped
<1>5. /\ Sorted(tt) /\ Layout(tt) /\ Waits(tt, sv, strayed) /\ Current(tt, SystemBase, sv, x, k)
      /\ Program(U, TRUE) /\ MirrorOf(tt[k], U, TRUE)
  BY <1>3 DEF Trapped
<1>6. x \in Nat \ {0}
  BY <1>1, BaseFacts
<1>7. strayed' = strayed /\ strayed \in BOOLEAN /\ wild \in BOOLEAN /\ sp \in Nat \ {0}
  BY DEF Trap, TracerInv, Types
<1>8. Program(truth, FALSE)
  <2>1. saved = <<>>
    BY DEF Trap
  <2> QED BY <2>1, Running
<1>9. sv # <<>>
  BY <1>2
<1>10. Place(tt, SystemBase, k)
  BY <1>5 DEF Current
<1>11. Types'
  <2>1. active' \in {stacks'[i].base : i \in 1 .. Len(stacks')}
    BY <1>4, <1>10 DEF Place
  <2> QED BY <1>4, <1>5, <1>6, <1>7, <2>1 DEF Types
<1>12. Programs'
  <2>1. Interrupted(sv)
    BY <1>2, <1>7, <1>8 DEF Interrupted
  <2>2. (sv # <<>>) = TRUE
    BY <1>9
  <2>3. Program(U, sv # <<>>)
    BY <1>5, <2>2
  <2> QED BY <1>4, <2>1, <2>3 DEF Programs
<1>13. Fresh'
  BY <1>4, <1>6 DEF Fresh
<1>14. Settled'
  BY <1>4, <1>5, <1>7 DEF Settled
<1>15. Mirrored'
  <2>1. (sv # <<>>) = TRUE
    BY <1>9
  <2>2. MirrorOf(tt[k], U, sv # <<>>)
    BY <1>5, <2>1
  <2> QED BY <1>4, <1>10, <2>2 DEF Mirrored
<1> QED BY <1>11, <1>12, <1>13, <1>14, <1>15 DEF TracerInv

-----------------------------------------------------------------------------
(* The return from a trap.                                                 *)

\* The stacks when the context is gone: q is where the program on the first one was.
Emptied(tt, q) ==
  /\ Sorted(tt) /\ Layout(tt) /\ Tiled(tt[1]) /\ Foot(tt[1]) = q
  /\ \A i \in 1 .. Len(tt) : tt[i].base = SystemBase => tt[i].frames = <<>>

\* The stacks when the tracer has looked for q.
Resumed(tt, ss, address, q) ==
  /\ Sorted(ss) /\ Layout(ss) /\ Current(ss, address, <<>>, q, 1)
  /\ \A i \in 1 .. Len(ss) : ss[i].base = SystemBase => ss[i].frames = <<>>
  /\ Blank(tt[1].frames) => Blank(ss[1].frames)

\* Only the first stack can contain the place a trap returns to.
LEMMA EmptiedFacts ==
  ASSUME NEW tt, NEW q \in Nat \ {0}, Emptied(tt, q)
  PROVE  /\ Len(tt) \in Nat \ {0} /\ tt[1] \in Stack /\ q <= tt[1].base /\ tt[1].base <= UserBase
         /\ \A i \in 2 .. Len(tt) : q < tt[i].base /\ ~StackContains(tt[i], q)
<1>1. PICK n \in Nat : n = Len(tt)
  BY SortedFacts DEF Emptied
<1>2. PICK b \in Nat \ {0} : b = SystemBase /\ b > UserBase /\ UserBase \in Nat
  BY BaseFacts
<1>3. \A i \in 1 .. n : tt[i] \in Stack /\ tt[i].base \in Nat
  BY <1>1, SortedFacts DEF Emptied
<1>4. /\ n > 0 /\ tt[1].base <= UserBase
      /\ \A i \in 1 .. n : tt[i].base <= UserBase \/ tt[i].base = b
      /\ \A i \in 2 .. n : tt[i].base <= UserBase => StackTop(tt[i]) > tt[i - 1].base
      /\ \A i \in 1 .. n : tt[i].base = b => tt[i].frames = <<>>
  BY <1>1, <1>2 DEF Emptied, Layout
<1>5. 1 \in 1 .. n /\ \A i \in 2 .. n : i \in 1 .. n /\ i - 1 \in 1 .. n /\ (i - 1 = 1 \/ 1 < i - 1)
  BY <1>4
<1>6. q <= tt[1].base
  <2>1. PICK s \in Stack : s = tt[1]
    BY <1>3, <1>5
  <2>2. Tiled(s) /\ Foot(s) = q
    BY <2>1 DEF Emptied
  <2>3. Foot(s) <= s.base
    BY <2>2, FootBelow
  <2> QED BY <2>1, <2>2, <2>3
<1>7. ASSUME NEW i \in 2 .. n PROVE q < tt[i].base /\ ~StackContains(tt[i], q)
  <2>1. PICK s \in Stack : s = tt[i] /\ s.base \in Nat
    BY <1>3, <1>5
  <2>2. StackTop(s) \in Int /\ StackTop(s) <= s.base /\ (s.frames = <<>> => StackTop(s) = s.base)
    BY <2>1, StackTopFacts
  <2>3. tt[1].base \in Nat /\ tt[i - 1].base \in Nat
    BY <1>3, <1>5
  <2>4. q < StackTop(s)
    <3>1. CASE s.base = b
      <4>1. StackTop(s) = b
        BY <1>4, <1>5, <2>1, <2>2, <3>1
      <4> QED BY <1>2, <1>4, <1>6, <2>3, <4>1
    <3>2. CASE s.base # b
      <4>1. StackTop(s) > tt[i - 1].base
        BY <1>4, <1>5, <2>1, <3>2
      <4>2. tt[1].base <= tt[i - 1].base
        <5>1. 1 < i - 1 => tt[1].base < tt[i - 1].base
          BY <1>1, <1>5 DEF Emptied, Sorted
        <5> QED BY <1>5, <2>3, <5>1
      <4> QED BY <1>6, <2>2, <2>3, <4>1, <4>2
    <3> QED BY <3>1, <3>2
  <2>5. ~StackContains(s, q)
    BY <2>2, <2>4 DEF StackContains
  <2> QED BY <2>1, <2>2, <2>4, <2>5
<1> QED BY <1>1, <1>3, <1>4, <1>5, <1>6, <1>7

\* If it does it becomes the active one, ...
LEMMA ReturnFinds ==
  ASSUME NEW tt, NEW q \in Nat \ {0}, Emptied(tt, q), StackContains(tt[1], q),
         NEW u, u = GetOrAddStack(tt, q)
  PROVE  \E ss, address : Holds(u, ss, address) /\ Resumed(tt, ss, address, q)
<1>1. PICK n \in Nat \ {0} : n = Len(tt)
  BY EmptiedFacts
<1>2. \A i \in 2 .. n : ~StackContains(tt[i], q)
  BY <1>1, EmptiedFacts
<1>3. Sorted(tt)
  BY DEF Emptied
<1>4. \A i \in 1 .. n : i = 1 \/ i \in 2 .. n
  OBVIOUS
<1>5. GetOrAddStack(tt, q) = [stacks |-> tt, active |-> tt[1].base]
  <2>1. PICK k \in 1 .. Len(tt) : k = 1
    BY <1>1
  <2>2. StackContains(tt[k], q) /\ \A i \in 1 .. Len(tt) : StackContains(tt[i], q) => i = k
    BY <1>1, <1>2, <1>4, <2>1
  <2>3. GetOrAddStack(tt, q) = [stacks |-> tt, active |-> tt[k].base]
    BY <1>3, <2>2, GetsStack
  <2> QED BY <2>1, <2>3
<1>6. PICK address : address = tt[1].base
  OBVIOUS
<1>7. Holds(u, tt, address)
  <2>1. u = [stacks |-> tt, active |-> tt[1].base]
    BY <1>5
  <2> QED BY <1>6, <2>1 DEF Holds
<1>8. Current(tt, address, <<>>, q, 1)
  BY <1>1, <1>6 DEF Emptied, Current, Place
<1>9. Resumed(tt, tt, address, q)
  BY <1>8 DEF Emptied, Resumed
<1> QED BY <1>7, <1>9

\* ... and if it does not a stack is made below it.
LEMMA ReturnMakes ==
  ASSUME NEW tt, NEW q \in Nat \ {0}, Emptied(tt, q), ~StackContains(tt[1], q),
         NEW u, u = GetOrAddStack(tt, q)
  PROVE  \E ss, address : Holds(u, ss, address) /\ Resumed(tt, ss, address, q)
<1>1. PICK n \in Nat \ {0} : n = Len(tt)
  BY EmptiedFacts
<1>2. tt[1] \in Stack /\ tt[1].base \in Nat /\ q <= tt[1].base /\ tt[1].base <= UserBase
  BY EmptiedFacts DEF Stack
<1>3. \A i \in 2 .. n : q < tt[i].base /\ ~StackContains(tt[i], q)
  BY <1>1, EmptiedFacts
<1>4. \A i \in 1 .. n : i = 1 \/ i \in 2 .. n
  OBVIOUS
<1>5. PICK b \in Nat \ {0} : b = SystemBase /\ b > UserBase /\ UserBase \in Nat
  BY BaseFacts
<1>6. Sorted(tt)
  BY DEF Emptied
<1>7. q < StackTop(tt[1]) /\ q < tt[1].base
  <2>1. PICK s \in Stack : s = tt[1]
    BY <1>2
  <2>2. StackTop(s) \in Int /\ StackTop(s) <= s.base
    BY StackTopFacts
  <2>3. ~StackContains(s, q)
    BY <2>1
  <2> QED BY <1>2, <2>1, <2>2, <2>3 DEF StackContains
<1>8. \A i \in 1 .. Len(tt) : q < tt[i].base /\ ~StackContains(tt[i], q)
  BY <1>1, <1>3, <1>4, <1>7
<1>9. GetOrAddStack(tt, q) = [stacks |-> AddStack(tt, q), active |-> q]
  BY <1>8, AddsStack
<1>10. PICK ss : ss = AddStack(tt, q)
  OBVIOUS
<1>11. Holds(u, ss, q)
  <2>1. u = [stacks |-> ss, active |-> q]
    BY <1>9, <1>10
  <2> QED BY <2>1 DEF Holds
<1>12. GoesFirst(tt, q, ss)
  BY <1>6, <1>8, <1>10, AddsFirst
<1>13. PICK s : s = NewStack(q)
  OBVIOUS
<1>14. s \in Stack /\ s.base = q /\ s.frames = <<EmptyFrame>> /\ Tiled(s) /\ Foot(s) = q
  BY <1>13, NewStackFacts
<1>15. Sorted(ss) /\ Len(ss) = n + 1 /\ ss[1] = s /\ \A i \in 1 .. n : ss[i + 1] = tt[i]
  BY <1>1, <1>12, <1>13 DEF GoesFirst
<1>16. \A i \in 1 .. n + 1 : i = 1 \/ (i - 1 \in 1 .. n /\ ss[i] = tt[i - 1])
  <2> SUFFICES ASSUME NEW i \in 1 .. n + 1, i # 1 PROVE i - 1 \in 1 .. n /\ ss[i] = tt[i - 1]
    OBVIOUS
  <2>1. i - 1 \in 1 .. n /\ (i - 1) + 1 = i
    OBVIOUS
  <2> QED BY <1>15, <2>1
<1>17. /\ \A i \in 1 .. n : tt[i].base <= UserBase \/ tt[i].base = b
       /\ \A i \in 2 .. n : tt[i].base <= UserBase => StackTop(tt[i]) > tt[i - 1].base
       /\ \A i \in 1 .. n : tt[i].base = b => tt[i].frames = <<>>
  BY <1>1, <1>5 DEF Emptied, Layout
<1>18. q <= UserBase
  BY <1>2, <1>5
<1>19. Layout(ss)
  <2>1. \A i \in 1 .. n + 1 : ss[i].base <= UserBase \/ ss[i].base = b
    BY <1>14, <1>15, <1>16, <1>17, <1>18
  <2>2. ASSUME NEW i \in 2 .. n + 1, ss[i].base <= UserBase PROVE StackTop(ss[i]) > ss[i - 1].base
    <3>1. i \in 1 .. n + 1 /\ i # 1 /\ i - 1 \in 1 .. n + 1 /\ i - 1 \in 1 .. n
      OBVIOUS
    <3>2. ss[i] = tt[i - 1]
      BY <1>16, <3>1
    <3>3. CASE i = 2
      <4>1. i - 1 = 1
        BY <3>3
      <4>2. ss[i] = tt[1] /\ ss[i - 1].base = q
        BY <1>14, <1>15, <3>2, <4>1
      <4>3. StackTop(tt[1]) \in Int
        <5>1. PICK z \in Stack : z = tt[1]
          BY <1>2
        <5> QED BY <5>1, StackTopFacts
      <4> QED BY <1>7, <4>2, <4>3
    <3>4. CASE i # 2
      <4>1. i - 1 \in 2 .. n /\ i - 1 # 1
        BY <3>4
      <4>2. ss[i - 1] = tt[(i - 1) - 1]
        BY <1>16, <3>1, <4>1
      <4> QED BY <1>17, <2>2, <3>2, <4>1, <4>2
    <3> QED BY <3>3, <3>4
  <2> QED BY <1>5, <1>14, <1>15, <1>18, <2>1, <2>2 DEF Layout
<1>20. \A i \in 1 .. Len(ss) : ss[i].base = SystemBase => ss[i].frames = <<>>
  <2>1. ss[1].base # b
    BY <1>5, <1>14, <1>15, <1>18
  <2> QED BY <1>5, <1>15, <1>16, <1>17, <2>1
<1>21. Current(ss, q, <<>>, q, 1)
  BY <1>14, <1>15 DEF Current, Place
<1>22. Resumed(tt, ss, q, q)
  BY <1>14, <1>15, <1>19, <1>20, <1>21 DEF Resumed, Blank
<1> QED BY <1>11, <1>22

\* What a return from a trap pops.
LEMMA ReturnCommands ==
  LET c == Default("TRAPRET") IN c # Missing /\ c # <<>> /\ c \in Seq(TraceCommand)
<1>1. PICK a : a = Plain("INACTIVE")
  OBVIOUS
<1>2. PICK b : b = Memory("POP", Context)
  OBVIOUS
<1>3. PICK d : d = Plain("REMOVE_FRAME")
  OBVIOUS
<1>4. a \in Seq(TraceCommand) /\ a # <<>>
  <2>1. a \in Seq(TraceCommand) /\ a = <<[op |-> "INACTIVE", size |-> 0]>>
    BY <1>1, PlainFacts
  <2> QED BY <2>1
<1>5. b \in Seq(TraceCommand)
  <2>1. Context \in Seq(Sz)
    BY ContextFacts
  <2> QED BY <1>2, <2>1, MemoryFacts
<1>6. d \in Seq(TraceCommand)
  BY <1>3, PlainFacts
<1>7. IsTag(a \o b)
  BY <1>4, <1>5, ConcatTag
<1>8. PICK e : e = a \o b
  OBVIOUS
<1>9. e \in Seq(TraceCommand) /\ e # <<>>
  BY <1>7, <1>8 DEF IsTag
<1>10. IsTag(e \o d)
  BY <1>6, <1>9, ConcatTag
<1>11. Default("TRAPRET") = e \o d
  BY <1>1, <1>2, <1>3, <1>8 DEF Default
<1> QED BY <1>10, <1>11 DEF IsTag

\* The tracer, told of the return to q, pops the context.
Gone(tt, u, q) == u = GetOrAddStack(tt, q) /\ stacks' = u.stacks /\ active' = u.active /\ broken' = FALSE

\* notifyInstruction() of a return from a trap.
LEMMA ReturnNotify ==
  ASSUME TracerInv, ~broken, ReturnFromTrap, NEW q \in Nat \ {0}, q = saved[1].sp
  PROVE  /\ sp' = q /\ lastSP' = q
         /\ \E after, t : /\ Holds(t, stacks, active) /\ after = lastSP + ContextSize
                          /\ Process(t, Default("TRAPRET"), lastSP, after, q)
<1>1. lastSP # 0
  BY DEF TracerInv, Fresh, ReturnFromTrap, InHandler
<1>2. sp' = q /\ Notify("TRAPRET", Missing, q)
  BY DEF ReturnFromTrap, Runs
<1>3. PICK c : c = Default("TRAPRET")
  OBVIOUS
<1>4. c # Missing
  BY <1>3, ReturnCommands
<1>5. PICK after : after = lastSP + ContextSize
  OBVIOUS
<1>6. PICK t : t = [stacks |-> stacks, active |-> active]
  OBVIOUS
<1>7. lastSP' = q /\ Process(t, c, lastSP, after, q)
  BY <1>1, <1>2, <1>3, <1>4, <1>5, <1>6 DEF Notify, Chosen
<1>8. Holds(t, stacks, active)
  BY <1>6 DEF Holds
<1> QED BY <1>2, <1>3, <1>5, <1>7, <1>8

\* The return empties the system stack.
LEMMA ReturnEmpties ==
  ASSUME TracerInv, ~broken, ReturnFromTrap, ~wild, NEW q \in Nat \ {0}, q = saved[1].sp
  PROVE  \E tt, u : /\ Emptied(tt, q) /\ Gone(tt, u, q)
                    /\ saved[1].truth = <<>> /\ ~strayed => Blank(tt[1].frames)
<1>1. saved # <<>> /\ Len(truth) = 1 /\ truth[1].locals = <<>>
  BY DEF ReturnFromTrap, InHandler
<1>2. lastSP # 0 /\ Sorted(stacks) /\ lastSP \in Nat
  BY <1>1 DEF TracerInv, Fresh, Types
<1>3. PICK h : h = (saved # <<>>)
  OBVIOUS
<1>4. PICK T : T = truth
  OBVIOUS
<1>5. h /\ Program(T, h) /\ Bare(T)
  BY <1>1, <1>3, <1>4, Running DEF Bare
<1>6. PICK k : Place(stacks, active, k) /\ MirrorOf(stacks[k], T, h)
  BY <1>1, <1>2, <1>3, <1>4 DEF TracerInv, Mirrored, Honest
<1>7. PICK s \in Stack : s = stacks[k] /\ k \in 1 .. Len(stacks)
  BY <1>2, <1>6, SortedFacts DEF Place
<1>8. PICK w : w = Starts(s, lastSP)
  OBVIOUS
<1>9. w \in Work /\ w.s = s /\ ~w.broken /\ w.sp = lastSP /\ w.delta = 0
  BY <1>2, <1>8, StartsFacts
<1>10. PICK c : c = Default("TRAPRET")
  OBVIOUS
<1>11. c \in Seq(TraceCommand)
  BY <1>10, ReturnCommands
<1>12. PICK v : v = Run(w, c)
  OBVIOUS
<1>13. v \in Work /\ v.broken = w.broken /\ v.delta = w.delta + ContextSize /\ v.s.frames = <<>>
  <2>1. MirrorOf(w.s, T, h)
    BY <1>6, <1>7, <1>9
  <2>2. v = Run(w, Default("TRAPRET"))
    BY <1>10, <1>12
  <2> QED BY <1>5, <1>9, <2>1, <2>2, TrapReturnMirror
<1>14. v.s.base = s.base
  <2>1. Keeps(w, v)
    BY <1>9, <1>11, <1>12, RunKeeps
  <2> QED BY <1>9, <2>1 DEF Keeps
<1>15. PICK r \in Stack : r = v.s /\ r.base = stacks[k].base /\ r.frames = <<>>
  BY <1>7, <1>13, <1>14, WorkFacts
<1>16. Tiled(r) /\ Foot(r) = r.base
  <2>1. Blank(r.frames)
    BY <1>15 DEF Blank
  <2> QED BY <2>1, BlankFoot
<1>17. PICK tt : tt = [stacks EXCEPT ![k] = r]
  OBVIOUS
<1>18. Layout(stacks) /\ Waits(stacks, saved, strayed)
  BY <1>2 DEF TracerInv, Settled
<1>19. Current(stacks, active, saved, lastSP, k) /\ active = SystemBase
  <2>1. PICK j : Current(stacks, active, saved, lastSP, j)
    BY <1>2 DEF TracerInv, Settled
  <2>2. j = k
    BY <1>2, <1>6, <2>1, PlaceUnique DEF Current
  <2>3. Current(stacks, active, saved, lastSP, k)
    BY <2>1, <2>2
  <2> QED BY <1>1, <2>3 DEF Current
<1>20. PICK f : f = Foot(r)
  OBVIOUS
<1>21. Layout(tt) /\ Waits(tt, saved, strayed) /\ Current(tt, active, saved, f, k)
  BY <1>2, <1>15, <1>16, <1>17, <1>18, <1>19, <1>20, StackStep
<1>22. Sorted(tt) /\ Len(tt) = Len(stacks) /\ tt[k] = r
  <2>1. Swapped(stacks, k, r, tt)
    BY <1>2, <1>7, <1>15, <1>17, ReplaceStack
  <2> QED BY <2>1 DEF Swapped
<1>23. ASSUME NEW i \in 1 .. Len(tt), tt[i].base = SystemBase PROVE tt[i].frames = <<>>
  <2>1. Place(tt, SystemBase, i) /\ Place(tt, SystemBase, k)
    BY <1>6, <1>7, <1>15, <1>19, <1>22, <1>23 DEF Place
  <2>2. i = k
    BY <1>22, <2>1, PlaceUnique
  <2> QED BY <1>15, <1>22, <2>2
<1>24. Tiled(tt[1]) /\ Foot(tt[1]) = q /\ (saved[1].truth = <<>> /\ ~strayed => Blank(tt[1].frames))
  BY <1>1, <1>21 DEF Waits
<1>25. Emptied(tt, q)
  BY <1>21, <1>22, <1>23, <1>24 DEF Emptied
<1>26. PICK after, t : Holds(t, stacks, active) /\ after = lastSP + ContextSize
                       /\ Process(t, Default("TRAPRET"), lastSP, after, q)
  BY ReturnNotify
<1>27. PICK u : u = IF q = 0 THEN [stacks |-> tt, active |-> active] ELSE GetOrAddStack(tt, q)
  OBVIOUS
<1>28. Leaves(u, v, c, after - lastSP)
  <2>1. v = Run(Starts(stacks[k], lastSP), c)
    BY <1>7, <1>8, <1>12
  <2>2. tt = [stacks EXCEPT ![k] = v.s]
    BY <1>15, <1>17
  <2>3. Holds(t, stacks, active) /\ Process(t, c, lastSP, after, q)
    BY <1>10, <1>26
  <2> QED BY <1>2, <1>6, <1>27, <2>1, <2>2, <2>3, ProcessFacts
<1>29. u = GetOrAddStack(tt, q)
  BY <1>27
<1>30. broken' = FALSE
  <2>1. PICK d \in Int : d = after - lastSP /\ v.delta = d
    BY <1>2, <1>9, <1>13, <1>26, BaseFacts
  <2>2. broken' = (v.broken \/ Mismatch(c, v, d))
    BY <1>28, <2>1 DEF Leaves
  <2>3. ~Mismatch(c, v, d)
    BY <2>1 DEF Mismatch
  <2>4. v.broken \in BOOLEAN /\ ~v.broken
    BY <1>9, <1>13, WorkFacts
  <2> QED BY <2>2, <2>3, <2>4
<1>31. Gone(tt, u, q)
  BY <1>28, <1>29, <1>30 DEF Leaves, Gone
<1> QED BY <1>24, <1>25, <1>31

\* SRET.
LEMMA ReturnFromTrapStep ==
  ASSUME TracerInv, ~broken, ReturnFromTrap, wild' = wild, ~wild
  PROVE  TracerInv'
<1>1. saved # <<>> /\ saved' = <<>> /\ truth' = saved[1].truth
      /\ strayed' = (strayed \/ saved[1].truth # <<>>)
  BY DEF ReturnFromTrap, InHandler
<1>2. PICK q \in Nat \ {0} : \E T : Program(T, FALSE) /\ saved = <<[sp |-> q, truth |-> T]>>
  BY <1>1 DEF TracerInv, Programs, Interrupted
<1>3. PICK T : Program(T, FALSE) /\ saved = <<[sp |-> q, truth |-> T]>>
  BY <1>2
<1>4. q = saved[1].sp /\ T = saved[1].truth
  BY <1>3
<1>5. PICK tt, u : /\ Emptied(tt, q) /\ Gone(tt, u, q)
                   /\ T = <<>> /\ ~strayed => Blank(tt[1].frames)
  BY <1>4, ReturnEmpties
<1>6. u = GetOrAddStack(tt, q)
  BY <1>5 DEF Gone
<1>7. PICK ss, address : Holds(u, ss, address) /\ Resumed(tt, ss, address, q)
  <2>1. CASE StackContains(tt[1], q)
    BY <1>5, <1>6, <2>1, ReturnFinds
  <2>2. CASE ~StackContains(tt[1], q)
    BY <1>5, <1>6, <2>2, ReturnMakes
  <2> QED BY <2>1, <2>2
<1>8. stacks' = ss /\ active' = address /\ broken' = FALSE
  BY <1>5, <1>7 DEF Gone, Holds
<1>9. lastSP' = q /\ sp' = q
  BY <1>4, ReturnNotify
<1>10. /\ Sorted(ss) /\ Layout(ss) /\ Current(ss, address, <<>>, q, 1)
       /\ \A i \in 1 .. Len(ss) : ss[i].base = SystemBase => ss[i].frames = <<>>
       /\ Blank(tt[1].frames) => Blank(ss[1].frames)
  BY <1>7 DEF Resumed
<1>11. Place(ss, address, 1)
  BY <1>10 DEF Current
<1>12. wild \in BOOLEAN /\ strayed \in BOOLEAN
  BY DEF TracerInv, Types
<1>13. Types'
  <2>1. active' \in {stacks'[i].base : i \in 1 .. Len(stacks')}
    BY <1>8, <1>11 DEF Place
  <2>2. strayed' \in BOOLEAN
    BY <1>1, <1>12
  <2> QED BY <1>8, <1>9, <1>10, <1>12, <2>1, <2>2 DEF Types
<1>14. Programs'
  <2>1. PICK h \in BOOLEAN : h = FALSE
    OBVIOUS
  <2>2. Program(T, h) /\ (saved' # <<>>) = h
    BY <1>1, <1>3, <2>1
  <2>3. Program(truth', saved' # <<>>)
    BY <1>1, <1>4, <2>2
  <2> QED BY <1>1, <2>3 DEF Programs, Interrupted
<1>15. Fresh'
  BY <1>9 DEF Fresh
<1>16. Settled'
  <2>1. Waits(ss, <<>>, strayed')
    BY <1>10 DEF Waits
  <2> QED BY <1>1, <1>8, <1>9, <1>10, <2>1 DEF Settled
<1>17. Mirrored'
  <2> SUFFICES ASSUME Honest(wild', strayed', saved') PROVE MirrorOf(ss[1], truth', saved' # <<>>)
    BY <1>8, <1>11 DEF Mirrored
  <2>1. ~strayed' /\ T = <<>> /\ ~strayed
    BY <1>1, <1>4, <1>12 DEF Honest
  <2>2. Blank(ss[1].frames) /\ truth' = <<>>
    BY <1>1, <1>4, <1>5, <1>10, <2>1
  <2> QED BY <2>2 DEF MirrorOf
<1> QED BY <1>13, <1>14, <1>15, <1>16, <1>17 DEF TracerInv

-----------------------------------------------------------------------------
(* The invariant and what follows from it.                                 *)

\* Nothing happens.
LEMMA StutterStep ==
  ASSUME TracerInv, UNCHANGED tracerVars
  PROVE  TracerInv'
<1>1. /\ wild' = wild /\ stacks' = stacks /\ active' = active /\ lastSP' = lastSP /\ broken' = broken
      /\ sp' = sp /\ truth' = truth /\ saved' = saved /\ strayed' = strayed
  BY DEF tracerVars, tracer, records
<1>2. Types'
  BY <1>1 DEF TracerInv, Types
<1>3. Programs'
  BY <1>1 DEF TracerInv, Programs
<1>4. Fresh'
  BY <1>1 DEF TracerInv, Fresh
<1>5. Settled'
  BY <1>1 DEF TracerInv, Settled
<1>6. Mirrored'
  BY <1>1 DEF TracerInv, Mirrored
<1> QED BY <1>2, <1>3, <1>4, <1>5, <1>6 DEF TracerInv

-----------------------------------------------------------------------------
(* Leaving the system.                                                     *)

\* The stack that MOVASP makes for the system, or finds without a frame.
LeftOn(ss, k) == Sorted(ss) /\ Place(ss, SystemStack, k) /\ Blank(ss[k].frames)

\* The program has left the system.
Left ==
  /\ wild = FALSE /\ broken = FALSE /\ lastSP = SystemStack /\ sp = SystemStack
  /\ truth = <<>> /\ saved = <<>> /\ active = SystemStack
  /\ \E k : LeftOn(stacks, k)

\* The system's own stack is above all others.
LEMMA LeaveFinds ==
  ASSUME TracerInv, ~broken, Leave, NEW b, b = SystemStack, NEW t, t = GetOrAddStack(stacks, b)
  PROVE  \E tt : \E k : Holds(t, tt, b) /\ LeftOn(tt, k)
<1>1. saved = <<>> /\ lastSP # 0
  BY DEF Leave, Entered
<1>2. Sorted(stacks) /\ Layout(stacks) /\ Waits(stacks, <<>>, strayed)
  BY <1>1 DEF TracerInv, Types, Settled
<1>3. b \in Nat \ {0} /\ SystemBase \in Nat /\ SystemBase <= b /\ UserBase < SystemBase /\ UserBase \in Nat
  BY TracerAssumption DEF SystemBase
<1>4. \A i \in 1 .. Len(stacks) :
        /\ stacks[i] \in Stack /\ stacks[i].base \in Nat
        /\ stacks[i].base <= UserBase \/ stacks[i].base = SystemBase
  BY <1>2, SortedFacts DEF Layout
<1>5. CASE \E k \in 1 .. Len(stacks) : StackContains(stacks[k], b)
  <2>1. PICK k \in 1 .. Len(stacks) : StackContains(stacks[k], b)
    BY <1>5
  <2>2. \A i \in 1 .. Len(stacks) : StackContains(stacks[i], b) => stacks[i].base = b /\ SystemBase = b
    BY <1>3, <1>4 DEF StackContains
  <2>3. Place(stacks, b, k) /\ \A i \in 1 .. Len(stacks) : StackContains(stacks[i], b) => Place(stacks, b, i)
    BY <2>1, <2>2 DEF Place
  <2>4. \A i \in 1 .. Len(stacks) : StackContains(stacks[i], b) => i = k
    BY <1>2, <2>3, PlaceUnique
  <2>5. t = [stacks |-> stacks, active |-> stacks[k].base]
    BY <1>2, <2>1, <2>4, GetsStack
  <2>6. stacks[k].frames = <<>>
    BY <1>2, <2>1, <2>2 DEF Waits
  <2>7. Holds(t, stacks, b) /\ LeftOn(stacks, k)
    BY <1>2, <2>1, <2>2, <2>3, <2>5, <2>6 DEF Holds, LeftOn, Blank
  <2> QED BY <2>7
<1>6. CASE ~\E k \in 1 .. Len(stacks) : StackContains(stacks[k], b)
  <2>1. \A i \in 1 .. Len(stacks) : ~StackContains(stacks[i], b)
    BY <1>6
  <2>2. t = [stacks |-> AddStack(stacks, b), active |-> b]
    BY <2>1, AddsStack
  <2>3. ASSUME NEW i \in 1 .. Len(stacks) PROVE stacks[i].base < b
    <3>1. PICK s \in Stack : s = stacks[i]
      BY <1>4
    <3>2. StackTop(s) \in Int /\ StackTop(s) <= s.base
      BY StackTopFacts
    <3>3. s.base # b
      BY <1>3, <2>1, <3>1, <3>2 DEF StackContains
    <3> QED BY <1>3, <1>4, <3>1, <3>3
  <2>4. PICK tt : tt = AddStack(stacks, b)
    OBVIOUS
  <2>5. GoesLast(stacks, b, tt)
    BY <1>2, <1>3, <2>3, <2>4, AddsLast
  <2>6. PICK k : k = Len(stacks) + 1
    OBVIOUS
  <2>7. Len(stacks) \in Nat
    BY <1>2, SortedFacts
  <2>8. Sorted(tt) /\ Len(tt) = k /\ tt[k] = NewStack(b) /\ k \in 1 .. Len(tt)
    BY <2>5, <2>6, <2>7 DEF GoesLast
  <2>9. tt[k].base = b /\ tt[k].frames = <<EmptyFrame>>
    BY <1>3, <2>8, NewStackFacts
  <2>10. Holds(t, tt, b) /\ LeftOn(tt, k)
    BY <2>2, <2>4, <2>8, <2>9 DEF Holds, LeftOn, Blank, Place
  <2> QED BY <2>10
<1> QED BY <1>5, <1>6

\* MOVASP leaves the stacks of the program as they are.
LEMMA LeaveStep ==
  ASSUME TracerInv, ~broken, Leave, wild' = wild, ~wild
  PROVE  Left'
<1>1. lastSP # 0 /\ truth = <<>> /\ saved = <<>> /\ truth' = <<>> /\ saved' = <<>>
  BY DEF Leave, Entered, records
<1>2. PICK b : b = SystemStack
  OBVIOUS
<1>3. sp' = b /\ Notify("ASSIGN", Missing, b)
  BY <1>2 DEF Leave, Runs
<1>4. PICK c : c = Default("ASSIGN")
  OBVIOUS
<1>5. c = <<>> /\ c # Missing
  BY <1>4, NoCommands
<1>6. PICK t : t = GetOrAddStack(stacks, b)
  OBVIOUS
<1>7. PICK future : future = 0
  OBVIOUS
<1>8. lastSP' = b /\ Process(t, c, lastSP, b, future)
  BY <1>1, <1>3, <1>4, <1>5, <1>6, <1>7 DEF Notify, Chosen
<1>9. PICK tt, k : Holds(t, tt, b) /\ LeftOn(tt, k)
  BY <1>2, <1>6, LeaveFinds
<1>10. Sorted(tt) /\ Place(tt, b, k) /\ k \in 1 .. Len(tt)
  BY <1>2, <1>9 DEF LeftOn, Place
<1>11. PICK v : v = Run(Starts(tt[k], lastSP), c)
  OBVIOUS
<1>12. v.s = tt[k] /\ v.broken = FALSE
  <2>1. v = Starts(tt[k], lastSP)
    BY <1>5, <1>11, RunEmpty
  <2> QED BY <2>1 DEF Starts
<1>13. PICK rr : rr = [tt EXCEPT ![k] = v.s]
  OBVIOUS
<1>14. rr = tt
  BY <1>10, <1>12, <1>13 DEF Sorted
<1>15. PICK u : u = IF future = 0 THEN [stacks |-> rr, active |-> b] ELSE GetOrAddStack(rr, future)
  OBVIOUS
<1>16. Leaves(u, v, c, b - lastSP)
  BY <1>8, <1>9, <1>10, <1>11, <1>13, <1>15, ProcessFacts
<1>17. u = [stacks |-> tt, active |-> b]
  BY <1>7, <1>14, <1>15
<1>18. stacks' = tt /\ active' = b /\ broken' = FALSE
  BY <1>5, <1>12, <1>16, <1>17 DEF Leaves, Mismatch
<1>19. \E j : LeftOn(stacks', j)
  BY <1>9, <1>18
<1>20. wild' = FALSE
  <2>1. wild = TRUE \/ wild = FALSE
    BY DEF TracerInv, Types
  <2> QED BY <2>1
<1> QED BY <1>1, <1>2, <1>3, <1>8, <1>18, <1>19, <1>20 DEF Left

-----------------------------------------------------------------------------
(* The instructions of any program.                                        *)

\* A new stack anywhere among the others.
LEMMA AddsAmong ==
  ASSUME NEW ss, Sorted(ss), NEW address \in Nat \ {0}, \A i \in 1 .. Len(ss) : ss[i].base # address,
         NEW tt, tt = AddStack(ss, address)
  PROVE  /\ Sorted(tt)
         /\ \E k : Place(tt, address, k)
         /\ \A i \in 1 .. Len(tt) : tt[i] = NewStack(address) \/ \E j \in 1 .. Len(ss) : tt[i] = ss[j]
<1>1. PICK n \in Nat : n = Len(ss)
  BY SortedFacts
<1>2. ss \in Seq(Stack) /\ DOMAIN ss = 1 .. n /\ \A i \in 1 .. n : ss[i].base \in Nat /\ ss[i].base # 0
  BY <1>1, SortedFacts DEF Sorted
<1>3. \A i, j \in 1 .. n : i < j => ss[i].base < ss[j].base
  BY <1>1 DEF Sorted
<1>4. PICK x \in Stack : x = NewStack(address) /\ x.base = address
  BY NewStackFacts
<1>5. PICK S : S = {i \in DOMAIN ss : ss[i].base < address}
  OBVIOUS
<1>6. PICK m \in 0 .. n : S = 1 .. m /\ Cardinality(S) = m
  <2>1. S \in SUBSET (1 .. n)
    BY <1>2, <1>5
  <2>2. ASSUME NEW i \in S, NEW j \in 1 .. n, j < i PROVE j \in S
    <3>1. i \in 1 .. n /\ ss[i].base < address /\ ss[j].base < ss[i].base
      BY <1>2, <1>3, <1>5, <2>2
    <3>2. ss[j].base < address
      BY <1>2, <3>1
    <3> QED BY <1>2, <1>5, <3>2
  <2> QED BY <2>1, <2>2, FirstPlaces
<1>7. tt = SubSeq(ss, 1, m) \o <<x>> \o SubSeq(ss, m + 1, n)
  <2>1. (m + 1) - 1 = m
    OBVIOUS
  <2> QED BY <1>1, <1>4, <1>5, <1>6, <2>1 DEF AddStack, InsertAt
<1>8. PICK p \in Seq(Stack) : p = SubSeq(ss, 1, m) /\ Len(p) = m /\ \A i \in 1 .. m : p[i] = ss[i]
  <2>1. PICK p : p = SubSeq(ss, 1, m)
    OBVIOUS
  <2>2. p \in Seq(Stack) /\ Len(p) = m /\ \A i \in 1 .. m : p[i] = ss[i]
    BY <1>1, <1>2, <2>1
  <2> QED BY <2>1, <2>2
<1>9. PICK q \in Seq(Stack) : /\ q = SubSeq(ss, m + 1, n) /\ Len(q) = n - m
                              /\ \A i \in 1 .. n - m : q[i] = ss[m + i]
  <2>1. PICK q : q = SubSeq(ss, m + 1, n)
    OBVIOUS
  <2>2. \A i \in m + 1 .. n : ss[i] \in Stack
    BY <1>1, <1>2
  <2>3. q \in Seq(Stack) /\ Len(q) = n - m /\ \A i \in 1 .. n - m : q[i] = ss[m + i]
    <3>1. q = [i \in 1 .. n - m |-> ss[m + i]]
      BY <1>1, <1>2, <2>1
    <3>2. \A i \in 1 .. n - m : m + i \in m + 1 .. n
      OBVIOUS
    <3>3. q \in [1 .. n - m -> Stack]
      BY <2>2, <3>1, <3>2
    <3>4. PICK d \in Nat : d = n - m
      OBVIOUS
    <3>5. q \in [1 .. d -> Stack]
      BY <3>3, <3>4
    <3>6. q \in Seq(Stack) /\ Len(q) = d
      BY <3>5
    <3>7. \A i \in 1 .. n - m : q[i] = ss[m + i]
      BY <3>1
    <3> QED BY <3>4, <3>6, <3>7
  <2> QED BY <2>1, <2>3
<1>10. PICK o \in Seq(Stack) : o = <<x>> /\ Len(o) = 1 /\ o[1] = x
  <2>1. <<x>> \in Seq(Stack) /\ Len(<<x>>) = 1 /\ <<x>>[1] = x
    OBVIOUS
  <2> QED BY <2>1
<1>11. PICK r \in Seq(Stack) : /\ r = p \o o /\ Len(r) = m + 1
                               /\ \A i \in 1 .. m + 1 : r[i] = IF i <= m THEN p[i] ELSE o[i - m]
  <2>1. PICK r : r = p \o o
    OBVIOUS
  <2>2. /\ r \in Seq(Stack) /\ Len(r) = Len(p) + Len(o)
        /\ \A i \in 1 .. Len(p) + Len(o) : r[i] = IF i <= Len(p) THEN p[i] ELSE o[i - Len(p)]
    BY <2>1, ConcatFacts
  <2>3. Len(r) = m + 1
    BY <1>8, <1>10, <2>2
  <2>4. ASSUME NEW i \in 1 .. m + 1 PROVE r[i] = IF i <= m THEN p[i] ELSE o[i - m]
    <3>1. i \in 1 .. Len(p) + Len(o)
      BY <1>8, <1>10
    <3> QED BY <1>8, <2>2, <3>1
  <2> QED BY <2>1, <2>2, <2>3, <2>4
<1>12. tt \in Seq(Stack) /\ Len(tt) = (m + 1) + (n - m)
       /\ \A i \in 1 .. (m + 1) + (n - m) : tt[i] = IF i <= m + 1 THEN r[i] ELSE q[i - (m + 1)]
  <2>1. tt = r \o q
    BY <1>7, <1>8, <1>9, <1>10, <1>11
  <2>2. /\ tt \in Seq(Stack) /\ Len(tt) = Len(r) + Len(q)
        /\ \A i \in 1 .. Len(r) + Len(q) : tt[i] = IF i <= Len(r) THEN r[i] ELSE q[i - Len(r)]
    BY <2>1, ConcatFacts
  <2> QED BY <1>9, <1>11, <2>2
<1>13. Len(tt) = n + 1 /\ (m + 1) + (n - m) = n + 1
  BY <1>12
<1>14. /\ \A i \in 1 .. m : tt[i] = ss[i]
       /\ tt[m + 1] = x
       /\ \A i \in m + 2 .. n + 1 : tt[i] = ss[i - 1] /\ i - 1 \in m + 1 .. n
  <2>1. ASSUME NEW i \in 1 .. m PROVE tt[i] = ss[i]
    <3>1. i \in 1 .. n + 1 /\ i \in 1 .. m + 1 /\ i <= m + 1 /\ i <= m
      OBVIOUS
    <3> QED BY <1>8, <1>11, <1>12, <1>13, <3>1
  <2>2. tt[m + 1] = x
    <3>1. m + 1 \in 1 .. n + 1 /\ m + 1 \in 1 .. m + 1 /\ ~(m + 1 <= m) /\ (m + 1) - m = 1
      OBVIOUS
    <3> QED BY <1>10, <1>11, <1>12, <1>13, <3>1
  <2>3. ASSUME NEW i \in m + 2 .. n + 1 PROVE tt[i] = ss[i - 1] /\ i - 1 \in m + 1 .. n
    <3>1. i \in 1 .. n + 1 /\ ~(i <= m + 1) /\ i - (m + 1) \in 1 .. n - m /\ m + (i - (m + 1)) = i - 1
          /\ i - 1 \in m + 1 .. n
      OBVIOUS
    <3> QED BY <1>9, <1>12, <1>13, <3>1
  <2> QED BY <2>1, <2>2, <2>3
<1>15. \A i \in 1 .. n + 1 : i \in 1 .. m \/ i = m + 1 \/ i \in m + 2 .. n + 1
  OBVIOUS
<1>16. \A i \in 1 .. m : i \in 1 .. n /\ ss[i].base < address
  BY <1>2, <1>5, <1>6
<1>17. ASSUME NEW i \in m + 1 .. n PROVE i \in 1 .. n /\ ss[i].base > address
  <2>1. i \in 1 .. n /\ i \notin S
    BY <1>6
  <2>2. ss[i].base # address /\ ~(ss[i].base < address)
    BY <1>1, <1>2, <1>5, <2>1
  <2> QED BY <1>2, <2>1, <2>2
<1>18. \A i \in 1 .. n + 1 : tt[i].base # 0
  BY <1>2, <1>4, <1>14, <1>15, <1>16, <1>17
<1>19. ASSUME NEW i \in 1 .. n + 1, NEW j \in 1 .. n + 1, i < j PROVE tt[i].base < tt[j].base
  <2>1. CASE j \in 1 .. m
    <3>1. i \in 1 .. m
      BY <1>19, <2>1
    <3> QED BY <1>3, <1>14, <1>16, <1>19, <2>1, <3>1
  <2>2. CASE j = m + 1
    <3>1. i \in 1 .. m
      BY <1>19, <2>2
    <3> QED BY <1>4, <1>14, <1>16, <2>2, <3>1
  <2>3. CASE j \in m + 2 .. n + 1
    <3>1. PICK h \in m + 1 .. n : h = j - 1 /\ tt[j] = ss[h] /\ h \in 1 .. n /\ ss[h].base > address
      BY <1>14, <1>17, <2>3
    <3>2. CASE i \in 1 .. m
      <4>1. tt[i] = ss[i] /\ ss[i].base < address /\ ss[i].base \in Nat /\ ss[h].base \in Nat
        BY <1>2, <1>14, <1>16, <3>1, <3>2
      <4>2. address \in Nat /\ \A a, b, c \in Nat : a < c /\ b > c => a < b
        OBVIOUS
      <4>3. ss[i].base < ss[h].base
        BY ONLY <3>1, <4>1, <4>2, Zenon
      <4> QED BY <3>1, <4>1, <4>3
    <3>3. CASE i = m + 1
      BY <1>4, <1>14, <3>1, <3>3
    <3>4. CASE i \in m + 2 .. n + 1
      <4>1. PICK g \in m + 1 .. n : g = i - 1 /\ tt[i] = ss[g] /\ g \in 1 .. n
        BY <1>14, <1>17, <3>4
      <4>2. g < h
        BY <1>19, <3>1, <4>1
      <4> QED BY <1>3, <3>1, <4>1, <4>2
    <3> QED BY <1>15, <3>2, <3>3, <3>4
  <2> QED BY <1>15, <2>1, <2>2, <2>3
<1>20. Sorted(tt)
  BY <1>12, <1>13, <1>18, <1>19 DEF Sorted
<1>21. Place(tt, address, m + 1)
  BY <1>4, <1>13, <1>14 DEF Place
<1>22. \A i \in 1 .. Len(tt) : tt[i] = NewStack(address) \/ \E j \in 1 .. Len(ss) : tt[i] = ss[j]
  BY <1>1, <1>4, <1>13, <1>14, <1>15, <1>16, <1>17
<1> QED BY <1>20, <1>21, <1>22

\* The stacks are tiled, but for those that SP was moved into.
AllTiled(ss, m) == \A i \in 1 .. Len(ss) : ss[i].base \in m \/ Tiled(ss[i])

\* A stack is active, of sorted ones.
OneActive(ss, address) == Sorted(ss) /\ address # 0 /\ \E k : Place(ss, address, k)

\* getOrAddStack() of any address.
LEMMA GetsAny ==
  ASSUME NEW ss, Sorted(ss), NEW m, AllTiled(ss, m), NEW address \in Nat \ {0},
         NEW u, u = GetOrAddStack(ss, address)
  PROVE  OneActive(u.stacks, u.active) /\ AllTiled(u.stacks, m)
<1>1. PICK I : I = {i \in 1 .. Len(ss) : StackContains(ss[i], address)}
  OBVIOUS
<1>2. CASE I = {}
  <2>1. u = [stacks |-> AddStack(ss, address), active |-> address]
    BY <1>1, <1>2, AddsStack
  <2>2. PICK tt : tt = AddStack(ss, address)
    OBVIOUS
  <2>3. ASSUME NEW i \in 1 .. Len(ss) PROVE ss[i].base # address
    <3>1. PICK s \in Stack : s = ss[i]
      BY SortedFacts
    <3>2. StackTop(s) <= s.base /\ s.base <= s.base
      <4>1. s.base \in Nat
        BY DEF Stack
      <4> QED BY <4>1, StackTopFacts
    <3>3. ~StackContains(s, address)
      BY <1>1, <1>2, <3>1
    <3> QED BY <3>1, <3>2, <3>3 DEF StackContains
  <2>4. /\ Sorted(tt) /\ \E k : Place(tt, address, k)
        /\ \A i \in 1 .. Len(tt) : tt[i] = NewStack(address) \/ \E j \in 1 .. Len(ss) : tt[i] = ss[j]
    BY <2>2, <2>3, AddsAmong
  <2>5. Tiled(NewStack(address))
    BY NewStackFacts
  <2>6. AllTiled(tt, m)
    BY <2>4, <2>5 DEF AllTiled
  <2> QED BY <2>1, <2>2, <2>4, <2>6 DEF OneActive
<1>3. CASE I # {}
  <2>1. I \in SUBSET Nat
    BY <1>1, SortedFacts
  <2>2. PICK k \in I : \A i \in I : k <= i
    BY <1>3, <2>1, LeastNat
  <2>3. Min(I) \in I
    BY <2>2 DEF Min
  <2>4. PICK j \in 1 .. Len(ss) : j = Min(I) /\ j # 0
    <3>1. Min(I) \in 1 .. Len(ss)
      BY <1>1, <2>3
    <3>2. Len(ss) \in Nat
      BY SortedFacts
    <3>3. Min(I) # 0
      BY <3>1, <3>2
    <3> QED BY <3>1, <3>3
  <2>5. SelectInSeq(ss, LAMBDA s : StackContains(s, address)) = j
    BY <1>1, <1>3, <2>4 DEF SelectInSeq
  <2>6. u = [stacks |-> ss, active |-> ss[j].base]
    BY <2>4, <2>5 DEF GetOrAddStack
  <2>7. Place(ss, ss[j].base, j) /\ ss[j].base # 0
    BY SortedFacts DEF Place
  <2> QED BY <2>6, <2>7 DEF OneActive
<1> QED BY <1>2, <1>3

\* Where the active stack ends, unless SP was moved into it.
Ends(ss, address, m, q) == \A k : Place(ss, address, k) => address \in m \/ Foot(ss[k]) = q

\* Commands whose bytes are those that SP moves by take the end of a stack along.
LEMMA RunsOn ==
  ASSUME NEW s \in Stack, NEW p \in Int, NEW q \in Int, NEW c \in Seq(TraceCommand),
         NEW v, v = Run(Starts(s, p), c)
  PROVE  /\ v.s \in Stack /\ v.s.base = s.base /\ v.broken \in BOOLEAN
         /\ ~v.broken /\ ~Mismatch(c, v, q - p) /\ Tiled(s) /\ Foot(s) = (IF c = <<>> THEN q ELSE p) =>
              Tiled(v.s) /\ Foot(v.s) = q
<1>1. PICK w \in Work : w = Starts(s, p) /\ w.s = s /\ w.sp = p /\ w.delta = 0
  BY StartsFacts
<1>2. Keeps(w, v)
  BY <1>1, RunKeeps
<1>3. v \in Work /\ v.s.base = s.base /\ v.sp - v.delta = p
  BY <1>1, <1>2 DEF Keeps
<1>4. v.s \in Stack /\ v.broken \in BOOLEAN /\ v.sp \in Int /\ v.delta \in Int
  BY <1>3, WorkFacts
<1>5. ASSUME ~v.broken, ~Mismatch(c, v, q - p), Tiled(s), Foot(s) = (IF c = <<>> THEN q ELSE p)
      PROVE  Tiled(v.s) /\ Foot(v.s) = q
  <2>1. CASE c = <<>>
    <3>1. v = w
      BY <1>1, <2>1, RunEmpty
    <3> QED BY <1>1, <1>5, <2>1, <3>1
  <2>2. CASE c # <<>>
    <3>1. v.delta = q - p
      BY <1>5, <2>2 DEF Mismatch
    <3>2. v.sp = q
      BY <1>3, <1>4, <3>1
    <3>3. Tiled(w.s) /\ Foot(w.s) = w.sp
      BY <1>1, <1>5, <2>2
    <3>4. Tiled(v.s) /\ Foot(v.s) = v.sp
      BY <1>2, <1>5, <3>3 DEF Keeps
    <3> QED BY <3>2, <3>4
  <2> QED BY <2>1, <2>2
<1> QED BY <1>3, <1>4, <1>5

\* processCommandFrame() without an active stack.
LEMMA ProcessNothing ==
  ASSUME NEW ss, Sorted(ss), NEW t, Holds(t, ss, 0), NEW c, NEW before, NEW after, NEW future,
         Process(t, c, before, after, future),
         NEW u, u = IF future = 0 THEN [stacks |-> ss, active |-> 0] ELSE GetOrAddStack(ss, future)
  PROVE  stacks' = u.stacks /\ active' = u.active
<1>1. {i \in 1 .. Len(ss) : ss[i].base = 0} = {}
  BY DEF Sorted
<1>2. SelectInSeq(ss, LAMBDA s : s.base = 0) = 0
  BY <1>1 DEF SelectInSeq
<1> QED BY <1>2 DEF Process, Holds

\* What processCommandFrame() leaves of stacks that are tiled.
LEMMA ProcessTiles ==
  ASSUME NEW ss, Sorted(ss), NEW address, address = 0 \/ \E k : Place(ss, address, k), NEW m, AllTiled(ss, m),
         NEW t, Holds(t, ss, address), NEW c \in Seq(TraceCommand), NEW before \in Int, NEW after \in Int,
         NEW future \in Nat, Process(t, c, before, after, future),
         Ends(ss, address, m, IF c = <<>> THEN after ELSE before), broken' \in BOOLEAN
  PROVE  /\ Sorted(stacks') /\ (active' = 0 \/ \E k : Place(stacks', active', k))
         /\ future # 0 => OneActive(stacks', active')
         /\ ~broken' => AllTiled(stacks', m) /\ (future = 0 => Ends(stacks', active', m, after))
<1> DEFINE Then(tt) == IF future = 0 THEN [stacks |-> tt, active |-> address] ELSE GetOrAddStack(tt, future)
<1>1. ASSUME NEW tt, Sorted(tt), NEW u, u = Then(tt), future # 0, NEW mm, AllTiled(tt, mm)
      PROVE  OneActive(u.stacks, u.active) /\ AllTiled(u.stacks, mm)
  BY <1>1, GetsAny
<1>2. CASE address = 0
  <2>1. PICK u : u = Then(ss)
    OBVIOUS
  <2>2. stacks' = u.stacks /\ active' = u.active
    BY <1>2, <2>1, ProcessNothing
  <2>3. CASE future = 0
    <3>1. stacks' = ss /\ active' = 0
      BY <1>2, <2>1, <2>2, <2>3
    <3>2. Ends(stacks', active', m, after)
      BY <3>1 DEF Ends, Place, Sorted
    <3> QED BY <2>3, <3>1, <3>2
  <2>4. CASE future # 0
    <3>1. OneActive(stacks', active') /\ AllTiled(stacks', m)
      BY <1>1, <2>1, <2>2, <2>4
    <3> QED BY <2>4, <3>1 DEF OneActive
  <2> QED BY <2>3, <2>4
<1>3. CASE \E k : Place(ss, address, k)
  <2>1. PICK k : Place(ss, address, k)
    BY <1>3
  <2>2. PICK s \in Stack : s = ss[k] /\ k \in 1 .. Len(ss) /\ s.base = address
    BY <2>1, SortedFacts DEF Place
  <2>3. PICK v : v = Run(Starts(s, before), c)
    OBVIOUS
  <2>4. /\ v.s \in Stack /\ v.s.base = s.base /\ v.broken \in BOOLEAN
        /\ ~v.broken /\ ~Mismatch(c, v, after - before) /\ Tiled(s) /\ Foot(s) = (IF c = <<>> THEN after ELSE before) =>
             Tiled(v.s) /\ Foot(v.s) = after
    BY <2>3, RunsOn
  <2>5. PICK tt : tt = [ss EXCEPT ![k] = v.s]
    OBVIOUS
  <2>6. Swapped(ss, k, v.s, tt)
    BY <2>2, <2>4, <2>5, ReplaceStack
  <2>7. PICK u : u = Then(tt)
    OBVIOUS
  <2>8. Leaves(u, v, c, after - before)
    BY <2>1, <2>2, <2>3, <2>5, <2>7, ProcessFacts
  <2>9. stacks' = u.stacks /\ active' = u.active /\ broken' = (v.broken \/ Mismatch(c, v, after - before))
    BY <2>8 DEF Leaves
  <2>10. Sorted(tt) /\ Len(tt) = Len(ss) /\ tt[k] = v.s /\ Place(tt, address, k)
         /\ \A i \in 1 .. Len(ss) : i # k => tt[i] = ss[i]
    BY <2>2, <2>4, <2>6 DEF Swapped, Place
  <2>11. ASSUME ~broken' PROVE AllTiled(tt, m) /\ Ends(tt, address, m, after)
    <3>1. ~v.broken /\ ~Mismatch(c, v, after - before)
      BY <2>4, <2>9, <2>11 DEF Mismatch
    <3>2. address \in m \/ (Tiled(v.s) /\ Foot(v.s) = after)
      <4>1. address \in m \/ Foot(s) = (IF c = <<>> THEN after ELSE before)
        BY <2>1, <2>2 DEF Ends
      <4>2. address \in m \/ Tiled(s)
        BY <2>2 DEF AllTiled
      <4> QED BY <2>4, <3>1, <4>1, <4>2
    <3>3. AllTiled(tt, m)
      <4> SUFFICES ASSUME NEW i \in 1 .. Len(ss) PROVE tt[i].base \in m \/ Tiled(tt[i])
        BY <2>10 DEF AllTiled
      <4>1. CASE i = k
        BY <2>2, <2>4, <2>10, <3>2, <4>1
      <4>2. CASE i # k
        BY <2>10, <4>2 DEF AllTiled
      <4> QED BY <4>1, <4>2
    <3>4. Ends(tt, address, m, after)
      <4> SUFFICES ASSUME NEW j, Place(tt, address, j) PROVE address \in m \/ Foot(tt[j]) = after
        BY DEF Ends
      <4>1. j = k
        BY <2>10, PlaceUnique
      <4> QED BY <2>10, <3>2, <4>1
    <3> QED BY <3>3, <3>4
  <2>12. CASE future = 0
    <3>1. stacks' = tt /\ active' = address
      BY <2>7, <2>9, <2>12
    <3> QED BY <2>10, <2>11, <2>12, <3>1
  <2>13. CASE future # 0
    <3>1. AllTiled(tt, {b \in {tt[i].base : i \in 1 .. Len(tt)} : TRUE})
      BY DEF AllTiled
    <3>2. OneActive(stacks', active')
      BY <1>1, <2>7, <2>9, <2>10, <2>13, <3>1
    <3>3. ~broken' => AllTiled(stacks', m)
      BY <1>1, <2>7, <2>9, <2>10, <2>11, <2>13
    <3> QED BY <2>13, <3>2, <3>3 DEF OneActive
  <2> QED BY <2>12, <2>13
<1> QED BY <1>2, <1>3

\* What carries along for any program: the stacks are tiled, and the active one ends at SP.
WildInv ==
  /\ wild /\ lastSP \in Nat /\ broken \in BOOLEAN /\ Sorted(stacks)
  /\ active = 0 \/ \E k : Place(stacks, active, k)
  /\ lastSP = 0 => active = 0
  /\ ~broken => AllTiled(stacks, moved) /\ Ends(stacks, active, moved, lastSP)

\* Any tag is a list of commands.
LEMMA AnyCommands ==
  ASSUME NEW tags \in SeqOf(Commands, WildTag), tags # <<>>
  PROVE  IsTag(tags)
<1>1. PICK m \in 0 .. WildTag : tags \in [1 .. m -> Commands]
  BY DEF SeqOf
<1>2. Commands \subseteq TraceCommand
  BY DEF Commands, TraceCommand, Sizes
<1>3. m \in Nat /\ tags \in [1 .. m -> TraceCommand]
  BY <1>1, <1>2, TracerAssumption
<1>4. tags \in Seq(TraceCommand)
  BY <1>3
<1> QED BY <1>4, NotMissing DEF IsTag

\* Only MOVASP has no commands, and only ADDSP and SUBSP may be missing theirs.
LEMMA AnyDefault ==
  ASSUME NEW type \in InstructionTypes, NEW tags, tags = Missing \/ IsTag(tags),
         NEW c, c = IF tags = Missing THEN Default(type) ELSE tags
  PROVE  /\ c = Missing \/ c \in Seq(TraceCommand)
         /\ c = Missing => type \in {"ALLOCATE", "DEALLOCATE"}
         /\ c = <<>> <=> type = "ASSIGN" /\ tags = Missing
<1>1. CASE IsTag(tags)
  <2>1. c = tags /\ tags # Missing
    BY <1>1 DEF IsTag
  <2> QED BY <1>1, <2>1 DEF IsTag
<1>2. CASE tags = Missing
  <2>1. c = Default(type)
    BY <1>2
  <2>2. CASE type \in {"CALL", "RET"}
    <3>1. IsTag(c)
      BY <2>1, <2>2, DefaultRun
    <3> QED BY <2>2, <3>1 DEF IsTag
  <2>3. CASE type = "TRAP"
    BY <2>1, <2>3, TrapCommands
  <2>4. CASE type = "TRAPRET"
    BY <2>1, <2>4, ReturnCommands
  <2>5. CASE type = "ASSIGN"
    BY <1>2, <2>1, <2>5, NoCommands
  <2>6. CASE type \in {"ALLOCATE", "DEALLOCATE"}
    <3>1. c = Missing
      BY <2>1, <2>6 DEF Default
    <3> QED BY <2>6, <3>1, NoCommands
  <2> QED BY <2>2, <2>3, <2>4, <2>5, <2>6 DEF InstructionTypes
<1> QED BY <1>1, <1>2

\* The stack found by its base.
LEMMA StackIs ==
  ASSUME NEW ss, Sorted(ss), NEW address, NEW k, Place(ss, address, k)
  PROVE  StackAt(ss, address) = ss[k]
BY ActiveIs DEF StackAt

\* The stack t is chosen for an instruction: it ends where the commands start, or SP has been
\* moved into it.
Suited(t, type, tags, x, m) ==
  /\ OneActive(t.stacks, t.active) \/ (type \notin {"TRAP", "ASSIGN"} /\ t.active = 0 /\ Sorted(t.stacks))
  /\ AllTiled(t.stacks, moved)
  /\ type \notin {"TRAP", "ASSIGN"} => t = [stacks |-> stacks, active |-> active]
  /\ type = "TRAP" /\ active' = t.active => Ends(t.stacks, t.active, m, x + ContextSize)
  /\ type = "ASSIGN" /\ active' = t.active =>
       Ends(t.stacks, t.active, m, IF tags # Missing /\ lastSP # 0 THEN lastSP ELSE x)

\* The stack that is chosen before the commands run suits them.
LEMMA ChosenEnds ==
  ASSUME WildInv, ~broken, NEW type \in InstructionTypes, NEW tags, NEW x \in Nat \ {0},
         NEW m, moved' = m, m = (IF Misplaces(type, tags, x) THEN moved \cup {active'} ELSE moved),
         NEW t, t = Chosen(type, x)
  PROVE  Suited(t, type, tags, x, m)
<1>1. Sorted(stacks) /\ AllTiled(stacks, moved) /\ ContextSize \in Nat
  BY TracerAssumption DEF WildInv
<1>2. CASE type \notin {"TRAP", "ASSIGN"}
  <2>1. t = [stacks |-> stacks, active |-> active]
    BY <1>2 DEF Chosen
  <2>2. OneActive(stacks, active) \/ active = 0
    BY DEF WildInv, OneActive
  <2> QED BY <1>1, <1>2, <2>1, <2>2 DEF Suited
<1>3. CASE type \in {"TRAP", "ASSIGN"}
  <2>1. PICK y \in Nat \ {0} : y = IF type = "TRAP" THEN x + ContextSize ELSE x
    BY <1>1
  <2>2. t = GetOrAddStack(stacks, y)
    BY <1>3, <2>1 DEF Chosen
  <2>3. OneActive(t.stacks, t.active) /\ AllTiled(t.stacks, moved)
    BY <1>1, <2>2, GetsAny
  <2>4. PICK at : at = CASE type = "TRAP" -> x + ContextSize
                         [] type = "ASSIGN" /\ tags # Missing /\ lastSP # 0 -> lastSP
                         [] OTHER -> x
    OBVIOUS
  <2>5. ASSUME active' = t.active PROVE Ends(t.stacks, t.active, m, at)
    <3> SUFFICES ASSUME NEW k, Place(t.stacks, t.active, k), t.active \notin m
                 PROVE  Foot(t.stacks[k]) = at
      BY DEF Ends
    <3>1. StackAt(t.stacks, active') = t.stacks[k]
      BY <2>3, <2>5, StackIs DEF OneActive
    <3>2. ~Misplaces(type, tags, x)
      BY <2>5
    <3>3. Foot(StackAt(t.stacks, active')) = at
      BY <1>3, <2>4, <3>2 DEF Misplaces
    <3> QED BY <3>1, <3>3
  <2> QED BY <1>3, <2>3, <2>4, <2>5 DEF Suited
<1> QED BY <1>2, <1>3

\* Any instruction of any program.
LEMMA AnyInstructionStep ==
  ASSUME WildInv, ~broken, AnyInstruction, wild' = wild
  PROVE  WildInv'
<1>1. PICK type \in InstructionTypes, tags \in {Missing} \cup (SeqOf(Commands, WildTag) \ {<<>>}), x \in 1 .. WildBase :
             Runs(type, tags, x)
  BY DEF AnyInstruction
<1>2. x \in Nat \ {0} /\ (tags = Missing \/ IsTag(tags)) /\ ContextSize \in Nat \ {0}
  BY <1>1, AnyCommands, TracerAssumption
<1>3. PICK m : m = (IF Misplaces(type, tags, x) THEN moved \cup {active'} ELSE moved) /\ moved' = m
  BY <1>1 DEF Runs
<1>4. Notify(type, tags, x)
  BY <1>1 DEF Runs
<1>5. PICK t : t = Chosen(type, x)
  OBVIOUS
<1>6. PICK c : c = IF tags = Missing THEN Default(type) ELSE tags
  OBVIOUS
<1>7. PICK last \in Nat \ {0} : last = IF lastSP = 0 THEN x ELSE lastSP
  BY <1>2 DEF WildInv
<1>8. PICK before \in Nat : before = IF type = "TRAP" THEN x + ContextSize ELSE last
  BY <1>2
<1>9. PICK after \in Nat : after = IF type = "TRAPRET" THEN last + ContextSize ELSE x
  BY <1>2
<1>10. PICK future \in Nat : future = IF type = "TRAPRET" THEN x ELSE 0
  BY <1>2
<1>11. /\ lastSP' = x
       /\ IF c = Missing \/ broken
          THEN stacks' = t.stacks /\ active' = t.active /\ broken' = TRUE
          ELSE Process(t, c, before, after, future)
  BY <1>4, <1>5, <1>6, <1>7, <1>8, <1>9, <1>10 DEF Notify
<1>12. /\ c = Missing \/ c \in Seq(TraceCommand)
       /\ c = Missing => type \in {"ALLOCATE", "DEALLOCATE"}
       /\ c = <<>> <=> type = "ASSIGN" /\ tags = Missing
  BY <1>2, <1>6, AnyDefault
<1>12a. Suited(t, type, tags, x, m)
  BY <1>2, <1>3, <1>5, ChosenEnds
<1>13. /\ OneActive(t.stacks, t.active) \/ (type \notin {"TRAP", "ASSIGN"} /\ t.active = 0 /\ Sorted(t.stacks))
       /\ AllTiled(t.stacks, moved)
       /\ type \notin {"TRAP", "ASSIGN"} => t = [stacks |-> stacks, active |-> active]
       /\ type = "TRAP" /\ active' = t.active => Ends(t.stacks, t.active, m, x + ContextSize)
       /\ type = "ASSIGN" /\ active' = t.active =>
            Ends(t.stacks, t.active, m, IF tags # Missing /\ lastSP # 0 THEN lastSP ELSE x)
  BY <1>12a DEF Suited
<1>14. Sorted(t.stacks) /\ (t.active = 0 \/ \E k : Place(t.stacks, t.active, k))
  BY <1>13 DEF OneActive
<1>15. wild' /\ lastSP' \in Nat /\ lastSP' # 0
  BY <1>2, <1>11 DEF WildInv
<1>16. moved \subseteq m
  BY <1>3
<1>17. CASE c = Missing
  <2>1. stacks' = t.stacks /\ active' = t.active /\ broken' = TRUE
    BY <1>11, <1>17
  <2> QED BY <1>14, <1>15, <2>1 DEF WildInv
<1>18. CASE c # Missing
  <2>1. Process(t, c, before, after, future) /\ c \in Seq(TraceCommand)
    BY <1>11, <1>12, <1>18
  <2>2. PICK ss, address : Holds(t, ss, address) /\ ss = t.stacks /\ address = t.active
    BY DEF Holds
  <2>3. broken' \in BOOLEAN
    BY <2>1 DEF Process
  <2>4. CASE type = "TRAPRET"
    <3>1. future = x /\ future # 0 /\ before = last /\ c # <<>> /\ ss = stacks /\ address = active
      BY <1>2, <1>8, <1>10, <1>12, <1>13, <2>2, <2>4
    <3>2. Ends(ss, address, moved, IF c = <<>> THEN after ELSE before)
      <4> SUFFICES ASSUME NEW k, Place(stacks, active, k) PROVE active \in moved \/ Foot(stacks[k]) = before
        BY <3>1 DEF Ends
      <4>1. active # 0
        BY DEF WildInv, Sorted, Place
      <4>2. lastSP # 0
        BY <4>1 DEF WildInv
      <4> QED BY <1>7, <3>1, <4>2 DEF WildInv, Ends
    <3>3. OneActive(stacks', active') /\ (~broken' => AllTiled(stacks', moved))
      <4>1. before \in Int /\ after \in Int
        OBVIOUS
      <4>2. AllTiled(ss, moved) /\ Sorted(ss) /\ (address = 0 \/ \E k : Place(ss, address, k))
        BY <1>13, <1>14, <2>2
      <4>3. future # 0 => OneActive(stacks', active')
        BY <2>1, <2>2, <2>3, <3>2, <4>1, <4>2, ProcessTiles
      <4>4. ~broken' => AllTiled(stacks', moved)
        BY <2>1, <2>2, <2>3, <3>2, <4>1, <4>2, ProcessTiles
      <4> QED BY <3>1, <4>3, <4>4
    <3>4. ~broken' => AllTiled(stacks', m)
      BY <1>16, <3>3 DEF AllTiled
    <3>5. Ends(stacks', active', m, x)
      <4> SUFFICES ASSUME NEW k, Place(stacks', active', k) PROVE active' \in m \/ Foot(stacks'[k]) = x
        BY DEF Ends
      <4>1. StackAt(stacks', active') = stacks'[k]
        BY <3>3, StackIs DEF OneActive
      <4> QED BY <1>3, <2>4, <4>1 DEF Misplaces
    <3> QED BY <1>3, <1>11, <1>15, <2>3, <3>3, <3>4, <3>5 DEF WildInv, OneActive
  <2>5. CASE type # "TRAPRET"
    <3>1. future = 0 /\ after = x
      BY <1>9, <1>10, <2>5
    <3>2. active' = t.active
      BY <2>1, <3>1 DEF Process
    <3>3. AllTiled(ss, m)
      BY <1>13, <1>16, <2>2 DEF AllTiled
    <3>4. Ends(ss, address, m, IF c = <<>> THEN after ELSE before)
      <4>1. CASE type = "TRAP"
        BY <1>8, <1>12, <1>13, <2>2, <3>2, <4>1
      <4>2. CASE type = "ASSIGN"
        <5>1. (IF tags # Missing /\ lastSP # 0 THEN lastSP ELSE x) = (IF c = <<>> THEN after ELSE before)
          BY <1>7, <1>8, <1>12, <3>1, <4>2
        <5> QED BY <1>13, <2>2, <3>2, <4>2, <5>1
      <4>3. CASE type \notin {"TRAP", "ASSIGN"}
        <5>1. ss = stacks /\ address = active /\ c # <<>> /\ before = last
          BY <1>8, <1>12, <1>13, <2>2, <4>3
        <5> SUFFICES ASSUME NEW k, Place(stacks, active, k) PROVE active \in m \/ Foot(stacks[k]) = before
          BY <5>1 DEF Ends
        <5>2. active # 0
          BY DEF WildInv, Sorted, Place
        <5>3. lastSP # 0
          BY <5>2 DEF WildInv
        <5> QED BY <1>7, <1>16, <5>1, <5>3 DEF WildInv, Ends
      <4> QED BY <4>1, <4>2, <4>3
    <3>5. /\ Sorted(stacks') /\ (active' = 0 \/ \E k : Place(stacks', active', k))
          /\ ~broken' => AllTiled(stacks', m) /\ Ends(stacks', active', m, after)
      <4>1. before \in Int /\ after \in Int
        OBVIOUS
      <4>2. ~broken' => AllTiled(stacks', m) /\ (future = 0 => Ends(stacks', active', m, after))
        BY <1>14, <2>1, <2>2, <2>3, <3>3, <3>4, <4>1, ProcessTiles
      <4>3. Sorted(stacks') /\ (active' = 0 \/ \E k : Place(stacks', active', k))
        BY <1>14, <2>1, <2>2, <2>3, <3>3, <3>4, <4>1, ProcessTiles
      <4> QED BY <3>1, <4>2, <4>3
    <3> QED BY <1>3, <1>11, <1>15, <2>3, <3>1, <3>5 DEF WildInv
  <2> QED BY <2>4, <2>5
<1> QED BY <1>17, <1>18

\* Any instruction of a correct program.
LEMMA ProgramStep ==
  ASSUME TracerInv, ~broken, CorrectProgram, ~Leave, wild' = wild, ~wild
  PROVE  TracerInv'
<1>1. CASE \E list \in Lists : AllocateParams(list) \/ AllocateLocals(list) \/ ReleaseLocals(list)
  <2>1. PICK list \in Lists : AllocateParams(list) \/ AllocateLocals(list) \/ ReleaseLocals(list)
    BY <1>1
  <2>2. CASE AllocateParams(list)
    BY <2>2, AllocateParamsStep
  <2>3. CASE AllocateLocals(list)
    BY <2>3, AllocateLocalsStep
  <2>4. CASE ReleaseLocals(list)
    BY <2>4, ReleaseLocalsStep
  <2> QED BY <2>1, <2>2, <2>3, <2>4
<1>2. CASE CallRoutine
  BY <1>2, CallRoutineStep
<1>3. CASE Return
  BY <1>3, ReturnStep
<1>4. CASE ReleaseParams
  BY <1>4, ReleaseParamsStep
<1>5. CASE Trap
  BY <1>5, TrapStep
<1>6. CASE ReturnFromTrap
  BY <1>6, ReturnFromTrapStep
<1> QED BY <1>1, <1>2, <1>3, <1>4, <1>5, <1>6 DEF CorrectProgram

\* The invariant of every program.
TraceInv == IF wild THEN WildInv ELSE TracerInv \/ Left

\* Nothing happens, to any program.
LEMMA AllStutter ==
  ASSUME TraceInv, UNCHANGED tracerVars
  PROVE  TraceInv'
<1>1. /\ wild' = wild /\ stacks' = stacks /\ active' = active /\ lastSP' = lastSP /\ broken' = broken
      /\ sp' = sp /\ truth' = truth /\ saved' = saved /\ strayed' = strayed /\ moved' = moved
  BY DEF tracerVars, tracer, records
<1>2. WildInv => WildInv'
  BY <1>1 DEF WildInv
<1>3. Left => Left'
  BY <1>1 DEF Left
<1> QED BY <1>1, <1>2, <1>3, StutterStep DEF TraceInv

\* The invariant: for any stacks, sizes and programs, as long as the tracer reports no error the
\* active stack is tiled down to SP, unless SP was moved into it.  With a correct program the
\* others wait as they were left, and the frames that processCommandFrame() has made are the
\* activation records of it, until it leaves the system.
THEOREM TracerInvariant == TracerSpec => []TraceInv
<1>1. TracerInit => TraceInv
  <2> SUFFICES ASSUME TracerInit PROVE TraceInv
    OBVIOUS
  <2>1. WildInv \/ ~wild
    <3>1. Sorted(<<>>) /\ Len(<<>>) = 0
      BY DEF Sorted
    <3>2. AllTiled(<<>>, moved) /\ Ends(<<>>, 0, moved, 0)
      BY <3>1 DEF AllTiled, Ends, Place
    <3> QED BY <3>1, <3>2 DEF TracerInit, WildInv
  <2> QED BY <2>1, InitHolds DEF TraceInv
<1>2. TraceInv /\ [TracerNext]_tracerVars => TraceInv'
  <2> SUFFICES ASSUME TraceInv, [TracerNext]_tracerVars PROVE TraceInv'
    OBVIOUS
  <2>1. CASE ~wild /\ Boot /\ wild' = wild
    <3>1. ~Left
      BY <2>1, TracerAssumption DEF Boot, Left
    <3>2. TracerInv
      BY <2>1, <3>1 DEF TraceInv
    <3> QED BY <2>1, <3>2, BootStep DEF TraceInv
  <2>2. CASE ~wild /\ ~broken /\ CorrectProgram /\ wild' = wild
    <3>1. ~Left
      BY <2>2 DEF Left, CorrectProgram, Entered, AllocateParams, AllocateLocals, ReleaseLocals, CallRoutine,
                  Return, ReleaseParams, Trap, ReturnFromTrap, InHandler, Leave
    <3>2. TracerInv
      BY <2>2, <3>1 DEF TraceInv
    <3>3. CASE Leave
      BY <2>2, <3>2, <3>3, LeaveStep DEF TraceInv
    <3>4. CASE ~Leave
      BY <2>2, <3>2, <3>4, ProgramStep DEF TraceInv
    <3> QED BY <3>3, <3>4
  <2>3. CASE wild /\ ~broken /\ AnyInstruction /\ wild' = wild
    BY <2>3, AnyInstructionStep DEF TraceInv
  <2>4. CASE Restart /\ wild' = wild
    <3>1. wild \in BOOLEAN
      <4>1. wild = TRUE \/ wild = FALSE
        BY DEF TraceInv, WildInv, TracerInv, Types, Left
      <4> QED BY <4>1
    <3>2. TracerInv'
      BY <2>4, <3>1, RestartStep
    <3>3. WildInv' \/ ~wild'
      <4>1. Sorted(<<>>) /\ Len(<<>>) = 0
        BY DEF Sorted
      <4>2. AllTiled(<<>>, {}) /\ Ends(<<>>, 0, {}, 0)
        BY <4>1 DEF AllTiled, Ends, Place
      <4>3. stacks' = <<>> /\ active' = 0 /\ lastSP' = 0 /\ broken' = FALSE /\ moved' = {}
        BY <2>4 DEF Restart, ClearStacks
      <4> QED BY <4>1, <4>2, <4>3 DEF WildInv
    <3> QED BY <3>2, <3>3 DEF TraceInv
  <2>5. CASE UNCHANGED tracerVars
    BY <2>5, AllStutter
  <2> QED BY <2>1, <2>2, <2>3, <2>4, <2>5 DEF TracerNext
<1> QED BY <1>1, <1>2, PTL DEF TracerSpec

\* The types of the invariant are those of the model.
LEMMA TypesShown ==
  ASSUME wild \in BOOLEAN, broken \in BOOLEAN, lastSP \in Nat, Sorted(stacks),
         active \in {0} \cup {stacks[i].base : i \in 1 .. Len(stacks)}
  PROVE  TracerTypeOK
<1>1. stacks \in Seq(Stack) /\ DOMAIN stacks = 1 .. Len(stacks)
  BY DEF Sorted
<1>2. ASSUME NEW i \in DOMAIN stacks
      PROVE  /\ stacks[i].base \in Nat \ {0}
             /\ \A f \in ToSet(stacks[i].frames) :
                  /\ f.active \in BOOLEAN
                  /\ \A s \in ToSet(f.slots) : s.address \in Int /\ s.size \in Nat \ {0}
  <2>1. PICK z \in Stack : z = stacks[i] /\ z.base # 0
    BY <1>1 DEF Sorted
  <2>2. ASSUME NEW f \in ToSet(z.frames)
        PROVE  f.active \in BOOLEAN /\ \A s \in ToSet(f.slots) : s.address \in Int /\ s.size \in Nat \ {0}
    <3>1. f \in Frame
      BY DEF Stack, ToSet
    <3>2. f.active \in BOOLEAN /\ f.slots \in Seq(Slot)
      BY <3>1 DEF Frame
    <3>3. ASSUME NEW s \in ToSet(f.slots) PROVE s.address \in Int /\ s.size \in Nat \ {0}
      <4>1. s \in Slot
        BY <3>2 DEF ToSet
      <4> QED BY <4>1 DEF Slot
    <3> QED BY <3>2, <3>3
  <2>3. z.base \in Nat \ {0}
    BY <2>1 DEF Stack
  <2> QED BY <2>1, <2>2, <2>3
<1>3. \A i, j \in DOMAIN stacks : i < j => stacks[i].base < stacks[j].base
  BY <1>1 DEF Sorted
<1>4. active \in {0} \cup {stacks[i].base : i \in DOMAIN stacks}
  BY <1>1
<1> QED BY <1>2, <1>3, <1>4 DEF TracerTypeOK

\* The stack that is active.
LEMMA ActiveShown ==
  ASSUME Sorted(stacks), NEW k, Place(stacks, active, k)
  PROVE  ActiveStack = stacks[k] /\ active \in {stacks[i].base : i \in 1 .. Len(stacks)}
BY StackIs DEF ActiveStack, Place

\* As long as processCommandFrame() reports no error, for any instructions, also traps and MOVASP,
\* and any tags, the slots of the active stack fill it from its base down to the SP of the last
\* notifyInstruction(), unless SP was moved into it elsewhere than at its end.
THEOREM SlotsAlwaysTile == TracerSpec => []SlotsTile
<1>1. ASSUME TraceInv PROVE SlotsTile
  <2>1. CASE wild
    <3>1. WildInv
      BY <1>1, <2>1 DEF TraceInv
    <3>2. active \in {0} \cup {stacks[i].base : i \in 1 .. Len(stacks)}
      BY <3>1, ActiveShown DEF WildInv
    <3>3. TracerTypeOK
      BY <3>1, <3>2, TypesShown DEF WildInv
    <3>4. ASSUME ~broken, active # 0, active \notin moved PROVE Tiled(ActiveStack) /\ Foot(ActiveStack) = lastSP
      <4>1. PICK k : Place(stacks, active, k)
        BY <3>1, <3>4 DEF WildInv
      <4>2. ActiveStack = stacks[k] /\ stacks[k].base = active /\ k \in 1 .. Len(stacks)
        BY <3>1, <4>1, ActiveShown DEF WildInv, Place
      <4>3. AllTiled(stacks, moved) /\ Ends(stacks, active, moved, lastSP)
        BY <3>1, <3>4 DEF WildInv
      <4> QED BY <3>4, <4>1, <4>2, <4>3 DEF AllTiled, Ends
    <3> QED BY <3>3, <3>4 DEF SlotsTile
  <2>2. CASE ~wild /\ TracerInv
    <3>1. TracerTypeOK
      BY <2>2, TypesShown DEF TracerInv, Types
    <3>2. ASSUME ~broken, active # 0 PROVE Tiled(ActiveStack) /\ Foot(ActiveStack) = lastSP
      <4>1. lastSP # 0
        BY <2>2, <3>2 DEF TracerInv, Fresh
      <4>2. PICK k : Current(stacks, active, saved, lastSP, k)
        BY <2>2, <3>2, <4>1 DEF TracerInv, Settled
      <4>3. Place(stacks, active, k) /\ Tiled(stacks[k]) /\ Foot(stacks[k]) = lastSP
        BY <4>2 DEF Current
      <4>4. ActiveStack = stacks[k]
        BY <2>2, <4>3, ActiveShown DEF TracerInv, Types
      <4> QED BY <4>3, <4>4
    <3> QED BY <3>1, <3>2 DEF SlotsTile
  <2>3. CASE ~wild /\ Left
    <3>1. PICK k : Sorted(stacks) /\ Place(stacks, SystemStack, k) /\ Blank(stacks[k].frames)
      BY <2>3 DEF Left, LeftOn
    <3>2. active = SystemStack /\ lastSP = SystemStack /\ ~broken /\ SystemStack \in Nat
      BY <2>3, TracerAssumption DEF Left
    <3>3. PICK s \in Stack : s = stacks[k] /\ s.base = SystemStack
      BY <3>1, SortedFacts DEF Place
    <3>4. Tiled(s) /\ Foot(s) = SystemStack
      BY <3>1, <3>3, BlankFoot
    <3>5. ActiveStack = s /\ active \in {stacks[i].base : i \in 1 .. Len(stacks)}
      BY <3>1, <3>2, <3>3, ActiveShown
    <3>6. TracerTypeOK
      <4>1. wild \in BOOLEAN /\ broken \in BOOLEAN
        BY <2>3 DEF Left
      <4> QED BY <3>1, <3>2, <3>5, <4>1, TypesShown
    <3> QED BY <3>2, <3>4, <3>5, <3>6 DEF SlotsTile
  <2> QED BY <1>1, <2>1, <2>2, <2>3 DEF TraceInv
<1> QED BY <1>1, TracerInvariant, PTL

\* What the mirror of the records says of each frame.
LEMMA MirrorShown ==
  ASSUME NEW s \in Stack, MirrorOf(s, truth, saved # <<>>), truth \in Seq(Record)
  PROVE  IF truth = <<>> THEN \A i \in DOMAIN s.frames : s.frames[i].slots = <<>>
         ELSE /\ Len(s.frames) = Len(truth)
              /\ \A i \in DOMAIN truth : FrameShape(s.frames[i]) = RecordShape(i)
<1>1. CASE truth = <<>>
  <2>1. Blank(s.frames)
    BY <1>1 DEF MirrorOf
  <2>2. CASE s.frames = <<>>
    BY <1>1, <2>2
  <2>3. CASE s.frames = <<EmptyFrame>>
    BY <1>1, <2>3 DEF EmptyFrame
  <2> QED BY <2>1, <2>2, <2>3 DEF Blank
<1>2. CASE truth # <<>>
  <2>1. PICK h \in BOOLEAN : h = (saved # <<>>)
    OBVIOUS
  <2>2. Len(s.frames) = Len(truth) /\ Mirror(s, truth, Len(truth), h)
    BY <1>2, <2>1 DEF MirrorOf
  <2>3. ASSUME NEW i \in DOMAIN truth PROVE FrameShape(s.frames[i]) = RecordShape(i)
    <3>1. i \in 1 .. Len(truth)
      OBVIOUS
    <3>2. FrameShape(s.frames[i]) =
            [slots |-> SlotsOf(truth[i], EntryOf(h, i)), active |-> truth[i].entered]
      BY <2>2, <3>1 DEF Mirror
    <3>3. EntryOf(h, i) = Entry(i)
      BY <2>1 DEF EntryOf, Entry
    <3>4. SlotsOf(truth[i], EntryOf(h, i)) =
            truth[i].params \o (IF truth[i].entered THEN Entry(i) ELSE <<>>) \o truth[i].locals
      BY <3>3 DEF SlotsOf
    <3> QED BY <3>2, <3>4 DEF RecordShape
  <2> QED BY <1>2, <2>2, <2>3
<1> QED BY <1>1, <1>2

\* With a correct program notifyInstruction() never reports an error, and the frames of the active
\* stack are the activation records of the program, until a trap returns to a stack in use.
THEOREM FramesAreMirrored == TracerSpec => []FramesMirror
<1>1. ASSUME TracerInv, ~wild PROVE FramesMirror
  <2> SUFFICES ASSUME ~wild, ~strayed, lastSP # 0
               PROVE  /\ ~broken
                      /\ IF truth = <<>>
                         THEN \A i \in DOMAIN ActiveStack.frames : ActiveStack.frames[i].slots = <<>>
                         ELSE /\ Len(ActiveStack.frames) = Len(truth)
                              /\ \A i \in DOMAIN truth : FrameShape(ActiveStack.frames[i]) = RecordShape(i)
    BY DEF FramesMirror
  <2>1. Honest(wild, strayed, saved)
    BY DEF Honest
  <2>2. ~broken
    BY <1>1, <2>1 DEF TracerInv, Mirrored
  <2>3. PICK k : Place(stacks, active, k) /\ MirrorOf(stacks[k], truth, saved # <<>>)
    BY <1>1, <2>1 DEF TracerInv, Mirrored
  <2>4. ActiveStack = stacks[k]
    BY <1>1, <2>3, ActiveShown DEF TracerInv, Types
  <2>5. PICK s \in Stack : s = stacks[k]
    BY <1>1, <2>3, SortedFacts DEF Place, TracerInv, Types
  <2>6. truth \in Seq(Record)
    BY <1>1, Running
  <2>7. MirrorOf(s, truth, saved # <<>>)
    BY <2>3, <2>5
  <2>8. IF truth = <<>> THEN \A i \in DOMAIN s.frames : s.frames[i].slots = <<>>
        ELSE /\ Len(s.frames) = Len(truth)
             /\ \A i \in DOMAIN truth : FrameShape(s.frames[i]) = RecordShape(i)
    BY <2>6, <2>7, MirrorShown
  <2> QED BY <2>2, <2>4, <2>5, <2>8
<1>2. ASSUME Left PROVE FramesMirror
  <2>1. PICK k : Sorted(stacks) /\ Place(stacks, SystemStack, k) /\ Blank(stacks[k].frames)
    BY <1>2 DEF Left, LeftOn
  <2>2. active = SystemStack /\ ~broken /\ truth = <<>>
    BY <1>2 DEF Left
  <2>3. PICK s \in Stack : s = stacks[k]
    BY <2>1, SortedFacts DEF Place
  <2>4. ActiveStack = s
    BY <2>1, <2>2, <2>3, ActiveShown
  <2>5. MirrorOf(s, truth, saved # <<>>) /\ truth \in Seq(Record)
    BY <2>1, <2>2, <2>3 DEF MirrorOf
  <2>6. IF truth = <<>> THEN \A i \in DOMAIN s.frames : s.frames[i].slots = <<>>
        ELSE /\ Len(s.frames) = Len(truth)
             /\ \A i \in DOMAIN truth : FrameShape(s.frames[i]) = RecordShape(i)
    BY <2>5, MirrorShown
  <2> QED BY <2>2, <2>4, <2>6 DEF FramesMirror
<1>3. TraceInv => FramesMirror
  <2>1. CASE wild
    BY <2>1 DEF FramesMirror
  <2>2. CASE ~wild
    BY <1>1, <1>2, <2>2 DEF TraceInv
  <2> QED BY <2>1, <2>2
<1> QED BY <1>3, TracerInvariant, PTL
=============================================================================
