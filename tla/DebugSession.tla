---------------------------- MODULE DebugSession ----------------------------
(***************************************************************************)
(* A run or debugging session of an ISA or assembly project (Pep_ISA and   *)
(* Pep_ASMB of lib/project/pep10.cpp).                                     *)
(*                                                                         *)
(* The program is simulated on the thread of the user interface, in bursts: *)
(* every burst is a call queued with the Qt event loop, and a burst that   *)
(* has not come to its end queues the next one.  The user's commands are   *)
(* events of the same loop, so a command may come between two bursts.      *)
(*                                                                         *)
(* The simulated program is any program: what the next instruction does to *)
(* the call depth, to the program counter and to the power is an input.    *)
(***************************************************************************)
EXTENDS Integers, Sequences

CONSTANTS
  BurstTicks,   \* instructions of one burst, 1000 in the code
  ChainLimit,   \* bursts after a command before the session pauses, 10 in the code
  DepthMax,     \* largest call depth, 0xffff in the code
  IgnoreOS,     \* ignoreOS(): steps do not stop in the operating system
  MaxCommands   \* bound: commands of the user

ASSUME SessionAssumption ==
  /\ BurstTicks \in Nat \ {0}
  /\ ChainLimit \in Nat
  /\ DepthMax \in Nat \ {0}
  /\ IgnoreOS \in BOOLEAN
  /\ MaxCommands \in Nat

Depths == 0 .. DepthMax

\* Where the program counter is: below 0x8000, at it, or above it.
Places == {"user", "base", "os"}

\* The condition a burst stops at: never, out of the operating system, or at a call depth.
Steps == [kind : {"never", "leaveOS", "depth"}, target : Depths]
Never == [kind |-> "never", target |-> 0]
LeaveOS == [kind |-> "leaveOS", target |-> 0]

VARIABLES
  user,          \* "patient": waits until the queued bursts have run, and writes source
                 \* without errors; "hasty": does neither
  state,         \* _state
  pendingPause,  \* _pendingPause
  chained,       \* _stepsSinceLastInteraction
  queue,         \* the deferred executions queued with the event loop
  phase,         \* "idle", or where onDeferredExecution is: "ticking", "deciding"
  step,          \* the condition of the burst that runs or ran last
  ticks,         \* instructions left of the burst
  ended,         \* the program wrote to pwrOff or failed during the burst
  depth,         \* the processor's call depth
  place,         \* where its program counter is
  traced,        \* the devices record into the trace buffer
  assembled,     \* history: the last prepareSim() assembled and loaded the program
  landed,        \* history: the last instruction led to a breakpoint
  pausedBy,      \* history: what ended the last burst, see Decide
  asked,         \* history: the command in force and the depth it was given at
  commands       \* bound: commands given so far

session == <<state, pendingPause, chained, queue, traced>>
burst == <<phase, step, ticks, ended>>
program == <<depth, place, landed>>
history == <<assembled, pausedBy, asked, commands>>
vars == <<user, session, burst, program, history>>

Init ==
  /\ user \in {"patient", "hasty"}
  /\ state = "Halted"
  /\ pendingPause = FALSE
  /\ chained = 0
  /\ queue = <<>>
  /\ phase = "idle"
  /\ step = Never
  /\ ticks = 0
  /\ ended = FALSE
  /\ depth = 0
  /\ place \in Places
  /\ traced = FALSE
  /\ assembled = FALSE
  /\ landed = FALSE
  /\ pausedBy = "none"
  /\ asked = [op |-> "none", depth |-> 0]
  /\ commands = 0

-----------------------------------------------------------------------------
(* Commands                                                                *)

InOS == place = "os"

AllowedDebugging ==
  CASE state = "Halted" -> {"Start", "LoadObject", "Execute"}
    [] state = "DebugPaused" -> {"Continue", "Stop"}
    [] OTHER -> {"Stop"}

AllowedSteps == IF state = "DebugPaused" THEN {"over", "into", "out"} ELSE {}

\* A command is an event: it comes between bursts.  A patient user gives it only when
\* nothing is queued.
Commanded(op) ==
  /\ phase = "idle"
  /\ user = "patient" => queue = <<>>
  /\ commands < MaxCommands
  /\ commands' = commands + 1
  /\ asked' = [op |-> op, depth |-> depth]
  /\ pausedBy' = "none"
  /\ UNCHANGED burst

\* Mutant: the pause the previous session left behind survives into the next one.
PrepareSim_KeepsPause ==
  \E ok \in BOOLEAN, p \in Places :
    /\ ok \/ user = "hasty"
    /\ assembled' = ok
    /\ IF ok THEN place' = p /\ landed' = FALSE ELSE UNCHANGED <<place, landed>>
    /\ UNCHANGED <<pendingPause, depth>>

\* prepareSim(): assembles and loads the program and resets the simulator; if the source
\* has errors it returns before the reset, and its callers go on.  The call depth is
\* nobody's to reset.
PrepareSim ==
  \E ok \in BOOLEAN, p \in Places :
    /\ ok \/ user = "hasty"
    /\ assembled' = ok
    /\ IF ok
       THEN pendingPause' = FALSE /\ place' = p /\ landed' = FALSE
       ELSE UNCHANGED <<pendingPause, place, landed>>
    /\ UNCHANGED depth

Execute ==
  /\ "Execute" \in AllowedDebugging
  /\ Commanded("execute")
  /\ PrepareSim
  /\ state' = "NormalExec"
  /\ chained' = 0
  /\ traced' = TRUE
  /\ queue' = Append(queue, Never)

DebuggingStart ==
  /\ "Start" \in AllowedDebugging
  /\ Commanded("start")
  /\ PrepareSim
  /\ state' = "DebugPaused"
  /\ chained' = 0
  /\ traced' = TRUE
  /\ queue' = IF place' = "os" /\ IgnoreOS THEN Append(queue, LeaveOS) ELSE queue

DebuggingContinue ==
  /\ "Continue" \in AllowedDebugging
  /\ Commanded("continue")
  /\ state' = "DebugExec"
  /\ pendingPause' = FALSE
  /\ chained' = 0
  /\ queue' = Append(queue, Never)
  /\ UNCHANGED <<program, traced, assembled>>

\* targetDepth of generateStepCondition(): the sum is unsigned before it is clamped.
TargetDepth(offset) ==
  IF depth + offset \in Depths THEN depth + offset ELSE DepthMax

\* onISAStepOver(), onISAStepInto() and onISAStepOut(), and onISAStep(), which is one of
\* the first two.
StepDepthHelper(op, offset) ==
  /\ op \in AllowedSteps
  /\ Commanded(op)
  /\ state' = "DebugExec"
  /\ chained' = 0
  /\ pendingPause' = FALSE
  /\ queue' = Append(queue, [kind |-> "depth", target |-> TargetDepth(offset)])
  /\ UNCHANGED <<program, traced, assembled>>

DebuggingStop ==
  /\ "Stop" \in AllowedDebugging
  /\ Commanded("stop")
  /\ traced' = FALSE
  /\ state' = "Halted"
  /\ UNCHANGED <<program, pendingPause, chained, queue, assembled>>

Command ==
  \/ Execute
  \/ DebuggingStart
  \/ DebuggingContinue
  \/ StepDepthHelper("over", 0)
  \/ StepDepthHelper("into", 1)
  \/ StepDepthHelper("out", -1)
  \/ DebuggingStop

-----------------------------------------------------------------------------
(* onDeferredExecution()                                                   *)

\* The event loop delivers the queued call.
Deliver ==
  /\ phase = "idle"
  /\ queue # <<>>
  /\ step' = Head(queue)
  /\ queue' = Tail(queue)
  /\ state' = IF state \in {"Halted", "NormalExec"} THEN "NormalExec" ELSE "DebugExec"
  /\ phase' = "ticking"
  /\ ticks' = BurstTicks
  /\ ended' = FALSE
  /\ UNCHANGED <<pendingPause, chained, traced, program, history>>

StepHolds(s, d, p) ==
  CASE s.kind = "never" -> FALSE
    [] s.kind = "leaveOS" -> p # "os"
    [] OTHER -> d <= s.target /\ (IgnoreOS => p = "user")

\* A call or a trap adds one to the depth, which wraps; a return takes one, down to zero.
NextDepths == {depth, (depth + 1) % (DepthMax + 1), IF depth = 0 THEN 0 ELSE depth - 1}

\* One instruction: it leads to some place, maybe to a breakpoint, maybe it turns the power
\* off.  The burst goes on until it has run its ticks, the power is off or a pause is due.
Tick ==
  /\ phase = "ticking"
  /\ \E d \in NextDepths, p \in Places, bp \in BOOLEAN, off \in BOOLEAN :
       /\ depth' = d /\ place' = p /\ landed' = bp /\ ended' = off
       /\ pendingPause' = (pendingPause \/ bp \/ StepHolds(step, d, p))
  /\ ticks' = ticks - 1
  /\ phase' = IF ticks' > 0 /\ ~ended' /\ ~pendingPause' THEN "ticking" ELSE "deciding"
  /\ UNCHANGED <<state, chained, queue, traced, step, history>>

\* The instruction failed: illegal opcode, memory error or no input left.
TickFails ==
  /\ phase = "ticking"
  /\ ended' = TRUE
  /\ phase' = "deciding"
  /\ UNCHANGED <<session, step, ticks, program, history>>

(* The end of the burst, one alternative for each branch.                  *)

\* The program has ended.
Terminate ==
  /\ ended
  /\ state' = "Halted" /\ traced' = FALSE
  /\ pausedBy' = "end"
  /\ UNCHANGED <<pendingPause, queue, chained>>

\* Mutant: bursts are not counted.
Unended_Uncounted == ~ended /\ UNCHANGED chained

Unended == ~ended /\ chained' = chained + 1

\* Too many bursts have followed the last command.
PauseLoop ==
  /\ Unended
  /\ chained > ChainLimit
  /\ state' = "DebugPaused"
  /\ pausedBy' = "limit"
  /\ UNCHANGED <<pendingPause, queue, traced>>

\* Mutant: the next burst is queued although a pause is due.
Resume_DespitePause ==
  /\ Unended
  /\ chained <= ChainLimit
  /\ queue' = Append(queue, step)
  /\ state' = IF pendingPause THEN "DebugPaused" ELSE state
  /\ pausedBy' = "none"
  /\ UNCHANGED <<pendingPause, traced>>

Resume ==
  /\ Unended
  /\ chained <= ChainLimit
  /\ ~pendingPause
  /\ queue' = Append(queue, step)
  /\ pausedBy' = "none"
  /\ UNCHANGED <<state, pendingPause, traced>>

Pause ==
  /\ Unended
  /\ chained <= ChainLimit
  /\ pendingPause
  /\ pendingPause' = FALSE
  /\ state' = "DebugPaused"
  /\ pausedBy' = "pause"
  /\ UNCHANGED <<queue, traced>>

Decide ==
  /\ phase = "deciding"
  /\ phase' = "idle"
  /\ Terminate \/ PauseLoop \/ Resume \/ Pause
  /\ UNCHANGED <<step, ticks, ended, program, assembled, asked, commands>>

EventLoop == Deliver \/ Tick \/ TickFails \/ Decide

Next == (Command \/ EventLoop) /\ UNCHANGED user

Spec == Init /\ [][Next]_vars

\* The Qt event loop delivers every queued call, and a burst is a loop of at most
\* BurstTicks turns.
FairSpec == Spec /\ WF_vars(EventLoop /\ UNCHANGED user)

-----------------------------------------------------------------------------
(* Properties                                                              *)

TypeOK ==
  /\ user \in {"patient", "hasty"}
  /\ state \in {"Halted", "NormalExec", "DebugExec", "DebugPaused"}
  /\ pendingPause \in BOOLEAN /\ traced \in BOOLEAN /\ ended \in BOOLEAN
  /\ chained \in Nat
  /\ queue \in Seq(Steps)
  /\ phase \in {"idle", "ticking", "deciding"}
  /\ step \in Steps
  /\ ticks \in 0 .. BurstTicks
  /\ depth \in Depths
  /\ place \in Places

\* Where the commands ask a session to pause: a step over does not pause inside a call, a
\* step into at most one call further in, a step out not before the call has returned, a run
\* nowhere, and no step inside an operating system the project ignores.
AskedFor ==
  CASE asked.op = "over" -> depth <= asked.depth /\ (IgnoreOS => place = "user")
    [] asked.op = "into" -> depth <= asked.depth + 1 /\ (IgnoreOS => place = "user")
    [] asked.op = "out" -> (asked.depth > 0 => depth < asked.depth) /\ (IgnoreOS => place = "user")
    [] asked.op = "start" -> ~InOS
    [] OTHER -> FALSE

\* A session pauses where the command in force asked it to, at a breakpoint, or because the
\* limit on bursts says that the program may loop: never because of a pause that an earlier
\* command or an earlier session left behind (_pendingPause of onDeferredExecution).
PausesWhereAsked ==
  user = "patient" /\ phase = "idle" /\ queue = <<>> /\ pausedBy = "pause" => landed \/ AskedFor

\* Whoever commands it, the interface comes to rest: the bursts end once the user gives no
\* more commands, even when the program never does and when two chains of bursts run.
ComesToRest == <>[](queue = <<>> /\ phase = "idle")

\* With a patient user the session's state is true: it executes exactly while a burst is
\* queued or runs, and the devices are traced exactly while a session is open.  A session
\* started in the operating system is paused while the burst that leaves it is queued.
StateIsTrue ==
  /\ TypeOK
  /\ user = "patient" =>
       /\ state \in {"NormalExec", "DebugExec"} => phase # "idle" \/ Len(queue) = 1
       /\ queue # <<>> => phase = "idle" /\ Len(queue) = 1
       /\ queue # <<>> /\ state = "DebugPaused" => queue = <<LeaveOS>> /\ asked.op = "start"
       /\ state = "Halted" => queue = <<>> /\ phase = "idle"
       /\ traced <=> state # "Halted"

=============================================================================
