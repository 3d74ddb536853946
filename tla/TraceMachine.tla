---------------------------- MODULE TraceMachine ----------------------------
(***************************************************************************)
(* The control of the trace machine that replays recorded programs: calls, *)
(* invertible calls, stops, and the driver that runs one program after     *)
(* another (core/sim/debugger/tvm_machine.cpp, tvm_backend.cpp and         *)
(* tvm_interpreter.cpp).                                                   *)
(*                                                                         *)
(* A replay runs forwards or backwards.  An invertible call suspends the   *)
(* direction: what it calls runs forwards, because it is one of a pair of  *)
(* subroutines of which the direction has chosen one.  The direction and   *)
(* its suspension belong to the backend and outlive the program.           *)
(*                                                                         *)
(* The programs are any programs: the next instruction is an input, and an *)
(* entry of the stack is what a return makes of it instead of an address.  *)
(***************************************************************************)
EXTENDS Integers, Sequences, FiniteSets

CONSTANTS
  StackMax,     \* entries of the stack, 64 in the code
  MaxPrograms,  \* bound: programs of one replay
  MaxDepth      \* bound: invertible calls of a replay that are open

ASSUME MachineAssumption ==
  /\ StackMax \in Nat \ {0} /\ MaxPrograms \in Nat \ {0} /\ MaxDepth \in Nat

Retention == {"None", "DP", "All"}

VARIABLES
  paired,  \* the programs end a call with RET and an invertible call with INVRET
  live,    \* L: the machine runs
  failed,  \* F: the last access failed, or the machine stopped hard
  stack,   \* the return addresses, with the kind of call and the target it took
  depth,   \* _depth
  floor,   \* _floor: 0 when replaying forwards, -1 when backwards
  left,    \* programs run_each() has left
  retain,  \* what restart() keeps between the programs of this replay
  base,    \* history: entries on the stack when the program started
  wanted,  \* history: the floor of the direction the driver wants
  resumed  \* history: the driver replayed on after a hard stop without set_direction()

machineVars == <<paired, live, failed, stack, depth, floor, left, retain, base, wanted, resumed>>

MachineInit ==
  /\ paired \in BOOLEAN
  /\ live = FALSE
  /\ failed = FALSE
  /\ stack = <<>>
  /\ depth = 0 /\ floor = 0
  /\ left = 0
  /\ retain = "None"
  /\ base = 0
  /\ wanted = 0
  /\ resumed = FALSE

IsForward == depth >= 0

-----------------------------------------------------------------------------
(* The driver                                                              *)

\* MachineState::restart()
Restart(r) ==
  /\ live' = TRUE
  /\ failed' = FALSE
  /\ stack' = IF r = "All" THEN stack ELSE <<>>
  /\ base' = Len(stack')

SetDirection(d) == depth' = d /\ floor' = d

\* run_each(): the first of its programs.  It starts whatever stopped the one before.
RunEach ==
  /\ ~live
  /\ left = 0 \/ failed
  /\ \E n \in 1 .. MaxPrograms, r \in Retention :
       /\ left' = n - 1
       /\ retain' = r
       /\ Restart(r)

\* The driver replays in a direction it gives, or on in the one it gave before.
Replay ==
  \/ \E d \in {0, -1} : RunEach /\ SetDirection(d) /\ wanted' = d /\ resumed' = FALSE
  \/ RunEach /\ resumed' = (resumed \/ failed) /\ UNCHANGED <<depth, floor, wanted>>

\* run_each(): the next of its programs, unless the last one stopped hard.
NextProgram ==
  /\ ~live
  /\ left > 0
  /\ ~failed
  /\ left' = left - 1
  /\ Restart(retain)
  /\ UNCHANGED <<depth, floor, retain, wanted, resumed>>

-----------------------------------------------------------------------------
(* Instructions                                                            *)

SoftStop == live' = FALSE /\ failed' = FALSE
HardStop == live' = FALSE /\ failed' = TRUE
RunOn == UNCHANGED <<live, failed>>

Driver == <<floor, left, retain, base, wanted, resumed>>

\* Mutant: the size of the stack is not checked.
Push_Unchecked(entry) == stack' = Append(stack, entry) /\ RunOn

\* push() and pop(): a full and an empty stack stop hard.
Push(entry) ==
  IF Len(stack) < StackMax
  THEN stack' = Append(stack, entry) /\ RunOn
  ELSE UNCHANGED stack /\ HardStop

Pop ==
  IF stack # <<>>
  THEN stack' = SubSeq(stack, 1, Len(stack) - 1) /\ RunOn
  ELSE UNCHANGED stack /\ HardStop

\* A program with paired calls returns from what it called, in kind.
Returns(kind) ==
  paired => Len(stack) > base /\ stack[Len(stack)].kind = kind

\* Mutant: HALT does not look for open invertible calls.
OnHalt_Accepts == SoftStop /\ UNCHANGED <<stack, depth>>

OnHalt ==
  /\ IF depth # floor THEN HardStop ELSE SoftStop
  /\ UNCHANGED <<stack, depth>>

OnCall == Push([kind |-> "call", target |-> "next"]) /\ UNCHANGED depth

OnRet == Returns("call") /\ Pop /\ UNCHANGED depth

\* Mutant: the direction is read after it was suspended.
OnInvCall_ReadsLate ==
  /\ depth < MaxDepth
  /\ depth' = depth + 1
  /\ Push([kind |-> "inv", target |-> IF depth + 1 >= 0 THEN "forward" ELSE "backward"])

\* The call is counted even if the stack is full.
OnInvCall ==
  /\ depth < MaxDepth
  /\ depth' = depth + 1
  /\ Push([kind |-> "inv", target |-> IF IsForward THEN "forward" ELSE "backward"])

OnInvRet ==
  /\ Returns("inv")
  /\ IF depth <= floor
     THEN HardStop /\ UNCHANGED <<stack, depth>>
     ELSE depth' = depth - 1 /\ Pop

\* Any other instruction: it goes well, its access fails, or the decoder or the backend
\* refuses it.
OnOther ==
  /\ \/ live' = TRUE /\ failed' \in BOOLEAN
     \/ HardStop
  /\ UNCHANGED <<stack, depth>>

Instruction ==
  /\ live
  /\ OnHalt \/ OnCall \/ OnRet \/ OnInvCall \/ OnInvRet \/ OnOther
  /\ UNCHANGED Driver

MachineNext == (Replay \/ NextProgram \/ Instruction) /\ UNCHANGED paired

MachineSpec == MachineInit /\ [][MachineNext]_machineVars

-----------------------------------------------------------------------------
(* Properties                                                              *)

MachineTypeOK ==
  /\ paired \in BOOLEAN
  /\ live \in BOOLEAN /\ failed \in BOOLEAN
  /\ stack \in Seq([kind : {"call", "inv"}, target : {"next", "forward", "backward"}])
  /\ Len(stack) <= StackMax
  /\ depth \in -1 .. MaxDepth /\ floor \in {-1, 0}
  /\ left \in 0 .. MaxPrograms - 1
  /\ retain \in Retention
  /\ base \in Nat /\ wanted \in {-1, 0} /\ resumed \in BOOLEAN

\* The invertible calls the program has open.
OpenInvCalls == {k \in base + 1 .. Len(stack) : stack[k].kind = "inv"}

\* Inside an invertible call a program with paired calls runs forwards, outside in the
\* direction of the replay, and an invertible call has taken its backward target exactly
\* when it is the outermost of a backward replay; unless the driver went on after a hard
\* stop, which leaves the calls of the refused program counted (_depth outlives restart()).
SuspendedInside ==
  live /\ paired /\ ~resumed =>
    /\ IsForward <=> wanted = 0 \/ OpenInvCalls # {}
    /\ depth = wanted + Cardinality(OpenInvCalls)
    /\ \A k \in OpenInvCalls :
         stack[k].target = "backward" <=> wanted = -1 /\ \A j \in OpenInvCalls : k <= j

\* "A program that leaks an INVCALL would leave the suspension active for every program
\* after it [...] Refuse instead." (on_halt()): whatever programs do, paired or not, the one
\* that follows a program which was not refused starts with no suspension.
SuspensionEnds == [][~live /\ live' /\ ~failed => depth' = floor']_machineVars

\* The direction suspended to is the one the driver wants; a machine that stopped
\* softly has no suspension left.
FloorIsWanted ==
  /\ floor = wanted /\ floor <= depth
  /\ ~live /\ ~failed => depth = floor

\* A paired program that the driver may still undo: its open calls are above where it
\* started, they are what depth counts, and the outermost one chose the direction.
CallsCounted ==
  live /\ paired =>
    /\ base <= Len(stack)
    /\ ~resumed =>
         /\ depth = wanted + Cardinality(OpenInvCalls)
         /\ \A k \in OpenInvCalls :
              stack[k].target = "backward" <=> wanted = -1 /\ \A j \in OpenInvCalls : k <= j

\* The inductive invariant: the stack never exceeds its size, the depth never goes below
\* the floor, whatever a program does, and a program that was not refused leaves both even.
MachineInv == MachineTypeOK /\ FloorIsWanted /\ CallsCounted
=============================================================================
