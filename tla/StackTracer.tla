---------------------------- MODULE StackTracer ----------------------------
(***************************************************************************)
(* The stack trace of the debugger: StackTracer and the stacks, frames and *)
(* slots it builds (lib/sim/debug/stack_tracer.cpp, stack_layout.cpp) from *)
(* the trace tags of a program (lib/toolchain/pas/obj/trace_tags.cpp), as  *)
(* the Pep/10 processor tells it of each instruction that moves SP.        *)
(*                                                                         *)
(* Addresses are words: a return address is one, the context of a trap is  *)
(* ContextSize of them in slots of one each, and a tag allocates a list of *)
(* slots of given sizes.                                                   *)
(***************************************************************************)
EXTENDS Integers, Sequences, FiniteSets, SequencesExt

CONSTANTS
  UserBase,     \* bound: the user stack is at 1 .. UserBase
  SystemStack,  \* where the system stack starts, above the user stack
  ContextSize,  \* what the tracer takes a trap to push, 10 bytes in the code
  OperandSize,  \* what a trap of Pep/10 pushes beyond that, 2 bytes
  MaxArgs,      \* bound: slots a tag may name
  WildBase,     \* bound: a wild program has SP at 1 .. WildBase,
  WildTag,      \* bound: tags of this many commands
  WildLength    \* bound: and this many instructions that move SP

ASSUME TracerAssumption ==
  /\ UserBase \in Nat \ {0} /\ ContextSize \in Nat \ {0} /\ OperandSize \in Nat
  /\ SystemStack \in Nat /\ SystemStack > UserBase + ContextSize + OperandSize
  /\ MaxArgs \in Nat /\ WildBase \in Nat /\ WildTag \in Nat /\ WildLength \in Nat

VARIABLES
  wild,    \* instructions and tags are any, instead of those of a correct program
  stacks,  \* _stacks, by base address
  active,  \* _activeStack: its base, 0 for none
  lastSP,  \* _lastSP, 0 for none
  broken,  \* _error is not OK
  sp,      \* the processor's SP
  truth,   \* the program's own activation records on the stack it is on
  saved,   \* SP and records of the program a trap has interrupted
  strayed, \* history: a trap has returned to a stack that was not empty
  moved,   \* history: the stacks that SP was moved into elsewhere than at their end
  told     \* number of instructions of a wild program, for the bound

tracer == <<stacks, active, lastSP, broken>>
records == <<truth, saved, strayed>>
tracerVars == <<wild, tracer, sp, records, moved, told>>

TracerInit ==
  /\ wild \in BOOLEAN
  /\ stacks = <<>> /\ active = 0 /\ lastSP = 0 /\ broken = FALSE
  /\ sp = SystemStack
  /\ truth = <<>> /\ saved = <<>> /\ strayed = FALSE
  /\ moved = {} /\ told = 0

\* What a tag names: slots of one word or two.
Sizes == {1, 2}
Lists == SeqOf(Sizes, MaxArgs) \ {<<>>}

Total(list) ==
  LET upTo[i \in 0 .. Len(list)] == IF i = 0 THEN 0 ELSE upTo[i - 1] + list[i]
  IN upTo[Len(list)]

-----------------------------------------------------------------------------
(* Stacks, frames and slots                                                *)

EmptyFrame == [slots |-> <<>>, active |-> FALSE]

NewStack(address) == [base |-> address, frames |-> <<EmptyFrame>>]
NoStack == [base |-> 0, frames |-> <<>>]

\* Frame::top_address(): the end of the slot that is highest in memory, 0 without slots.
FrameTop(f) ==
  IF f.slots = <<>> THEN 0
  ELSE Max({s.address + s.size : s \in ToSet(f.slots)})

StackTop(s) == Min({s.base} \cup {FrameTop(f) : f \in ToSet(s.frames)})

StackContains(s, address) == address <= s.base /\ address >= StackTop(s)

PushFrame(s) ==
  IF s.frames = <<>> \/ Last(s.frames).slots # <<>>
  THEN [s EXCEPT !.frames = Append(@, EmptyFrame)]
  ELSE s

PopFrame(s) == [s EXCEPT !.frames = Front(@)]

SetActive(s, on) == [s EXCEPT !.frames[Len(s.frames)].active = on]

AddStack(ss, address) ==
  InsertAt(ss, Cardinality({i \in DOMAIN ss : ss[i].base < address}) + 1, NewStack(address))

\* getOrAddStack(): the first of the stacks that contains the address, or a new one.
GetOrAddStack(ss, address) ==
  LET i == SelectInSeq(ss, LAMBDA s : StackContains(s, address))
  IN IF i = 0 THEN [stacks |-> AddStack(ss, address), active |-> address]
     ELSE [stacks |-> ss, active |-> ss[i].base]

-----------------------------------------------------------------------------
(* Commands.  They work on a record of the active stack (s), of what went  *)
(* wrong (broken), of SP as it goes along (sp) and of how far it went.     *)

Break(w) == [w EXCEPT !.broken = TRUE]
Move(w, d) == [w EXCEPT !.sp = @ + d, !.delta = @ + d]

NoFrame(w) == w.s.frames = <<>>    \* there is no active stack, or it has no frame

PushSlot(w, size) ==
  IF NoFrame(w) THEN Break(w)
  ELSE [w EXCEPT !.s.frames[Len(w.s.frames)].slots =
          Append(@, [address |-> w.sp, size |-> size])]

PopSlot(w, size) ==
  IF NoFrame(w) \/ Last(w.s.frames).slots = <<>> THEN Break(w)
  ELSE IF Last(Last(w.s.frames).slots).size # size THEN Break(w)
  ELSE [w EXCEPT !.s.frames[Len(w.s.frames)].slots = Front(@)]

\* Mutant: the slot is placed before SP has moved.
Push_Late(w, size) == Move(PushSlot(w, size), -size)

Push(w, size) == PushSlot(Move(w, -size), size)
Pop(w, size) == Move(PopSlot(w, size), size)

\* Mutant: a call always starts a frame of its own.
Call_NewFrame(w, size) ==
  Push(IF NoFrame(w) THEN Break(w) ELSE [w EXCEPT !.s = SetActive(PushFrame(@), TRUE)], size)

\* A call starts a frame, or activates the one its parameters started.
Call(w, size) ==
  Push(IF NoFrame(w) THEN Break(w)
       ELSE IF Last(w.s.frames).active THEN [w EXCEPT !.s = SetActive(PushFrame(@), TRUE)]
       ELSE [w EXCEPT !.s = SetActive(@, TRUE)], size)

Ret(w, size) ==
  LET v == Pop(w, size)
  IN IF NoFrame(v) THEN Break(v)
     ELSE IF Last(v.s.frames).slots = <<>> THEN [v EXCEPT !.s = PopFrame(@)]
     ELSE [v EXCEPT !.s = SetActive(@, FALSE)]

MarkActive(w, on) == IF NoFrame(w) THEN Break(w) ELSE [w EXCEPT !.s = SetActive(@, on)]

AddFrame(w) == IF w.s.base = 0 THEN Break(w) ELSE [w EXCEPT !.s = PushFrame(@)]

\* A frame that still has slots stays, with a warning.
RemoveFrame(w) ==
  IF NoFrame(w) THEN Break(w)
  ELSE IF Last(w.s.frames).slots # <<>> THEN w
  ELSE [w EXCEPT !.s = PopFrame(@)]

ExecuteCommand(w, c) ==
  CASE c.op = "PUSH" -> Push(w, c.size)
    [] c.op = "POP" -> Pop(w, c.size)
    [] c.op = "CALL" -> Call(w, c.size)
    [] c.op = "RET" -> Ret(w, c.size)
    [] c.op = "ACTIVE" -> MarkActive(w, TRUE)
    [] c.op = "INACTIVE" -> MarkActive(w, FALSE)
    [] c.op = "ADD_FRAME" -> AddFrame(w)
    [] c.op = "REMOVE_FRAME" -> RemoveFrame(w)

Run(w, commands) ==
  LET upTo[i \in 0 .. Len(commands)] ==
        IF i = 0 THEN w ELSE ExecuteCommand(upTo[i - 1], commands[i])
  IN upTo[Len(commands)]

\* A command frame is a sequence of commands, empty when it has no packet.
Memory(op, list) == [i \in DOMAIN list |-> [op |-> op, size |-> list[i]]]
Plain(op) == <<[op |-> op, size |-> 0]>>

Context == [i \in 1 .. ContextSize |-> 1]

\* What setDebugInfo() prepares for instructions without tags; SUBSP and ADDSP need tags.
Missing == <<[op |-> "MISSING", size |-> 0]>>
Default(type) ==
  CASE type = "CALL" -> Memory("CALL", <<1>>)
    [] type = "RET" -> Memory("RET", <<1>>)
    [] type = "TRAP" -> Plain("ADD_FRAME") \o Memory("PUSH", Context) \o Plain("ACTIVE")
    [] type = "TRAPRET" -> Plain("INACTIVE") \o Memory("POP", Context) \o Plain("REMOVE_FRAME")
    [] type = "ASSIGN" -> <<>>
    [] OTHER -> Missing

-----------------------------------------------------------------------------
(* notifyInstruction()                                                     *)

Mismatch(commands, w, expected) == commands # <<>> /\ w.delta # expected

\* processCommandFrame(), on the stacks and the active one of t.
Process(t, commands, before, after, future) ==
  LET k == SelectInSeq(t.stacks, LAMBDA s : s.base = t.active)
      w == Run([s |-> IF k = 0 THEN NoStack ELSE t.stacks[k],
                broken |-> FALSE, sp |-> before, delta |-> 0], commands)
      ss == IF k = 0 THEN t.stacks ELSE [t.stacks EXCEPT ![k] = w.s]
      u == IF future = 0 THEN [stacks |-> ss, active |-> t.active]
           ELSE GetOrAddStack(ss, future)
  IN /\ stacks' = u.stacks
     /\ active' = u.active
     /\ broken' = (w.broken \/ Mismatch(commands, w, after - before))

\* A trap and an assignment of SP choose their stack before the commands run.
Chosen(type, spNow) ==
  CASE type = "TRAP" -> GetOrAddStack(stacks, spNow + ContextSize)
    [] type = "ASSIGN" -> GetOrAddStack(stacks, spNow)
    [] OTHER -> [stacks |-> stacks, active |-> active]

\* tags are the commands found for the instruction, Missing if none.  The return from a trap
\* chooses its stack when they are done.
Notify(type, tags, spNow) ==
  LET last == IF lastSP = 0 THEN spNow ELSE lastSP
      before == IF type = "TRAP" THEN spNow + ContextSize ELSE last
      after == IF type = "TRAPRET" THEN last + ContextSize ELSE spNow
      future == IF type = "TRAPRET" THEN spNow ELSE 0
      t == Chosen(type, spNow)
      commands == IF tags = Missing THEN Default(type) ELSE tags
  IN /\ lastSP' = spNow
     /\ IF commands = Missing \/ broken
        THEN stacks' = t.stacks /\ active' = t.active /\ broken' = TRUE
        ELSE Process(t, commands, before, after, future)

ClearStacks == stacks' = <<>> /\ active' = 0 /\ lastSP' = 0 /\ broken' = FALSE

-----------------------------------------------------------------------------
(* Where the slots of a stack end.                                         *)

StackAt(ss, address) == CHOOSE s \in ToSet(ss) : s.base = address

ActiveStack == StackAt(stacks, active)

\* Where frame i ends, if it has slots; before the first frame the base.
Edge(s, i) == IF i = 0 THEN s.base ELSE Last(s.frames[i].slots).address

Foot(s) ==
  LET n == Len(s.frames)
  IN Edge(s, IF n > 0 /\ s.frames[n].slots = <<>> THEN n - 1 ELSE n)

\* Instructions that choose a stack, which may have slots already: does it end elsewhere than
\* where the commands of the instruction start, or without commands, where it leaves SP?
Misplaces(type, tags, spNow) ==
  \/ type = "TRAPRET" /\ Foot(StackAt(stacks', active')) # spNow
  \/ /\ type \in {"TRAP", "ASSIGN"}
     /\ Foot(StackAt(Chosen(type, spNow).stacks, active'))
          # CASE type = "TRAP" -> spNow + ContextSize
              [] type = "ASSIGN" /\ tags # Missing /\ lastSP # 0 -> lastSP
              [] OTHER -> spNow

-----------------------------------------------------------------------------
(* The commands of a tag.                                                  *)

ParamsTag(list) == Plain("ADD_FRAME") \o Memory("PUSH", list)
LocalsTag(list) == Memory("PUSH", list)
ReleaseTag(list) == Memory("POP", list) \o Plain("REMOVE_FRAME")

\* CALL, RET and SCALL name the place they jump to instead of their own.  Bound: no tagged
\* instruction lies there, and the default commands are used.
FoundAtTarget == Missing

-----------------------------------------------------------------------------
(* A correct program, as the processor runs it.  A routine is called with  *)
(* or without parameters, allocates and releases its locals, returns, and  *)
(* its caller releases the parameters; the first call of a stack has some. *)

Fits(n) == sp - n > IF saved = <<>> THEN 0 ELSE UserBase

Runs(type, tags, spNow) ==
  /\ sp' = spNow
  /\ Notify(type, tags, spNow)
  /\ moved' = IF Misplaces(type, tags, spNow) THEN moved \cup {active'} ELSE moved

\* The system has been entered and has not been left.
Entered == lastSP # 0 /\ sp # SystemStack

\* MOVASP to the user stack, before anything else.
Boot ==
  /\ lastSP = 0
  /\ Runs("ASSIGN", Missing, UserBase)
  /\ UNCHANGED records

\* MOVASP back to the system's own stack, when the main routine has returned: the last
\* instruction that moves SP.
Leave ==
  /\ Entered /\ truth = <<>> /\ saved = <<>>
  /\ Runs("ASSIGN", Missing, SystemStack)
  /\ UNCHANGED records

AllocateParams(list) ==
  /\ Entered
  /\ Fits(Total(list))
  /\ Runs("ALLOCATE", ParamsTag(list), sp - Total(list))
  /\ truth' = Append(truth, [params |-> list, entered |-> FALSE, locals |-> <<>>])
  /\ UNCHANGED <<saved, strayed>>

AllocateLocals(list) ==
  /\ truth # <<>> /\ Last(truth).entered
  /\ Fits(Total(list))
  /\ Runs("ALLOCATE", LocalsTag(list), sp - Total(list))
  /\ truth' = [truth EXCEPT ![Len(truth)].locals = @ \o list]
  /\ UNCHANGED <<saved, strayed>>

CallRoutine ==
  /\ truth # <<>>
  /\ Fits(1)
  /\ Runs("CALL", FoundAtTarget, sp - 1)
  /\ truth' = IF Last(truth).entered
              THEN Append(truth, [params |-> <<>>, entered |-> TRUE, locals |-> <<>>])
              ELSE [truth EXCEPT ![Len(truth)].entered = TRUE]
  /\ UNCHANGED <<saved, strayed>>

\* Locals go in the reverse order, not necessarily all at once.
ReleaseLocals(list) ==
  /\ truth # <<>> /\ IsSuffix(list, Last(truth).locals)
  /\ Runs("DEALLOCATE", ReleaseTag(Reverse(list)), sp + Total(list))
  /\ truth' = [truth EXCEPT ![Len(truth)].locals = SubSeq(@, 1, Len(@) - Len(list))]
  /\ UNCHANGED <<saved, strayed>>

\* The context of a trap is a record without parameters below every other.
InHandler == saved # <<>> /\ Len(truth) = 1

Return ==
  /\ truth # <<>> /\ Last(truth).entered /\ Last(truth).locals = <<>>
  /\ ~InHandler
  /\ Runs("RET", FoundAtTarget, sp + 1)
  /\ truth' = IF Last(truth).params = <<>> THEN Front(truth)
              ELSE [truth EXCEPT ![Len(truth)].entered = FALSE]
  /\ UNCHANGED <<saved, strayed>>

ReleaseParams ==
  /\ truth # <<>> /\ ~Last(truth).entered
  /\ LET list == Last(truth).params
     IN Runs("DEALLOCATE", ReleaseTag(Reverse(list)), sp + Total(list))
  /\ truth' = Front(truth)
  /\ UNCHANGED <<saved, strayed>>

\* SCALL: the context goes to the system stack.  The system does not trap itself.
Trap ==
  /\ saved = <<>> /\ Entered
  /\ Runs("TRAP", FoundAtTarget, SystemStack - ContextSize - OperandSize)
  /\ saved' = <<[sp |-> sp, truth |-> truth]>>
  /\ truth' = <<[params |-> <<>>, entered |-> TRUE, locals |-> <<>>]>>
  /\ UNCHANGED strayed

\* SRET
ReturnFromTrap ==
  /\ InHandler /\ truth[1].locals = <<>>
  /\ Runs("TRAPRET", Missing, saved[1].sp)
  /\ truth' = saved[1].truth
  /\ saved' = <<>>
  /\ strayed' = (strayed \/ saved[1].truth # <<>>)

CorrectProgram ==
  \/ \E list \in Lists : AllocateParams(list) \/ AllocateLocals(list) \/ ReleaseLocals(list)
  \/ CallRoutine \/ Return \/ ReleaseParams \/ Trap \/ ReturnFromTrap \/ Leave

-----------------------------------------------------------------------------
(* Any program: its instructions move SP anywhere and have any tags, in    *)
(* any order, also a trap or MOVASP into a stack that is in use.           *)

Commands ==
  [op : {"PUSH", "POP", "CALL", "RET"}, size : Sizes]
    \cup [op : {"ACTIVE", "INACTIVE", "ADD_FRAME", "REMOVE_FRAME"}, size : {0}]

InstructionTypes == {"CALL", "RET", "ALLOCATE", "DEALLOCATE", "ASSIGN", "TRAP", "TRAPRET"}

AnyInstruction ==
  /\ told < WildLength /\ told' = told + 1
  /\ \E type \in InstructionTypes, tags \in {Missing} \cup (SeqOf(Commands, WildTag) \ {<<>>}),
        spNow \in 1 .. WildBase :
       Runs(type, tags, spNow)
  /\ UNCHANGED records

\* prepareSim(): the next session.
Restart ==
  /\ ClearStacks
  /\ sp' = SystemStack
  /\ truth' = <<>> /\ saved' = <<>> /\ strayed' = FALSE /\ moved' = {} /\ told' = 0

\* Bound: a session ends at an error, after which the tracer processes nothing.
TracerNext ==
  /\ \/ ~wild /\ Boot /\ UNCHANGED told
     \/ ~wild /\ ~broken /\ CorrectProgram /\ UNCHANGED told
     \/ wild /\ ~broken /\ AnyInstruction
     \/ Restart
  /\ UNCHANGED wild

TracerSpec == TracerInit /\ [][TracerNext]_tracerVars

-----------------------------------------------------------------------------
(* Properties                                                              *)

TracerTypeOK ==
  /\ wild \in BOOLEAN
  /\ \A i \in DOMAIN stacks :
       /\ stacks[i].base \in Nat \ {0}
       /\ \A f \in ToSet(stacks[i].frames) :
            /\ f.active \in BOOLEAN
            /\ \A s \in ToSet(f.slots) : s.address \in Int /\ s.size \in Nat \ {0}
  /\ \A i, j \in DOMAIN stacks : i < j => stacks[i].base < stacks[j].base
  /\ active \in {0} \cup {stacks[i].base : i \in DOMAIN stacks}
  /\ lastSP \in Nat /\ broken \in BOOLEAN

\* The slots of a stack fill it from its base down, and no frame but the last is empty.
Tiled(s) ==
  /\ \A i \in 1 .. Len(s.frames) - 1 : s.frames[i].slots # <<>>
  /\ \A i \in 1 .. Len(s.frames) :
       LET slots == s.frames[i].slots
       IN \A j \in 1 .. Len(slots) :
            slots[j].address + slots[j].size = IF j = 1 THEN Edge(s, i - 1) ELSE slots[j - 1].address

\* "We can compare the number of bytes actually de/allocated to the trace command to catch
\* errors": as long as the tracer reports none, the slots it shows fill the active stack
\* from its base down to SP, without gap or overlap, whatever the instructions and tags.  But
\* for the stacks that a trap or MOVASP has moved SP into elsewhere than at their end: they
\* keep their slots, and MOVASP has no commands whose bytes are compared.
SlotsTile ==
  /\ TracerTypeOK
  /\ ~broken /\ active # 0 /\ active \notin moved =>
       Tiled(ActiveStack) /\ Foot(ActiveStack) = lastSP

\* The slots of an activation record and of a frame, by size.
Entry(i) == IF saved # <<>> /\ i = 1 THEN Context ELSE <<1>>
RecordShape(i) ==
  [slots |-> truth[i].params \o (IF truth[i].entered THEN Entry(i) ELSE <<>>) \o truth[i].locals,
   active |-> truth[i].entered]
FrameShape(f) == [slots |-> [j \in DOMAIN f.slots |-> f.slots[j].size], active |-> f.active]

\* "@params and @locals are actions too. When executed, they update the stack trace to
\* account for the current instructions": with a correct program the tracer reports no
\* error and shows its activation records, those that were entered as active, until a trap
\* returns to a stack that holds something.
FramesMirror ==
  ~wild /\ ~strayed /\ lastSP # 0 =>
    /\ ~broken
    /\ LET frames == ActiveStack.frames
       IN IF truth = <<>> THEN \A i \in DOMAIN frames : frames[i].slots = <<>>
          ELSE /\ Len(frames) = Len(truth)
               /\ \A i \in DOMAIN truth : FrameShape(frames[i]) = RecordShape(i)
=============================================================================
