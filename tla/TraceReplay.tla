---------------------------- MODULE TraceReplay -----------------------------
(***************************************************************************)
(* Stepping a machine back and forth through its trace: one traced CPU     *)
(* (core/core/sim/cores/cpu/pep_isa.cpp, pep_regbank, pep_csrbank), memory *)
(* (memory/ram) and a memory-mapped port (memory/io/fifo.cpp) that record  *)
(* what they are about to change, and the backend that applies a recorded  *)
(* program forwards or backwards (debugger/tvm_apply_backend.cpp).         *)
(*                                                                         *)
(* A recorded program is the sequence of its changes: XOR and STEP of a    *)
(* register or memory cell, OUT and IN of the port.  How it is encoded is  *)
(* TraceProgram, where it is kept is TraceBuffer.  Who decides to step     *)
(* back is not in the repository yet: as the tests do, Undo and Redo run   *)
(* between instructions, one program at a time, newest first and oldest    *)
(* first, and the CPU runs on only when everything has been redone.        *)
(***************************************************************************)
EXTENDS Integers, Sequences, SequencesExt

CONSTANTS
  Word,         \* cells hold 0 .. Word - 1, a power of two
  FlagSpan,     \* the packed flags hold 0 .. FlagSpan - 1
  Ram,          \* memory cells
  Values,       \* results, operands and flags an instruction computes
  Targets,      \* where branches, calls and returns lead
  Bytes,        \* what is typed and printed
  BitXor(_, _), \* ^
  Policy,       \* FailPolicy of the port: "RaiseError" or "YieldDefaultValue"
  Switched,     \* devices whose tracing is switched on and off; the others are traced
  MaxTicks,     \* bound: instructions since the last reset
  MaxInput      \* bound: bytes typed

\* A stands for A and X, which every handler treats alike.
Regs == {"a", "sp", "is", "os", "pc"}

Cells == Regs \cup {"nzvc", "depth"} \cup Ram

\* What replay has to bring back: the cells, the port's read position, its output.
Visible == Cells \cup {"in", "out"}

ASSUME XorUndoes ==
  \A a, b \in 0 .. Word - 1 : BitXor(a, b) \in 0 .. Word - 1 /\ BitXor(BitXor(a, b), b) = a

VARIABLES
  cell,     \* contents of registers and memory
  port,     \* [queued, at, out]: the bytes typed, the read position, the bytes printed
  traced,   \* devices that are traced: "cpu" (with its register banks), "ram", "port"
  cpu,      \* the instruction being executed, see Idle
  body,     \* changes recorded by the open recording
  touched,  \* what they touch
  ticks,    \* instructions started since the last reset
  log,      \* recorded programs, oldest first; a tombstone is empty
  at,       \* how many of them are applied
  shown,    \* what was visible after 0, 1, ... programs
  lost,     \* what changed without a record that was kept
  awry      \* what was recorded other than it happened

vars == <<cell, port, traced, cpu, body, touched, ticks, log, at, shown, lost, awry>>

\* clock_tick()'s locals: in an instruction? recording it? PC at its start and the
\* working copy of PC; the effects of the handler still to come; did SRET write PC?
Idle == [busy |-> FALSE, open |-> FALSE, start |-> 0, pc |-> 0, todo |-> << >>]

NewPort == [queued |-> << >>, at |-> 0, out |-> << >>]

View(c, p) == [v \in Visible |-> IF v = "in" THEN p.at ELSE IF v = "out" THEN p.out ELSE c[v]]

Init ==
  /\ cell = [c \in Cells |-> 0]
  /\ port = NewPort
  /\ traced = {"cpu", "ram", "port"}
  /\ cpu = Idle
  /\ body = << >>
  /\ touched = {}
  /\ ticks = 0
  /\ log = << >>
  /\ at = 0
  /\ shown = <<View(cell, port)>>
  /\ lost = {}
  /\ awry = {}

-----------------------------------------------------------------------------
(* Replaying a program.                                                    *)

\* Mutant: a step is added in both directions.
Directed_Ignored(delta, forward) == delta

\* directed_delta()
Directed(delta, forward) == IF forward THEN delta ELSE -delta

\* Mutant: the byte is queued whatever is under the read position.
AdvanceInput_Pushes(p, byte) == [p EXCEPT !.queued = Append(@, byte), !.at = @ + 1]

\* advance_input(): queue the byte only if nothing is under the read position.
AdvanceInput(p, byte) ==
  [p EXCEPT !.queued = IF p.at >= Len(@) THEN Append(@, byte) ELSE @, !.at = @ + 1]

\* rewind_input(): Iterator::operator-- stays at 0.
RewindInput(p) == [p EXCEPT !.at = IF @ = 0 THEN 0 ELSE @ - 1]

\* FIFO::pop_back()
PopBack(p) == [p EXCEPT !.out = IF @ = << >> THEN @ ELSE Front(@)]

\* on_deltamem() of a SETMEMX: read, combine, write back without a trace.
DeltaMem(c, op) == [c EXCEPT ![op.cell] = BitXor(@, op.val)]

\* on_deltareg() of a SETREGX or a STEPREG, through the register scan.
DeltaReg(c, op, forward) ==
  [c EXCEPT ![op.cell] =
     IF op.op = "SETREGX" THEN BitXor(@, op.val) ELSE (@ + Directed(op.val, forward)) % Word]

DeltaCell(c, op, forward) ==
  CASE op.op = "SETMEMX"               -> DeltaMem(c, op)
    [] op.op \in {"SETREGX", "STEPREG"} -> DeltaReg(c, op, forward)
    [] OTHER                           -> c

\* on_mmio()
DeltaPort(p, op, forward) ==
  CASE op.op = "OUT" -> IF forward THEN [p EXCEPT !.out = Append(@, op.val)] ELSE PopBack(p)
    [] op.op = "IN"  -> IF forward THEN AdvanceInput(p, op.val) ELSE RewindInput(p)
    [] OTHER         -> p

\* Interpreter::run() of a program: its changes in the order they were recorded,
\* in either direction.
Replay(program, forward) ==
  /\ cell' = FoldLeft(LAMBDA c, op : DeltaCell(c, op, forward), cell, program)
  /\ port' = FoldLeft(LAMBDA p, op : DeltaPort(p, op, forward), port, program)
  /\ UNCHANGED <<traced, cpu, body, touched, ticks, log, shown, lost, awry>>

Undo ==
  /\ ~cpu.busy
  /\ at > 0
  /\ Replay(log[at], FALSE)
  /\ at' = at - 1

Redo ==
  /\ ~cpu.busy
  /\ at < Len(log)
  /\ Replay(log[at + 1], TRUE)
  /\ at' = at + 1

-----------------------------------------------------------------------------
(* What the handlers of the instructions do (pep_isa_instructions.cpp), as *)
(* the sequence of their effects.  What is computed or read is any of      *)
(* Values; pc is the working copy of PC when the handler is entered.       *)

Read == [do |-> "read"]
Take == [do |-> "take"]
Poke(c, v) == [do |-> "poke", cell |-> c, val |-> v]
Put(b) == [do |-> "put", val |-> b]
Reg(r, v) == [do |-> "reg", cell |-> r, val |-> v]
Flags(v) == [do |-> "flags", val |-> v]
Depth(d) == [do |-> "depth", val |-> d]
Jump(pc) == [do |-> "jump", val |-> pc]
Illegal == [do |-> "illegal"]

\* decode_op_addr(): PC moves past the operand, which is copied to OS.
DecodeOpAddr(pc, v) == <<Jump((pc + 2) % Word), Read, Reg("os", v)>>

\* handle_ret()
Ret == {<<Depth(-1), Read, Jump(t), Reg("sp", (cell["sp"] + 2) % Word)>> : t \in Targets}

\* handle_sret(): flags, then the register file, PC with it, from the stack.  The
\* PC handed on is read_register<R::PC>(), which is the working copy.
Sret(pc) ==
  {<<Read, Flags(f), Read, Reg("a", a), Reg("sp", sp), Reg("pc", t), Jump(pc),
     Poke(c, (cell["sp"] + 12) % Word), Depth(-1)>> :
     f \in Values, a \in Values, sp \in Values, t \in Targets, c \in Ram}

\* MOVFLGA, MOVAFLG, MOVSPA, MOVASP, NOP
Moves == {<<Reg("a", cell["nzvc"])>>, <<Flags(cell["a"])>>, <<Reg("a", cell["sp"])>>,
          <<Reg("sp", cell["a"])>>, << >>}

\* NEG, ASL, ASR, NOT, ROL, ROR
Monadic == {<<Reg("a", v), Flags(f)>> : v \in Values, f \in Values}

\* Branches, taken or not.
Branches(pc) ==
  {DecodeOpAddr(pc, t) \o <<Read>> \o jump : t \in Targets, jump \in {<< >>} \cup {<<Jump(u)>> : u \in Targets}}

\* handle_call(): the return address is stored below SP.
Calls(pc) ==
  {DecodeOpAddr(pc, t) \o
     <<Read, Poke(c, (pc + 2) % Word), Reg("sp", (cell["sp"] - 2) % Word), Jump(t), Depth(1)>> :
     t \in Targets, c \in Ram}

\* ADDSP, SUBSP
AdjustSP(pc) ==
  {DecodeOpAddr(pc, v) \o <<Read, Reg("sp", (cell["sp"] + sign * v) % Word)>> :
     v \in Values, sign \in {-1, 1}}

\* ADD, SUB, AND, OR, XOR
Arithmetic(pc) ==
  {DecodeOpAddr(pc, v) \o <<Read, Reg("a", v), Flags(f)>> : v \in Values, f \in Values}

\* CPW, CPB
Compares(pc) == {DecodeOpAddr(pc, v) \o <<Read, Flags(v)>> : v \in Values}

\* LDW, LDB, from memory or from the port
Loads(pc) ==
  {DecodeOpAddr(pc, v) \o <<source, Reg("a", v), Flags(f)>> :
     source \in {Read, Take}, v \in Values, f \in Values}

\* STW, STB, to memory or to the port
Stores(pc) ==
  {DecodeOpAddr(pc, v) \o <<dest>> :
     v \in Values, dest \in {Poke(c, cell["a"]) : c \in Ram} \cup {Put(b) : b \in Bytes}}

\* handle(): by opcode, 1 one without and 2 one with an operand; some opcodes throw.
Handlers(is, pc) ==
  IF is = 1
  THEN Ret \cup Sret(pc) \cup Moves \cup Monadic \cup {<<Illegal>>}
  ELSE UNION {Branches(pc), Calls(pc), AdjustSP(pc), Arithmetic(pc), Compares(pc), Loads(pc), Stores(pc)}

-----------------------------------------------------------------------------
(* Devices record a change before they make it.                            *)

\* The next effect is of this kind.
Doing(kind) == cpu.busy /\ cpu.todo # << >> /\ Head(cpu.todo).do = kind

Effect == Head(cpu.todo)

Done == cpu' = [cpu EXCEPT !.todo = Tail(@)]

\* The filters of Recorder::emit_*(): an untraced device, and no recording.
Records(dev) == cpu.open /\ dev \in traced

\* The effect of one emit_*() for v; the change itself is in cell' or port'.
Emit(dev, v, op) ==
  /\ IF Records(dev)
     THEN body' = Append(body, op) /\ touched' = touched \cup {v} /\ UNCHANGED lost
     ELSE lost' = lost \cup {v} /\ UNCHANGED <<body, touched>>
  /\ UNCHANGED <<traced, ticks, log, at, shown>>

Unrecorded == UNCHANGED <<body, touched, lost, traced, ticks, log, at, shown>>

\* Mutant: the prior contents are fetched once they are overwritten.
Combined_AfterWrite(prior, now) == BitXor(now, now)

\* now ^ prior
Combined(prior, now) == BitXor(now, prior)

\* A read of memory or code leaves no record.
ReadMemory ==
  /\ Doing("read")
  /\ Done
  /\ Unrecorded
  /\ UNCHANGED <<cell, port, awry>>

\* Dense::write(), Sparse::write()
WriteRam ==
  /\ Doing("poke")
  /\ Done
  /\ LET c == Effect.cell
     IN /\ Emit("ram", c, [op |-> "SETMEMX", cell |-> c, val |-> Combined(cell[c], Effect.val)])
        /\ cell' = [cell EXCEPT ![c] = Effect.val]
  /\ UNCHANGED <<port, awry>>

\* store() of a register bank: emit_register_xor() records no write that changes nothing.
Store(r, v) ==
  /\ IF v = cell[r]
     THEN Unrecorded
     ELSE Emit("cpu", r, [op |-> "SETREGX", cell |-> r, val |-> Combined(cell[r], v)])
  /\ cell' = [cell EXCEPT ![r] = v]
  /\ UNCHANGED <<port, awry>>

\* PepRegisterBank::store(); only SRET's write-back reaches PC.
WriteReg ==
  /\ Doing("reg")
  /\ Store(Effect.cell, Effect.val)
  /\ cpu' = [cpu EXCEPT !.todo = Tail(@)]

\* PepCSRBank::store() keeps the flags only.
WriteFlags ==
  /\ Doing("flags")
  /\ Store("nzvc", Effect.val % FlagSpan)
  /\ Done

\* increment_call_depth(), decrement_call_depth()
StepDepth ==
  /\ Doing("depth")
  /\ Emit("cpu", "depth", [op |-> "STEPREG", cell |-> "depth", val |-> Effect.val])
  /\ cell' = [cell EXCEPT !["depth"] = (@ + Effect.val) % Word]
  /\ Done
  /\ UNCHANGED <<port, awry>>

\* write_pc(): the working copy.
WritePC ==
  /\ Doing("jump")
  /\ cpu' = [cpu EXCEPT !.todo = Tail(@), !.pc = Effect.val]
  /\ Unrecorded
  /\ UNCHANGED <<cell, port, awry>>

\* FIFORegister::write()
WritePort ==
  /\ Doing("put")
  /\ Done
  /\ Emit("port", "out", [op |-> "OUT", val |-> Effect.val])
  /\ port' = [port EXCEPT !.out = Append(@, Effect.val)]
  /\ UNCHANGED <<cell, awry>>

\* FIFORegister::read() with a byte to consume.
ReadPort ==
  /\ Doing("take")
  /\ port.at < Len(port.queued)
  /\ Done
  /\ Emit("port", "in", [op |-> "IN", val |-> port.queued[port.at + 1]])
  /\ port' = [port EXCEPT !.at = @ + 1]
  /\ UNCHANGED <<cell, awry>>

\* FIFORegister::read() at the end of the queue: the fill is recorded, the position stays.
ReadPortDefault ==
  /\ Doing("take")
  /\ Policy = "YieldDefaultValue"
  /\ port.at >= Len(port.queued)
  /\ Done
  /\ Emit("port", "in", [op |-> "IN", val |-> 0])
  /\ awry' = IF Records("port") THEN awry \cup {"in"} ELSE awry
  /\ UNCHANGED <<cell, port>>

-----------------------------------------------------------------------------
(* clock_tick().                                                           *)

\* Recorder::Instruction opens a recording if the CPU is traced; the opcode is
\* copied to IS, and its handler entered.
Fetch(is, todo) ==
  /\ ~cpu.busy
  /\ at = Len(log)
  /\ ticks < MaxTicks
  /\ ticks' = ticks + 1
  /\ cpu' = [busy |-> TRUE, open |-> "cpu" \in traced, start |-> cell["pc"],
             pc |-> (cell["pc"] + 1) % Word, todo |-> <<Read, Reg("is", is)>> \o todo]
  /\ body' = << >>
  /\ touched' = {}
  /\ UNCHANGED <<cell, port, traced, log, at, shown, lost, awry>>

Near(delta) == delta \in 0 .. 3

\* The single store of PC at the end: a STEPREG if it moved by 1 to 3, nothing if
\* it did not move, otherwise through the register bank.
PCRecord ==
  LET delta == cpu.pc - cpu.start
  IN IF delta = 0 THEN << >>
     ELSE IF Near(delta) THEN <<[op |-> "STEPREG", cell |-> "pc", val |-> delta]>>
     ELSE IF cpu.pc = cell["pc"] THEN << >>
     ELSE <<[op |-> "SETREGX", cell |-> "pc", val |-> Combined(cell["pc"], cpu.pc)]>>

\* The STEPREG assumes that PC is still where the instruction started.
Misstepped == Near(cpu.pc - cpu.start) /\ cell["pc"] # cpu.start

\* What stays of a finished instruction: an entry of the ring if it recorded.
Close(c, program, unrecorded) ==
  /\ IF cpu.open
     THEN /\ log' = Append(log, program)
          /\ at' = at + 1
          /\ shown' = Append(shown, View(c, port))
     ELSE UNCHANGED <<log, at, shown>>
  /\ lost' = lost \cup unrecorded
  /\ cpu' = Idle
  /\ body' = << >>
  /\ touched' = {}
  /\ UNCHANGED <<port, traced, ticks>>

\* The end of clock_tick(): PC, then commit(), which may have no buffer to write to.
WriteBack(kept) ==
  LET c == [cell EXCEPT !["pc"] = cpu.pc]
      moved == IF cpu.pc = cell["pc"] THEN {} ELSE {"pc"}
  IN /\ cpu.busy
     /\ cpu.todo = << >>
     /\ kept \/ cpu.open
     /\ cell' = c
     /\ awry' = IF kept /\ cpu.open /\ Misstepped THEN awry \cup {"pc"} ELSE awry
     /\ IF kept
        THEN Close(c, body \o PCRecord, IF cpu.open THEN {} ELSE moved)
        ELSE Close(c, << >>, touched \cup moved)

\* An exception leaves the handler: abort(), and the entry stays a tombstone.
Throw ==
  /\ cpu.busy
  /\ cpu.todo # << >>
  /\ Effect.do \in {"read", "take", "poke", "put", "illegal"}
  /\ Close(cell, << >>, touched)
  /\ UNCHANGED <<cell, awry>>

-----------------------------------------------------------------------------
(* The user.                                                               *)

\* input().push()
Type(b) ==
  /\ ~cpu.busy
  /\ Len(port.queued) < MaxInput
  /\ port' = [port EXCEPT !.queued = Append(@, b)]
  /\ UNCHANGED <<cell, traced, cpu, body, touched, ticks, log, at, shown, lost, awry>>

\* trace(): switch a device on or off between instructions.
Trace(dev) ==
  /\ ~cpu.busy
  /\ traced' = IF dev \in traced THEN traced \ {dev} ELSE traced \cup {dev}
  /\ UNCHANGED <<cell, port, cpu, body, touched, ticks, log, at, shown, lost, awry>>

\* System::reset() resets every device, the trace buffer too.
Reset ==
  /\ ~cpu.busy
  /\ cell' = [c \in Cells |-> 0]
  /\ port' = NewPort
  /\ log' = << >>
  /\ at' = 0
  /\ shown' = <<View(cell', port')>>
  /\ lost' = {}
  /\ awry' = {}
  /\ ticks' = 0
  /\ UNCHANGED <<traced, cpu, body, touched>>

Next ==
  \/ \E is \in 1 .. 2 : \E todo \in Handlers(is, (cell["pc"] + 1) % Word) : Fetch(is, todo)
  \/ ReadMemory
  \/ WriteRam
  \/ WriteReg
  \/ WriteFlags
  \/ StepDepth
  \/ WritePC
  \/ WritePort
  \/ ReadPort
  \/ ReadPortDefault
  \/ \E kept \in BOOLEAN : WriteBack(kept)
  \/ Throw
  \/ Undo
  \/ Redo
  \/ \E b \in Bytes : Type(b)
  \/ \E dev \in Switched : Trace(dev)
  \/ Reset

Spec == Init /\ [][Next]_vars

-----------------------------------------------------------------------------
(* Properties.                                                             *)

\* However far the trace was stepped back and forth, between instructions the
\* machine shows what it showed when it had executed just that far.  Excepted
\* is what changed behind the trace's back, by an untraced device or in an
\* instruction whose recording was aborted or could not be committed: such an
\* instruction spoils what it touched, and nothing else.  Excepted are also the
\* two places where the record is not what happened: a read of an exhausted
\* port, and PC in an SRET.
UndoRestores ==
  ~cpu.busy => \A v \in Visible \ (lost \cup awry) : View(cell, port)[v] = shown[at + 1][v]

\* Replaying neither queues nor drops input: a byte that was read is read again
\* after an undo, and stepping forward over the read finds it still queued
\* (advance_input(), rewind_input()).
ReplayKeepsInput ==
  [][(at' # at /\ UNCHANGED log /\ "in" \notin awry) => port'.queued = port.queued]_vars
=============================================================================
