---------------------------- MODULE TraceProgram ----------------------------
(***************************************************************************)
(* What a recorded program contains, how identical bodies are shared, and  *)
(* how replay finds the program's data again                               *)
(* (core/core/sim/debugger: trace_recorder.cpp, the stencils of            *)
(* tvm_tracebuffer.cpp, and the data pointer of the trace machine in       *)
(* tvm_decoder.cpp, tvm_backend.cpp, tvm_interpreter.cpp).                 *)
(*                                                                         *)
(* A device that is written appends the payload to the data chain of the   *)
(* initiator and emits two instructions into the body of the open          *)
(* recording: one that moves the data pointer DP (and the size DS) to the  *)
(* payload, relative to the previous payload where it can, and one that    *)
(* applies it.  Relative moves carry no addresses, so the bodies of equal  *)
(* instructions are equal: commit() keeps one copy, the stencil, and makes *)
(* the program a CALL of it.  The program's location carries where its own *)
(* data starts.                                                            *)
(*                                                                         *)
(* Bytes are not modelled: an instruction is a record of its operands, the *)
(* size of a body is its number of instructions, and a payload is where it *)
(* was stored.  The ring that holds the programs is TraceBuffer.           *)
(***************************************************************************)
EXTENDS Integers, Sequences, FiniteSets, SequencesExt

CONSTANTS
  Initiators,    \* devices that record
  Capacity,      \* Buffer::SIZE
  Buffers,       \* ids of data buffers; an id may come back once its buffer was freed
  NoBuffer,      \* the null id
  Wide,          \* memories whose records carry the address in the payload
  Narrow,        \* memories whose records carry it in the instruction
  Registers,     \* registers and counters
  Ports,         \* memory-mapped ports
  Boards,        \* the sets of these devices a system may be made of
  Sizes,         \* bytes written to a memory or register
  Prologue,      \* SETMEMDX_ADDRESS_BYTES, MMIO_PROLOGUE_BYTES
  Hash(_),       \* pepp::fnv_1a, truncated: distinct bodies may collide
  Threshold,     \* PROMOTION_THRESHOLD
  MaxPending,    \* MAX_PENDING_HASHES
  MaxBody,       \* bound: writes and steps of one recording
  MaxCommits     \* bound: calls of commit() between two clear()s

ASSUME BoardsOfDevices == \A b \in Boards : b \subseteq Wide \cup Narrow \cup Registers \cup Ports

ASSUME NoBufferIsNull == NoBuffer \notin Buffers

ASSUME WritesFit == Prologue \in Nat /\ \A n \in Sizes \cup {1} : n \in Nat \ {0} /\ Prologue + n <= Capacity

VARIABLES
  board,     \* the devices of this system
  recs,      \* the open recording of each initiator
  chains,    \* the data chain of each initiator, in the ring's slot: buffers, and bytes used of the last
  programs,  \* what commit() wrote into the ring
  stencils,  \* _stencil_map: the promoted body of each hash that has one
  pending,   \* _pending_hashes
  commits    \* calls of commit() since clear()

vars == <<board, recs, chains, programs, stencils, pending, commits>>

Loc(buf, off) == [buf |-> buf, off |-> off]
NullLoc == Loc(NoBuffer, 0)

\* DpAnchor{}: the program has not touched DP yet.
NoAnchor == [set |-> FALSE, at |-> NullLoc, size |-> 0, stride |-> 0]

\* A closed recording; "writes" is what the program is meant to replay.
Closed == [active |-> FALSE, body |-> << >>, dp |-> NoAnchor, start |-> NullLoc,
           writes |-> << >>, spent |-> 0]

EmptyChain == [bufs |-> << >>, used |-> 0]

Init ==
  /\ board \in Boards
  /\ recs = [i \in Initiators |-> Closed]
  /\ chains = [i \in Initiators |-> EmptyChain]
  /\ programs = {}
  /\ stencils = {}
  /\ pending = {}
  /\ commits = 0

-----------------------------------------------------------------------------
(* Replay.                                                                 *)

InUse == UNION {Range(chains[i].bufs) : i \in Initiators}

\* data_successor(): the buffer after buf in its chain, null if there is none.
DataSuccessor(buf) ==
  IF \E i \in Initiators : \E k \in DOMAIN chains[i].bufs :
       k > 1 /\ chains[i].bufs[k - 1] = buf
  THEN CHOOSE b \in InUse : \E i \in Initiators : \E k \in DOMAIN chains[i].bufs :
         k > 1 /\ chains[i].bufs[k - 1] = buf /\ chains[i].bufs[k] = b
  ELSE NoBuffer

\* on_dpincr(): DP may run over into the next buffer of its chain.
MoveDP(dp, incr) ==
  IF dp.off + incr >= Capacity
  THEN Loc(DataSuccessor(dp.buf), dp.off + incr - Capacity)
  ELSE Loc(dp.buf, dp.off + incr)

\* The instructions of a body, on a machine [dp, ds, done]; done collects what
\* was applied and where its payload was taken from.
LoadDS(m, ds) == [m EXCEPT !.ds = ds]
LoadDP(m, at, ds) == [m EXCEPT !.dp = at, !.ds = ds]
AccDP(m, ds) == [m EXCEPT !.dp = MoveDP(m.dp, m.ds), !.ds = ds]
IncDP(m, incr, ds) == [m EXCEPT !.dp = MoveDP(m.dp, incr), !.ds = ds]

Applied(m, dev, at, len) == [m EXCEPT !.done = Append(@, [dev |-> dev, at |-> at, len |-> len])]

\* SETMEMX and SETREGX: the payload is the DS bytes at DP.
SetMem(m, dev) == Applied(m, dev, m.dp, m.ds)
DeltaReg(m, dev) == Applied(m, dev, m.dp, m.ds)

\* SETMEMDX: the payload is the DS bytes past the address at DP.
SetMemDX(m, dev) == Applied(m, dev, Loc(m.dp.buf, m.dp.off + Prologue), m.ds)

\* MMIO: the payload is the byte past the address at DP.
MMIO(m, dev) == Applied(m, dev, Loc(m.dp.buf, m.dp.off + Prologue), 1)

\* STEPMEM and STEPREG with an immediate.
StepImmediate(m, dev) == Applied(m, dev, NullLoc, 0)

Dispatch(m, op) ==
  CASE op.op = "LDR"      -> LoadDS(m, op.ds)
    [] op.op = "LDP"      -> LoadDP(m, op.at, op.ds)
    [] op.op = "ACCDP"    -> AccDP(m, op.ds)
    [] op.op = "INCDP"    -> IncDP(m, op.incr, op.ds)
    [] op.op = "SETMEMX"  -> SetMem(m, op.dev)
    [] op.op = "SETMEMDX" -> SetMemDX(m, op.dev)
    [] op.op = "SETREGX"  -> DeltaReg(m, op.dev)
    [] op.op = "MMIO"     -> MMIO(m, op.dev)
    [] op.op \in {"STEPMEM", "STEPREG"} -> StepImmediate(m, op.dev)

\* Interpreter::run(): DP is loaded from the program's location, the rest is reset.
Run(body, start) == FoldLeft(Dispatch, [dp |-> start, ds |-> 0, done |-> << >>], body).done

StencilOf(h) == {s \in stencils : s.hash = h}

\* A program is its body inlined, or a CALL of the stencil of a hash.
CodeOf(p) == IF p.call THEN (CHOOSE s \in StencilOf(p.hash) : TRUE).body ELSE p.inlined

-----------------------------------------------------------------------------
(* Recording.                                                              *)

\* begin(), as far as the program is concerned: nothing of the last one is kept.
Begin(i) ==
  /\ ~recs[i].active
  /\ recs' = [recs EXCEPT ![i] = [Closed EXCEPT !.active = TRUE]]
  /\ UNCHANGED <<chains, programs, stencils, pending, commits>>

\* Mutant: the bytes that are handed out are not counted.
Reservations_Uncounted(chain, n) ==
  IF chain.bufs # << >> /\ chain.used + n <= Capacity
  THEN {[at |-> Loc(Last(chain.bufs), chain.used), chain |-> chain]}
  ELSE {[at |-> Loc(b, 0), chain |-> [bufs |-> Append(chain.bufs, b), used |-> 0]] :
          b \in Buffers \ InUse}

\* BufferChain::reserve() of n bytes: the places they may go, each with the
\* chain it leaves.
Reservations(chain, n) ==
  IF chain.bufs # << >> /\ chain.used + n <= Capacity
  THEN {[at |-> Loc(Last(chain.bufs), chain.used), chain |-> [chain EXCEPT !.used = chain.used + n]]}
  ELSE {[at |-> Loc(b, 0), chain |-> [bufs |-> Append(chain.bufs, b), used |-> n]] :
          b \in Buffers \ InUse}

\* Mutant: ACCDP is chosen though the last record had an address ahead of its payload.
DpUpdate_IgnoresStride(dp, at, len) ==
  IF ~dp.set THEN [op |-> "LDR", ds |-> len]
  ELSE IF dp.at.buf # at.buf THEN [op |-> "LDP", at |-> at, ds |-> len]
  ELSE IF at.off = dp.at.off + dp.stride THEN [op |-> "ACCDP", ds |-> len]
  ELSE [op |-> "INCDP", incr |-> at.off - dp.at.off, ds |-> len]

\* emit_dp_update(): the cheapest way from the anchor to the payload.
DpUpdate(dp, at, len) ==
  IF ~dp.set THEN [op |-> "LDR", ds |-> len]
  ELSE IF dp.at.buf # at.buf THEN [op |-> "LDP", at |-> at, ds |-> len]
  ELSE IF dp.stride = dp.size /\ at.off = dp.at.off + dp.stride THEN [op |-> "ACCDP", ds |-> len]
  ELSE [op |-> "INCDP", incr |-> at.off - dp.at.off, ds |-> len]

\* append_data_uninitialized(), emit_dp_update(), emit_body(): payload, data
\* pointer, instruction.
EmitSet(i, op, dev, prologue, len) ==
  \E r \in Reservations(chains[i], prologue + len) :
    /\ recs[i].active
    /\ recs[i].spent < MaxBody
    /\ chains' = [chains EXCEPT ![i] = r.chain]
    /\ recs' = [recs EXCEPT ![i] =
         [active |-> TRUE,
          body |-> recs[i].body \o <<DpUpdate(recs[i].dp, r.at, len), [op |-> op, dev |-> dev]>>,
          dp |-> [set |-> TRUE, at |-> r.at, size |-> len, stride |-> prologue + len],
          start |-> IF recs[i].start = NullLoc THEN r.at ELSE recs[i].start,
          writes |-> Append(recs[i].writes,
                       [dev |-> dev, at |-> Loc(r.at.buf, r.at.off + prologue), len |-> len]),
          spent |-> recs[i].spent + 1]]
    /\ UNCHANGED <<programs, stencils, pending, commits>>

EmitWrite(i, dev, len) ==
  IF dev \in Wide
  THEN EmitSet(i, "SETMEMDX", dev, Prologue, len)
  ELSE EmitSet(i, "SETMEMX", dev, 0, len)

EmitRegisterXor(i, r, len) == EmitSet(i, "SETREGX", r, 0, len)

EmitMM(i, p) == EmitSet(i, "MMIO", p, Prologue, 1)

\* An immediate: DP stays.
EmitStep(i, op, dev) ==
  /\ recs[i].active
  /\ recs[i].spent < MaxBody
  /\ recs' = [recs EXCEPT ![i].body = Append(@, [op |-> op, dev |-> dev]),
                          ![i].writes = Append(@, [dev |-> dev, at |-> NullLoc, len |-> 0]),
                          ![i].spent = @ + 1]
  /\ UNCHANGED <<chains, programs, stencils, pending, commits>>

EmitWriteIncrement(i, dev) == EmitStep(i, "STEPMEM", dev)

EmitIncrRegister(i, r) == EmitStep(i, "STEPREG", r)

-----------------------------------------------------------------------------
(* commit().                                                               *)

\* Mutant: a hash match is taken for a body match.
Matches_HashOnly(s, body) == TRUE

\* stencil_matches()
Matches(s, body) == s.body = body

\* A body is copied to the stencils when it is seen for the second time.
Promotes(body) ==
  body # << >> /\ StencilOf(Hash(body)) = {} /\ Hash(body) \in pending /\ Len(body) >= Threshold

\* resolve_body(): whether the program calls a stencil, and the tables afterwards.
ResolveBody(body, calls) ==
  LET h == Hash(body)
  IN \/ /\ body = << >>
        /\ ~calls
        /\ UNCHANGED <<stencils, pending>>
     \/ /\ body # << >>
        /\ \E s \in StencilOf(h) : calls = Matches(s, body)
        /\ UNCHANGED <<stencils, pending>>
     \/ /\ body # << >> /\ StencilOf(h) = {} /\ h \in pending
        /\ calls = Promotes(body)
        /\ stencils' = IF calls THEN stencils \cup {[hash |-> h, body |-> body]} ELSE stencils
        /\ pending' = IF calls THEN pending \ {h} ELSE pending
     \/ /\ body # << >> /\ StencilOf(h) = {} /\ h \notin pending
        /\ ~calls
        /\ pending' = (IF Cardinality(pending) >= MaxPending THEN {} ELSE pending) \cup {h}
        /\ UNCHANGED stencils

\* commit(), resolve_body() and flush_to_ring()
Commit(i) ==
  LET rec == recs[i]
  IN /\ rec.active
     /\ commits < MaxCommits
     /\ commits' = commits + 1
     /\ \E calls \in BOOLEAN :
          /\ ResolveBody(rec.body, calls)
          /\ programs' = programs \cup
               {[call |-> calls, hash |-> Hash(rec.body),
                 inlined |-> IF calls THEN << >> ELSE rec.body,
                 start |-> rec.start, writes |-> rec.writes]}
     /\ recs' = [recs EXCEPT ![i] = Closed]
     /\ UNCHANGED chains

\* resolve_body() had no buffer for a stencil, and the tables stay; or
\* flush_to_ring() had none for the program: the tables know the body, the ring
\* does not.
CommitThrows(i) ==
  /\ recs[i].active
  /\ commits < MaxCommits
  /\ commits' = commits + 1
  /\ \/ \E calls \in BOOLEAN : ResolveBody(recs[i].body, calls)
     \/ Promotes(recs[i].body) /\ UNCHANGED <<stencils, pending>>
  /\ recs' = [recs EXCEPT ![i] = Closed]
  /\ UNCHANGED <<chains, programs>>

\* abort(): the payloads stay in the chain, unreferenced.
Abort(i) ==
  /\ recs[i].active
  /\ recs' = [recs EXCEPT ![i] = Closed]
  /\ UNCHANGED <<chains, programs, stencils, pending, commits>>

\* acknowledge() of the slot: its programs and data go, the stencils stay.
Acknowledge ==
  /\ \A i \in Initiators : ~recs[i].active
  /\ programs # {}
  /\ programs' = {}
  /\ chains' = [i \in Initiators |-> EmptyChain]
  /\ UNCHANGED <<recs, stencils, pending, commits>>

Clear ==
  /\ recs' = [i \in Initiators |-> Closed]
  /\ chains' = [i \in Initiators |-> EmptyChain]
  /\ programs' = {}
  /\ stencils' = {}
  /\ pending' = {}
  /\ commits' = 0

Next ==
  /\ \/ \E i \in Initiators : Begin(i)
     \/ \E i \in Initiators, dev \in (Wide \cup Narrow) \cap board, n \in Sizes : EmitWrite(i, dev, n)
     \/ \E i \in Initiators, r \in Registers \cap board, n \in Sizes : EmitRegisterXor(i, r, n)
     \/ \E i \in Initiators, p \in Ports \cap board : EmitMM(i, p)
     \/ \E i \in Initiators, dev \in Narrow \cap board : EmitWriteIncrement(i, dev)
     \/ \E i \in Initiators, r \in Registers \cap board : EmitIncrRegister(i, r)
     \/ \E i \in Initiators : Commit(i)
     \/ \E i \in Initiators : CommitThrows(i)
     \/ \E i \in Initiators : Abort(i)
     \/ Acknowledge
     \/ Clear
  /\ UNCHANGED board

Spec == Init /\ [][Next]_vars

-----------------------------------------------------------------------------
(* Properties.                                                             *)

\* Replaying a program applies exactly the writes its recording made, in
\* order, each from the payload that was stored for it: though the body may be
\* a stencil that another program left, reached through a colliding hash
\* ("a hash match is not proof of a body match"), the data pointer is moved
\* relative to the program's own data, and buffers are used again.
ReplaysItsWrites == \A p \in programs : Run(CodeOf(p), p.start) = p.writes

\* The bytes of a write's payload, and those that programs in the ring and
\* open recordings still need.
Bytes(w) == {Loc(w.at.buf, w.at.off + b) : b \in 0 .. w.len - 1}
Held == UNION {UNION {Bytes(w) : w \in Range(p.writes)} : p \in programs \cup Range(recs)}

\* A payload is never stored over one that a program in the ring or an open
\* recording still needs, whatever order the initiators append, commit and
\* abort in (append_data_uninitialized(), BufferChain::reserve()).
PayloadsKept ==
  [][\A i \in Initiators : Len(recs'[i].writes) > Len(recs[i].writes)
       => Bytes(Last(recs'[i].writes)) \cap Held = {}]_vars
=============================================================================
