----------------------------- MODULE MemoryPane -----------------------------
(***************************************************************************)
(* The memory pane of the application, which shows every byte of memory    *)
(* with the highlights of PC, SP and of what the last step modified.  It   *)
(* is not painted anew after each step: SimulatorRawMemory tells the model *)
(* of the table which addresses have changed, from the trace of the step   *)
(* and from what it highlighted before, and only their rows are repainted. *)
(* What a step modified is collected in an IntervalSet.                    *)
(*                                                                         *)
(* The pane shows one thing and the memory holds another: `shown' and      *)
(* `painted' are what is on the screen; a byte is in `shown' while the     *)
(* screen has its value.                                                   *)
(***************************************************************************)
EXTENDS Integers, Sequences, SequencesExt, FiniteSets

CONSTANTS
    Bytes,          \* size of the memory, a whole number of rows
    Width,          \* bytes of a row
    Projects,       \* the projects that show the pane, see below
    MaxLength       \* bound: bytes of a write

\* A project: its level, where its program has instructions, stacks and the data it
\* writes, the bytes that an assembly loads, and, as a bound, the writes in one burst of
\* instructions.
ASSUME PaneAssumption ==
    /\ Bytes \in Nat \ {0, 1} /\ Width \in Nat \ {0} /\ Bytes % Width = 0
    /\ MaxLength \in Nat
    /\ \A p \in Projects :
           /\ p.level \in {"ISA", "ASMB"}
           /\ p.PCs \union p.SPs \union p.data \union p.image \subseteq 0 .. Bytes - 1
           /\ p.writes \in Nat

VARIABLES
    project,        \* the project, one of Projects
    pc, sp,         \* _PC and _SP: the intervals highlighted
    lastPC, lastSP, \* _lastPC and _lastSP: those of the last update
    sink,           \* intervals modified since the last update
    shown,          \* addresses whose value on the screen is the real one
    painted,        \* highlight on the screen
    state,          \* _state: whether a program is loaded, and whether it runs
    queued,         \* a burst of instructions waits in the event loop
    traced,         \* the bus records what is written
    modified,       \* ghost: addresses the last burst wrote, as far as they were recorded
    behind,         \* ghost: changed unrecorded since they were painted last
    forgotten       \* ghost: highlighted without being memoized

control == <<state, queued, traced>>

paneVars ==
    <<project, pc, sp, lastPC, lastSP, sink, shown, painted, control, modified, behind, forgotten>>

Address == 0 .. Bytes - 1

\* The interval that is not set, {-1, -1}, is past the end of any memory.
Nowhere == [lo |-> Bytes * Bytes - 1, hi |-> Bytes * Bytes - 1]

-----------------------------------------------------------------------------
(* IntervalSet *)

Covers(outer, inner) == outer.lo <= inner.lo /\ inner.hi <= outer.hi

Intersects(i, j) == i.lo <= j.hi /\ j.lo <= i.hi

Before(i, j) == i.lo < j.lo \/ (i.lo = j.lo /\ i.hi < j.hi)

(***************************************************************************)
(* IntervalSet::insert.  The new interval takes in the one before it, if   *)
(* they touch, and then those after it for as long as they touch what it   *)
(* has become.                                                             *)
(***************************************************************************)
\* Variant: intervals that only border on each other stay apart.
Touches_Overlap(i, j) == Intersects(i, j)

Touches(i, j) == Intersects(i, j) \/ i.hi + 1 = j.lo

\* The intervals before one that is looked up, which std::set keeps in order, and the
\* last of them.
Lower(s, new) == {i \in s : Before(i, new)}

Prev(s, new) == CHOOSE i \in Lower(s, new) : \A j \in Lower(s, new) : j = i \/ Before(j, i)

\* End of the new interval once it has taken in the intervals of t.
EndAfter(t, new) == Max({new.hi} \union {i.hi : i \in t})

\* The intervals of next that the loop takes in, from the first one up to one that does not
\* touch what the new interval, which starts at lo, has become.
Taken(next, lo, new) ==
    {i \in next : \A j \in next :
        j = i \/ Before(j, i) => Touches([lo |-> lo, hi |-> EndAfter(Lower(next, j), new)], j)}

Insert(s, new) ==
    LET found == Lower(s, new) # {}
        prev == Prev(s, new)
        merges == found /\ Touches(prev, new)
        lo == IF merges THEN prev.lo ELSE new.lo
        next == (s \ Lower(s, new)) \union (IF merges THEN {prev} ELSE {})
        taken == Taken(next, lo, new)
    IN  IF found /\ Covers(prev, new) THEN s
        ELSE (s \ taken) \union {[lo |-> lo, hi |-> EndAfter(taken, new)]}

\* ModifiedAddressSink::contains: the interval at the address, or the one below.
SinkContains(s, a) ==
    LET lower == Lower(s, [lo |-> a, hi |-> a])
        upper == s \ lower
        lb == CHOOSE i \in upper : \A j \in upper : j = i \/ Before(i, j)
        Holds(i) == i.lo <= a /\ a <= i.hi
    IN  CASE s = {} -> FALSE
          [] s # {} /\ lower = {} -> Holds(lb)
          [] lower # {} /\ upper # {} /\ lb.lo <= a -> Holds(lb)
          [] OTHER -> Holds(Prev(s, [lo |-> a, hi |-> a]))

-----------------------------------------------------------------------------
(* Painting *)

\* SimulatorRawMemory::status, for the highlights that are set at the time.
Status(a, p, s, mods) ==
    IF p.lo <= a /\ a <= p.hi THEN "PC"
    ELSE IF s.lo <= a /\ a <= s.hi THEN "SP"
    ELSE IF SinkContains(mods, a) THEN "Modified"
    ELSE "None"

\* MemoryByteModel::onDataChanged: the rows of an interval, none if it does not
\* end in the memory.
Rows(i) ==
    IF i.lo \in Address /\ i.hi \in Address
    THEN {a \in Address : i.lo \div Width <= a \div Width /\ a \div Width <= i.hi \div Width}
    ELSE {}

AllRows(intervals) == UNION {Rows(i) : i \in intervals}

\* The ends of the old highlights are cut to the width of an address.
Cut(i) == [lo |-> i.lo % Bytes, hi |-> i.hi % Bytes]

(***************************************************************************)
(* SimulatorRawMemory::onUpdateGUI with the trace of the writes.  What was *)
(* highlighted is repainted when the new PC and SP are known and nothing   *)
(* is modified, then what is.                                              *)
(***************************************************************************)
\* Variant: what was modified before is forgotten and not repainted.
Old_NotModified == {Cut(lastSP), Cut(lastPC)}

\* What was highlighted before.
Old == sink \union {Cut(lastSP), Cut(lastPC)}

\* The bytes of an interval that the pane shows.
BytesOf(i) == {a \in Address : i.lo <= a /\ a <= i.hi}

\* An instruction that would end past the last address, of which onDataChanged() paints nothing.
Overhanging(p) == IF p.hi \in Address THEN {} ELSE BytesOf(p)

\* ModifiedAddressSink::analyze, for each packet of the trace.
Analyzed(writes) ==
    LET after[k \in 0 .. Len(writes)] ==
            IF k = 0 THEN {} ELSE Insert(after[k - 1], writes[k])
    IN  after[Len(writes)]

OnUpdateGUI(writes, p, s) ==
    LET mods == Analyzed(IF traced THEN writes ELSE <<>>)
        old == AllRows(Old)
        new == AllRows(mods) \union Rows(s) \union Rows(p)
        written == UNION {writes[k].lo .. writes[k].hi : k \in DOMAIN writes}
    IN  /\ sink' = mods
        /\ lastPC' = p /\ lastSP' = s
        /\ pc' = p /\ sp' = s
        /\ shown' = (shown \ written) \union old \union new
        /\ painted' = [a \in Address |->
               IF a \in new THEN Status(a, p, s, mods)
               ELSE IF a \in old THEN Status(a, p, s, {})
               ELSE painted[a]]
        /\ modified' = IF traced THEN written ELSE {}
        /\ behind' = (behind \union (written \ modified')) \ (old \union new)
        /\ forgotten' = (forgotten \ (old \union new)) \union Overhanging(p)

(***************************************************************************)
(* SimulatorRawMemory::clearModifiedAndUpdateGUI.  It does not memoize the *)
(* highlights it paints; prepareSim() of an ISA project does that next.    *)
(***************************************************************************)
ClearModifiedAndUpdateGUI(p, s) ==
    /\ sink' = {}
    /\ pc' = p /\ sp' = s
    /\ shown' = Address
    /\ painted' = [a \in Address |-> Status(a, p, s, {})]
    /\ modified' = {} /\ behind' = {}
    /\ forgotten' = (IF lastPC' = p THEN Overhanging(p) ELSE BytesOf(p))
                      \union (IF lastSP' = s THEN {} ELSE BytesOf(s))

-----------------------------------------------------------------------------
(* The project *)

\* An instruction of one byte or of three, and where SP is.
Instruction(p, unary) == [lo |-> p, hi |-> p + (IF unary THEN 0 ELSE 2)]

StackAt(s) == [lo |-> s, hi |-> s]

\* Pep_ISA::prepareSim ends with an update of the pane, Pep_ASMB::prepareSim, which does
\* the same otherwise, does not.
PrepareSim(p, s) ==
    /\ IF project.level = "ISA" THEN lastPC' = p /\ lastSP' = s ELSE UNCHANGED <<lastPC, lastSP>>
    /\ ClearModifiedAndUpdateGUI(p, s)

\* Nothing of the pane changes: Pep_ASMB::prepareSim, where the source does not assemble.
PaneStays == UNCHANGED <<pc, sp, lastPC, lastSP, sink, shown, painted, modified, behind, forgotten>>

\* onExecute() queues a burst; onDebuggingStart() does so to leave the operating system.
\* A session opens whether or not it could be prepared.
Start(p, s) ==
    /\ state = "halted"
    /\ PrepareSim(p, s) \/ (project.level = "ASMB" /\ PaneStays)
    /\ traced' = TRUE
    /\ \/ state' = "running" /\ queued' = TRUE
       \/ state' = "paused" /\ queued' \in {queued, TRUE}

\* onDebuggingContinue() and the steps.
Continue ==
    /\ state = "paused"
    /\ state' = "running" /\ queued' = TRUE
    /\ PaneStays /\ UNCHANGED traced

(***************************************************************************)
(* A burst of instructions, and the update of the pane that follows it.  A *)
(* queued burst runs whatever was done since: one that Stop left behind    *)
(* runs with the trace off.  The program ends, pauses or goes on; another  *)
(* burst may have been waiting behind this one.                            *)
(***************************************************************************)
OnDeferredExecution(writes, p, s) ==
    /\ queued
    /\ OnUpdateGUI(writes, p, s)
    /\ \/ state' = "halted" /\ traced' = FALSE /\ queued' \in BOOLEAN
       \/ state' = "paused" /\ traced' = traced /\ queued' \in BOOLEAN
       \/ state' = "running" /\ traced' = traced /\ queued' = TRUE

\* Loading object code, assembling and loading it, clearing memory: all of the
\* pane is repainted.
OnLoadObject(p, s) ==
    /\ state = "halted" /\ project.level = "ISA"
    /\ UNCHANGED <<lastPC, lastSP, state, queued>>
    /\ ClearModifiedAndUpdateGUI(p, s)
    /\ traced' = FALSE

\* System::reconfigure: devices that were not there before are not traced.
Reconfigure == traced' \in {traced, FALSE} /\ UNCHANGED <<state, queued>>

OnAssembleThenLoad ==
    /\ project.level = "ASMB"
    /\ UNCHANGED <<lastPC, lastSP>>
    /\ ClearModifiedAndUpdateGUI(pc, sp)
    /\ Reconfigure

\* Assembling alone reconfigures the system too, which loads the memory anew: some bytes
\* change, and nothing is repainted.  It may be asked for at any time.
OnAssemble(changed) ==
    /\ project.level = "ASMB"
    /\ shown' = shown \ changed
    /\ behind' = behind \union changed
    /\ UNCHANGED <<pc, sp, lastPC, lastSP, sink, painted, modified, forgotten>>
    /\ Reconfigure

OnClearMemory ==
    /\ state = "halted"
    /\ UNCHANGED <<lastPC, lastSP, control>>
    /\ ClearModifiedAndUpdateGUI(pc, sp)

\* The user's stop.  What was queued stays queued.
OnDebuggingStop ==
    /\ state # "halted"
    /\ state' = "halted" /\ traced' = FALSE
    /\ PaneStays /\ UNCHANGED queued

\* MemoryByteModel::setData: the user types another byte than the memory has, and its cell
\* is repainted.
SetData(a) ==
    /\ shown' = shown \union {a}
    /\ painted' = [painted EXCEPT ![a] = Status(a, pc, sp, sink)]
    /\ UNCHANGED <<pc, sp, lastPC, lastSP, sink, control, modified, behind, forgotten>>

-----------------------------------------------------------------------------

PaneInit ==
    /\ project \in Projects
    /\ pc = Nowhere /\ sp = Nowhere /\ lastPC = Nowhere /\ lastSP = Nowhere
    /\ sink = {}
    /\ shown = Address
    /\ painted = [a \in Address |-> "None"]
    /\ state = "halted" /\ queued = FALSE /\ traced = FALSE
    /\ modified = {} /\ behind = {} /\ forgotten = {}

WriteSet == {i \in [lo : project.data, hi : project.data] : i.lo <= i.hi /\ i.hi - i.lo < MaxLength}

Step ==
    \/ \E p \in project.PCs, s \in project.SPs, unary \in BOOLEAN :
           \/ Start(Instruction(p, unary), StackAt(s))
           \/ OnLoadObject(Instruction(p, unary), StackAt(s))
           \/ \E writes \in SeqOf(WriteSet, project.writes) :
                  OnDeferredExecution(writes, Instruction(p, unary), StackAt(s))
    \/ Continue
    \/ OnAssembleThenLoad
    \/ \E changed \in SUBSET project.image : OnAssemble(changed)
    \/ OnClearMemory
    \/ OnDebuggingStop
    \/ \E a \in Address : SetData(a)

PaneNext == Step /\ UNCHANGED project

PaneSpec == PaneInit /\ [][PaneNext]_paneVars

-----------------------------------------------------------------------------
(* Properties *)

(***************************************************************************)
(* The pane is what a repaint of all of it would show, though a burst of   *)
(* instructions repaints a few rows (onUpdateGUI), but for two kinds of    *)
(* bytes, until they are painted again.  Those that changed behind the     *)
(* trace keep their old value: written by a burst that ran after Stop, or  *)
(* loaded by an assembly.  Those that were highlighted and not memoized    *)
(* keep their old highlight: by a repaint of all of the pane with another  *)
(* PC or SP than those of the last update, or because the instruction does *)
(* not end in the memory.                                                  *)
(***************************************************************************)
PaneIsCurrent ==
    \A a \in Address :
        /\ a \in shown \/ a \in behind
        /\ painted[a] = Status(a, pc, sp, sink) \/ a \in forgotten

(***************************************************************************)
(* The intervals of the sink are what the last burst wrote, as far as it   *)
(* was recorded, each address found by contains() and no other, and no two *)
(* of them overlap or border on each other: insert() keeps the set         *)
(* canonical in any order of writes.                                       *)
(***************************************************************************)
ModifiedIsCanonical ==
    /\ \A a \in Address : SinkContains(sink, a) <=> a \in modified
    /\ \A i, j \in sink : i # j => i.hi + 1 < j.lo \/ j.hi + 1 < i.lo
=============================================================================
