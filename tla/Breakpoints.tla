---------------------------- MODULE Breakpoints ----------------------------
(***************************************************************************)
(* The breakpoints of an assembly project: the set the processor consults  *)
(* (BreakpointSet of lib/sim/debug/debugger.cpp), the table that edits     *)
(* their conditions (BreakpointTableModel), and the markers in the margins *)
(* of the source and of the listing, which lib/project/pep10.cpp keeps in  *)
(* step through the line map of the last assembly.                         *)
(*                                                                         *)
(* The source is a number of lines, each one instruction of one byte, so   *)
(* that an assembly places line i, and the listing's line i, at address    *)
(* i - 1: the line map of the last assembly is the number of lines it saw. *)
(***************************************************************************)
EXTENDS Integers, Sequences, FiniteSets, SequencesExt

CONSTANTS
  Chunk,     \* addresses that share a bit of the bitmask, 8 in the code
  MaxLines   \* bound: lines of the source

ASSUME BreakpointsAssumption == Chunk \in Nat \ {0} /\ MaxLines \in Nat \ {0}

Addresses == 0 .. MaxLines - 1
Lines == 1 .. MaxLines

AddressOf(line) == line - 1
LineOf(a) == a + 1

Conditions == {"none", "cond"}           \* of a breakpoint
Texts == {"none", "cond", "unparsed"}    \* in the table; the last is not an expression

VARIABLES
  lines,     \* lines of the source
  mapped,    \* lines of the last successful assembly, which the line map knows
  listed,    \* lines the listing shows
  srcMarks,  \* lines marked in the source's margin
  listMarks, \* lines marked in the listing's margin
  bs,        \* the BreakpointSet, see EmptySet
  editors,   \* _conditionEditor of the table: by address
  given,     \* history: the condition given to each breakpoint since it was set
  kept,      \* history: addresses whose text outlived the removal of all breakpoints
  fresh      \* history: the source is the one that was assembled last, with success

vars == <<lines, mapped, listed, srcMarks, listMarks, bs, editors, given, kept, fresh>>

\* bps: _breakpoints, sorted; conds: _conditions; mask: the chunks of _bitmask that are set.
EmptySet == [bps |-> <<>>, conds |-> <<>>, mask |-> {}]

Init ==
  /\ lines \in 1 .. MaxLines
  /\ mapped = 0
  /\ listed = 0
  /\ srcMarks = {} /\ listMarks = {}
  /\ bs = EmptySet
  /\ editors = <<>> /\ given = <<>> /\ kept = {}
  /\ fresh = FALSE

-----------------------------------------------------------------------------
(* BreakpointSet                                                           *)

\* hasBP(): the bitmask first, then a binary search, which a sorted list answers right.
HasBP(s, a) == a \div Chunk \in s.mask /\ a \in ToSet(s.bps)

\* std::lower_bound(): the first place whose breakpoint is not below the address.
LowerBound(s, a) == Cardinality({k \in DOMAIN s.bps : s.bps[k] < a}) + 1

\* Mutant: the condition goes to the end of its list.
AddBP_ConditionLast(s, a) ==
  IF HasBP(s, a) THEN s
  ELSE [bps |-> InsertAt(s.bps, LowerBound(s, a), a),
        conds |-> Append(s.conds, "none"),
        mask |-> s.mask \cup {a \div Chunk}]

AddBP(s, a) ==
  IF HasBP(s, a) THEN s
  ELSE [bps |-> InsertAt(s.bps, LowerBound(s, a), a),
        conds |-> InsertAt(s.conds, LowerBound(s, a), "none"),
        mask |-> s.mask \cup {a \div Chunk}]

\* Mutant: a neighbour in the same chunk is overlooked.
LastOfChunk_Overlooks(bps, a) == TRUE

\* No breakpoint is left in the chunk of a.
LastOfChunk(bps, a) == \A b \in ToSet(bps) : b \div Chunk # a \div Chunk

RemoveBP(s, a) ==
  IF ~HasBP(s, a) THEN s
  ELSE LET k == LowerBound(s, a)
           rest == RemoveAt(s.bps, k)
       IN [bps |-> rest,
           conds |-> RemoveAt(s.conds, k),
           mask |-> IF LastOfChunk(rest, a) THEN s.mask \ {a \div Chunk} ELSE s.mask]

ModifyCondition(s, a, c) ==
  IF HasBP(s, a) THEN [s EXCEPT !.conds[LowerBound(s, a)] = c] ELSE s

\* clearBPs() leaves the bitmask.
ClearBPs(s) == [s EXCEPT !.bps = <<>>, !.conds = <<>>]

-----------------------------------------------------------------------------
(* BreakpointTableModel                                                    *)

\* The editors ed after a signal of the set s.
OnBreakpointsChanged(ed, s) ==
  [a \in ToSet(s.bps) |-> IF a \in DOMAIN ed THEN ed[a] ELSE "none"]

\* The history of conditions once the set is s.
GivenIn(s) == [a \in ToSet(s.bps) |-> IF a \in DOMAIN given THEN given[a] ELSE "none"]

\* onBPConditionChanged(): the listing and the source give the line that the last assembly
\* put at the address a marker in the style of the condition, wherever the text has moved
\* since, and also where there was no marker.
OnBPConditionChanged(a) ==
  LET line == LineOf(a)
  IN /\ listMarks' = IF line <= mapped /\ line <= listed THEN listMarks \cup {line} ELSE listMarks
     /\ srcMarks' = IF line <= mapped THEN srcMarks \cup {line} ELSE srcMarks

\* setData() on the condition of a row.  An expression that does not compile is kept as
\* text, and the breakpoint stops unconditionally.
EditCondition(row, text) ==
  LET a == bs.bps[row]
      c == IF text = "cond" THEN "cond" ELSE "none"
  IN /\ editors' = [x \in DOMAIN editors \cup {a} |-> IF x = a THEN text ELSE editors[x]]
     /\ bs' = ModifyCondition(bs, a, c)
     /\ IF HasBP(bs, a) THEN OnBPConditionChanged(a) ELSE UNCHANGED <<srcMarks, listMarks>>
     /\ given' = [given EXCEPT ![a] = c]
     /\ kept' = kept \ {a}
     /\ UNCHANGED <<lines, mapped, listed, fresh>>

-----------------------------------------------------------------------------
(* Markers                                                                 *)

Marked(marks, line, add) == IF add THEN marks \cup {line} ELSE marks \ {line}

\* updateBPAtAddress() and the signal to the table.
UpdateBPAtAddress(a, add) ==
  LET s == IF add THEN AddBP(bs, a) ELSE RemoveBP(bs, a)
  IN /\ bs' = s
     /\ editors' = IF s = bs THEN editors ELSE OnBreakpointsChanged(editors, s)
     /\ given' = GivenIn(s)
     /\ kept' = IF s = bs THEN kept ELSE kept \cap ToSet(s.bps)

\* A click in the source's margin: onMarginClicked() and onModifyUserSource().
ClickSource(line) ==
  LET add == line \notin srcMarks
  IN /\ IF line <= mapped
        THEN UpdateBPAtAddress(AddressOf(line), add)
        ELSE UNCHANGED <<bs, editors, given, kept>>
     /\ srcMarks' = Marked(srcMarks, line, add)
     /\ listMarks' = IF line <= mapped /\ line <= listed THEN Marked(listMarks, line, add) ELSE listMarks
     /\ UNCHANGED <<lines, mapped, listed, fresh>>

\* A click in the listing's margin: onMarginClicked() and onModifyUserList().
ClickListing(line) ==
  LET add == line \notin listMarks
  IN /\ UpdateBPAtAddress(AddressOf(line), add)
     /\ listMarks' = Marked(listMarks, line, add)
     /\ srcMarks' = Marked(srcMarks, line, add)
     /\ UNCHANGED <<lines, mapped, listed, fresh>>

\* The editor moves the markers with the text when a line is inserted above line i.
InsertLine(i) ==
  /\ lines < MaxLines
  /\ lines' = lines + 1
  /\ srcMarks' = {IF l >= i THEN l + 1 ELSE l : l \in srcMarks}
  /\ fresh' = FALSE
  /\ UNCHANGED <<mapped, listed, listMarks, bs, editors, given, kept>>

\* onRequestAllBreakpoints(): the set once the source was asked for the markers of its
\* first n lines.
Requested(n) ==
  LET upTo[line \in 0 .. n] ==
        IF line = 0 THEN bs
        ELSE IF line \in srcMarks THEN AddBP(upTo[line - 1], AddressOf(line))
        ELSE upTo[line - 1]
  IN upTo[n]

\* Mutant: the markers of the source are not asked for.
AssembleSucceeds_Silent ==
  /\ mapped' = lines
  /\ listed' = lines
  /\ listMarks' = {}
  /\ bs' = bs
  /\ editors' = OnBreakpointsChanged(editors, bs)
  /\ given' = GivenIn(bs)
  /\ kept' = kept \cap ToSet(bs.bps)
  /\ fresh' = TRUE
  /\ UNCHANGED <<lines, srcMarks>>

\* _onAssemble(): the listing and the line map are replaced, the table hears of the new
\* map, and the source is asked for its markers, line by line.
AssembleSucceeds ==
  LET s == Requested(lines)
  IN /\ mapped' = lines
     /\ listed' = lines
     /\ listMarks' = srcMarks
     /\ bs' = s
     /\ editors' = OnBreakpointsChanged(OnBreakpointsChanged(editors, bs), s)
     /\ given' = GivenIn(s)
     /\ kept' = kept \cap ToSet(bs.bps)
     /\ fresh' = TRUE
     /\ UNCHANGED <<lines, srcMarks>>

\* The source has errors: the listing is emptied, and the line map stays.
AssembleFails ==
  /\ listed' = 0
  /\ listMarks' = {}
  /\ fresh' = FALSE
  /\ UNCHANGED <<lines, mapped, srcMarks, bs, editors, given, kept>>

\* onISARemoveAllBreakpoints(): the set signals the table before it is emptied.
RemoveAllBreakpoints ==
  /\ bs' = ClearBPs(bs)
  /\ editors' = OnBreakpointsChanged(editors, bs)
  /\ given' = <<>>
  /\ kept' = ToSet(bs.bps)
  /\ srcMarks' = {} /\ listMarks' = {}
  /\ UNCHANGED <<lines, mapped, listed, fresh>>

Next ==
  \/ \E line \in 1 .. lines : ClickSource(line) \/ InsertLine(line)
  \/ \E line \in 1 .. listed : ClickListing(line)
  \/ \E row \in DOMAIN bs.bps, text \in Texts \ {"none"} : EditCondition(row, text)
  \/ AssembleSucceeds
  \/ AssembleFails
  \/ RemoveAllBreakpoints

Spec == Init /\ [][Next]_vars

-----------------------------------------------------------------------------
(* Properties                                                              *)

TypeOK ==
  /\ lines \in Lines /\ mapped \in 0 .. MaxLines /\ listed \in 0 .. MaxLines
  /\ srcMarks \subseteq Lines /\ listMarks \subseteq Lines
  /\ bs \in [bps : Seq(Addresses), conds : Seq(Conditions), mask : SUBSET (0 .. MaxLines \div Chunk)]
  /\ DOMAIN editors \subseteq Addresses

\* The lists are sorted for the binary searches, and the bitmask never hides a breakpoint:
\* whatever was set, removed and cleared, hasBP() answers what the list holds.
SetIsSearchable ==
  /\ TypeOK
  /\ \A j, k \in DOMAIN bs.bps : j < k => bs.bps[j] < bs.bps[k]
  /\ \A a \in ToSet(bs.bps) : HasBP(bs, a)

\* The condition evaluated when the program counter reaches a breakpoint is the one given
\* to that breakpoint: the two parallel lists stay aligned (notifyPCChanged()).  Every row
\* of the table has an editor, which data() looks up unchecked with at(), and the condition
\* it shows is the one in force, except for an address that was a breakpoint when all were
\* removed: clearBPs() signals before it empties the set, and the table keeps its text.
ConditionsBelong ==
  /\ ToSet(bs.bps) \subseteq DOMAIN editors
  /\ DOMAIN bs.conds = DOMAIN bs.bps
  /\ \A k \in DOMAIN bs.bps :
       /\ bs.conds[k] = given[bs.bps[k]]
       /\ bs.bps[k] \notin kept => (bs.conds[k] = "cond" <=> editors[bs.bps[k]] = "cond")

\* On a source that is assembled, a marker in either margin is an active breakpoint, and
\* the two margins agree: after clicks on both panes, edits of the text and of conditions,
\* which may mark a line that has moved, and reassemblies.
MarkersActive ==
  fresh => /\ \A line \in srcMarks : HasBP(bs, AddressOf(line))
           /\ listMarks = srcMarks

=============================================================================
