----------------------------- MODULE TraceBuffer -----------------------------
(***************************************************************************)
(* The ring that holds the reversible trace of a simulation                *)
(* (core/core/sim/debugger/tvm_tracebuffer.{hpp,cpp}).                     *)
(*                                                                         *)
(* A device records one instruction at a time: begin() reserves the next   *)
(* entry of the head slot and writes a tombstone in it, commit() overwrites*)
(* the entry with the program, abort() leaves the tombstone.  A consumer   *)
(* reads entries through cursors and gives slots back with acknowledge().  *)
(* Several devices may be recording at once, and a recording may outlive   *)
(* the slot it began in.                                                   *)
(*                                                                         *)
(* advance_slot() runs watermark callbacks in the middle of begin() and at *)
(* the end of commit(); a callback may call acknowledge() or clear(), so an*)
(* advance is several steps here: AdvanceSlot, one step per watermark, the *)
(* callback's own calls, and the rest of begin().  The code is single      *)
(* threaded: nothing else runs between those steps.                        *)
(*                                                                         *)
(* Left to other modules: what a program contains, code and data chains,   *)
(* stencils.  Here a committed program is a value of Programs.             *)
(***************************************************************************)
EXTENDS Integers, Sequences, FiniteSets

CONSTANTS
  Initiators,    \* devices that record
  NoOne,         \* not an initiator: the advance in progress is a commit()'s
  RingSize,      \* _ring.size()
  MaxEntries,    \* MAX_LOCATION_ENTRIES
  Programs,      \* what commit() may write into an entry
  Tombstone,     \* _tombstone: a program that halts at once
  NullLocation,  \* ProgramLocation{}: replay stops on it
  Stale,         \* bytes of a recycled location buffer, not yet written
  Thresholds,    \* watermark thresholds, in occupied slots
  MaxWatermarks, \* bound: watermarks registered
  MaxSlot        \* bound: the largest value of head

ASSUME InitiatorsFinite == IsFiniteSet(Initiators) /\ NoOne \notin Initiators
ASSUME RingSizePositive == RingSize \in Nat \ {0}
ASSUME MaxEntriesPositive == MaxEntries \in Nat \ {0}
ASSUME LocationsDistinct ==
  /\ Tombstone \notin Programs
  /\ NullLocation \notin Programs \cup {Tombstone}
  /\ Stale \notin Programs \cup {Tombstone, NullLocation}
ASSUME ThresholdsNat == Thresholds \subseteq Nat
ASSUME BoundsNat == MaxWatermarks \in Nat /\ MaxSlot \in Nat

VARIABLES
  head,       \* _head: absolute number of the slot being filled
  tail,       \* _tail: oldest slot that was not acknowledged
  ring,       \* _ring: the nodes
  recs,       \* _recordings: the open recording of each initiator
  watermarks, \* _watermarks, each with what the properties remember of it: late
  pc,         \* where the call in progress is: between watermarks or in a callback
  resume,     \* the initiator whose begin() goes on after the advance
  occ,        \* advance_slot()'s local occ
  next        \* advance_slot()'s position in _watermarks

vars == <<head, tail, ring, recs, watermarks, pc, resume, occ, next>>
callVars == <<pc, resume, occ, next>>

NO_SLOT == -1
Nodes == 0 .. RingSize - 1
Entries == 0 .. MaxEntries - 1
Contents == Programs \cup {Tombstone, NullLocation, Stale}

\* locations == nullptr: every read through it yields the null location.
NoBuffer == [e \in Entries |-> NullLocation]

\* Node::reset()
EmptyNode == [slot |-> NO_SLOT, count |-> 0, open |-> 0, locations |-> NoBuffer]

\* A recording that is not active; its scratch state carries nothing over.
Closed == [active |-> FALSE, slot |-> 0, entry |-> 0]

NodeIndex(s) == s % RingSize
NodeAt(s) == ring[NodeIndex(s)]
CurrentNode == NodeAt(head)

\* (_head - _tail) / _ring.size() >= threshold, in slots.
Occupancy == head - tail

Init ==
  /\ head = 0
  /\ tail = 0
  /\ ring = [n \in Nodes |-> EmptyNode]
  /\ recs = [i \in Initiators |-> Closed]
  /\ watermarks = << >>
  /\ pc = "idle"
  /\ resume = NoOne
  /\ occ = 0
  /\ next = 0

-----------------------------------------------------------------------------
(* Cursors.  A cursor names an absolute slot and an entry of it.           *)

Cursor(s, e) == [slot |-> s, entry |-> e]
Before(c, d) == c.slot < d.slot \/ (c.slot = d.slot /\ c.entry < d.entry)

\* cursor(): the count is the current node's, whichever slot occupies it.
ReservedCursor == Cursor(head, CurrentNode.count)

\* Mutant: committed_cursor() does not look at the open recordings.
OpenCursors_Ignored == {}

OpenCursors == {Cursor(recs[i].slot, recs[i].entry) : i \in {j \in Initiators : recs[j].active}}

\* committed_cursor(): c precedes every open reservation and cursor().
BeforeCommitted(c) ==
  /\ Before(c, ReservedCursor)
  /\ \A d \in OpenCursors : Before(c, d)

Resident(s) == NodeAt(s).slot = s
CountAt(s) == IF Resident(s) THEN NodeAt(s).count ELSE 0

\* Iterator::operator*: null once the slot is no longer resident.
Deref(c) == IF Resident(c.slot) THEN NodeAt(c.slot).locations[c.entry] ELSE NullLocation

\* Mutant: operator++ leaves a slot one entry late.
Successor_Late(c) ==
  IF c.entry + 1 > CountAt(c.slot) /\ c.slot < head
  THEN Cursor(c.slot + 1, 0)
  ELSE Cursor(c.slot, c.entry + 1)

\* Iterator::operator++
Successor(c) ==
  IF c.entry + 1 >= CountAt(c.slot) /\ c.slot < head
  THEN Cursor(c.slot + 1, 0)
  ELSE Cursor(c.slot, c.entry + 1)

\* Iterator::operator--
Predecessor(c) ==
  IF c.entry > 0 THEN Cursor(c.slot, c.entry - 1)
  ELSE IF c.slot = 0 \/ CountAt(c.slot - 1) = 0 THEN c
  ELSE Cursor(c.slot - 1, CountAt(c.slot - 1) - 1)

-----------------------------------------------------------------------------
(* Recording.                                                              *)

\* Mutant: the slot is taken to be full one entry late.
HeadFull_Late == CurrentNode.slot = head /\ CurrentNode.count > MaxEntries

HeadFull == CurrentNode.slot = head /\ CurrentNode.count >= MaxEntries

\* advance_slot(), up to its loop over the watermarks.
AdvanceSlot(who) ==
  /\ head < MaxSlot
  /\ head' = head + 1
  /\ occ' = head + 1 - tail
  /\ next' = 1
  /\ resume' = who
  /\ pc' = "watermarks"

\* Mutant: begin() never refuses.
Lapped_Never == FALSE

\* begin() refuses to write over a slot nobody acknowledged.
Lapped == CurrentNode.slot # NO_SLOT /\ CurrentNode.slot # head

\* Mutant: begin() leaves the recycled bytes in the entry it hands out.
Reserve_NoTombstone(i) ==
  LET node == CurrentNode
      buffer == IF node.locations = NoBuffer THEN [e \in Entries |-> Stale] ELSE node.locations
  IN /\ ring' = [ring EXCEPT ![NodeIndex(head)] =
                   [slot |-> head, count |-> node.count + 1, open |-> node.open + 1,
                    locations |-> buffer]]
     /\ recs' = [recs EXCEPT ![i] = [active |-> TRUE, slot |-> head, entry |-> node.count]]

\* begin() once the current node can take an entry: a location buffer is
\* allocated if the node has none, and the entry starts as a tombstone.
Reserve(i) ==
  LET node == CurrentNode
      buffer == IF node.locations = NoBuffer THEN [e \in Entries |-> Stale] ELSE node.locations
  IN /\ ring' = [ring EXCEPT ![NodeIndex(head)] =
                   [slot |-> head, count |-> node.count + 1, open |-> node.open + 1,
                    locations |-> [buffer EXCEPT ![node.count] = Tombstone]]]
     /\ recs' = [recs EXCEPT ![i] = [active |-> TRUE, slot |-> head, entry |-> node.count]]

\* The end of begin(): RingOverflow, a failed allocation, or a reservation.
Claim(i) ==
  \/ Lapped /\ UNCHANGED <<ring, recs>>
  \/ ~Lapped /\ CurrentNode.locations = NoBuffer /\ UNCHANGED <<ring, recs>>
  \/ ~Lapped /\ Reserve(i)

Begin(i) ==
  /\ pc = "idle"
  /\ ~recs[i].active
  /\ \/ HeadFull /\ AdvanceSlot(i) /\ UNCHANGED <<ring, recs>>
     \/ ~HeadFull /\ Claim(i) /\ UNCHANGED <<head, callVars>>
  /\ UNCHANGED <<tail, watermarks>>

\* The reservation is given up; the entry stays.
Release(i) ==
  LET node == NodeAt(recs[i].slot)
  IN /\ recs[i].active
     /\ ring' = [ring EXCEPT ![NodeIndex(recs[i].slot)] =
                   [slot |-> node.slot, count |-> node.count, open |-> node.open - 1,
                    locations |-> node.locations]]
     /\ recs' = [recs EXCEPT ![i] = Closed]

\* Mutant: the program goes to the head slot, not to the slot of its begin().
Commit_IntoHead(i, program) ==
  LET rec == recs[i]
      node == NodeAt(rec.slot)
  IN /\ pc = "idle"
     /\ rec.active
     /\ ring' = [ring EXCEPT ![NodeIndex(rec.slot)].open = @ - 1,
                             ![NodeIndex(head)].locations[rec.entry] = program]
     /\ recs' = [recs EXCEPT ![i] = Closed]
     /\ IF rec.slot = head /\ node.count >= MaxEntries /\ node.open = 1
        THEN AdvanceSlot(NoOne)
        ELSE UNCHANGED <<head, callVars>>
     /\ UNCHANGED <<tail, watermarks>>

\* The program overwrites the tombstone of the entry reserved by begin(), in
\* the slot reserved by begin().
Commit(i, program) ==
  LET rec == recs[i]
      node == NodeAt(rec.slot)
  IN /\ pc = "idle"
     /\ rec.active
     /\ ring' = [ring EXCEPT ![NodeIndex(rec.slot)] =
                   [slot |-> node.slot, count |-> node.count, open |-> node.open - 1,
                    locations |-> [node.locations EXCEPT ![rec.entry] = program]]]
     /\ recs' = [recs EXCEPT ![i] = Closed]
     /\ IF rec.slot = head /\ node.count >= MaxEntries /\ node.open = 1
        THEN AdvanceSlot(NoOne)
        ELSE UNCHANGED <<head, callVars>>
     /\ UNCHANGED <<tail, watermarks>>

\* resolve_body() or flush_to_ring() ran out of buffers: the reservation was
\* released first, and commit() is left before its advance.
CommitThrows(i) ==
  /\ pc = "idle"
  /\ Release(i)
  /\ UNCHANGED <<head, tail, watermarks, callVars>>

Abort(i) ==
  /\ pc = "idle"
  /\ Release(i)
  /\ UNCHANGED <<head, tail, watermarks, callVars>>

-----------------------------------------------------------------------------
(* The rest of advance_slot(): its loop and the callbacks it runs.         *)

\* late records that the occupancy had fallen below the threshold before the
\* call: occ was read before an earlier callback of this advance acknowledged.
Fired(w) == [w EXCEPT !.fired = TRUE, !.late = Occupancy < w.threshold]
Fires(w) == ~w.fired /\ occ >= w.threshold

\* One turn of the loop; the callback starts with fired already set.
NextWatermark ==
  /\ pc = "watermarks"
  /\ next <= Len(watermarks)
  /\ next' = next + 1
  /\ IF Fires(watermarks[next])
     THEN pc' = "callback" /\ watermarks' = [watermarks EXCEPT ![next] = Fired(watermarks[next])]
     ELSE UNCHANGED <<pc, watermarks>>
  /\ UNCHANGED <<head, tail, ring, recs, resume, occ>>

CallbackReturns ==
  /\ pc = "callback"
  /\ pc' = "watermarks"
  /\ UNCHANGED <<head, tail, ring, recs, watermarks, resume, occ, next>>

\* Back in begin(), which re-reads the current node, or at the end of commit().
AdvanceReturns ==
  /\ pc = "watermarks"
  /\ next > Len(watermarks)
  /\ pc' = "idle"
  /\ resume' = NoOne
  /\ occ' = 0
  /\ next' = 0
  /\ IF resume = NoOne THEN UNCHANGED <<ring, recs>> ELSE Claim(resume)
  /\ UNCHANGED <<head, tail, watermarks>>

-----------------------------------------------------------------------------
(* The consumer's calls: from outside, or from a watermark callback.       *)

ClientRuns == pc \in {"idle", "callback"}

OnWatermark(threshold) ==
  /\ pc = "idle"
  /\ Len(watermarks) < MaxWatermarks
  /\ watermarks' = Append(watermarks, [threshold |-> threshold, fired |-> FALSE, late |-> FALSE])
  /\ UNCHANGED <<head, tail, ring, recs, callVars>>

\* Mutant: acknowledge() does not look for open recordings.
ReclaimsTo_Open(t, upTo) ==
  LET limit == IF upTo < head THEN upTo ELSE head
  IN (\A s \in tail .. t - 1 : s < limit) /\ t >= limit

\* acknowledge() stops before slot t: at its limit, or at an open recording.
ReclaimsTo(t, upTo) ==
  LET limit == IF upTo < head THEN upTo ELSE head
  IN /\ \A s \in tail .. t - 1 : s < limit /\ NodeAt(s).open = 0
     /\ t >= limit \/ NodeAt(t).open > 0

\* Mutant: acknowledge() leaves the watermarks as they are.
Rearm_Never(w) == w

Rearm(w) ==
  IF Occupancy' < w.threshold THEN [w EXCEPT !.fired = FALSE, !.late = FALSE] ELSE w

Acknowledge(upTo) ==
  /\ ClientRuns
  /\ \E t \in tail .. head :
       /\ ReclaimsTo(t, upTo)
       /\ tail' = t
       /\ ring' = [n \in Nodes |-> IF \E s \in tail .. t - 1 : NodeIndex(s) = n
                                   THEN EmptyNode ELSE ring[n]]
  /\ head' = head
  /\ watermarks' = [w \in DOMAIN watermarks |-> Rearm(watermarks[w])]
  /\ UNCHANGED <<recs, callVars>>

\* clear() aborts every recording and resets every node; registrations stay.
Clear ==
  /\ ClientRuns
  /\ head' = 0
  /\ tail' = 0
  /\ ring' = [n \in Nodes |-> EmptyNode]
  /\ recs' = [i \in Initiators |-> Closed]
  /\ watermarks' = [w \in DOMAIN watermarks |-> [watermarks[w] EXCEPT !.fired = FALSE, !.late = FALSE]]
  /\ UNCHANGED callVars

Next ==
  \/ \E i \in Initiators : Begin(i)
  \/ \E i \in Initiators, p \in Programs : Commit(i, p)
  \/ \E i \in Initiators : CommitThrows(i)
  \/ \E i \in Initiators : Abort(i)
  \/ NextWatermark
  \/ CallbackReturns
  \/ AdvanceReturns
  \/ \E t \in Thresholds : OnWatermark(t)
  \/ \E upTo \in 0 .. MaxSlot : Acknowledge(upTo)
  \/ Clear

Spec == Init /\ [][Next]_vars

-----------------------------------------------------------------------------
(* Properties.                                                             *)

RingTypeOK ==
  /\ head \in 0 .. MaxSlot
  /\ tail \in 0 .. MaxSlot
  /\ ring \in [Nodes -> [slot : {NO_SLOT} \cup (0 .. MaxSlot), count : 0 .. MaxEntries,
                         open : Nat, locations : [Entries -> Contents]]]
  /\ recs \in [Initiators -> [active : BOOLEAN, slot : 0 .. MaxSlot, entry : Entries]]

Watermark == [threshold : Nat, fired : BOOLEAN, late : BOOLEAN]

CallTypeOK ==
  /\ watermarks \in Seq(Watermark)
  /\ pc \in {"idle", "watermarks", "callback"}
  /\ resume \in Initiators \cup {NoOne}
  /\ occ \in Int
  /\ next \in Nat

\* Types of the ring (an entry count never exceeds MAX_LOCATION_ENTRIES, open
\* never goes below zero) and of the advance in progress.
TypeOK == RingTypeOK /\ CallTypeOK

\* The ring never holds more than its slots, nor acknowledges what it has not filled.
Window == tail <= head /\ head <= tail + RingSize

\* Every slot from tail up to head is still in the ring and complete: nothing
\* that was not acknowledged is ever overwritten (RingOverflow: "No data is lost").
NothingLost == \A s \in tail .. head - 1 : Resident(s) /\ NodeAt(s).count = MaxEntries

\* A node is stamped with a slot of the window that maps to it, or it is empty.
Stamped ==
  \A n \in Nodes :
    \/ ring[n] = EmptyNode
    \/ ring[n].slot \in tail .. head /\ NodeIndex(ring[n].slot) = n /\ ring[n].count > 0

OpenIn(s) == {i \in Initiators : recs[i].active /\ recs[i].slot = s}

\* Node::open is the number of recordings that hold an entry of the slot.
OpenCounts == \A n \in Nodes : ring[n].open = Cardinality(OpenIn(ring[n].slot))

\* An open recording holds an entry of a slot that is still in the ring, the
\* entry is a tombstone, and no other recording holds it.
Reservations ==
  \A i \in Initiators : recs[i].active =>
    /\ Resident(recs[i].slot)
    /\ recs[i].entry < NodeAt(recs[i].slot).count
    /\ NodeAt(recs[i].slot).locations[recs[i].entry] = Tombstone
    /\ \A j \in Initiators \ {i} : recs[j].active =>
         Cursor(recs[i].slot, recs[i].entry) # Cursor(recs[j].slot, recs[j].entry)

\* Every entry that was handed out dereferences to a program or to the
\* tombstone, so replay of a resident slot never stops on a half-written entry.
EntriesReplayable ==
  \A n \in Nodes : \A e \in 0 .. ring[n].count - 1 :
    ring[n].locations[e] \in Programs \cup {Tombstone}

\* While advance_slot() runs, the slot it moved to is still unused, and the
\* begin() that goes on afterwards has no recording yet.
CallState ==
  /\ pc # "idle" => ~Resident(head) /\ next >= 1
  /\ pc = "idle" => resume = NoOne
  /\ resume # NoOne => ~recs[resume].active

\* The inductive invariant: window, stamps, open counts and reservations agree.
IInv ==
  /\ TypeOK
  /\ Window
  /\ NothingLost
  /\ Stamped
  /\ OpenCounts
  /\ Reservations
  /\ EntriesReplayable
  /\ CallState

ReservedEntries == UNION {{Cursor(s, e) : e \in 0 .. CountAt(s) - 1} : s \in tail .. head}

\* Iterating visits the entries of the window one by one, in both directions:
\* ++ of a reserved entry is the next reserved entry or the start of the head
\* slot's free part, and -- undoes it.
IteratorWalks ==
  \A c \in ReservedEntries :
    /\ \/ Successor(c) \in ReservedEntries
       \/ Successor(c).slot = head /\ Successor(c).entry = CountAt(head)
    /\ ~\E d \in ReservedEntries : Before(c, d) /\ Before(d, Successor(c))
    /\ Predecessor(Successor(c)) = c

\* While the occupancy is below a watermark it is armed, so that the next
\* upward crossing calls it, except for one that was called late: after an
\* earlier callback of the same advance had brought the occupancy back below
\* it.  That one stays fired, and misses crossings, until the next acknowledge();
\* the watermark registered first never does.
ArmedBelow ==
  \A w \in DOMAIN watermarks :
    Occupancy < watermarks[w].threshold =>
      ~watermarks[w].fired \/ (watermarks[w].late /\ w # 1)

\* What tvm_tracebuffer.hpp says of watermarks: "Callbacks fire once per upward
\* crossing; reset when occupancy drops below".  Violated with two watermarks.
ResetBelow ==
  pc = "idle" =>
    \A w \in DOMAIN watermarks : Occupancy < watermarks[w].threshold => ~watermarks[w].fired

\* What is read before committed_cursor() never changes while its slot is kept
\* ("Everything before this will never change"), for entries that were handed out.
FinalEntriesNeverChange ==
  [][\A c \in ReservedEntries :
       BeforeCommitted(c) => Deref(c)' = Deref(c) \/ ~Resident(c.slot)']_vars

-----------------------------------------------------------------------------
(* The log the ring implements: slots before head are full, so entry e of  *)
(* slot s is the entry number s * MaxEntries + e since the last clear().   *)

LogFirst == tail * MaxEntries
LogEnd == head * MaxEntries + CountAt(head)
LogEntries ==
  [p \in LogFirst .. LogEnd - 1 |-> Deref(Cursor(p \div MaxEntries, p % MaxEntries))]
LogHeld ==
  [i \in Initiators |-> IF recs[i].active THEN recs[i].slot * MaxEntries + recs[i].entry ELSE -1]

Log == INSTANCE TraceLog WITH first <- LogFirst, end <- LogEnd, log <- LogEntries, held <- LogHeld

\* The ring implements the log: begin(), commit(), abort(), acknowledge() and
\* clear() change it as TraceLog allows, and advancing a slot, watermarks,
\* callbacks, RingOverflow and failed allocations leave it alone.
ImplementsLog == Log!LogSpec
=============================================================================
