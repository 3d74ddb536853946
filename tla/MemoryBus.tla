----------------------------- MODULE MemoryBus -----------------------------
(***************************************************************************)
(* The address map of a bus and the accesses that cross it.                *)
(*                                                                         *)
(* A bus gives each target a range of its own addresses, later targets in  *)
(* front of earlier ones, and passes a read or a write on to the targets   *)
(* behind it, piece by piece.  The code exists twice: SimpleBus and        *)
(* AddressBiMap of lib/sim3, which the Pep machines run on, and SimpleBus  *)
(* and AddressTranslationMap of core/sim.  They share their algorithms and *)
(* differ in how targets are attached and in one size (version).           *)
(*                                                                         *)
(* The ghosts say what a bus promises: `cell' is where each address leads, *)
(* the target in front, and `ideal' what the cells hold if every byte goes *)
(* to the cell of its address.  `torn' are the addresses that the map gets *)
(* wrong, because it was not shrunk as its comment says where a target was *)
(* attached inside or partly over another.                                 *)
(***************************************************************************)
EXTENDS Integers, Sequences, FiniteSets, Functions

CONSTANTS
    Size,           \* bytes of each target, targets being 1, 2, ...
    Targets,        \* the targets that can be attached, by version
    MaxAddress,     \* last address of the bus, whose addresses are 0..MaxAddress
    Values,         \* what a byte holds
    MaxLength,      \* bound: bytes of one access, by version
    MaxMappings     \* bound: targets attached since the bus was emptied

Versions == {"sim3", "core"}

Devices == DOMAIN Size

ASSUME BusAssumption ==
    /\ Size \in [Devices -> Nat \ {0}]
    /\ Targets \in [Versions -> SUBSET Devices]
    /\ MaxAddress \in Nat /\ MaxLength \in [Versions -> Nat] /\ MaxMappings \in Nat

VARIABLES
    version,        \* which of the two buses it is
    elements,       \* _elements: the ranges, sorted
    devices,        \* _devices: the attached targets
    mem,            \* contents of each target
    cell,           \* ghost: where each address leads
    torn,           \* ghost: addresses of which that is not promised
    ideal,          \* ghost: contents of each target if the bus is right
    last,           \* ghost: result of the last access, and the right one
    mappings        \* number of ranges attached, for the bound

vars == <<version, elements, devices, mem, cell, torn, ideal, last, mappings>>

Address == 0 .. MaxAddress

Interval == [lo : Address, hi : Address]

\* An address that leads nowhere, and the result of reading past the vector.
Unmapped == <<"unmapped">>

Undefined == <<"undefined">>

Cells == UNION {{<<d, i>> : i \in 0 .. Size[d] - 1} : d \in Devices}

Least(S) == CHOOSE k \in S : \A j \in S : k <= j

Greatest(S) == CHOOSE k \in S : \A j \in S : j <= k

-----------------------------------------------------------------------------
(* Intervals. *)

Contains(outer, inner) == outer.lo <= inner.lo /\ inner.hi <= outer.hi

Holds(i, a) == i.lo <= a /\ a <= i.hi

Intersects(i, j) == i.lo <= j.hi /\ j.lo <= i.hi

Before(i, j) == i.lo < j.lo \/ (i.lo = j.lo /\ i.hi < j.hi)

\* Translate an address of one interval to the same offset of another.
\* Variant: the start of the first is forgotten.
OffsetMap_FromZero(a, src, dst) == dst.lo + a

OffsetMap(a, src, dst) == dst.lo + (a - src.lo)

-----------------------------------------------------------------------------
(* The address map. *)

\* Node::operator<=>, by version.
Precedes(m, n) ==
    Before(m.from, n.from) \/ (version = "sim3" /\ m.from = n.from /\ Before(m.to, n.to))

\* std::sort: the sorted vectors of a family of nodes; the order of equal ones is open.
Vectors(family) ==
    LET places == 1 .. Cardinality(DOMAIN family)
    IN  {s \in {[i \in places |-> family[p[i]]] : p \in Bijection(places, DOMAIN family)} :
             \A i, j \in places : i < j => ~Precedes(s[j], s[i])}

\* The ranges that a new one does not cover; the others are erased.
Kept(at) == {k \in DOMAIN elements : ~Contains(at, elements[k].from)}

\* Those before and after the new one, as the two binary searches divide them.
Below(at) == {k \in Kept(at) : Before(elements[k].from, at)}

Above(at) == {k \in Kept(at) : Before(at, elements[k].from)}

\* What the range above keeps of its target's addresses, by version.
\* Variant: one more in both.
KeptAbove_OneMore(at, n) == n.from.hi - at.hi + 1

KeptAbove(at, n) == IF version = "sim3" THEN n.from.hi - at.hi ELSE n.from.hi - at.hi + 1

\* The range next to the new one on either side is shrunk if they intersect; the one below
\* only if there is one above.
Shrunk(k, at) ==
    LET n == elements[k]
    IN  IF ~Intersects(at, n.from) THEN n
        ELSE IF k \in Below(at) /\ k = Greatest(Below(at)) /\ Above(at) # {}
        THEN [n EXCEPT !.from.hi = at.lo, !.to.hi = n.to.lo + (at.lo - n.from.lo)]
        ELSE IF k \in Above(at) /\ k = Least(Above(at))
        THEN [n EXCEPT !.from.lo = at.hi, !.to.lo = n.to.hi - KeptAbove(at, n)]
        ELSE n

\* AddressBiMap::insert_or_overwrite, AddressTranslationMap::insert_or_overwrite: the
\* vectors that may result.
New == 0

InsertOrOverwrite(node) ==
    Vectors([k \in Kept(node.from) \union {New} |-> IF k = New THEN node ELSE Shrunk(k, node.from)])

(***************************************************************************)
(* The range an address is in, or None: the first of those that start at   *)
(* the address, else the last that starts below it.  If all start above,   *)
(* the code looks at the element before the first: what it finds there is  *)
(* not defined (BeforeFirst).                                              *)
(***************************************************************************)
None == 0

BeforeFirst == -1

RegionAt(a) ==
    LET here == {k \in DOMAIN elements : elements[k].from.lo = a}
        lower == {k \in DOMAIN elements : elements[k].from.lo < a}
    IN  IF elements = <<>> THEN None
        ELSE IF here # {} THEN Least(here)
        ELSE IF lower = {} THEN BeforeFirst
        ELSE IF Holds(elements[Greatest(lower)].from, a) THEN Greatest(lower)
        ELSE None

\* Translator::forward and backward.
Forward(a) ==
    LET k == RegionAt(a)
    IN  IF k = BeforeFirst THEN Undefined
        ELSE IF k = None THEN Unmapped
        ELSE <<elements[k].device, OffsetMap(a, elements[k].from, elements[k].to)>>

Backward(d, v) ==
    LET hits == {k \in DOMAIN elements : elements[k].device = d /\ Holds(elements[k].to, v)}
        first == elements[Least(hits)]
    IN  IF hits = {} THEN Unmapped ELSE OffsetMap(v, first.to, first.from)

-----------------------------------------------------------------------------
(* Accesses. *)

\* The check of an access against the bus.
InBounds(a, n) == a + n - 1 <= MaxAddress

(***************************************************************************)
(* The loop of an access: which byte ends in which cell, and the result.   *)
(* A piece is as long as the target, whatever is left of its range; the    *)
(* target refuses one that leaves it, and the pieces before stay done.     *)
(***************************************************************************)
\* The piece of an access at an address in region k, with so many bytes left.
Offset(a, k) == OffsetMap(a, elements[k].from, elements[k].to)

PieceLength(d, left) == IF left < Size[d] THEN left ELSE Size[d]

PieceCells(a, k, left) ==
    LET d == elements[k].device
    IN  {<<d, i>> : i \in Offset(a, k) .. Offset(a, k) + PieceLength(d, left) - 1}

\* What ends the loop there, if anything does.
Stops(a, k, left) ==
    IF left = 0 THEN "Ok"
    ELSE IF k = BeforeFirst THEN "Undefined"
    ELSE IF k = None THEN "Unmapped"
    ELSE IF ~(PieceCells(a, k, left) \subseteq Cells) THEN "OOBAccess"
    ELSE "no"

Stopped(why) == [result |-> why, placed |-> <<>>]

\* Two pieces, the first one done last.
Overlay(f, g) == [c \in DOMAIN f \union DOMAIN g |-> IF c \in DOMAIN f THEN f[c] ELSE g[c]]

Pieces(a, n) ==
    LET walk[o \in 0 .. n] ==
            LET k == RegionAt(a + o)
                stops == Stops(a + o, k, n - o)
                rest == walk[o + PieceLength(elements[k].device, n - o)]
            IN  IF stops # "no" THEN Stopped(stops)
                ELSE [result |-> rest.result,
                      placed |-> Overlay(rest.placed,
                          [c \in PieceCells(a + o, k, n - o) |-> o + (c[2] - Offset(a + o, k)) + 1])]
    IN  IF InBounds(a, n) THEN walk[0] ELSE Stopped("OOBAccess")

(***************************************************************************)
(* The same for a bus on which every byte goes to the cell of its address. *)
(* A target still refuses an access that would leave it, and the bus ends  *)
(* the access there as at a hole.                                          *)
(***************************************************************************)
\* Addresses that continue the target of the address before, in an access.
Continues(a, o) ==
    o # 0 /\ cell[a + o - 1] # Unmapped
          /\ cell[a + o] = <<cell[a + o - 1][1], cell[a + o - 1][2] + 1>>

Refused(a, n, o) ==
    LET c == cell[a + o]
    IN  c # Unmapped /\ ~Continues(a, o) /\ c[2] + PieceLength(c[1], n - o) > Size[c[1]]

IdealPieces(a, n) ==
    LET ends == {o \in 0 .. n - 1 : cell[a + o] = Unmapped \/ Refused(a, n, o)}
        done == IF ends = {} THEN n ELSE Least(ends)
    IN  IF InBounds(a, n)
        THEN [result |-> IF ends = {} THEN "Ok"
                         ELSE IF cell[a + done] = Unmapped THEN "Unmapped" ELSE "OOBAccess",
              placed |-> [c \in {cell[a + o] : o \in 0 .. done - 1} |->
                              Greatest({o \in 1 .. done : cell[a + o - 1] = c})]]
        ELSE Stopped("OOBAccess")

\* Addresses of which the map promises where they lead.
Settled(a) == a \notin torn /\ (elements = <<>> \/ elements[1].from.lo <= a)

\* What an access must meet for the bus to be flat to it: settled addresses, and each target
\* byte after byte up to its end, with nothing in front.
Promised(a, n) ==
    InBounds(a, n) => \A o \in 0 .. n - 1 :
        /\ Settled(a + o)
        /\ cell[a + o] # Unmapped =>
               \A j \in 0 .. n - 1 - o : cell[a + o][2] + j < Size[cell[a + o][1]] =>
                   cell[a + o + j] = <<cell[a + o][1], cell[a + o][2] + j>>

Stored(m, pieces, bytes) ==
    [c \in DOMAIN m |-> IF c \in DOMAIN pieces.placed THEN bytes[pieces.placed[c]] ELSE m[c]]

\* Variant: an access that fails leaves the targets before the failure alone.
Write_AllOrNothing(a, n) ==
    LET pieces == Pieces(a, n)
        right == IF Promised(a, n) THEN IdealPieces(a, n) ELSE pieces
    IN  /\ \E bytes \in [1 .. n -> Values] :
               /\ mem' = IF pieces.result = "Ok" THEN Stored(mem, pieces, bytes) ELSE mem
               /\ ideal' = Stored(ideal, right, bytes)
        /\ last' = <<pieces.result, right.result>>
        /\ UNCHANGED <<elements, devices, cell, torn, mappings>>

\* SimpleBus::write.  Of an access that nothing is promised of, the ideal memory takes what
\* it does.
Write(a, n) ==
    LET pieces == Pieces(a, n)
        right == IF Promised(a, n) THEN IdealPieces(a, n) ELSE pieces
    IN  /\ \E bytes \in [1 .. n -> Values] :
               /\ mem' = Stored(mem, pieces, bytes)
               /\ ideal' = Stored(ideal, right, bytes)
        /\ last' = <<pieces.result, right.result>>
        /\ UNCHANGED <<elements, devices, cell, torn, mappings>>

\* SimpleBus::clear
Clear(fill) ==
    /\ mem' = [c \in Cells |-> IF c[1] \in devices THEN fill ELSE mem[c]]
    /\ ideal' = [c \in Cells |-> IF c[1] \in devices THEN fill ELSE ideal[c]]
    /\ UNCHANGED <<elements, devices, cell, torn, last, mappings>>

\* SimpleBus::dump: the targets' first bytes, copied to where their range starts.
DumpAt(a) ==
    LET hits == {k \in DOMAIN elements : Holds(elements[k].from, a)}
        latest == elements[Greatest(hits)]
    IN  mem[<<latest.device, a - latest.from.lo>>]

-----------------------------------------------------------------------------
(* Attaching targets. *)

\* The ranges that a new one cuts, and those of them that lie beyond it.
Cut(at) ==
    {k \in DOMAIN elements : Intersects(at, elements[k].from) /\ ~Contains(at, elements[k].from)}

Beyond(at) == {k \in Cut(at) : Before(at, elements[k].from)}

(***************************************************************************)
(* The addresses that are wrong for a new range.  Above it, what is left   *)
(* of the ranges it cuts: one that it is inside of is not split, and is    *)
(* not found above it; one that lies beyond it is led on in sim3, to the   *)
(* byte before in core, and no second one is.  In it, its last address, if *)
(* a range was led on, which starts there and is found first, unless the   *)
(* new one starts there as well; all of it, if several lie beyond.         *)
(***************************************************************************)
OneBeyond(at) == \E k \in DOMAIN elements : Beyond(at) = {k}

LedOn(at) == IF version = "sim3" /\ OneBeyond(at) THEN Beyond(at) ELSE {}

TornAbove(at) ==
    {a \in Address : a > at.hi /\ \E k \in Cut(at) \ LedOn(at) : Holds(elements[k].from, a)}

TornIn(at) ==
    {a \in Address : /\ Holds(at, a) /\ Beyond(at) # {}
                     /\ OneBeyond(at) => a = at.hi /\ a # at.lo}

Attach(at, d, offset) ==
    /\ mappings < MaxMappings
    /\ elements' \in InsertOrOverwrite(
           [device |-> d, from |-> at, to |-> [lo |-> offset, hi |-> offset + (at.hi - at.lo)]])
    /\ devices' = devices \union {d}
    /\ cell' = [a \in Address |-> IF Holds(at, a) THEN <<d, offset + (a - at.lo)>> ELSE cell[a]]
    /\ torn' = {a \in torn : ~Holds(at, a)} \union TornAbove(at) \union TornIn(at)
    /\ mappings' = mappings + 1
    /\ UNCHANGED <<mem, ideal, last>>

\* sim3: a target is attached whole, and once.
PushFrontTarget(at, d) ==
    /\ version = "sim3"
    /\ d \notin devices
    /\ at.hi - at.lo + 1 = Size[d]
    /\ Attach(at, d, 0)

\* core: any part of a target, and as often as the configuration says.
InitializeMapping(at, d, offset) ==
    /\ version = "core"
    /\ offset + (at.hi - at.lo) < Size[d]
    /\ Attach(at, d, offset)

\* Only sim3 empties a bus, when its system is reconfigured.
RemoveAllTargets ==
    /\ version = "sim3"
    /\ elements' = <<>>
    /\ devices' = {}
    /\ cell' = [a \in Address |-> Unmapped]
    /\ torn' = {}
    /\ mappings' = 0
    /\ UNCHANGED <<mem, ideal, last>>

-----------------------------------------------------------------------------

Init ==
    /\ version \in Versions
    /\ elements = <<>>
    /\ devices = {}
    /\ \E fill \in Values : mem = [c \in Cells |-> fill]
    /\ ideal = mem
    /\ cell = [a \in Address |-> Unmapped]
    /\ torn = {}
    /\ last = <<"Ok", "Ok">>
    /\ mappings = 0

Operation ==
    \/ \E at \in Interval, d \in Targets[version] :
           /\ at.lo <= at.hi
           /\ \/ PushFrontTarget(at, d)
              \/ \E offset \in 0 .. Size[d] - 1 : InitializeMapping(at, d, offset)
    \/ RemoveAllTargets
    \/ \E a \in Address, n \in 1 .. MaxLength[version] : Write(a, n)
    \/ \E v \in Values : Clear(v)

Next == Operation /\ UNCHANGED version

Spec == Init /\ [][Next]_vars

-----------------------------------------------------------------------------
(* Properties. *)

TypeOK ==
    /\ \A k \in DOMAIN elements :
           /\ elements[k].from \in Interval /\ elements[k].from.lo <= elements[k].from.hi
           /\ elements[k].device \in devices
    /\ \A j, k \in DOMAIN elements : j < k => ~Before(elements[k].from, elements[j].from)
    /\ devices \subseteq Devices
    /\ mem \in [Cells -> Values]
    /\ cell \in [Address -> Cells \union {Unmapped}]
    /\ torn \subseteq Address
    /\ mappings \in 0 .. MaxMappings

(***************************************************************************)
(* Every address leads to the target attached last over it, at the offset  *)
(* it was attached with, and to none if none was, but for those torn since *)
(* they were attached over and, on a bus that is not empty, those before   *)
(* its first target.  region_at() finds, in a list that insert_or_-        *)
(* overwrite() has erased from, shrunk and sorted, the one range that a    *)
(* map of single addresses would name.  In sim3 the address a traced       *)
(* target reports is led back to the bus address of the access (the memory *)
(* pane finds what to highlight in this way); a mapping of core may show a *)
(* byte of its target at several addresses.                                *)
(***************************************************************************)
AddressesTranslate ==
    /\ TypeOK
    /\ \A a \in Address : Settled(a) =>
           /\ Forward(a) = cell[a]
           /\ version = "sim3" /\ cell[a] # Unmapped => Backward(cell[a][1], cell[a][2]) = a

\* Where a range of sim3 was cut at its beginning: dump() copies its target from the first
\* byte all the same, also over that of the range in front, which ends there.
Beheaded(a) ==
    \E k \in DOMAIN elements :
        /\ Holds(elements[k].from, a)
        /\ elements[k].to.lo # 0 \/ \E j \in DOMAIN elements \ {k} :
               elements[j].from.lo = a /\ elements[k].from.lo = a

(***************************************************************************)
(* Writes through the bus are those of one flat memory, as far as it is    *)
(* promised: each byte is in the cell of its address and nowhere else,     *)
(* also when an access crosses from target to target.  One that meets a    *)
(* hole, or that starts inside a target and leaves it, reports it after    *)
(* storing exactly the bytes before.  The dump() of sim3 shows the memory  *)
(* too, but where a range was cut at its beginning: the bytes of the       *)
(* targets behind are copied first and overwritten.                        *)
(***************************************************************************)
BusIsFlat ==
    /\ mem = ideal /\ last[1] = last[2]
    /\ version = "sim3" => \A a \in Address :
           Settled(a) /\ cell[a] # Unmapped /\ ~Beheaded(a) => DumpAt(a) = ideal[cell[a]]
=============================================================================
