----------------------------- MODULE DataPaths -----------------------------
(***************************************************************************)
(* The data paths of lib/sim3.  An access to a device crosses buses, and a *)
(* device may start accesses of its own (the disk controller writes to the *)
(* bus that called it).  Paths numbers the routes through the buses once,  *)
(* when the system is built; while an access is under way, each bus puts   *)
(* the number of the route so far on a stack in the trace buffer, so that  *)
(* every packet can name the route it came by.                             *)
(*                                                                         *)
(* `calls' is a ghost: the accesses under way, as the C++ stack has them.  *)
(***************************************************************************)
EXTENDS Integers, Sequences, FiniteSets

CONSTANTS
    Buses,          \* device numbers of the buses
    MaxSteps,       \* bound: routes that get a number
    MaxDepth        \* bound: accesses nested in one another

ASSUME PathsAssumption ==
    /\ Buses \subseteq Nat \ {0}
    /\ MaxSteps \in Nat /\ MaxDepth \in Nat

VARIABLES
    steps,          \* _steps, from index 0: the device and the step before it
    deviceToPaths,  \* _device_to_paths: parent and number of each route, sorted
    stack,          \* Buffer::_paths
    calls           \* ghost: accesses under way, with the stack they began with

pathsVars == <<steps, deviceToPaths, stack, calls>>

EMPTY == 0

Last(s) == s[Len(s)]

\* The step before the first.
Root == [p \in {EMPTY} |-> [previous |-> EMPTY, device |-> 0]]

-----------------------------------------------------------------------------
(* Paths *)

\* Where the first route is whose parent is not below the given one (lower_bound).
Position(routes, parent) ==
    Cardinality({i \in DOMAIN routes : routes[i].parent < parent}) + 1

\* The number of that route.  Variant: of the last one that is not above.
Find_FromBelow(parent, device) ==
    LET routes == deviceToPaths[device]
        k == Cardinality({i \in DOMAIN routes : routes[i].parent <= parent})
    IN  IF k = 0 THEN EMPTY ELSE routes[k].step

Find(parent, device) ==
    LET routes == deviceToPaths[device]
        k == Position(routes, parent)
    IN  IF k \in DOMAIN routes THEN routes[k].step ELSE EMPTY

\* emplace_back and sort: no two routes of a device have the same parent.
Inserted(routes, route) ==
    LET k == Position(routes, route.parent)
    IN  [i \in 1 .. Len(routes) + 1 |->
            IF i < k THEN routes[i] ELSE IF i = k THEN route ELSE routes[i - 1]]

\* The route has a number of its own.
Registered(parent, device) ==
    \E i \in DOMAIN deviceToPaths[device] : deviceToPaths[device][i].parent = parent

\* Paths::add.  Systems are built before they run, in any order.  A route whose lookup ends
\* at a neighbour, another route to the device with a later parent, is taken for that one:
\* the two share its number.
Add(parent, device) ==
    /\ calls = <<>>
    /\ IF Find(parent, device) # EMPTY
       THEN UNCHANGED <<steps, deviceToPaths>>
       ELSE LET current == Cardinality(DOMAIN steps)
            IN  /\ current <= MaxSteps
                /\ steps' = [p \in 0 .. current |->
                       IF p = current THEN [previous |-> parent, device |-> device] ELSE steps[p]]
                /\ deviceToPaths' = [deviceToPaths EXCEPT ![device] =
                       Inserted(@, [parent |-> parent, step |-> current])]
    /\ UNCHANGED <<stack, calls>>

\* Paths::clear and Buffer::clear, when the system is taken apart.
ClearPaths ==
    /\ calls = <<>>
    /\ steps' = Root
    /\ deviceToPaths' = [b \in Buses |-> <<>>]
    /\ stack' = <<EMPTY>>
    /\ UNCHANGED calls

-----------------------------------------------------------------------------
(* Accesses *)

\* SimpleBus::makeGuard and the constructor of PathGuard.  A system adds a route to each of
\* its buses; an access by a device may come by another.
Enter(bus) ==
    LET path == Find(Last(stack), bus)
    IN  /\ Len(calls) < MaxDepth
        /\ deviceToPaths[bus] # <<>>
        /\ stack' = IF path = Last(stack) THEN stack ELSE Append(stack, path)
        /\ calls' = Append(calls, [bus |-> bus, path |-> path, began |-> stack,
                                   known |-> Registered(Last(stack), bus)])
        /\ UNCHANGED <<steps, deviceToPaths>>

\* The destructor of PathGuard, when the access returns or throws.
\* Variant: it pops only a path that is not the root.
Leave_KeepsRoot ==
    /\ calls # <<>>
    /\ stack' = IF Last(stack) = Last(calls).path /\ Last(stack) # EMPTY
                THEN SubSeq(stack, 1, Len(stack) - 1) ELSE stack
    /\ calls' = SubSeq(calls, 1, Len(calls) - 1)
    /\ UNCHANGED <<steps, deviceToPaths>>

Leave ==
    /\ calls # <<>>
    /\ stack' = IF Last(stack) = Last(calls).path
                THEN SubSeq(stack, 1, Len(stack) - 1) ELSE stack
    /\ calls' = SubSeq(calls, 1, Len(calls) - 1)
    /\ UNCHANGED <<steps, deviceToPaths>>

-----------------------------------------------------------------------------

PathsInit ==
    /\ steps = Root
    /\ deviceToPaths = [b \in Buses |-> <<>>]
    /\ stack = <<EMPTY>>
    /\ calls = <<>>

PathsNext ==
    \/ \E parent \in DOMAIN steps, bus \in Buses : Add(parent, bus)
    \/ ClearPaths
    \/ \E bus \in Buses : Enter(bus)
    \/ Leave

PathsSpec == PathsInit /\ [][PathsNext]_pathsVars

-----------------------------------------------------------------------------
(* Properties *)

\* The buses of a path, from the root, as a reader of the trace chases them.
Route(path) ==
    LET chase[p \in DOMAIN steps] ==
            IF p = EMPTY THEN <<>> ELSE Append(chase[steps[p].previous], steps[p].device)
    IN  chase[path]

\* The path of the i-th access under way; the root is around all of them.
PathOf(i) == IF i = 0 THEN EMPTY ELSE calls[i].path

(***************************************************************************)
(* A packet names the route it came by: from the current path, following   *)
(* the steps before it, one finds the buses that the accesses under way    *)
(* crossed, in order, back to the last one whose route has no number of    *)
(* its own, or to the root.  From there on it is the route of the path     *)
(* that find() gave that access: none, or that of a neighbour, if the      *)
(* route was not added, or was added after a neighbour and shares its      *)
(* number.                                                                 *)
(***************************************************************************)
RouteRecovered ==
    \A i \in 0 .. Len(calls) :
        (\A j \in i + 1 .. Len(calls) : calls[j].known)
            => Route(Last(stack)) = Route(PathOf(i)) \o [j \in 1 .. Len(calls) - i |-> calls[i + j].bus]

(***************************************************************************)
(* An access leaves the stack of paths as it found it, also one that a     *)
(* device makes by a route nobody registered, and with it the path of the  *)
(* accesses around it: the guards push and pop in pairs.                   *)
(***************************************************************************)
GuardsArePaired ==
    [][Len(calls') < Len(calls) => stack' = Last(calls).began]_pathsVars
=============================================================================
